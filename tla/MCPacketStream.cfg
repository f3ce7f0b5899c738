SPECIFICATION Spec
CONSTANTS
    Cmd <- Commands
    Payload <- Payloads
    Padding = {1, 255}
    FirstIds = {21, 65534, 65535}
    MaxPackets = 3
INVARIANTS
    TypeOK
    ParsedInOrder
PROPERTIES
    SentIsParsed
