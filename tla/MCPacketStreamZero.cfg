SPECIFICATION Spec
CONSTANTS
    Cmd <- Commands
    Payload <- Payloads
    Padding = {0}
    FirstIds = {21}
    MaxPackets = 3
INVARIANTS
    ParsedInOrder
