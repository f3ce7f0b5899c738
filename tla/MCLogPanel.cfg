SPECIFICATION LogSpec
CONSTANTS
    Thread = {ui, worker}
    Events <- MCEvents
    MaxEvents = 3
    MAX_LOG_BYTES = 5
INVARIANTS
    PanelIsTail
    EventsInOrder
CHECK_DEADLOCK FALSE
