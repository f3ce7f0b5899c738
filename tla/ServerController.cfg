SPECIFICATION Spec
CONSTANT
    MaxStart = 3
INVARIANTS
    OneServer
    ShownStoppedIsStopped
    StopReachesServer
PROPERTIES
    EndShows
    UiReturns
