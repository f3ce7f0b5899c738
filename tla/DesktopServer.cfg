SPECIFICATION Spec
CONSTANTS
    MaxStart = 3
    Tracked = {gate}
    Detached = {sdk}
INVARIANTS
    ServingIsReady
    LoadIsWhole
    OneRun
PROPERTIES
    FailureEnds
    ImplementsController
