SPECIFICATION Spec
CONSTANTS
    Value = {v1, v2}
    Default = v1
    NVersions = 2
    Unusable = Unusable
    None = None
    Torn = Torn
    Other = Other
INVARIANTS
    RunningIsSaved
    SavedIsShown
