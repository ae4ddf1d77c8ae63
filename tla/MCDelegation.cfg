SPECIFICATION DelegationFairSpec
CONSTANTS
    Hooks = {"h1", "h2"}
    Filter <- MCFilter
    Settings <- MCSettings
    Default = "default"
    MaxEvents = 3
    MaxPings = 1
    OutCap = 1
INVARIANTS
    StreamedArtifacts
    DispatchComplete
PROPERTIES
    DelegationEnds
CHECK_DEADLOCK FALSE
