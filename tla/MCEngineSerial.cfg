SPECIFICATION Spec
CONSTANTS
    Runs = {r1, r2}
    Sessions = {s1}
    Nodes <- MCNodes
    Entry = "a"
    Terminals <- MCTerminals
    Edges <- MCEdges
    NoNode = "none"
    Unregistered = "ghost"
    RouterError = "error"
    ForcedNext = {"a", "none", "ghost"}
    MaxSteps = 4
    TaskedSessions = {s1}
    SerialCallers = TRUE
    SaveMayFail = FALSE
    MayCrash = FALSE
    MaxStarts = 2
INVARIANTS
    TypeOK
    CompletedOnlyWhenDone
    SettledWhenIdle
    AnnouncedIsDurable
PROPERTIES
    ImplementsLifecycle
CHECK_DEADLOCK FALSE
