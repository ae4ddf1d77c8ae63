SPECIFICATION Spec
CONSTANTS
    Runs = {r1, r2}
    Sessions = {s1}
    Nodes <- MCNodes
    Entry = "a"
    Terminals <- MCTerminals
    Edges <- MCEdges
    NoNode = "none"
    Unregistered = "ghost"
    RouterError = "error"
    ForcedNext = {"a", "none", "ghost"}
    MaxSteps = 2
    TaskedSessions = {s1}
    SerialCallers = TRUE
    SaveMayFail = FALSE
    MayCrash = FALSE
    MaxStarts = 1
INVARIANTS
    PausedTaskAwaitsInput
CHECK_DEADLOCK FALSE
