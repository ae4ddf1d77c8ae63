SPECIFICATION FairSpec
CONSTANTS
    Runs = {r1, r2}
    Sessions = {s1}
    Nodes <- MCNodes
    Entry = "a"
    Terminals <- MCTerminals
    Edges <- MCEdges
    NoNode = "none"
    Unregistered = "ghost"
    RouterError = "error"
    ForcedNext = {"c", "none"}
    MaxSteps = 2
    TaskedSessions = {}
    SerialCallers = FALSE
    SaveMayFail = TRUE
    MayCrash = TRUE
    MaxStarts = 1
INVARIANTS
    PausedAtExecutedNode
PROPERTIES
    RunsReturn
CHECK_DEADLOCK FALSE
