SPECIFICATION FairSpec
CONSTANTS
    Publishers = {p1, p2}
    Conns = {c1, c2}
    NoConn = NoConn
    p1 = p1
    p2 = p2
    c1 = c1
    c2 = c2
    TaskOf <- MCTaskOf
    Types <- MCTypes
    Completed = "TaskCompleted"
    Cap = 1
    MaxEvents <- MCMaxEvents
INVARIANTS
    NothingDropped
    InOrder
    SubscribedWhileStreaming
PROPERTIES
    OnlyOwnLeaverBlocks
CHECK_DEADLOCK FALSE
