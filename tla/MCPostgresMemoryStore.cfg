SPECIFICATION Spec
CONSTANTS
    s1 = s1
    s2 = s2
    a1 = a1
    a2 = a2
    a3 = a3
    NoOne = NoOne
    Savers = {s1, s2}
    Appenders = {a1, a2, a3}
    Batch <- MCBatch
    MaxCheckpoints = 1
    MaxMessages = 1
    MaxConns = 2
    Times = {1, 2}
INVARIANTS
    VersionCountsSaves
    CurrentIsListed
    MessagesBounded
PROPERTIES
    WindowsHold
CHECK_DEADLOCK FALSE
SYMMETRY Symmetry
