SPECIFICATION Spec
CONSTANTS
    s1 = s1
    s2 = s2
    s3 = s3
    a1 = a1
    a2 = a2
    Saves = {s1, s2, s3}
    Appends = {a1, a2}
    Batch <- MCBatch
    NoState = NoState
    maxCheckpoints = 2
    maxMessages = 1
    MaxClock = 1
INVARIANTS
    ListedLoadable
    StateHasCheckpoint
    IndexBounded
    MessagesAreNewest
PROPERTIES
    IndexIsWindow
CHECK_DEADLOCK FALSE
SYMMETRY Symmetry
