SPECIFICATION FairSpec
CONSTANTS
    Ids = {"none", "a", "b"}
    NoId = "none"
    MaxEdges = 2
INVARIANTS
    BuiltGraphValid
    FindsStaticReach
PROPERTIES
    BuildReturns
CHECK_DEADLOCK FALSE
