SPECIFICATION FairSpec
CONSTANTS
    Sessions = {"s1"}
    Tenants = {"acme", ""}
    HostTools = {"fs:read"}
    Sandboxed = {"fs:read"}
    Heeding = {"fs:read"}
    Patterns = {"*", "fs:*", "echo"}
    Prefixed <- MCPrefixed
    MaxAdmin = 3
    Limit = 2
    Batches <- MCBatches
    MayReload = {"s1"}
INVARIANTS
    ResultsTruthful
    PlanFollowsRun
PROPERTIES
    AgentEnds
CHECK_DEADLOCK FALSE
