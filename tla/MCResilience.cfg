SPECIFICATION MCSpec
CONSTANTS
    c1 = c1
    c2 = c2
    Callers = {c1, c2}
    Chain <- MCChain
    Policies <- MCPolicies
    Modes <- MCModes
    TripAfter = 1
    Conversations <- MCConversations
    SystemPrompt = "brief"
    Tools = {"echo"}
    Replies <- MCReplies
    Lines <- MCLines
    MaxLines = 2
    MayCancel = {c1}
    Clients = {"k1", "k2", "k3"}
    Threshold = 2
INVARIANTS
    ClosedMeansFewFailures
    AnswerOrError
    PromptComplete
    StreamComplete
PROPERTIES
    CallsAndStreamsEnd
    Recovers
CHECK_DEADLOCK FALSE
