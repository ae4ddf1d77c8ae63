SPECIFICATION Spec
CONSTANTS
    q1 = q1
    q2 = q2
    t1 = t1
    c1 = c1
    other = other
    Requests = {q1, q2}
    Tenants = {Default, other}
    Default = Default
    ClientTasks = {t1}
    ClientContexts = {c1}
    None = None
    NoTask = NoTask
    MaxReports = 1
INVARIANTS
    StoredIsListed
    RunHasRecord
    WebhookLostOnlyToOverlap
PROPERTIES
    Answered
CHECK_DEADLOCK FALSE
