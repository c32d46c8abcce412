SPECIFICATION ControlFairSpec
CONSTANTS
    Tasks = {t1}
    Runs = {r1}
    Agents = {a1}
    Sessions = {p1, p2}
    Contents = {c1}
    Reports = {x1}
    Lifecycles = {"queued", "completed"}
    Null = Null
    MaxRevision = 2
    MaxEvidence = 0
    MaxRequests = 2
INVARIANT OneOutstandingGo
PROPERTIES
    QueueDrains
    AbandonedGoReturns
CHECK_DEADLOCK FALSE
