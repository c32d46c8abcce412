SPECIFICATION ControlSpec
CONSTANTS
    Tasks = {t1}
    Runs = {r1}
    Agents = {a1}
    Sessions = {p1, p2}
    Contents = {c1}
    Reports = {x1}
    Lifecycles = {"queued", "completed"}
    Null = Null
    MaxRevision = 4
    MaxEvidence = 0
    MaxRequests = 1
CHECK_DEADLOCK FALSE
PROPERTY RecoversOnlyUnavailable
