SPECIFICATION ControlSpec
CONSTANTS
    Tasks = {t1}
    Runs = {r1, r2}
    Agents = {a1}
    Sessions = {p1, p2}
    Contents = {c1}
    Reports = {x1}
    Lifecycles = {"queued", "completed"}
    Null = Null
    MaxRevision = 6
    MaxEvidence = 0
    MaxRequests = 1
SYMMETRY Symmetry
INVARIANTS
    ControlTypeOK
    FreshGoIsApplicable
    CompletedGoWasLaunched
PROPERTIES
    EndedForGood
    ClaimOutlivesDelivery
    LaunchedGoIsSpent
CHECK_DEADLOCK FALSE
