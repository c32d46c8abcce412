SPECIFICATION Spec
CONSTANTS
    Tasks = {t1}
    Runs = {r1, r2, r3}
    Agents = {a1, a2}
    Sessions = {p1}
    Contents = {c1, c2}
    Reports = {x1}
    Lifecycles = {"queued", "completed"}
    Null = Null
    MaxRevision = 7
    MaxEvidence = 2
SYMMETRY Symmetry
INVARIANTS
    TypeOK
    OneActiveRunPerRole
    NoWorkerBehindReview
    RunningIsAttended
    ReviewHasSubmission
    DoneIsReviewed
    GatesAgreeWithStore
    AcceptanceNamesContent
    EpochsDistinct
PROPERTY RunsEndOnce
CHECK_DEADLOCK FALSE
