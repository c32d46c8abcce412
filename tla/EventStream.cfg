SPECIFICATION FairSpec
CONSTANTS
    Procs = {p1, p2}
    Tabs = {b1}
    Null = Null
    ReplayLimit = 2
    MaxEvents = 6
INVARIANTS
    TypeOK
    FramesRise
PROPERTIES
    OwnNeverSkipped
    TabCatchesUp
CHECK_DEADLOCK FALSE
