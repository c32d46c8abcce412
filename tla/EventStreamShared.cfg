SPECIFICATION Spec
CONSTANTS
    Procs = {p1, p2}
    Tabs = {b1}
    Null = Null
    ReplayLimit = 2
    MaxEvents = 3
INVARIANT NothingSkipped
CHECK_DEADLOCK FALSE
