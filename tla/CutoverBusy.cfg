\* What the refusal of a busy lock says of it: a violation.
SPECIFICATION Spec
CONSTANTS
    Sessions = {s1, s2}
    BreakGlass = {}
    Null = Null
    Orphan = Orphan
    Retention = 1
    MaxWrites = 0
    MaxFaults = 0
INVARIANT BusyMeansRunning
SYMMETRY Symmetry
CHECK_DEADLOCK FALSE
