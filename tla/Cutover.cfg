SPECIFICATION Spec
CONSTANTS
    Sessions = {s1, s2}
    BreakGlass = {s1, s2}
    Null = Null
    Orphan = Orphan
    Retention = 1
    MaxWrites = 1
    MaxFaults = 1
INVARIANTS
    TypeOK
    CutoverIsUsable
    GateSeesEveryRow
PROPERTIES
    OneAuthority
    HandoffIsComplete
    NothingDropped
    CutoverKeepsCanonical
SYMMETRY Symmetry
CHECK_DEADLOCK FALSE
