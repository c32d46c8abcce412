SPECIFICATION Spec
CONSTANTS
    Procs = {x1, x2}
    Clearers = {k1}
    Roots = {r1, r2}
    Dirs = {d1, d2}
    Ids = {i1, i2}
    Null = Null
    Dead = Dead
    MaxEntries = 2
    MaxMoves = 1
    Files = {Ignore}
    Ignore = Ignore
    Settings = Settings
    Texts = {A}
    Versions = {v1}
    Missing = Missing
    MaxRuns = 2
SYMMETRY Symmetry
CHECK_DEADLOCK FALSE
INVARIANTS TypeOK RegistryStaysReadable NothingLost
PROPERTIES RegistrationsKept IdentityForGood
