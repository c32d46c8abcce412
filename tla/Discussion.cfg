SPECIFICATION FairSpec
CONSTANTS
    s1 = s1
    s2 = s2
    here = here
    there = there
    Sessions = {s1, s2}
    Projects = {here, there}
    Home <- MCHome
    MaxComments = 2
INVARIANT CalledOnce
PROPERTY OwedIsTold
CHECK_DEADLOCK FALSE
