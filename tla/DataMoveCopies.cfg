SPECIFICATION Spec
CONSTANTS
    Movers = {m1, m2}
    Projects <- MCProjects
    Tasks <- MCTasks
    Contents <- MCContents
    Metas <- MCMetas
    Ids <- MCIds
    PathScope = PathScope
    Shelf <- MCShelf
    Enrolled <- MCTwins
    Null = Null
    Stale = Stale
    here = here
    copied = copied
    t1 = t1
    t2 = t2
    c1 = c1
    c2 = c2
    low = low
    high = high
    id1 = id1
    MaxSelected = 2
    MaxComments = 1
    MaxChanges = 1
SYMMETRY Symmetry
PROPERTY SourcesStayDistinct
