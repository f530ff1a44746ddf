SPECIFICATION Spec
CONSTANTS
    TaskLists <- ManyTasks
    Heights = {6, 30}
    Unit = 6750
    f = f
    g = g
    Functions = {f, g}
    Profiles <- TwoSamples
    MaxWidgets = 2
    NaN = NaN
    MaxMatches = 15
INVARIANTS
    RowsAreNeeded
    BarsNest
    LeftoversNeedShrinking
    TimeIsAccountedFor
    PagerShowsNeighbours
CHECK_DEADLOCK FALSE
