SPECIFICATION Spec
CONSTANTS
    sim = sim
    t1 = t1
    t2 = t2
    c1 = c1
    c2 = c2
    c3 = c3
    r1 = r1
    r2 = r2
    all = all
    some = some
    none = none
    Tasks <- TheTasks
    Sim = sim
    ParentOf <- TheParents
    Where <- ThePlaces
    KindOf <- TheKinds
    Ranges = {r1, r2}
    RangeOf <- TheRanges
    SimRange = r2
    MaxCalls = 3
    NoTask = NoTask
    NoRange = NoRange
    MaxEntries = 4
    MaxGestures <- Bounds
    Components <- TheComponents
    Filters = {all, some, none}
    NoFilter = all
    Matches <- TheMatches
    Axes = {"ReqInCount", "AvgLatency", "-"}
    Primary = "ReqInCount"
    Secondary = "AvgLatency"
    Skip = "-"
    MaxWidgets = 2
    NaN = NaN
    Entries <- TheEntries
INVARIANTS
    TaskPageShowsUrl
    BarsFollowAxis
    DashboardShowsUrl
    CurvesAreAsked
CHECK_DEADLOCK FALSE
