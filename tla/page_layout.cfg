SPECIFICATION FairSpec
CONSTANTS
    null = null
    WindowHeight = 600
    WindowHeights <- TwoHeights
    WindowWidth = 1600
    Positions <- Places
    Titles <- OneTitle
    maxProgressBars = 1
    MaxBars = 2
    MaxWidgets = 2
    MaxGestures = 1
    MaxPolls = 2
    MaxFading = 1
CHECK_DEADLOCK FALSE
INVARIANTS
    ChartsAgree
PROPERTIES
    FrameFills
    ProgressSettles
