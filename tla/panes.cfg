SPECIFICATION PanesSpec
CONSTANTS
    Comps <- TwoComps
    Fields <- Nested
    Parent <- NestedIn
    Links <- TwoLinks
    Unit <- LinkUnit
    Reports <- Traffic
    MaxTotal = 2
    MaxViews = 2
    MaxClicks = 6
CHECK_DEADLOCK FALSE
INVARIANTS
    DiagramMatches
    RefreshIsTold
    FieldsLoad
