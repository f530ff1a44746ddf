SPECIFICATION Spec
CONSTANTS
    MaxEvents = 4
    MaxTime = 2
CHECK_DEADLOCK FALSE
PROPERTIES
    IsEngine
    SecondaryAfterPrimary
