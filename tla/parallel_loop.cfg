SPECIFICATION FairSpec
CONSTANTS
    NumQueues = 2
    MaxEvents = 4
    MaxTime = 1
CHECK_DEADLOCK FALSE
INVARIANTS
    OneOwner
PROPERTIES
    IsEngine
    SecondaryAfterEarlierPrimary
    RunReturns
