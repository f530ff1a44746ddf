SPECIFICATION FairSpec
CONSTANTS
    A = A
    B = B
    C = C
    Lines = {A, B}
    Offsets = {1, 2}
    NumSets = 1
    Ways = 1
    SetOf <- OneSet
    NumReqPerCycle = 1
    BankLatency = 1
    NumMSHREntry = 1
    WriteBufferCapacity = 1
    MaxInflightFetch = 1
    MaxInflightEviction = 1
    ConnCapacity = 1
    Scripts <- ThreeOps
    Controls <- Flushes
CHECK_DEADLOCK FALSE
INVARIANTS
    ReadsAreFresh
    NoPanic
    LockHasOneHolder
PROPERTIES
    FlushedIsBelow
    AllAnswered
