SPECIFICATION FairSpec
CONSTANTS
    A = A
    B = B
    Policies <- AllPolicies
    Lines = {A, B}
    Offsets = {1, 2}
    NumSets = 1
    Ways = 1
    SetOf <- OneSet
    PID = 1
    NumReqPerCycle = 1
    DirLatency <- Latencies
    BankLatency = 1
    NumMSHREntry = 1
    MaxNumConcurrentTrans = 2
    ConnCapacity = 1
    Scripts <- Workloads
    Controls <- Flushes
CHECK_DEADLOCK FALSE
INVARIANTS
    ReadsSeeEarlierWrites
    BlocksAreExclusive
    CoherentAtRest
PROPERTIES
    AllAnswered
    FlushDropsNoAccess
