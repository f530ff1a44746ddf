SPECIFICATION Spec
CONSTANTS
    A = A
    B = B
    C = C
    Lines = {A, B}
    Offsets = {1, 2}
    NumSets = 1
    Ways = 1
    SetOf <- OneSet
    NumReqPerCycle = 1
    BankLatency = 1
    NumMSHREntry = 2
    WriteBufferCapacity = 2
    MaxInflightFetch = 1
    MaxInflightEviction = 1
    ConnCapacity = 2
    Scripts <- EvictedThenOps
    Controls <- NoControl
CHECK_DEADLOCK FALSE
INVARIANTS
    ReadsAreFresh
