SPECIFICATION Spec
CONSTANTS
    A = A
    B = B
    C = C
    Lines = {A, B}
    Offsets = {1, 2}
    NumSets = 1
    Ways = 1
    SetOf <- OneSet
    NumReqPerCycle = 1
    BankLatency = 1
    NumMSHREntry = 2
    WriteBufferCapacity = 2
    MaxInflightFetch = 2
    MaxInflightEviction = 2
    ConnCapacity = 4
    Scripts <- EvictedTwice
    Controls <- NoControl
CHECK_DEADLOCK FALSE
INVARIANTS
    ReadsNeverGoBack
