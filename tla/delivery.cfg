SPECIFICATION FairSpec
CONSTANTS
    a1 = a1
    a2 = a2
    a3 = a3
    k1 = k1
    k2 = k2
    p1 = p1
    p2 = p2
    p3 = p3
    p4 = p4
    p5 = p5
    MaxMsgs = 2
    Agents <- ThreeAgents
    Conns <- TwoConns
    Ports <- FivePorts
    Owner <- OwnerOf
    ConnOf <- ConnectionOf
    PortList <- PortLists
    PortCap <- Capacities
    BufSize <- BufferSizes
    Period <- Clocks
    Workloads <- AllWorkloads
    Parallel = TRUE
INVARIANTS
    WakeUpInv
    NothingLeftBehind
PROPERTIES
    DeliversInOrder
    EventuallyReturns
