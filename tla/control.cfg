SPECIFICATION FairSpec
CONSTANTS
    c1 = c1
    c2 = c2
    r1 = r1
    r2 = r2
    u1 = u1
    u2 = u2
    Comps <- TwoComps
    Period <- TwoClocks
    Never = 9
    Runners <- TwoRunners
    Clients <- TwoClients
    Scripts <- ScriptsOf
    MaxTime = 3
CHECK_DEADLOCK FALSE
INVARIANTS
    PausedIsStill
    PauseLockHeld
    NoCrash
PROPERTIES
    RequestsAnswered
