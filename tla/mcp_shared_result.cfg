CONSTANTS
    r1 = r1
    r2 = r2
    r3 = r3
    k1 = k1
    k2 = k2
    k3 = k3
    s1 = s1
    s2 = s2
    s3 = s3
    v1 = v1
    v2 = v2
    o1 = o1
    None = None
    Runs <- TwoRuns
    Calls <- TwoCalls
    Ops = {o1}
    Sessions = {s1, s2}
    Servers = {v1}
    Pools = {1, 2}
    Conns = {1, 2, 3}
    Session <- TwoSession
    Parent <- TwoRoots
    Eager <- TwoEager
    RunOf <- PairOfOne
    Server <- PairSame
    Target <- CloseAll
    MaxPools = 1
    Idle = TRUE
    Concurrent = TRUE
    Cancels = TRUE
SPECIFICATION UseSpec
CHECK_DEADLOCK FALSE
INVARIANTS CallersShare
