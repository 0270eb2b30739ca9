SPECIFICATION MCSpec
CONSTANTS
    r1 = r1
    r2 = r2
    r3 = r3
    s1 = s1
    a1 = a1
    a2 = a2
    NoRun = NoRun
    Runs <- Pair
    Session <- PairSession
    Agent <- PairAgent
    Parent <- PairRoots
    Suspends = TRUE
    StoreMayFail = TRUE
    Diagnosed = TRUE
INVARIANTS  TurnTellsVerdict HandlersGone MemoryIsOwn DelegationChain
PROPERTIES EveryRunEndsHere
CHECK_DEADLOCK FALSE
