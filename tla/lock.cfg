CONSTANTS
    t1 = t1
    t2 = t2
    t3 = t3
    parent = parent
    sub = sub
    NoTask = NoTask
    Tasks <- MCTasks
    Sessions <- MCSessions
    Nests <- MCNests
    MaxOpens = 2
    Detached = TRUE
SPECIFICATION LockSpec
CHECK_DEADLOCK FALSE
INVARIANTS IndependentExclusion NoLostWakeup
PROPERTIES EveryWaitEnds StructuredRoomSpec
