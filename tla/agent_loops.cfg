SPECIFICATION MCSpec
CONSTANTS
    N = 5
    Group <- Mixed
    SafeCalls = {2, 3, 4}
    Blocks = {3}
    Setups <- AllSetups
    MaxConcurrency = 2
    MaxAttempts = 2
    Tools = {"t1", "t2"}
    MaxSteps = 2
    MaxRetries = 2
    RetryLimit = 1
    Ceiling = 3
    CallCosts = {1, 2}
    MaxExecutes = 2
    Gates = {"yes", "no", "raises"}
    Wildcards = {"allow", "deny", "none"}
    MaxToolCalls = 2
    MaxCalls = 4
    MaxRuns = 2
    None = None
    Parts = {"batch", "loop", "call", "memory", "gate", "host", "prompts", "servers"}
INVARIANTS NothingRunsOn AloneUnlessSafe LoopFaithful CallsAccounted 
PROPERTIES LegacyCostCeiling EverythingEnds
CHECK_DEADLOCK FALSE
