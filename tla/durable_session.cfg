CONSTANTS
    NoRun = NoRun
    Absent = Absent
    Runs = {r1, r2}
    DurableRuns = {r1}
    MaxResume = 2
    MaxRetries = 1
    SaveMayFail = TRUE
    Explicit = TRUE
    Kinds = {"plain", "artifact", "write"}
    MaxCalls = 2
    MaxCrashes = 1
SPECIFICATION FairSpec
CHECK_DEADLOCK FALSE
INVARIANTS ExecuteBound  
PROPERTIES ResumeFromNewest CheckpointsKept EveryRunEnds
