CONSTANTS
    NoRun = NoRun
    Absent = Absent
    Runs = {r1, r2}
    DurableRuns = {r1, r2}
    MaxResume = 1
    MaxRetries = 0
    SaveMayFail = FALSE
    Explicit = FALSE
    Kinds = {"plain"}
    MaxCalls = 1
    MaxCrashes = 0
SPECIFICATION Spec
CHECK_DEADLOCK FALSE
PROPERTIES ResumesOwnWork
