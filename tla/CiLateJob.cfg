SPECIFICATION Spec
CONSTANTS
    MaxRuns = 1
    MaxJobs = 2
    MaxSteps = 2
    MaxConcurrency = 1
    BuildJobs = {}
    FaultyCluster = FALSE
    MaxCrashes = 0
    MaxLost = 0
    MaxApi = 0
    MaxPanics = 0
    MaxFaults = 0
INVARIANT EveryJobExecuted
CHECK_DEADLOCK FALSE
