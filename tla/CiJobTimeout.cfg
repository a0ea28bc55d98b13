SPECIFICATION LoopSpec
CONSTANTS
    MaxRuns = 1
    MaxJobs = 1
    MaxSteps = 1
    MaxConcurrency = 1
    BuildJobs = {}
    FaultyCluster = FALSE
    MaxCrashes = 0
    MaxLost = 0
    MaxApi = 0
    MaxPanics = 0
    MaxFaults = 0
PROPERTY TimeoutEnforced
CHECK_DEADLOCK FALSE
