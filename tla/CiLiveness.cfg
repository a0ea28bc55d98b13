SPECIFICATION FairSpec
CONSTANTS
    MaxRuns = 2
    MaxJobs = 2
    MaxSteps = 2
    MaxConcurrency = 2
    BuildJobs = {2}
    FaultyCluster = FALSE
    MaxCrashes = 1
    MaxLost = 0
    MaxApi = 1
    MaxPanics = 0
    MaxFaults = 2
PROPERTIES
    QueueDrains
    JobsSettle
CHECK_DEADLOCK FALSE
