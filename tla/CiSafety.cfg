SPECIFICATION Spec
CONSTANTS
    MaxRuns = 2
    MaxJobs = 3
    MaxSteps = 2
    MaxConcurrency = 1
    BuildJobs = {2}
    FaultyCluster = TRUE
    MaxCrashes = 1
    MaxLost = 1
    MaxApi = 1
    MaxPanics = 1
    MaxFaults = 2
CONSTRAINT FaultBudget
INVARIANTS
    TypeOK
    VerdictOfSuccess
    OldestFirst
    SkippedHasNoJobs
    NoPodLeak
PROPERTIES
    NoReexecution
    VerdictFinal
    ImplementsCiRuns
CHECK_DEADLOCK FALSE
