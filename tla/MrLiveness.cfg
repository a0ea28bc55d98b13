SPECIFICATION FairSpec
CONSTANTS
    Repos = {r1}
    NoRepo = NoRepo
    Clients = {c1, c2}
    MaxMrs = 2
    MaxGitFails = 1
    MaxDbErrors = 1
    MaxRestarts = 1
PROPERTY StaleAnchorsPruned
CHECK_DEADLOCK FALSE
