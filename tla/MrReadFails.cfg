SPECIFICATION Spec
CONSTANTS
    Repos = {r1}
    NoRepo = NoRepo
    Clients = {c1}
    MaxMrs = 1
    MaxGitFails = 0
    MaxDbErrors = 1
    MaxRestarts = 0
INVARIANT OpenAnchorsSurvive
CHECK_DEADLOCK FALSE
