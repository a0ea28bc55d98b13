SPECIFICATION Spec
CONSTANTS
    Repos = {r1, r2}
    NoRepo = NoRepo
    Clients = {c1, c2}
    MaxMrs = 2
    MaxGitFails = 1
    MaxDbErrors = 1
    MaxRestarts = 1
SYMMETRY Symmetry
INVARIANTS
    TypeOK
    NumbersDense
    AnchorKept
CHECK_DEADLOCK FALSE
