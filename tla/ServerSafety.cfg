SPECIFICATION MCSpec
CONSTANTS
    Orgs = {o1, o2}
    a = a
    b = b
    st = st
    Repos = {a, b}
    Stems = {st}
    StemOf <- MCStemOf
    Clients = {c1, c2}
    Changes = {Root, x}
    Root = Root
    x = x
    Histories <- MCHistories
    NoRepo = NoRepo
    NoClient = NoClient
    Idle = Idle
    None = None
    MaxIds = 3
    MaxSha = 2
    MaxVer = 4
    MaxScale = 1
    MaxLines = 3
    Keep = 2
    Depth = 2
SYMMETRY Symmetry
INVARIANTS ServerTypeOK Agree CloneAllOrNothing EnsuredServes NoLostUpdate CacheTrue DerivedBuilt LinesInOrder EndTold
PROPERTIES ContentKept MetadataKept
CHECK_DEADLOCK FALSE
