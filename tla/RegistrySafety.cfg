SPECIFICATION Spec
CONSTANTS
    Scenarios <- AllScenarios
    Versions = {1, 2}
    References = {1, 2, 3}
    Manifests = {2, 3}
    Files = {fa, fb}
    Digests = {d1, d2}
    d1 = d1
    d2 = d2
    Clients = {c1, c2}
    c1 = c1
    c2 = c2
    Sessions = {s1}
    Chunks = 2
    NoRow = NoRow
    NoData = NoData
    Idle = Idle
SYMMETRY Symmetry
INVARIANTS
    TypeOK UploadTypeOK NoDanglingRow ExactWhenAlone AnswersExact
    TagsResolve UploadIntact SessionWhole ChunkInPlace
PROPERTIES GcSafe PullKeepsPush
CHECK_DEADLOCK FALSE
