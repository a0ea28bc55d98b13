SPECIFICATION Spec
CONSTANTS
    Bookmarks = {main, dev}
    Main = main
    Clients = {c1, c2}
    NoClient = NoClient
    MaxEdits = 3
    MaxRequests = 3
SYMMETRY Symmetry
INVARIANTS
    TypeOK
    NoLostEdit
    InSync
    ImportsSerialized
CHECK_DEADLOCK FALSE
