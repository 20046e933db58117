SPECIFICATION Spec
CONSTANTS
    Root <- MCRoot
    Parent <- MCParent
    ItemOf <- MCItemOf
    Path = {"a", "ax"}
    Items = {"a"}
    Kinds = {"moveCross"}
    SrcWhere = "remote"
    DstWhere = "local"
    FastPath = TRUE
    SameDir = FALSE
    SrcKinds <- MCSrcKinds
    DstKinds <- MCDstKinds
    Chunks = 2
    NotUtf8 = {}
    ReadAhead = 1
    IoFaults = FALSE
    PeerFaults = TRUE
    MaxEdits = 0
INVARIANTS
    MovesKeepFiles
