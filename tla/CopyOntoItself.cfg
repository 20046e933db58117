SPECIFICATION Spec
CONSTANTS
    Root <- MCRoot
    Parent <- MCParent
    ItemOf <- MCItemOf
    Path = {"a", "ax"}
    Items = {"a"}
    Kinds = {"copy"}
    SrcWhere = "local"
    DstWhere = "local"
    FastPath = FALSE
    SameDir = TRUE
    SrcKinds <- MCSrcKinds
    DstKinds <- MCDstKinds
    Chunks = 2
    NotUtf8 = {}
    ReadAhead = 1
    IoFaults = FALSE
    PeerFaults = FALSE
    MaxEdits = 0
INVARIANTS
    CopyKeepsSource
