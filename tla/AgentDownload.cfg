SPECIFICATION Spec
CONSTANTS
    Root <- MCRoot
    Parent <- MCParent
    ItemOf <- MCItemOf
    Path = {"a", "ax", "b"}
    Items = {"a", "b"}
    Kinds = {"copy", "moveCross"}
    SrcWhere = "remote"
    DstWhere = "local"
    FastPath = TRUE
    SameDir = FALSE
    SrcKinds <- MCSrcKinds
    DstKinds <- MCDstKinds
    Chunks = 2
    NotUtf8 = {}
    ReadAhead = 1
    IoFaults = TRUE
    PeerFaults = TRUE
    MaxEdits = 1
INVARIANTS
    NoMixedContent
