SPECIFICATION FairSpec
CONSTANTS
    Root <- MCRoot
    Parent <- MCParent
    ItemOf <- MCItemOf
    Path = {"a", "ax", "ay", "an", "c"}
    Items = {"a"}
    Kinds = {"moveCross"}
    SrcWhere = "local"
    DstWhere = "remote"
    FastPath = TRUE
    SameDir = FALSE
    SrcKinds <- MCSrcKinds
    DstKinds <- MCDstKinds
    Chunks = 2
    NotUtf8 = {"an"}
    ReadAhead = 2
    IoFaults = TRUE
    PeerFaults = TRUE
    MaxEdits = 1
INVARIANTS
    TypeOK
    NothingLost
PROPERTIES
    ImplementsMoveContract
    JobEnds
