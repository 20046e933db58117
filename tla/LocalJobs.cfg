SPECIFICATION Spec
CONSTANTS
    Root <- MCRoot
    Parent <- MCParent
    ItemOf <- MCItemOf
    Path = {"a", "ax", "axz", "axn", "b"}
    Items = {"a", "b"}
    Kinds = {"copy", "delete", "rename"}
    SrcWhere = "local"
    DstWhere = "local"
    FastPath = FALSE
    SameDir = FALSE
    SrcKinds <- MCSrcKinds
    DstKinds <- MCDstKinds
    Chunks = 2
    NotUtf8 = {"axn"}
    ReadAhead = 1
    IoFaults = TRUE
    PeerFaults = FALSE
    MaxEdits = 1
INVARIANTS
    CompletedIsComplete
    OnlyRealFailures
    PromptStop
    ProgressSound
