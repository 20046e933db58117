SPECIFICATION Spec
CONSTANTS
    Root <- MCRoot
    Parent <- MCParent
    Path = {"a", "ax", "a?", "b"}
    NotUtf8 = {"a?"}
    SrcTrees <- MCSrcTrees
    DstTrees <- MCDstTrees
    SrcWhere = "local"
    DstWhere = "remote"
    DeleteChoices = {TRUE, FALSE}
    Now = 9
    IoFaults = TRUE
    PeerFaults = TRUE
    MaxRounds = 2
    MaxEdits = 1
CHECK_DEADLOCK FALSE
INVARIANTS
    CompletedMirrors
    OnlyRealFailures
    AtMostOneBroken
    KeepsUnrelated
PROPERTIES
    DeletesOnlyListed
