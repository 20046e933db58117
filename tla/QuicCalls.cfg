SPECIFICATION FairSpec
CONSTANTS
    Directions = {"read", "write"}
    CancelIn = {"read", "write"}
    Chunks = 8
    Depth = 2
    Window = 2
    LocalFaults = TRUE
    PeerFaults = TRUE
    ConnFaults = TRUE
INVARIANTS
    OkIsWhole
    ReadAheadBounded
PROPERTIES
    ImplementsStreamContract
    CallEnds
