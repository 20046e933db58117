SPECIFICATION FairSpec
CONSTANTS
    Warms = {"w1", "w2"}
    MaxConns = 2
    MaxProcs = 3
    EnableQuic = TRUE
    SshFaults = TRUE
    HostFaults = TRUE
INVARIANTS
    AgentsOwned
    KeptWhileUsed
PROPERTIES
    UiReturns
    ReplacedGoAway
