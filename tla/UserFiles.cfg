SPECIFICATION Spec
CONSTANTS
    Instances = {a, b}
    Hosts = {h1, h2}
    OldKey = OldKey
    NewKey = NewKey
    NoKey = NoKey
    NoHost = NoHost
    MaxNewKeys = 1
    Faults = TRUE
SYMMETRY Symmetry
CONSTRAINT Unharmed
INVARIANTS
    ConfigKept
    KeysKept
