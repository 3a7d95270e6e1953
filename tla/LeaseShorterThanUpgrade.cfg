SPECIFICATION Spec
CONSTANTS
    n1 = n1
    n2 = n2
    Nodes = {n1, n2}
    Holders = {n1, n2}
    NoHolder = NoHolder
    HolderOf <- OwnIdentity
    IsPeer = FALSE
    Wait = TRUE
    AutoRenew = FALSE
    TTL = 2
    Timeout = 5
    Skew = 5
    SectionBound = 5
    MaxTries = 2
    MaxEdits = 2
    MaxFaults = 0
    MaxCrashes = 0
SYMMETRY Symmetry
INVARIANTS MutualExclusion
