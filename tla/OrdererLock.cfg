SPECIFICATION FairSpec
CONSTANTS
    n1 = n1
    n2 = n2
    Nodes = {n1, n2}
    Holders = {n1, n2}
    NoHolder = NoHolder
    HolderOf <- OwnIdentity
    IsPeer = FALSE
    Wait = TRUE
    AutoRenew = FALSE
    TTL = 1
    Timeout = 5
    Skew = 1
    SectionBound = 1
    MaxTries = 2
    MaxEdits = 2
    MaxFaults = 0
    MaxCrashes = 0
INVARIANTS TypeOK MutualExclusion RenewerHoldsLease OneRolloutAtATime
PROPERTIES ImplementsLock RequestServed
