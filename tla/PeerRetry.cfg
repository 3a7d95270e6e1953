SPECIFICATION FairSpec
CONSTANTS
    n1 = n1
    n2 = n2
    Nodes = {n1}
    Holders = {n1, n2}
    NoHolder = NoHolder
    HolderOf <- OwnIdentity
    IsPeer = TRUE
    Wait = FALSE
    AutoRenew = FALSE
    TTL = 1
    Timeout = 5
    Skew = 1
    SectionBound = 1
    MaxTries = 2
    MaxEdits = 1
    MaxFaults = 2
    MaxCrashes = 0
PROPERTIES FailureRetried FlagCleared
