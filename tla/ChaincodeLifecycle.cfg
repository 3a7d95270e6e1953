SPECIFICATION FairSpec
CONSTANTS
    o1 = o1
    o2 = o2
    p1 = p1
    p2 = p2
    v1 = v1
    v2 = v2
    Orgs = {o1, o2}
    Keys <- Resources
    Present <- Separately
    Peers = {p1, p2}
    Defs = {v1, v2}
    MaxSeq = 3
    First <- Initial
    Choices <- Changes
    None = None
    Seconds = 2
    Faulty = {"update", "setup", "patch", "status", "install", "query", "approve", "commit"}
    MaxEdits = 2
    MaxFaults = 2
    MaxCrashes = 1
    MaxTotal = 2
CHECK_DEADLOCK FALSE
INVARIANTS TypeOK InstallRunning ApproveRunning CommitRunning
PROPERTIES Converges
