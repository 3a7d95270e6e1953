SPECIFICATION Spec
CONSTANTS
    o1 = o1
    o2 = o2
    a = a
    b = b
    g1 = g1
    g2 = g2
    g3 = g3
    x = x
    y = y
    Orgs = {a, b}
    Orderers = {o1, o2}
    Gens = {g1, g2, g3}
    Anchors = {x}
    None = None
    Main = Main
    Followers = {a}
    First <- Base
    Choices <- Mixed
    ReadQuorum = 1
    WriteQuorum = 1
    BFT = TRUE
    Consenters = 5
    MayDelete = TRUE
    Faulty = {"setup", "join", "map", "fetch", "submit", "save", "status"}
    MaxEdits = 1
    MaxFaults = 1
    MaxCrashes = 1
    MaxTotal = 3
SYMMETRY GenSymmetry
CHECK_DEADLOCK FALSE
INVARIANTS TypeOK OneGenesis RunningMeansApplied FollowerApplied
PROPERTIES ImplementsLedger
