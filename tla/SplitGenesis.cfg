SPECIFICATION Spec
CONSTANTS
    o1 = o1
    o2 = o2
    a = a
    b = b
    g1 = g1
    g2 = g2
    g3 = g3
    x = x
    y = y
    Orgs = {a, b}
    Orderers = {o1, o2}
    Gens = {g1, g2, g3}
    Anchors = {x}
    None = None
    Main = Main
    Followers = {}
    First <- Base
    Choices = {}
    ReadQuorum = 1
    WriteQuorum = 1
    BFT = FALSE
    Consenters = 5
    MayDelete = FALSE
    Faulty = {"join", "query"}
    MaxEdits = 0
    MaxFaults = 2
    MaxCrashes = 0
    MaxTotal = 2
SYMMETRY GenSymmetry
CHECK_DEADLOCK FALSE
INVARIANTS OneGenesis
