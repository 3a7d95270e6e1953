SPECIFICATION FairSpec
CONSTANTS
    o1 = o1
    o2 = o2
    a = a
    b = b
    g1 = g1
    g2 = g2
    g3 = g3
    x = x
    y = y
    Orgs = {a, b}
    Orderers = {o1, o2}
    Gens = {g1, g2}
    Anchors = {x}
    None = None
    Main = Main
    Followers = {a}
    First <- Base
    Choices <- Changing
    ReadQuorum = 2
    WriteQuorum = 2
    BFT = FALSE
    Consenters = 2
    MayDelete = FALSE
    Faulty = {"setup", "query", "map", "join", "fetch", "submit", "save", "status"}
    MaxEdits = 2
    MaxFaults = 1
    MaxCrashes = 1
    MaxTotal = 2
CHECK_DEADLOCK FALSE
PROPERTIES UpdatesSerial AnchorsSurvive Converges
