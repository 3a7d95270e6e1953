SPECIFICATION FairSpec
CONSTANTS
    Hosts = {"old", "new"}
    First = "old"
    Numbers = {1, 2, 3, 4, 5, 6, 7, 8}
    None = None
    Faulty = {"update", "uninstall", "helm", "rollback", "state", "read", "install",
              "upgrade", "status"}
    MaxEdits = 2
    MaxFaults = 2
    MaxCrashes = 2
    MaxTotal = 3
CHECK_DEADLOCK FALSE
INVARIANTS TypeOK
PROPERTIES RootSurvives Converges
