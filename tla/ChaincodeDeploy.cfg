SPECIFICATION FairSpec
CONSTANTS
    tls = tls
    labelled = labelled
    Specs = {tls, labelled}
    First = tls
    TLS = {tls}
    Templated = {tls}
    Selector <- Labelled
    Templates = {"old", "new"}
    Default = "old"
    None = None
    Faulty = {"update", "delete", "template", "read", "enroll", "store", "deploy",
              "service", "patch", "status"}
    MaxEdits = 2
    MaxFaults = 1
    MaxCrashes = 1
    MaxTotal = 3
CHECK_DEADLOCK FALSE
INVARIANTS TypeOK NothingLeftBehind RunningMeansDeployed PodsUseSecret
PROPERTIES Converges
