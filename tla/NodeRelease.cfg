SPECIFICATION FairSpec
CONSTANTS
    Kinds = {"peer", "orderer", "console"}
    Specs = {"bare", "full"}
    Bootable = {"full"}
    Numbers = {1, 2, 3, 4, 5, 6}
    None = None
    Faulty = {"update", "uninstall", "helm", "rollback", "service", "live", "read", "enroll",
              "install", "upgrade", "state", "patch", "status"}
    MaxEdits = 2
    MaxFaults = 2
    MaxCrashes = 2
    MaxTotal = 2
CHECK_DEADLOCK FALSE
INVARIANTS TypeOK NothingLeftBehind RunningMeansDeployed
PROPERTIES CertificateKept Converges
