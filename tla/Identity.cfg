SPECIFICATION FairSpec
CONSTANTS
    Passwords = {"right", "wrong"}
    First = "right"
    Known = None
    Registers = TRUE
    None = None
    Faulty = {"update", "read", "register", "enroll", "store", "status", "patch"}
    MaxRoot = 2
    MaxEdits = 3
    MaxFaults = 2
    MaxCrashes = 1
    MaxTotal = 4
CHECK_DEADLOCK FALSE
INVARIANTS TypeOK RunningMeansEnrolled
PROPERTIES Converges
