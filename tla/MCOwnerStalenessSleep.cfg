SPECIFICATION Spec
CONSTANTS
    w1 = w1
    w2 = w2
    laptop = laptop
    None = None
    Owner <- MCOwner
    HostOf <- MCHostOf
    HeartbeatInterval = 1
    BusyTimeout = 1
    StaleOwner = 3
    LiveOwnerGrace = 4
    DriftLimit = 1
    SleepLengths <- MCSleepLengths
    MaxSleeps = 1
    SleepInHandler = TRUE
PROPERTY PromptOwnersAreKept
CHECK_DEADLOCK FALSE
