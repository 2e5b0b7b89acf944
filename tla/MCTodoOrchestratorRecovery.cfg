SPECIFICATION Spec
CONSTANTS
    t1 = t1
    t2 = t2
    t3 = t3
    NoTask = NoTask
    Order <- MCOrder
    DependsOn <- MCDependsOn
    PathsOf <- MCPathsOf
    Retries <- MCRetries
    MaxConcurrency = 2
    MaxFaults = 1
    MaxResumes = 1
INVARIANT RestoredIsAccepted
CHECK_DEADLOCK FALSE
