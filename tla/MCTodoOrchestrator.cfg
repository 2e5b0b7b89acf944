SPECIFICATION FairSpec
CONSTANTS
    t1 = t1
    t2 = t2
    t3 = t3
    NoTask = NoTask
    Order <- MCOrder
    DependsOn <- MCDependsOnBoth
    PathsOf <- MCPathsOf
    Retries <- MCRetries
    MaxConcurrency = 2
    MaxFaults = 1
    MaxResumes = 1
INVARIANTS TypeOK AcceptedIsKept LedgerTellsTheTruth
PROPERTIES StopIsFinal ExhaustedStaysFailed RunEnds
CHECK_DEADLOCK FALSE
