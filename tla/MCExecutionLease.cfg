SPECIFICATION FairSpec
CONSTANTS
    r = r
    x = x
    y = y
    p = p
    NoOp = NoOp
    Op <- MCOp
    Run <- MCRun
    AgentsOf <- MCAgentsOf
    SlotsOf <- MCSlotsOf
    UnitsOf <- MCUnitsOf
    MaxLocalAgents = 3
    MaxFaults = 1
INVARIANTS
    TypeOK
    ReservationsBalance
    NoLeaseLeftBehind
    NothingIsKept
    NothingJoinsAClosingLease
PROPERTIES
    RetentionsAreAnswered
CHECK_DEADLOCK FALSE
