SPECIFICATION Spec
CONSTANTS
    w1 = w1
    w2 = w2
    a1 = a1
    a2 = a2
    a3 = a3
    b1 = b1
    b2 = b2
    agent = agent
    repo = repo
    bridge = bridge
    NoRow = NoRow
    Unattributed = Unattributed
    Owner <- MCOwner
    OwnerOf <- MCOwnerOf
    Call <- MCAgentCall
    BridgeCall = {}
    Key <- MCAgentKey
    ClaimsOf <- MCAgentClaimsOf
CONSTRAINT SecondWindowStays
INVARIANTS
    TypeOK
    CapacityRespected
    TokensFollowArrival
    UncleanIsQuarantined
PROPERTY ImplementsLeaseService
CHECK_DEADLOCK FALSE
