SPECIFICATION Spec
CONSTANTS
    o1 = o1
    o2 = o2
    t1 = t1
    t2 = t2
    c1 = c1
    c2 = c2
    Owner = {o1, o2}
    Tab = {t1, t2}
    Conversation = {c1, c2}
    Existing = {c1}
    MaxRequests = 2
    MaxLost = 1
    MaxMoves = 1
    Home = Home
    None = None
SYMMETRY Alike
INVARIANTS
    TypeOK
    OneRequestPerConversation
    ClaimsAgree
    ReleasedOwnersLetGo
    NobodyWaitsInVain
CHECK_DEADLOCK FALSE
