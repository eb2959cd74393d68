SPECIFICATION RouteFairSpec
CONSTANTS
    r1 = r1
    BadEntry = bad
    Destinations = {}
    Roots = {r1}
    Wallets = {w1, w2}
    Messages = {"m1", "m2"}
    Clients = {w1, w2}
    MaxSlots = 1
    MaxEvaluations = 2
    MaxStarted = 2
    SessionIds = {s1, s2}
    PrepareRequests <- MCRequests
    FinishForms <- MCForms
    MaxPending = 2
    MaxPerUser = 1
    Lifetime = 1
    MaxNonces = 2
    MaxTime = 1
    MaxRestarts = 0
INVARIANTS
    TypeOK
    EvaluationsBounded
PROPERTIES
    
    RouteRecovers
    PermitsRecover
