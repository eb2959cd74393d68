SPECIFICATION Spec
CONSTANTS
    r1 = r1
    r2 = r2
    w1 = w1
    w2 = w2
    w3 = w3
    allowed = allowed
    denied = denied
    BadEntry = bad
    Destinations = {allowed, denied}
    Roots = {r1}
    Wallets = {w1, w2, w3}
    Messages = {"m1", "m2", "m3"}
    Calls = {c1, c2}
    SessionIds = {s1, s2, s3}
    PrepareRequests <- MCLimitRequests
    FinishForms <- MCForms
    MaxPending = 2
    MaxPerUser = 1
    Lifetime = 1
    MaxNonces = 3
    MaxTime = 2
    MaxRestarts = 0
SYMMETRY MCSymmetry
INVARIANTS
    TypeOK
    OneTerminalOutcome
    CapacityBounded
PROPERTIES
    LiveSessionKept
    RefusalJustified
