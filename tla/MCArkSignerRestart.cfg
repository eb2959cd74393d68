SPECIFICATION Spec
CONSTANTS
    r1 = r1
    r2 = r2
    w1 = w1
    w2 = w2
    w3 = w3
    allowed = allowed
    denied = denied
    BadEntry = bad
    Destinations = {allowed, denied}
    Roots = {r1, r2}
    Wallets = {w1, w2, w3}
    Messages = {"m1", "m2", "m3"}
    Calls = {c1, c2}
    SessionIds = {s1, s2}
    PrepareRequests <- MCRestartRequests
    FinishForms <- MCRestartForms
    MaxPending = 2
    MaxPerUser = 1
    Lifetime = 2
    MaxNonces = 2
    MaxTime = 3
    MaxRestarts = 1
SYMMETRY MCSymmetry
INVARIANTS
    AuthorizedRelease
    LateFinishRefused
PROPERTIES
    NeverRestored
    ImplementsLifecycle
