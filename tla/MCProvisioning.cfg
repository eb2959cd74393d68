SPECIFICATION FairSpec
CONSTANTS
    s1 = s1
    s2 = s2
    Handlers = {h1, h2, h3}
    Settings = {s1, s2}
    RootOf <- MCRootOf
    Nobody = Nobody
    None = None
    MaxAttempts = 3
    MaxRestarts = 1
CHECK_DEADLOCK FALSE
INVARIANTS
    TypeOK
    RootAgreement
    SetupExclusive
PROPERTIES
    GateReleased
    AbandonedJobEndsProcess
