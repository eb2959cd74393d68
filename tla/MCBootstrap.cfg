SPECIFICATION FairBootSpec
CONSTANTS
    s1 = s1
    s2 = s2
    Boot = boot
    Ready = ready
    Deployed = s1
    Handlers = {boot, ready, other}
    Settings = {s1, s2}
    RootOf <- MCRootOf
    Nobody = Nobody
    None = None
    MaxAttempts = 2
    MaxRestarts = 1
CHECK_DEADLOCK FALSE
INVARIANTS
    ActiveIsDeployed
PROPERTIES
    StrangerEvicted
    OrphanEvicted
