SPECIFICATION Spec
CONSTANTS
    s1 = s1
    s2 = s2
    Handlers = {h1, h2}
    Settings = {s1, s2}
    RootOf <- MCRootOf
    Nobody = Nobody
    None = None
    MaxAttempts = 2
    MaxRestarts = 1
CHECK_DEADLOCK FALSE
INVARIANT DeadlineRacesWork
