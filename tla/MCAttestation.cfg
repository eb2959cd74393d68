SPECIFICATION Spec
CONSTANTS
    Absent = Absent
    Zero = Zero
    Denied = Denied
    StrayKey = StrayKey
    EphemeralKey = EphemeralKey
    Regions = {"us-east-1", "eu-west-1"}
    Accounts = {"account"}
    KeyResources = {"key/1", "key/mrk-1"}
    ZeroHash = "h0"
    Decompresses <- MCDecompresses
    MaxCounter = 2
    ParentRole = "parent"
    AdminRole = "admin"
    Granted = {"other"}
    Processes = {p1, p2}
    Settings <- MCSettings
    Deployed <- MCDeployed
    Nonces = {"n64", "n15"}
    StrangeNonce = "other"
    NonceLength <- MCNonceLength
    MaxAge = 1
    MaxAhead = 1
    Skew = 1
    MaxTime = 2
    MaxChallenges = 2
    MaxDocuments = 1
SYMMETRY Symmetry
CHECK_DEADLOCK FALSE
INVARIANTS
    AcceptedIsGenuine
    AcceptedIsFresh
    HonestVerifies
    VerifiedLoads
    RootPerSettings
    RootOnlyMeasured
