SPECIFICATION MCSpec
CONSTANTS
    d1 = d1
    d2 = d2
    Destinations = {d1, d2}
    BadEntry = bad
    Programs <- AllPrograms
    Roots = {"root1", "root2"}
    Wallets = {"w1"}
    Messages = {"m1", "m2"}
    MaxPayloads = 4
    MaxSlots = 4
    CountRange = 8
    AddressRange = 6
    MaxInput = 2
CHECK_DEADLOCK FALSE
INVARIANTS
    TypeOK
    InputsIntact
    CopyNeverFails
    ScanIsExact
    EnvelopeExact
    SigningProgramConsents
