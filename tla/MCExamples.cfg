SPECIFICATION MCSpec
CONSTANTS
    Committed <- MCCommitted
    MaxView = 200
    MaxArgument = 44
    ArenaBase = 16
    OneByteMax = 3
    ThreeByteMax = 6
CHECK_DEADLOCK FALSE
INVARIANTS
    SizeIsExact
    ArgumentsFit
    RegionsDisjoint
    VaultIsExact
    TemplateIsExact
    ClientsPass
