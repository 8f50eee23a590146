SPECIFICATION ReadsSpec
CONSTANTS
    shard = shard
    listing = listing
    whole = whole
    Key <- ReadKeys
    Task <- ReadTasks
    KeyOf <- ReadKeyOf
    ClassOf <- ReadClassOf
    Size <- ReadSize
    Unbounded = {whole}
    MaxBytes = 3
    ChunkPermits = 2
    MetaPermits = 1
    FlightId = {1, 2, 3, 4, 5, 6, 7}
    BackendError = {"NotFound", "PermissionDenied", "Unauthenticated", "Generic"}
    Caller = {1, 2, 3}
    Kind = {"a", "b"}
    Permits = 2
    NoLeader = 0
    MaxFaults = 1
    MaxPanics = 1
    Reader = {1, 2}
    MaxWord = 1000
    MinSkipped = 1
    MaxExpansions = 1
    MaxLabels = 3
    MaxColors = 4
INVARIANTS
    ExactBytes
    AbsenceIsReal
    ProxiesAreSound
    
    ImportIsHonest
    LabelsAreAccounted
PROPERTIES
    StoreIsSound
CHECK_DEADLOCK FALSE
