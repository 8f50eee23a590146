SPECIFICATION ProgressSpec
CONSTANTS
    shard = shard
    listing = listing
    whole = whole
    MaxBytes = 3
    FlightId = {1, 2, 3, 4, 5, 6, 7}
    Plan = {"coarse", "thumb"}
    Viewer = {"ann", "bob"}
    Requester = {"ann"}
    Worker = {1, 2}
    KeysOf <- MCKeysOf
    Closer = 0
    Away = Away
    Unasked = Unasked
    Interests <- MCInterests
    Scenarios <- LiveScenarios
    KeyCap = 2
    ChunkSize = 1
    Caller = {1, 2}
    Kind = {"a", "b"}
    Permits = 1
PROPERTIES
    WantedIsSettled
    EveryCallReturns
    RequestReturns
CHECK_DEADLOCK FALSE
