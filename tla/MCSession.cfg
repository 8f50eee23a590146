SPECIFICATION SessionSpec
CONSTANTS
    Plan = {"coarse", "thumb"}
    KeysOf <- MCKeysOf
    Viewer = {"ann", "bob"}
    Requester = {"ann"}
    Worker = {1, 2}
    Closer = 0
    Away = Away
    Unasked = Unasked
    Interests <- MCInterests
    KeyCap = 2
    ChunkSize = 1
    Scenarios <- MCScenarios
    Client = {alice, bob}
    Editor = {alice}
    Opener = {first, second}
    Reopener = {}
    Restored = {}
    Other = {}
    Resynced = {}
    Name = {"renamed"}
    Capacity = 2
    MaxPending = 2
    MaxEdits = 2
    MaxFailures = 1
    MaxDrops = 1
    MaxAnswers = 1
    Throttle = TRUE
INVARIANTS
    SchedulerIsSound
    WantedIsScheduled
    PromisesAreServable
    
    SurvivesRestart
    OpensAgree
CHECK_DEADLOCK FALSE
