SPECIFICATION FairSpec
CONSTANTS
    alice = alice
    bob = bob
    carol = carol
    first = first
    second = second
    shown = shown
    beside = beside
    Client = {alice, bob}
    Editor = {alice}
    Opener = {}
    Reopener = {}
    Restored = {shown}
    Other = {}
    Resynced = {bob}
    Name = {"renamed"}
    Capacity = 1
    MaxPending = 1
    MaxEdits = 3
    MaxFailures = 2
    MaxDrops = 1
    MaxAnswers = 1
    Throttle = TRUE
INVARIANTS
    HoleWatched
    
    FollowersExact
PROPERTIES
    BroadcastsArrive
CHECK_DEADLOCK FALSE
