SPECIFICATION Spec
CONSTANTS
    alice = alice
    bob = bob
    carol = carol
    first = first
    second = second
    shown = shown
    beside = beside
    Client = {alice, bob}
    Editor = {alice, bob}
    Opener = {}
    Reopener = {}
    Restored = {shown}
    Other = {}
    Resynced = {bob}
    Name = {"renamed"}
    Capacity = 4
    MaxPending = 4
    MaxEdits = 4
    MaxFailures = 0
    MaxDrops = 0
    MaxAnswers = 1
    Throttle = TRUE
INVARIANTS
    HoleWatched
CHECK_DEADLOCK FALSE
