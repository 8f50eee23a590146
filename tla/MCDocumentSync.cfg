SPECIFICATION Spec
CONSTANTS
    alice = alice
    bob = bob
    carol = carol
    first = first
    second = second
    shown = shown
    beside = beside
    Client = {alice, bob, carol}
    Editor = {alice, bob}
    Opener = {}
    Reopener = {}
    Restored = {shown, beside}
    Other = {}
    Resynced = {}
    Name = {"renamed"}
    Capacity = 2
    MaxPending = 1
    MaxEdits = 3
    MaxFailures = 0
    MaxDrops = 0
    MaxAnswers = 1
    Throttle = FALSE
SYMMETRY Alike
PROPERTIES
    ObserversFollow
CHECK_DEADLOCK FALSE
