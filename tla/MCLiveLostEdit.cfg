SPECIFICATION RaceSpec
CONSTANTS
    alice = alice
    bob = bob
    Conn = {alice, bob}
    Instance = {1, 2}
    MaxEdits = 2
    MaxFailures = 0
    MaxArchives = 0
    MaxCrashes = 0
INVARIANTS
    AckedIsDurable
