SPECIFICATION RaceSpec
CONSTANTS
    alice = alice
    bob = bob
    Conn = {alice, bob}
    Instance = {1, 2}
    MaxEdits = 2
    MaxFailures = 1
    MaxArchives = 1
    MaxCrashes = 1
INVARIANTS
    StoredIsRight
PROPERTIES
    RegistryIsSound
    IdleIsEvicted
