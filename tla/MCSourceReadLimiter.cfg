SPECIFICATION RotationFairSpec
CONSTANTS
    r1 = r1
    r2 = r2
    r3 = r3
    r4 = r4
    Reader = {r1, r2, r3, r4}
    Task <- MCTasks
    ReaderOf <- MCReaderOf
    Rank <- MCRank
    TotalPermits = 2
INVARIANTS
    TypeOK
    BooksBalance
    NoIdlePermit
    OvertakenOnce
PROPERTIES
    FairShare
    EveryWaiterServed
    ImplementsFairPool
CHECK_DEADLOCK FALSE
