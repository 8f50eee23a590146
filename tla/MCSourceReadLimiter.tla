----------------------- MODULE MCSourceReadLimiter ------------------------
(* Four readers on a source with two permits.  Task i belongs to reader    *)
(* MCReaderOf[i]: r1 and r2 come back for a second read, the others read   *)
(* once.                                                                   *)
EXTENDS LimiterRotation, TLC

CONSTANTS r1, r2, r3, r4

MCRank == r1 :> 1 @@ r2 :> 2 @@ r3 :> 3 @@ r4 :> 4

MCTasks == 1..6

MCReaderOf == <<r1, r1, r2, r2, r3, r4>>

============================================================================
