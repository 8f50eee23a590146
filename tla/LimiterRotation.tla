-------------------------- MODULE LimiterRotation --------------------------
(***************************************************************************)
(* How far the rotation among readers of SourceReadLimiter goes.  A        *)
(* history variable records, beside the limiter's own steps, who was given *)
(* a permit while somebody else went without.                              *)
(***************************************************************************)
EXTENDS SourceReadLimiter

VARIABLE overtaken   \* overtaken[r][s]: permits given to s since r's turn began

rotationVars == <<vars, overtaken>>

RotationInit ==
    /\ Init
    /\ overtaken = [r \in Reader |-> [s \in Reader |-> 0]]

(* r waits and has nothing in flight: the limiter owes it a turn. *)
Owed(r) == waiters[r] # <<>> /\ inFlight[r] = 0

(* A turn begins when r comes to be owed, and again when it is stamped. *)
SameTurn(r) == Owed(r) /\ Owed(r)' /\ lastGranted'[r] = lastGranted[r]

Given(s) == inFlight'[s] > inFlight[s]

RotationNext ==
    /\ Next
    /\ overtaken' = [r \in Reader |-> [s \in Reader |->
                       CASE ~SameTurn(r) -> 0
                         [] SameTurn(r) /\ s # r /\ Given(s) -> overtaken[r][s] + 1
                         [] OTHER -> overtaken[r][s]]]

RotationSpec == RotationInit /\ [][RotationNext]_rotationVars

RotationFairSpec == RotationSpec /\ Fairness

(* Bounded bypass: while a reader waits with nothing in flight, no other   *)
(* reader is given more than one permit ahead of it, however often the     *)
(* other is pruned and reappears: the leapfrog the comment in reader_mut   *)
(* rules out.                                                              *)
OvertakenOnce == \A r, s \in Reader : overtaken[r][s] <= 1

============================================================================
