------------------------------ MODULE FairPool ------------------------------
(***************************************************************************)
(* What the read limiter promises its callers                              *)
(* (src/lucida-store/src/source_limiter.rs, the module's own description): *)
(* a pool of permits in which nobody is parked while a permit is free, and *)
(* a permit that comes back goes to a parked read whose reader holds the   *)
(* fewest.  There is no counter, no queue and no hand-off here: a read is  *)
(* somewhere, and what may happen next depends on that alone.              *)
(***************************************************************************)
EXTENDS Naturals, FiniteSets

CONSTANTS Reader, Task, ReaderOf, TotalPermits

VARIABLE place    \* where each read is

Place == {"away", "parked", "owner", "gone"}

Init == place = [t \in Task |-> "away"]

Owners == {t \in Task : place[t] = "owner"}
Parked == {t \in Task : place[t] = "parked"}

\* The permits out on behalf of a reader.
Share(r) == Cardinality({t \in Owners : ReaderOf[t] = r})

Full == Cardinality(Owners) = TotalPermits

Move(t, from, to) == place[t] = from /\ place' = [place EXCEPT ![t] = to]

\* A read parks only when every permit is out.
Park(t) == Full /\ Move(t, "away", "parked")

\* A read that arrives is served at once, if nobody is parked.
Serve(t) == ~Full /\ Parked = {} /\ Move(t, "away", "owner")

\* A parked read is granted a free permit: no parked read has a reader that
\* holds less.
Grant(t) ==
    /\ ~Full
    /\ \A u \in Parked : Share(ReaderOf[t]) <= Share(ReaderOf[u])
    /\ Move(t, "parked", "owner")

GiveBack(t) == Move(t, "owner", "gone")

Withdraw(t) == Move(t, "parked", "gone")

Next == \E t \in Task : Park(t) \/ Serve(t) \/ Grant(t) \/ GiveBack(t) \/ Withdraw(t)

Spec == Init /\ [][Next]_place
=============================================================================
