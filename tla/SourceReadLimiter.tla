------------------------ MODULE SourceReadLimiter -------------------------
(***************************************************************************)
(* The fair permit pool in front of one data source                        *)
(* (src/lucida-store/src/source_limiter.rs).                               *)
(*                                                                         *)
(* A task is one call of `acquire`, on behalf of the reader ReaderOf[t],   *)
(* followed by the drop of the permit it obtained.  The mutex around State *)
(* makes every critical section one step, with one exception: the hand-off *)
(* loop of `release`.  A waiter is cancelled by dropping its receiver,     *)
(* which takes no lock, so cancellations interleave with the iterations of *)
(* that loop; `handing` says that a releasing thread is inside it and      *)
(* holds the mutex.                                                        *)
(***************************************************************************)
EXTENDS Naturals, Sequences, FiniteSets

CONSTANTS
    Reader,        \* reader ids, ordered by Rank
    Task,          \* calls of acquire
    ReaderOf,      \* the reader each call names
    Rank,          \* the integer inside a ReaderId: the last tie-break
    TotalPermits   \* argument of SourceReadLimiter::new

ASSUME TaskAssumption == ReaderOf \in [Task -> Reader] /\ IsFiniteSet(Task)

ASSUME RankAssumption ==
    /\ Rank \in [Reader -> Nat]
    /\ \A r, s \in Reader : Rank[r] = Rank[s] => r = s

ASSUME PermitsAssumption == TotalPermits \in Nat

VARIABLES
    available,    \* State::available
    granted,      \* State::granted
    tracked,      \* the keys of State::readers
    inFlight,     \* ReaderState::in_flight    (0 while untracked)
    waiters,      \* ReaderState::waiters      (empty while untracked)
    lastGranted,  \* ReaderState::last_granted (0 while untracked)
    handing,      \* a thread is inside the loop of release
    pc            \* where each task is

vars == <<available, granted, tracked, inFlight, waiters, lastGranted,
          handing, pc>>

(***************************************************************************)
(* "idle": acquire not called yet.  "waiting": parked on its receiver.     *)
(* "handed": the permit is in the oneshot channel, the task has not run    *)
(* since.  "holding": acquire returned.  "released": the permit was        *)
(* dropped.  "cancelled": the future was dropped while parked.             *)
(***************************************************************************)
TaskState == {"idle", "waiting", "handed", "holding", "released", "cancelled"}

Init ==
    /\ available = TotalPermits
    /\ granted = 0
    /\ tracked = {}
    /\ inFlight = [r \in Reader |-> 0]
    /\ waiters = [r \in Reader |-> <<>>]
    /\ lastGranted = [r \in Reader |-> 0]
    /\ handing = FALSE
    /\ pc = [t \in Task |-> "idle"]

----------------------------------------------------------------------------
(* Mutant: an unknown reader starts at 0. *)
EnteringAtZero(r) == IF r \in tracked THEN lastGranted[r] ELSE 0

(* State::reader_mut on an entry about to get a waiter: a reader that is   *)
(* not tracked enters at the current mark, as if it had just been served.  *)
Entering(r) == IF r \in tracked THEN lastGranted[r] ELSE granted

(* State::admit: charge one permit to r. *)
Admit(r) ==
    /\ available' = available - 1
    /\ granted' = granted + 1
    /\ tracked' = tracked \union {r}
    /\ inFlight' = [inFlight EXCEPT ![r] = @ + 1]
    /\ lastGranted' = [lastGranted EXCEPT ![r] = granted + 1]

(* Mutant: prune forgets that a reader with queued senders wants something. *)
PruneWanting(r, mark) ==
    IF inFlight'[r] = 0
    THEN /\ tracked' = tracked \ {r}
         /\ lastGranted' = [lastGranted EXCEPT ![r] = 0]
    ELSE /\ tracked' = tracked
         /\ lastGranted' = [lastGranted EXCEPT ![r] = mark]

(* State::prune: forget r if it is left holding nothing and wanting        *)
(* nothing.                                                                *)
Prune(r, mark) ==
    IF inFlight'[r] = 0 /\ waiters'[r] = <<>>
    THEN /\ tracked' = tracked \ {r}
         /\ lastGranted' = [lastGranted EXCEPT ![r] = 0]
    ELSE /\ tracked' = tracked
         /\ lastGranted' = [lastGranted EXCEPT ![r] = mark]

(* Mutant: the rotation looks only at who was served longest ago. *)
BeforeByStampOnly(r, s) ==
    \/ lastGranted[r] < lastGranted[s]
    \/ lastGranted[r] = lastGranted[s] /\ Rank[r] < Rank[s]

(* The key neediest_waiting_reader minimises, compared lexicographically.  *)
Before(r, s) ==
    \/ inFlight[r] < inFlight[s]
    \/ /\ inFlight[r] = inFlight[s]
       /\ lastGranted[r] < lastGranted[s]
    \/ /\ inFlight[r] = inFlight[s]
       /\ lastGranted[r] = lastGranted[s]
       /\ Rank[r] < Rank[s]

Waiting == {r \in tracked : waiters[r] # <<>>}

(* State::neediest_waiting_reader *)
Neediest(r) == r \in Waiting /\ \A s \in Waiting \ {r} : Before(r, s)

----------------------------------------------------------------------------
(* Mutant: the fast path does not look at what is available. *)
AcquireUnchecked(t) ==
    /\ pc[t] = "idle"
    /\ ~handing
    /\ Admit(ReaderOf[t])
    /\ pc' = [pc EXCEPT ![t] = "holding"]
    /\ UNCHANGED <<waiters, handing>>

(* acquire, a permit is free: admitted on the spot. *)
AcquireNow(t) ==
    /\ pc[t] = "idle"
    /\ ~handing
    /\ available > 0
    /\ Admit(ReaderOf[t])
    /\ pc' = [pc EXCEPT ![t] = "holding"]
    /\ UNCHANGED <<waiters, handing>>

(* Mutant: a read that found no permit queues without taking the lock. *)
AcquireWaitUnlocked(t) ==
    /\ pc[t] = "idle"
    /\ available = 0 \/ handing
    /\ waiters' = [waiters EXCEPT ![ReaderOf[t]] = Append(@, t)]
    /\ tracked' = tracked \union {ReaderOf[t]}
    /\ lastGranted' = [lastGranted EXCEPT ![ReaderOf[t]] = Entering(ReaderOf[t])]
    /\ pc' = [pc EXCEPT ![t] = "waiting"]
    /\ UNCHANGED <<available, granted, inFlight, handing>>

(* acquire, no permit is free: queue a sender and park on its receiver. *)
AcquireWait(t) ==
    /\ pc[t] = "idle"
    /\ ~handing
    /\ available = 0
    /\ waiters' = [waiters EXCEPT ![ReaderOf[t]] = Append(@, t)]
    /\ tracked' = tracked \union {ReaderOf[t]}
    /\ lastGranted' = [lastGranted EXCEPT ![ReaderOf[t]] = Entering(ReaderOf[t])]
    /\ pc' = [pc EXCEPT ![t] = "waiting"]
    /\ UNCHANGED <<available, granted, inFlight, handing>>

(* The parked task runs and takes the permit out of its channel. *)
Receive(t) ==
    /\ pc[t] = "handed"
    /\ pc' = [pc EXCEPT ![t] = "holding"]
    /\ UNCHANGED <<available, granted, tracked, inFlight, waiters,
                   lastGranted, handing>>

(* The future is dropped while parked: its sender stays queued, dead. *)
CancelWaiting(t) ==
    /\ pc[t] = "waiting"
    /\ pc' = [pc EXCEPT ![t] = "cancelled"]
    /\ UNCHANGED <<available, granted, tracked, inFlight, waiters,
                   lastGranted, handing>>

(* The permit of t goes back to the pool and its reader is uncharged. *)
Returned(t) ==
    /\ pc[t] \in {"holding", "handed"}
    /\ ~handing
    /\ available' = available + 1
    /\ inFlight' = [inFlight EXCEPT ![ReaderOf[t]] = @ - 1]
    /\ waiters' = waiters
    /\ Prune(ReaderOf[t], lastGranted[ReaderOf[t]])
    /\ pc' = [pc EXCEPT ![t] = "released"]
    /\ granted' = granted

(* Mutant: a returned permit is not offered to anyone. *)
ReleaseSilently(t) == Returned(t) /\ UNCHANGED handing

(* Drop of a SourcePermit, up to the hand-off loop of release.  The permit *)
(* of a "handed" task is dropped with its channel when the task is         *)
(* cancelled before it runs.                                               *)
Release(t) == Returned(t) /\ handing' = TRUE

(* The head of one iteration: the loop offers the free permit to the       *)
(* neediest reader and pops its first sender.                              *)
Offered(r) ==
    /\ handing
    /\ available > 0
    /\ Neediest(r)
    /\ waiters' = [waiters EXCEPT ![r] = Tail(@)]

(* One iteration: the receiver is alive, the send succeeds, break. *)
HandOver(r) ==
    /\ Offered(r)
    /\ pc[Head(waiters[r])] = "waiting"
    /\ Admit(r)
    /\ pc' = [pc EXCEPT ![Head(waiters[r])] = "handed"]
    /\ handing' = FALSE

(* Mutants of the branch for a dead receiver: the permit is not put back,  *)
(* the reader stays charged, the loop stops at the first dead receiver.    *)
SkipDeadKeepsPermit(r) ==
    /\ Offered(r)
    /\ pc[Head(waiters[r])] # "waiting"
    /\ available' = available - 1
    /\ granted' = granted + 1
    /\ inFlight' = inFlight
    /\ Prune(r, granted + 1)
    /\ UNCHANGED <<handing, pc>>

SkipDeadKeepsCharge(r) ==
    /\ Offered(r)
    /\ pc[Head(waiters[r])] # "waiting"
    /\ granted' = granted + 1
    /\ inFlight' = [inFlight EXCEPT ![r] = @ + 1]
    /\ Prune(r, granted + 1)
    /\ UNCHANGED <<available, handing, pc>>

SkipDeadOnce(r) ==
    /\ Offered(r)
    /\ pc[Head(waiters[r])] # "waiting"
    /\ granted' = granted + 1
    /\ inFlight' = inFlight
    /\ Prune(r, granted + 1)
    /\ handing' = FALSE
    /\ UNCHANGED <<available, pc>>

(* One iteration: the receiver is gone, the send gives the permit back.    *)
(* admit is undone, except that the mark and the reader's stamp of it stay *)
(* advanced.                                                               *)
SkipDead(r) ==
    /\ Offered(r)
    /\ pc[Head(waiters[r])] # "waiting"
    /\ granted' = granted + 1
    /\ inFlight' = inFlight
    /\ Prune(r, granted + 1)
    /\ UNCHANGED <<available, handing, pc>>

(* The loop ends without a taker: the permit stays available. *)
NoTaker ==
    /\ handing
    /\ available = 0 \/ Waiting = {}
    /\ handing' = FALSE
    /\ UNCHANGED <<available, granted, tracked, inFlight, waiters,
                   lastGranted, pc>>

----------------------------------------------------------------------------
HandOff == NoTaker \/ \E r \in Reader : HandOver(r) \/ SkipDead(r)

Next ==
    \/ \E t \in Task :
          \/ AcquireNow(t)
          \/ AcquireWait(t)
          \/ Receive(t)
          \/ CancelWaiting(t)
          \/ Release(t)
    \/ NoTaker
    \/ \E r \in Reader : HandOver(r) \/ SkipDead(r)

(***************************************************************************)
(* Fairness.  A thread inside the loop keeps running, a task that was      *)
(* woken is polled, and a backend read ends (it succeeds, fails, times out *)
(* or is cancelled), so its permit is dropped.  Nothing forces anyone to   *)
(* acquire or to cancel.                                                   *)
(***************************************************************************)
Fairness ==
    /\ WF_vars(HandOff)
    /\ \A t \in Task : WF_vars(Receive(t)) /\ WF_vars(Release(t))

Spec == Init /\ [][Next]_vars

FairSpec == Spec /\ Fairness

----------------------------------------------------------------------------
(* The tasks a permit is charged for: in their hands or in their channel.  *)
Held == {t \in Task : pc[t] \in {"holding", "handed"}}

HeldBy(r) == {t \in Held : ReaderOf[t] = r}

(* Every variable has the type of the Rust field it models, and a reader   *)
(* that is not in the map carries no state.                                *)
TypeOK ==
    /\ available \in 0..TotalPermits
    /\ granted \in Nat
    /\ tracked \subseteq Reader
    /\ inFlight \in [Reader -> Nat]
    /\ waiters \in [Reader -> Seq(Task)]
    /\ lastGranted \in [Reader -> Nat]
    /\ handing \in BOOLEAN
    /\ pc \in [Task -> TaskState]

(* Permits are neither lost nor minted, whatever is cancelled and whenever *)
(* (the accounting of admit, release and the undo in the hand-off loop):   *)
(* what is available and what is held always add up to the cap.            *)
PermitsConserved == available + Cardinality(Held) = TotalPermits

(* Each reader is charged for exactly the permits out on its behalf, and   *)
(* a held permit keeps its reader tracked: the expect in release (line     *)
(* 157) never fires and in_flight never underflows.                        *)
ChargedToHolder ==
    /\ \A r \in Reader : inFlight[r] = Cardinality(HeldBy(r))
    /\ \A t \in Held : ReaderOf[t] \in tracked

(* "A cancelled read cannot swallow a permit": outside the hand-off loop   *)
(* no live waiter is parked while a permit is free.                        *)
NoIdlePermit ==
    (~handing /\ \E t \in Task : pc[t] = "waiting") => available = 0

(* A reader is in the map exactly while it holds permits or has senders    *)
(* queued, so an entry is never leaked and never dropped early by prune.   *)
TrackedExactly ==
    \A r \in Reader : r \in tracked <=> inFlight[r] > 0 \/ waiters[r] # <<>>

(* The books balance after every acquire, release and cancellation:        *)
(* permits, charges and the map of readers agree.                          *)
BooksBalance == PermitsConserved /\ ChargedToHolder /\ TrackedExactly

(* Fair share: while a reader has a live read parked, no step gives a      *)
(* permit to a reader that holds more than it does, neither the hand-off   *)
(* nor the fast path of acquire.                                           *)
FairShareStep ==
    \A r, s \in Reader :
        /\ \E t \in Task : ReaderOf[t] = s /\ pc[t] = "waiting"
        /\ inFlight'[r] > inFlight[r]
        => inFlight[r] <= inFlight[s]

FairShare == [][FairShareStep]_vars

(* Every read that stays parked is eventually given a permit: the wakeup   *)
(* is never lost and no reader is starved.                                 *)
EveryWaiterServed ==
    \A t \in Task : pc[t] = "waiting" ~> pc[t] # "waiting" /\ pc[t] # "handed"

(* The doc of tracked_readers (lines 104-106): "Readers are dropped as     *)
(* soon as they hold nothing and want nothing, so this stays proportional  *)
(* to live demand".  Every tracked reader has a live read.                 *)
TracksLiveDemand ==
    ~handing => \A r \in tracked : \E t \in Task :
        ReaderOf[t] = r /\ pc[t] \in {"waiting", "handed", "holding"}

(* Where a read is, as its caller sees it: a permit in the channel is the  *)
(* read's own, and a dead sender in a queue is nobody's.                   *)
Placed ==
    [t \in Task |->
        IF pc[t] = "idle" THEN "away"
        ELSE IF pc[t] = "waiting" THEN "parked"
        ELSE IF pc[t] \in {"holding", "handed"} THEN "owner"
        ELSE "gone"]

Pool == INSTANCE FairPool WITH place <- Placed

(* The limiter implements the fair pool: counters, queues with dead        *)
(* senders, the rotation and the hand-off loop (acquire, release) allow    *)
(* nothing that the pool does not.                                         *)
ImplementsFairPool == Pool!Spec

============================================================================
