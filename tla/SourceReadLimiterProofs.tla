--------------------- MODULE SourceReadLimiterProofs ----------------------
(* Proofs about SourceReadLimiter for every set of readers, every finite   *)
(* set of reads and every number of permits.                               *)
EXTENDS LimiterRotation, FiniteSetTheorems, SequenceTheorems, TLAPS

(* Queued senders belong to the reader they are queued under, each read is *)
(* queued at most once, and a queued read is parked or gone.               *)
QueuedOnce ==
    \A r \in Reader :
        /\ \A i \in 1..Len(waiters[r]) :
              /\ ReaderOf[waiters[r][i]] = r
              /\ pc[waiters[r][i]] \in {"waiting", "cancelled"}
        /\ \A i, j \in 1..Len(waiters[r]) :
              waiters[r][i] = waiters[r][j] => i = j

(* A parked read has its sender in the queue of its reader. *)
ParkedIsQueued ==
    \A t \in Task : pc[t] = "waiting" =>
        \E i \in 1..Len(waiters[ReaderOf[t]]) : waiters[ReaderOf[t]][i] = t

(* Senders, live or dead, are queued only while no permit is free, but for *)
(* the one permit the hand-off loop is offering.                           *)
QueuedMeansTaken ==
    /\ \A r \in Reader : waiters[r] # <<>> => available = IF handing THEN 1 ELSE 0
    /\ handing => available > 0

(* The inductive invariant.  Conservation needs the queue facts: the head  *)
(* handed a permit was not holding one already.  NoIdlePermit needs that   *)
(* dead senders, too, are only queued while no permit is free.             *)
IInv ==
    /\ TypeOK
    /\ QueuedOnce
    /\ ParkedIsQueued
    /\ QueuedMeansTaken
    /\ PermitsConserved
    /\ ChargedToHolder
    /\ TrackedExactly

----------------------------------------------------------------------------
(* Held and its per-reader parts are finite sets. *)
LEMMA HeldFinite ==
    /\ IsFiniteSet(Held)
    /\ Cardinality(Held) \in Nat
    /\ \A r : IsFiniteSet(HeldBy(r)) /\ Cardinality(HeldBy(r)) \in Nat
<1>1. Held \in SUBSET Task
  BY Zenon DEF Held
<1>2. IsFiniteSet(Held)
  BY Zenon, <1>1, FS_Subset, TaskAssumption
<1>3. \A r : HeldBy(r) \in SUBSET Held
  BY Zenon DEF HeldBy
<1>4. \A r : IsFiniteSet(HeldBy(r))
  BY Zenon, <1>2, <1>3, FS_Subset
<1> QED
  BY Zenon, <1>2, <1>4, FS_CardinalityType

(* A read that comes to hold a permit adds one to the count of all permits *)
(* out and to the count of its reader, and to no other.                    *)
LEMMA HeldGrows ==
    ASSUME NEW t \in Task, pc \in [Task -> TaskState],
           pc[t] \notin {"holding", "handed"},
           NEW x \in {"holding", "handed"},
           pc' = [pc EXCEPT ![t] = x]
    PROVE  /\ Cardinality(Held') = Cardinality(Held) + 1
           /\ \A r \in Reader : Cardinality(HeldBy(r)') =
                 IF r = ReaderOf[t] THEN Cardinality(HeldBy(r)) + 1
                                    ELSE Cardinality(HeldBy(r))
           /\ \A u \in Task : u \in Held' <=> u \in Held \/ u = t
<1>1. Held' = Held \cup {t} /\ t \notin Held
  BY Zenon DEF Held
<1>2. \A r \in Reader : HeldBy(r)' = IF r = ReaderOf[t] THEN HeldBy(r) \cup {t} ELSE HeldBy(r)
  BY Zenon, <1>1 DEF HeldBy
<1>3. \A r \in Reader : t \notin HeldBy(r)
  BY Zenon, <1>1 DEF HeldBy
<1>4. Cardinality(Held') = Cardinality(Held) + 1
  BY Zenon, <1>1, HeldFinite, FS_AddElement
<1>5. \A r \in Reader : Cardinality(HeldBy(r) \cup {t}) = Cardinality(HeldBy(r)) + 1
  BY Zenon, <1>3, HeldFinite, FS_AddElement
<1> QED
  BY Zenon, <1>1, <1>2, <1>4, <1>5

(* A read that drops its permit takes one away from both counts. *)
LEMMA HeldShrinks ==
    ASSUME NEW t \in Task, pc \in [Task -> TaskState],
           pc[t] \in {"holding", "handed"},
           pc' = [pc EXCEPT ![t] = "released"]
    PROVE  /\ Cardinality(Held') = Cardinality(Held) - 1
           /\ \A r \in Reader : Cardinality(HeldBy(r)') =
                 IF r = ReaderOf[t] THEN Cardinality(HeldBy(r)) - 1
                                    ELSE Cardinality(HeldBy(r))
           /\ \A u \in Task : u \in Held' <=> u \in Held /\ u # t
           /\ Cardinality(HeldBy(ReaderOf[t])) > 0
           /\ Cardinality(Held) > 0
<1>1. Held' = Held \ {t} /\ t \in Held
  BY Zenon DEF Held
<1>2. \A r \in Reader : HeldBy(r)' = IF r = ReaderOf[t] THEN HeldBy(r) \ {t} ELSE HeldBy(r)
  BY Zenon, <1>1 DEF HeldBy
<1>3. t \in HeldBy(ReaderOf[t])
  BY Zenon, <1>1 DEF HeldBy
<1>4. Cardinality(Held') = Cardinality(Held) - 1
  BY Zenon, <1>1, HeldFinite, FS_RemoveElement
<1>5. Cardinality(HeldBy(ReaderOf[t]) \ {t}) = Cardinality(HeldBy(ReaderOf[t])) - 1
  BY Zenon, <1>3, HeldFinite, FS_RemoveElement
<1>6. Cardinality(HeldBy(ReaderOf[t])) # 0 /\ Cardinality(Held) # 0
  BY Zenon, <1>1, <1>3, HeldFinite, FS_EmptySet
<1>7. Cardinality(HeldBy(ReaderOf[t])) > 0 /\ Cardinality(Held) > 0
  BY <1>6, HeldFinite
<1> QED
  BY Zenon, <1>1, <1>2, <1>4, <1>5, <1>7

(* Steps that move no permit leave the counts alone. *)
LEMMA HeldSame ==
    ASSUME pc \in [Task -> TaskState], pc' \in [Task -> TaskState],
           \A u \in Task : pc'[u] \in {"holding", "handed"}
                             <=> pc[u] \in {"holding", "handed"}
    PROVE  Held' = Held /\ \A r : HeldBy(r)' = HeldBy(r)
<1>1. Held' = Held
  BY Zenon DEF Held
<1> QED
  BY Zenon, <1>1 DEF HeldBy

----------------------------------------------------------------------------
(* Initially nothing is out, queued or tracked. *)
LEMMA InitIInv == Init => IInv
<1> SUFFICES ASSUME Init PROVE IInv
  BY Zenon
<1>1. Held = {} /\ \A r : HeldBy(r) = {}
  BY Zenon DEF Init, Held, HeldBy
<1>2. Cardinality(Held) = 0 /\ \A r : Cardinality(HeldBy(r)) = 0
  BY Zenon, <1>1, FS_EmptySet
<1>3. PermitsConserved
  BY <1>2, PermitsAssumption DEF Init, PermitsConserved
<1>4. ChargedToHolder
  BY Zenon, <1>1, <1>2 DEF Init, ChargedToHolder
<1>5. TypeOK
  <2>1. waiters \in [Reader -> Seq(Task)]
    BY Zenon, EmptySeq DEF Init
  <2>2. available \in 0..TotalPermits
    BY PermitsAssumption DEF Init
  <2> QED
    BY Zenon, <2>1, <2>2 DEF Init, TypeOK, TaskState
<1>6. QueuedOnce /\ ParkedIsQueued /\ QueuedMeansTaken /\ TrackedExactly
  BY TaskAssumption DEF Init, QueuedOnce, ParkedIsQueued, QueuedMeansTaken, TrackedExactly
<1> QED
  BY Zenon, <1>3, <1>4, <1>5, <1>6 DEF IInv

(* acquire on the fast path preserves the invariant. *)
LEMMA AcquireNowIInv ==
    ASSUME IInv, NEW t \in Task, AcquireNow(t)
    PROVE  IInv'
<1> USE TaskAssumption, PermitsAssumption DEF IInv, AcquireNow, Admit
<1>1. ReaderOf[t] \in Reader /\ pc[t] = "idle"
  BY Zenon
<1>2. /\ Cardinality(Held') = Cardinality(Held) + 1
      /\ \A r \in Reader : Cardinality(HeldBy(r)') =
            IF r = ReaderOf[t] THEN Cardinality(HeldBy(r)) + 1
                               ELSE Cardinality(HeldBy(r))
      /\ \A u \in Task : u \in Held' <=> u \in Held \/ u = t
  BY Zenon, HeldGrows, <1>1 DEF TypeOK
<1>3. TypeOK'
  BY <1>1 DEF TypeOK, TaskState
<1>4. PermitsConserved'
  BY <1>2, HeldFinite DEF TypeOK, PermitsConserved
<1>5. ChargedToHolder'
  BY Zenon, <1>1, <1>2, HeldFinite DEF TypeOK, ChargedToHolder, Held
<1>6. QueuedOnce' /\ ParkedIsQueued'
  <2>1. \A r \in Reader : \A i \in 1..Len(waiters[r]) : waiters[r][i] \in Task
    BY Zenon, ElementOfSeq DEF TypeOK
  <2>2. waiters' = waiters /\ pc' = [pc EXCEPT ![t] = "holding"] /\ pc \in [Task -> TaskState]
    BY Zenon DEF TypeOK
  <2>3. QueuedOnce'
    BY <1>1, <2>1, <2>2 DEF QueuedOnce
  <2>4. ParkedIsQueued'
    BY Zenon, <1>1, <2>2 DEF ParkedIsQueued
  <2> QED
    BY Zenon, <2>3, <2>4
<1>7. QueuedMeansTaken'
  BY <1>1 DEF TypeOK, QueuedMeansTaken
<1>8. TrackedExactly'
  BY <1>1 DEF TypeOK, TrackedExactly
<1> QED
  BY Zenon, <1>3, <1>4, <1>5, <1>6, <1>7, <1>8

(* acquire when it has to queue preserves the invariant. *)
LEMMA AcquireWaitIInv ==
    ASSUME IInv, NEW t \in Task, AcquireWait(t)
    PROVE  IInv'
<1> DEFINE me == ReaderOf[t]
           q == waiters[me]
<1>1. /\ me \in Reader /\ pc[t] = "idle"
      /\ pc' = [pc EXCEPT ![t] = "waiting"] /\ pc \in [Task -> TaskState]
      /\ ReaderOf \in [Task -> Reader]
  BY Zenon, TaskAssumption DEF AcquireWait, IInv, TypeOK
<1>2. TypeOK'
  BY <1>1, PermitsAssumption DEF IInv, AcquireWait, TypeOK, TaskState, Entering
<1>3. Held' = Held /\ \A r : HeldBy(r)' = HeldBy(r)
  BY Zenon, <1>1, <1>2, HeldSame DEF TypeOK
<1>4. PermitsConserved' /\ ChargedToHolder'
  BY Zenon, <1>1, <1>3 DEF IInv, AcquireWait, TypeOK, PermitsConserved, ChargedToHolder
<1>5. \A r \in Reader \ {me} : waiters'[r] = waiters[r]
  BY Zenon, <1>1 DEF IInv, AcquireWait, TypeOK
<1>6. /\ q \in Seq(Task) /\ Len(q) \in Nat
      /\ waiters'[me] # <<>>
      /\ Len(waiters'[me]) = Len(q) + 1
      /\ waiters'[me][Len(q) + 1] = t
      /\ \A i \in 1..Len(q) : waiters'[me][i] = q[i]
  <2>1. q \in Seq(Task) /\ waiters'[me] = Append(q, t)
    BY Zenon, <1>1 DEF IInv, AcquireWait, TypeOK
  <2> HIDE DEF q
  <2> QED
    BY <2>1, AppendProperties, LenProperties
<1>7. \A r \in Reader : \A i \in 1..Len(waiters[r]) : waiters[r][i] # t /\ waiters[r][i] \in Task
  <2>1. \A r \in Reader : \A i \in 1..Len(waiters[r]) : waiters[r][i] \in Task
    BY Zenon, ElementOfSeq DEF IInv, TypeOK
  <2> QED
    BY Zenon, <1>1, <2>1 DEF IInv, QueuedOnce
<1>8. QueuedOnce'
  <2> SUFFICES ASSUME NEW r \in Reader
               PROVE  /\ \A i \in 1..Len(waiters'[r]) :
                            /\ ReaderOf[waiters'[r][i]] = r
                            /\ pc'[waiters'[r][i]] \in {"waiting", "cancelled"}
                      /\ \A i, j \in 1..Len(waiters'[r]) :
                            waiters'[r][i] = waiters'[r][j] => i = j
    BY Zenon DEF QueuedOnce
  <2>1. CASE r = me
    <3>1. \A i \in 1..Len(waiters'[r]) : i \in 1..Len(q) \/ i = Len(q) + 1
      BY <1>6, <2>1
    <3>2. \A i \in 1..Len(q) :
             /\ ReaderOf[q[i]] = r
             /\ pc[q[i]] \in {"waiting", "cancelled"} /\ q[i] # t /\ q[i] \in Task
      BY Zenon, <1>1, <1>7, <2>1 DEF IInv, QueuedOnce
    <3>3. \A i, j \in 1..Len(q) : q[i] = q[j] => i = j
      BY Zenon, <1>1 DEF IInv, QueuedOnce
    <3> HIDE DEF q, me
    <3>4. \A i \in 1..Len(waiters'[r]) :
             /\ ReaderOf[waiters'[r][i]] = r
             /\ pc'[waiters'[r][i]] \in {"waiting", "cancelled"}
      <4> SUFFICES ASSUME NEW i \in 1..Len(waiters'[r])
                   PROVE  /\ ReaderOf[waiters'[r][i]] = r
                          /\ pc'[waiters'[r][i]] \in {"waiting", "cancelled"}
        BY Zenon
      <4>1. CASE i \in 1..Len(q)
        <5>1. waiters'[r][i] = q[i]
          BY Zenon, <1>6, <2>1, <4>1
        <5> QED
          BY Zenon, <1>1, <3>2, <4>1, <5>1
      <4>2. CASE i = Len(q) + 1
        <5>1. waiters'[r][i] = t
          BY Zenon, <1>6, <2>1, <4>2
        <5> QED
          BY Zenon, <1>1, <2>1, <5>1 DEF me
      <4> QED
        BY Zenon, <3>1, <4>1, <4>2
    <3>5. \A i, j \in 1..Len(waiters'[r]) : waiters'[r][i] = waiters'[r][j] => i = j
      BY <1>6, <2>1, <3>1, <3>2, <3>3
    <3> QED
      BY Zenon, <3>4, <3>5
  <2>2. CASE r # me
    BY SMTT(30), <1>1, <1>5, <1>7, <2>2 DEF IInv, QueuedOnce
  <2> QED
    BY Zenon, <2>1, <2>2
<1>9. ParkedIsQueued'
  <2> SUFFICES ASSUME NEW u \in Task, pc'[u] = "waiting"
               PROVE  \E i \in 1..Len(waiters'[ReaderOf[u]]) : waiters'[ReaderOf[u]][i] = u
    BY Zenon DEF ParkedIsQueued
  <2>1. CASE u = t
    <3>1. Len(q) + 1 \in 1..Len(waiters'[me])
      BY <1>6
    <3> QED
      BY Zenon, <1>6, <2>1, <3>1
  <2>2. CASE u # t
    <3>1. pc[u] = "waiting"
      BY Zenon, <1>1, <2>2
    <3>2. PICK i \in 1..Len(waiters[ReaderOf[u]]) : waiters[ReaderOf[u]][i] = u
      BY Zenon, <3>1 DEF IInv, ParkedIsQueued
    <3>3. CASE ReaderOf[u] = me
      BY SMTT(30), <1>6, <3>2, <3>3
    <3>4. CASE ReaderOf[u] # me
      BY Zenon, <1>1, <1>5, <3>2, <3>4
    <3> QED
      BY Zenon, <3>3, <3>4
  <2> QED
    BY Zenon, <2>1, <2>2
<1>10. QueuedMeansTaken'
  BY Zenon DEF IInv, AcquireWait, QueuedMeansTaken
<1>11. TrackedExactly'
  BY Zenon, <1>1, <1>5, <1>6 DEF IInv, AcquireWait, TypeOK, TrackedExactly
<1> QED
  BY Zenon, <1>2, <1>4, <1>8, <1>9, <1>10, <1>11 DEF IInv

(* The elements of the queues are reads. *)
LEMMA QueuedAreTasks ==
    ASSUME waiters \in [Reader -> Seq(Task)]
    PROVE  \A r \in Reader :
              /\ Len(waiters[r]) \in Nat
              /\ \A i \in 1..Len(waiters[r]) : waiters[r][i] \in Task
  BY Zenon, ElementOfSeq, LenProperties

(* Polling a woken read moves no permit. *)
LEMMA ReceiveIInv ==
    ASSUME IInv, NEW t \in Task, Receive(t)
    PROVE  IInv'
<1>1. pc[t] = "handed" /\ pc' = [pc EXCEPT ![t] = "holding"] /\ pc \in [Task -> TaskState]
  BY Zenon DEF IInv, TypeOK, Receive
<1>2. UNCHANGED <<available, granted, tracked, inFlight, waiters, lastGranted, handing>>
  BY Zenon DEF Receive
<1>3. TypeOK'
  BY Zenon, <1>1, <1>2 DEF IInv, TypeOK, TaskState
<1>4. Held' = Held /\ \A r : HeldBy(r)' = HeldBy(r)
  BY Zenon, <1>1, <1>3, HeldSame DEF TypeOK
<1>5. PermitsConserved' /\ ChargedToHolder' /\ TrackedExactly' /\ QueuedMeansTaken'
  BY Zenon, <1>2, <1>4
     DEF IInv, PermitsConserved, ChargedToHolder, TrackedExactly, QueuedMeansTaken
<1>6. QueuedOnce'
  BY <1>1, <1>2, QueuedAreTasks DEF IInv, TypeOK, QueuedOnce
<1>7. ParkedIsQueued'
  BY Zenon, <1>1, <1>2 DEF IInv, ParkedIsQueued
<1> QED
  BY Zenon, <1>3, <1>5, <1>6, <1>7 DEF IInv

(* Dropping a receiver leaves its sender queued. *)
LEMMA CancelWaitingIInv ==
    ASSUME IInv, NEW t \in Task, CancelWaiting(t)
    PROVE  IInv'
<1>1. pc[t] = "waiting" /\ pc' = [pc EXCEPT ![t] = "cancelled"] /\ pc \in [Task -> TaskState]
  BY Zenon DEF IInv, TypeOK, CancelWaiting
<1>2. UNCHANGED <<available, granted, tracked, inFlight, waiters, lastGranted, handing>>
  BY Zenon DEF CancelWaiting
<1>3. TypeOK'
  BY Zenon, <1>1, <1>2 DEF IInv, TypeOK, TaskState
<1>4. Held' = Held /\ \A r : HeldBy(r)' = HeldBy(r)
  BY Zenon, <1>1, <1>3, HeldSame DEF TypeOK
<1>5. PermitsConserved' /\ ChargedToHolder' /\ TrackedExactly' /\ QueuedMeansTaken'
  BY Zenon, <1>2, <1>4
     DEF IInv, PermitsConserved, ChargedToHolder, TrackedExactly, QueuedMeansTaken
<1>6. QueuedOnce'
  BY <1>1, <1>2, QueuedAreTasks DEF IInv, TypeOK, QueuedOnce
<1>7. ParkedIsQueued'
  BY Zenon, <1>1, <1>2 DEF IInv, ParkedIsQueued
<1> QED
  BY Zenon, <1>3, <1>5, <1>6, <1>7 DEF IInv

(* Dropping a permit puts it back before the hand-off loop runs. *)
LEMMA ReleaseIInv ==
    ASSUME IInv, NEW t \in Task, Release(t)
    PROVE  IInv'
<1> DEFINE me == ReaderOf[t]
<1>1. /\ pc[t] \in {"holding", "handed"} /\ pc' = [pc EXCEPT ![t] = "released"]
      /\ pc \in [Task -> TaskState] /\ me \in Reader /\ t \in Held
  BY Zenon, TaskAssumption DEF IInv, TypeOK, Release, Returned, Held
<1>2. /\ Cardinality(Held') = Cardinality(Held) - 1
      /\ \A r \in Reader : Cardinality(HeldBy(r)') =
            IF r = me THEN Cardinality(HeldBy(r)) - 1 ELSE Cardinality(HeldBy(r))
      /\ \A u \in Task : u \in Held' <=> u \in Held /\ u # t
      /\ Cardinality(HeldBy(me)) > 0
      /\ Cardinality(Held) > 0
  BY Zenon, <1>1, HeldShrinks
<1>3. inFlight[me] > 0 /\ available < TotalPermits
  BY <1>1, <1>2, HeldFinite, PermitsAssumption
     DEF IInv, TypeOK, ChargedToHolder, PermitsConserved
<1>4. TypeOK'
  <2>1. available' \in 0..TotalPermits /\ granted' \in Nat
    BY <1>3, PermitsAssumption DEF IInv, TypeOK, Release, Returned
  <2>2. inFlight' \in [Reader -> Nat] /\ waiters' \in [Reader -> Seq(Task)]
    BY <1>1, <1>3 DEF IInv, TypeOK, Release, Returned
  <2>3. tracked' \subseteq Reader /\ lastGranted' \in [Reader -> Nat]
    BY <1>1 DEF IInv, TypeOK, Release, Returned, Prune
  <2>4. handing' \in BOOLEAN /\ pc' \in [Task -> TaskState]
    BY Zenon, <1>1 DEF Release, Returned, TaskState
  <2> QED
    BY Zenon, <2>1, <2>2, <2>3, <2>4 DEF TypeOK
<1>5. PermitsConserved'
  BY <1>2, <1>3, HeldFinite, PermitsAssumption
     DEF IInv, TypeOK, Release, Returned, PermitsConserved
<1>6. \A r \in Reader : inFlight'[r] = Cardinality(HeldBy(r)')
  BY Zenon, <1>1, <1>2, <1>3, HeldFinite
     DEF IInv, TypeOK, Release, Returned, ChargedToHolder
<1>7. TrackedExactly'
  BY <1>1, <1>3 DEF IInv, TypeOK, Release, Returned, Prune, TrackedExactly
<1>8. \A u \in Held' : ReaderOf[u] \in tracked'
  <2> SUFFICES ASSUME NEW u \in Held' PROVE ReaderOf[u] \in tracked'
    BY Zenon
  <2>1. u \in Task /\ ReaderOf[u] \in Reader
    BY Zenon, TaskAssumption DEF Held
  <2>2. Cardinality(HeldBy(ReaderOf[u])') # 0
    <3>1. u \in HeldBy(ReaderOf[u])'
      BY Zenon DEF HeldBy
    <3>2. HeldBy(ReaderOf[u])' \subseteq Task
      BY Zenon DEF HeldBy, Held
    <3>3. IsFiniteSet(HeldBy(ReaderOf[u])')
      BY Zenon, <3>2, FS_Subset, TaskAssumption
    <3> QED
      BY Zenon, <3>1, <3>3, FS_EmptySet
  <2>3. inFlight'[ReaderOf[u]] > 0
    BY <1>4, <1>6, <2>1, <2>2 DEF TypeOK
  <2> QED
    BY Zenon, <1>7, <2>1, <2>3 DEF TrackedExactly
<1>9. ChargedToHolder'
  BY Zenon, <1>6, <1>8 DEF ChargedToHolder
<1>10. QueuedOnce'
  BY <1>1, QueuedAreTasks DEF IInv, TypeOK, Release, Returned, QueuedOnce
<1>11. ParkedIsQueued'
  BY Zenon, <1>1 DEF IInv, Release, Returned, ParkedIsQueued
<1>12. QueuedMeansTaken'
  BY PermitsAssumption DEF IInv, TypeOK, Release, Returned, QueuedMeansTaken
<1> QED
  BY Zenon, <1>4, <1>5, <1>7, <1>9, <1>10, <1>11, <1>12 DEF IInv

(* What a pop from the queue of r leaves: the rest of the queue, without   *)
(* the head, which was queued nowhere else.                                *)
LEMMA PopFacts ==
    ASSUME IInv, NEW r \in Reader, waiters[r] # <<>>,
           waiters' = [waiters EXCEPT ![r] = Tail(@)]
    PROVE  /\ Head(waiters[r]) \in Task
           /\ ReaderOf[Head(waiters[r])] = r
           /\ pc[Head(waiters[r])] \in {"waiting", "cancelled"}
           /\ waiters' \in [Reader -> Seq(Task)]
           /\ \A s \in Reader \ {r} : waiters'[s] = waiters[s]
           /\ \A s \in Reader : \A i \in 1..Len(waiters'[s]) :
                 /\ waiters'[s][i] \in Task
                 /\ waiters'[s][i] # Head(waiters[r])
                 /\ ReaderOf[waiters'[s][i]] = s
                 /\ pc[waiters'[s][i]] \in {"waiting", "cancelled"}
           /\ \A s \in Reader : \A i, j \in 1..Len(waiters'[s]) :
                 waiters'[s][i] = waiters'[s][j] => i = j
           /\ \A u \in Task : u # Head(waiters[r]) /\ pc[u] = "waiting" =>
                 \E i \in 1..Len(waiters'[ReaderOf[u]]) : waiters'[ReaderOf[u]][i] = u
<1> DEFINE q == waiters[r]
           h == Head(q)
<1>1. waiters \in [Reader -> Seq(Task)] /\ q \in Seq(Task) /\ q # <<>>
  BY Zenon DEF IInv, TypeOK
<1>2. /\ Len(q) \in Nat /\ Len(q) > 0
      /\ h = q[1] /\ h \in Task
      /\ Tail(q) \in Seq(Task)
      /\ Len(Tail(q)) = Len(q) - 1
      /\ \A i \in 1..Len(Tail(q)) : Tail(q)[i] = q[i + 1]
  <2> HIDE DEF q
  <2> QED
    BY <1>1, HeadTailProperties, EmptySeq, LenProperties DEF q
<1>3. waiters'[r] = Tail(q) /\ \A s \in Reader \ {r} : waiters'[s] = waiters[s]
  BY Zenon, <1>1
<1>4. ReaderOf[h] = r /\ pc[h] \in {"waiting", "cancelled"}
  BY <1>2 DEF IInv, QueuedOnce
<1>5. waiters' \in [Reader -> Seq(Task)]
  BY Zenon, <1>1, <1>2
<1>6. \A i \in 1..Len(Tail(q)) : i + 1 \in 1..Len(q) /\ i + 1 # 1
  BY <1>2
<1>7. ASSUME NEW s \in Reader, NEW i \in 1..Len(waiters'[s])
      PROVE  /\ waiters'[s][i] \in Task
             /\ waiters'[s][i] # h
             /\ ReaderOf[waiters'[s][i]] = s
             /\ pc[waiters'[s][i]] \in {"waiting", "cancelled"}
  <2>1. CASE s = r
    <3>1. waiters'[s][i] = q[i + 1] /\ i + 1 \in 1..Len(q) /\ i + 1 # 1 /\ 1 \in 1..Len(q)
      <4>1. i \in 1..Len(Tail(q)) /\ waiters'[s][i] = Tail(q)[i]
        BY Zenon, <1>3, <1>7, <2>1
      <4> HIDE DEF q
      <4> QED
        BY <1>2, <1>6, <4>1
    <3> QED
      BY <1>1, <1>2, <2>1, <3>1, QueuedAreTasks DEF IInv, QueuedOnce
  <2>2. CASE s # r
    <3>1. waiters'[s] = waiters[s]
      BY Zenon, <1>3, <2>2
    <3> QED
      BY <1>1, <1>4, <1>7, <2>2, <3>1, QueuedAreTasks DEF IInv, QueuedOnce
  <2> QED
    BY Zenon, <2>1, <2>2
<1>8. ASSUME NEW s \in Reader, NEW i \in 1..Len(waiters'[s]), NEW j \in 1..Len(waiters'[s]),
             waiters'[s][i] = waiters'[s][j]
      PROVE  i = j
  <2>1. CASE s = r
    <3>1. /\ waiters'[s][i] = q[i + 1] /\ i + 1 \in 1..Len(q)
          /\ waiters'[s][j] = q[j + 1] /\ j + 1 \in 1..Len(q)
      BY Zenon, <1>2, <1>3, <1>6, <1>8, <2>1
    <3>2. i + 1 = j + 1
      BY <1>8, <3>1 DEF IInv, QueuedOnce
    <3>3. i \in Int /\ j \in Int
      OBVIOUS
    <3> QED
      BY <3>2, <3>3
  <2>2. CASE s # r
    BY <1>3, <1>8, <2>2 DEF IInv, QueuedOnce
  <2> QED
    BY Zenon, <2>1, <2>2
<1>9. ASSUME NEW u \in Task, u # h, pc[u] = "waiting"
      PROVE  \E i \in 1..Len(waiters'[ReaderOf[u]]) : waiters'[ReaderOf[u]][i] = u
  <2>1. PICK i \in 1..Len(waiters[ReaderOf[u]]) : waiters[ReaderOf[u]][i] = u
    BY Zenon, <1>9 DEF IInv, ParkedIsQueued
  <2>2. CASE ReaderOf[u] = r
    <3>1. i # 1 /\ i \in 1..Len(q)
      BY Zenon, <1>2, <1>9, <2>1, <2>2
    <3>2. i - 1 \in 1..Len(Tail(q)) /\ (i - 1) + 1 = i
      BY <1>2, <3>1
    <3>3. Tail(q)[i - 1] = q[i]
      BY Zenon, <1>2, <3>2
    <3> QED
      BY Zenon, <1>3, <2>1, <2>2, <3>2, <3>3
  <2>3. CASE ReaderOf[u] # r
    BY Zenon, <1>3, <2>1, <2>3, TaskAssumption
  <2> QED
    BY Zenon, <2>2, <2>3
<1> QED
  BY Zenon, <1>2, <1>3, <1>4, <1>5, <1>7, <1>8, <1>9

(* Handing the freed permit to a live head preserves the invariant. *)
LEMMA HandOverIInv ==
    ASSUME IInv, NEW r \in Reader, HandOver(r)
    PROVE  IInv'
<1> DEFINE h == Head(waiters[r])
<1>1. waiters[r] # <<>> /\ waiters' = [waiters EXCEPT ![r] = Tail(@)]
  BY Zenon DEF HandOver, Offered, Neediest, Waiting
<1>2. /\ h \in Task /\ ReaderOf[h] = r /\ pc[h] = "waiting"
      /\ pc' = [pc EXCEPT ![h] = "handed"] /\ pc \in [Task -> TaskState]
      /\ waiters' \in [Reader -> Seq(Task)]
  BY Zenon, <1>1, PopFacts DEF IInv, TypeOK, HandOver, Offered
<1>3. /\ Cardinality(Held') = Cardinality(Held) + 1
      /\ \A s \in Reader : Cardinality(HeldBy(s)') =
            IF s = r THEN Cardinality(HeldBy(s)) + 1 ELSE Cardinality(HeldBy(s))
      /\ \A u \in Task : u \in Held' <=> u \in Held \/ u = h
  <2> HIDE DEF h
  <2> QED BY Zenon, <1>2, HeldGrows
<1>4. available = 1
  BY Zenon, <1>1 DEF IInv, HandOver, Offered, QueuedMeansTaken
<1>5. TypeOK'
  <2>1. available' \in 0..TotalPermits /\ granted' \in Nat /\ tracked' \subseteq Reader
    BY <1>4, PermitsAssumption DEF IInv, TypeOK, HandOver, Offered, Admit
  <2>2. inFlight' \in [Reader -> Nat] /\ lastGranted' \in [Reader -> Nat]
    BY DEF IInv, TypeOK, HandOver, Offered, Admit
  <2>3. handing' \in BOOLEAN /\ pc' \in [Task -> TaskState]
    BY Zenon, <1>2 DEF HandOver, Offered, TaskState
  <2> QED
    BY Zenon, <1>2, <2>1, <2>2, <2>3 DEF TypeOK
<1>6. PermitsConserved'
  BY <1>3, <1>4, HeldFinite DEF IInv, HandOver, Offered, Admit, PermitsConserved
<1>7. ChargedToHolder'
  BY Zenon, <1>2, <1>3, HeldFinite
     DEF IInv, TypeOK, HandOver, Offered, Admit, ChargedToHolder, Held
<1>8. QueuedOnce' /\ ParkedIsQueued'
  <2>1. \A s \in Reader : \A i \in 1..Len(waiters'[s]) :
           /\ waiters'[s][i] \in Task
           /\ waiters'[s][i] # Head(waiters[r])
           /\ ReaderOf[waiters'[s][i]] = s
           /\ pc[waiters'[s][i]] \in {"waiting", "cancelled"}
    BY <1>1, PopFacts, Zenon
  <2>2. \A s \in Reader : \A i, j \in 1..Len(waiters'[s]) :
           waiters'[s][i] = waiters'[s][j] => i = j
    BY <1>1, PopFacts, Zenon
  <2>3. \A u \in Task : u # Head(waiters[r]) /\ pc[u] = "waiting" =>
           \E i \in 1..Len(waiters'[ReaderOf[u]]) : waiters'[ReaderOf[u]][i] = u
    BY <1>1, PopFacts, Zenon
  <2>4. QueuedOnce'
    BY <1>2, <2>1, <2>2 DEF QueuedOnce
  <2>5. \A u \in Task : pc'[u] = "waiting" => u # Head(waiters[r]) /\ pc[u] = "waiting"
    BY Zenon, <1>2
  <2>6. ParkedIsQueued'
    BY <2>3, <2>5, Zenon DEF ParkedIsQueued
  <2> QED BY Zenon, <2>4, <2>6
<1>9. QueuedMeansTaken'
  BY SMTT(30), <1>4 DEF HandOver, Offered, Admit, QueuedMeansTaken
<1>10. TrackedExactly'
  BY SMTT(30), <1>1, PopFacts DEF IInv, TypeOK, HandOver, Offered, Admit, TrackedExactly
<1> QED
  BY Zenon, <1>5, <1>6, <1>7, <1>8, <1>9, <1>10 DEF IInv

(* Skipping a dead head moves no permit. *)
LEMMA SkipDeadIInv ==
    ASSUME IInv, NEW r \in Reader, SkipDead(r)
    PROVE  IInv'
<1>1. waiters[r] # <<>> /\ waiters' = [waiters EXCEPT ![r] = Tail(@)]
  BY Zenon DEF SkipDead, Offered, Neediest, Waiting
<1>2. /\ pc[Head(waiters[r])] # "waiting" /\ pc' = pc
      /\ available' = available /\ inFlight' = inFlight /\ handing' = handing
      /\ waiters' \in [Reader -> Seq(Task)]
  BY Zenon, <1>1, PopFacts DEF SkipDead, Offered
<1>3. Held' = Held /\ \A s : HeldBy(s)' = HeldBy(s)
  BY Zenon, <1>2, HeldSame DEF IInv, TypeOK
<1>4. TypeOK'
  BY <1>2 DEF IInv, TypeOK, SkipDead, Offered, Prune
<1>5. TrackedExactly'
  BY <1>1, <1>2, PopFacts DEF IInv, TypeOK, SkipDead, Offered, Prune, TrackedExactly
<1>6. PermitsConserved'
  BY Zenon, <1>2, <1>3 DEF IInv, PermitsConserved
<1>7. ChargedToHolder'
  <2>1. \A t \in Held : ReaderOf[t] \in Reader /\ inFlight[ReaderOf[t]] > 0
    <3> SUFFICES ASSUME NEW t \in Held PROVE ReaderOf[t] \in Reader /\ inFlight[ReaderOf[t]] > 0
      BY Zenon
    <3>1. t \in HeldBy(ReaderOf[t]) /\ ReaderOf[t] \in Reader
      BY Zenon, TaskAssumption DEF HeldBy, Held
    <3>2. Cardinality(HeldBy(ReaderOf[t])) # 0
      BY Zenon, <3>1, HeldFinite, FS_EmptySet
    <3> QED
      BY <3>1, <3>2 DEF IInv, TypeOK, ChargedToHolder
  <2> QED
    BY Zenon, <1>2, <1>3, <1>5, <2>1 DEF IInv, ChargedToHolder, TrackedExactly
<1>8. QueuedOnce' /\ ParkedIsQueued'
  <2>1. \A s \in Reader : \A i \in 1..Len(waiters'[s]) :
           /\ waiters'[s][i] \in Task
           /\ waiters'[s][i] # Head(waiters[r])
           /\ ReaderOf[waiters'[s][i]] = s
           /\ pc[waiters'[s][i]] \in {"waiting", "cancelled"}
    BY <1>1, PopFacts, Zenon
  <2>2. \A s \in Reader : \A i, j \in 1..Len(waiters'[s]) :
           waiters'[s][i] = waiters'[s][j] => i = j
    BY <1>1, PopFacts, Zenon
  <2>3. \A u \in Task : u # Head(waiters[r]) /\ pc[u] = "waiting" =>
           \E i \in 1..Len(waiters'[ReaderOf[u]]) : waiters'[ReaderOf[u]][i] = u
    BY <1>1, PopFacts, Zenon
  <2>4. QueuedOnce'
    BY Zenon, <1>2, <2>1, <2>2 DEF QueuedOnce
  <2>5. \A u \in Task : pc'[u] = "waiting" => u # Head(waiters[r]) /\ pc[u] = "waiting"
    BY Zenon, <1>2
  <2>6. ParkedIsQueued'
    BY <2>3, <2>5, Zenon DEF ParkedIsQueued
  <2> QED BY Zenon, <2>4, <2>6
<1>10. QueuedMeansTaken'
  BY <1>1, <1>2 DEF IInv, SkipDead, Offered, QueuedMeansTaken
<1> QED
  BY Zenon, <1>4, <1>5, <1>6, <1>7, <1>8, <1>10 DEF IInv

(* The loop ends without a taker only when nothing is queued. *)
LEMMA NoTakerIInv == IInv /\ NoTaker => IInv'
<1> SUFFICES ASSUME IInv, NoTaker PROVE IInv'
  BY Zenon
<1>1. /\ UNCHANGED <<available, granted, tracked, inFlight, waiters, lastGranted, pc>>
      /\ handing /\ handing' = FALSE
  BY Zenon DEF NoTaker
<1>2. \A r \in Reader : waiters[r] = <<>>
  BY DEF IInv, NoTaker, QueuedMeansTaken, Waiting, TrackedExactly
<1>3. Held' = Held /\ \A r : HeldBy(r)' = HeldBy(r)
  BY Zenon, <1>1 DEF Held, HeldBy
<1> QED
  BY ZenonT(60), <1>1, <1>2, <1>3 DEF IInv, TypeOK, QueuedOnce, ParkedIsQueued, QueuedMeansTaken,
     PermitsConserved, ChargedToHolder, TrackedExactly

----------------------------------------------------------------------------
(* Every step preserves the inductive invariant. *)
LEMMA StepIInv == IInv /\ [Next]_vars => IInv'
<1> SUFFICES ASSUME IInv, [Next]_vars PROVE IInv'
  BY Zenon
<1>1. ASSUME NEW t \in Task, AcquireNow(t) PROVE IInv'
  BY Zenon, <1>1, AcquireNowIInv
<1>2. ASSUME NEW t \in Task, AcquireWait(t) PROVE IInv'
  BY Zenon, <1>2, AcquireWaitIInv
<1>3. ASSUME NEW t \in Task, Receive(t) PROVE IInv'
  BY Zenon, <1>3, ReceiveIInv
<1>4. ASSUME NEW t \in Task, CancelWaiting(t) PROVE IInv'
  BY Zenon, <1>4, CancelWaitingIInv
<1>5. ASSUME NEW t \in Task, Release(t) PROVE IInv'
  BY Zenon, <1>5, ReleaseIInv
<1>6. ASSUME NEW r \in Reader, HandOver(r) PROVE IInv'
  BY Zenon, <1>6, HandOverIInv
<1>7. ASSUME NEW r \in Reader, SkipDead(r) PROVE IInv'
  BY Zenon, <1>7, SkipDeadIInv
<1>8. CASE NoTaker
  BY Zenon, <1>8, NoTakerIInv
<1>9. CASE UNCHANGED vars
  BY <1>9 DEF vars, IInv, TypeOK, QueuedOnce, ParkedIsQueued, QueuedMeansTaken,
     PermitsConserved, ChargedToHolder, TrackedExactly, Held, HeldBy
<1> QED
  BY Zenon, <1>1, <1>2, <1>3, <1>4, <1>5, <1>6, <1>7, <1>8, <1>9 DEF Next

(* IInv is an invariant of the limiter. *)
THEOREM Inductive == Spec => []IInv
  BY InitIInv, StepIInv, PTL DEF Spec

(* The variables keep their types; in particular available, a usize in the *)
(* code, never goes below zero nor above the cap.                          *)
THEOREM TypeCorrect == Spec => []TypeOK
<1>1. IInv => TypeOK
  BY Zenon DEF IInv
<1> QED
  BY <1>1, Inductive, PTL

(* Permits are conserved under every interleaving of acquires, releases    *)
(* and cancellations, whatever the number of readers, reads and permits.   *)
THEOREM Conservation == Spec => []PermitsConserved
<1>1. IInv => PermitsConserved
  BY Zenon DEF IInv
<1> QED
  BY <1>1, Inductive, PTL

(* The expect in release never fires: a held permit keeps its reader       *)
(* tracked and charged.                                                    *)
THEOREM HoldersAreCharged == Spec => []ChargedToHolder
<1>1. IInv => ChargedToHolder
  BY Zenon DEF IInv
<1> QED
  BY <1>1, Inductive, PTL

(* The map of readers neither loses a reader that holds or wants a permit  *)
(* nor keeps one that does not: prune runs wherever either may change.     *)
THEOREM ReadersAreTracked == Spec => []TrackedExactly
<1>1. IInv => TrackedExactly
  BY Zenon DEF IInv
<1> QED
  BY <1>1, Inductive, PTL

(* The three together: what the limiter records of permits and readers is  *)
(* what the reads hold and want.                                           *)
THEOREM BooksAreBalanced == Spec => []BooksBalance
  BY Conservation, HoldersAreCharged, ReadersAreTracked, PTL DEF BooksBalance

(* No live read is parked while a permit is free. *)
THEOREM NoPermitIsSwallowed == Spec => []NoIdlePermit
<1>1. IInv => NoIdlePermit
  <2> SUFFICES ASSUME IInv, ~handing, NEW t \in Task, pc[t] = "waiting"
               PROVE  available = 0
    BY Zenon DEF NoIdlePermit
  <2>1. PICK i \in 1..Len(waiters[ReaderOf[t]]) : waiters[ReaderOf[t]][i] = t
    BY Zenon DEF IInv, ParkedIsQueued
  <2>2. waiters[ReaderOf[t]] # <<>>
    BY <2>1, EmptySeq
  <2> QED
    BY Zenon, <2>2, TaskAssumption DEF IInv, QueuedMeansTaken
<1> QED
  BY <1>1, Inductive, PTL

(* No step gives a permit to a reader that already holds more than one     *)
(* that has a live read parked.                                            *)
THEOREM SharesAreFair == Spec => FairShare
<1>1. IInv /\ [Next]_vars => [FairShareStep]_vars
  <2> SUFFICES ASSUME IInv, [Next]_vars, NEW r \in Reader, NEW s \in Reader,
                      NEW t \in Task, ReaderOf[t] = s, pc[t] = "waiting",
                      inFlight'[r] > inFlight[r]
               PROVE  inFlight[r] <= inFlight[s]
    BY Zenon DEF FairShareStep
  <2>1. /\ waiters[s] # <<>> /\ s \in Waiting
        /\ inFlight \in [Reader -> Nat]
        /\ available = IF handing THEN 1 ELSE 0
    <3>1. PICK i \in 1..Len(waiters[s]) : waiters[s][i] = t
      BY Zenon DEF IInv, ParkedIsQueued
    <3>2. waiters[s] # <<>>
      BY <3>1, EmptySeq
    <3> QED
      BY Zenon, <3>2 DEF IInv, TypeOK, QueuedMeansTaken, Waiting, TrackedExactly
  <2>2. ASSUME NEW n \in Reader, HandOver(n) PROVE inFlight[r] <= inFlight[s]
    <3>1. n = r
      BY <2>1, <2>2 DEF HandOver, Offered, Admit
    <3>2. s = r \/ Before(r, s)
      BY Zenon, <2>1, <2>2, <3>1 DEF HandOver, Offered, Neediest
    <3> QED
      BY <2>1, <3>2 DEF Before
  <2>3. ASSUME NEW u \in Task, AcquireNow(u) PROVE FALSE
    BY <2>1, <2>3 DEF AcquireNow
  <2>4. ASSUME NEW u \in Task, Release(u) PROVE FALSE
    BY <2>1, <2>4 DEF Release, Returned
  <2>5. ASSUME inFlight' = inFlight PROVE FALSE
    BY <2>1, <2>5
  <2> QED
    BY Zenon, <2>2, <2>3, <2>4, <2>5
       DEF Next, vars, AcquireWait, Receive, CancelWaiting, SkipDead, Offered, NoTaker
<1> QED
  BY <1>1, Inductive, PTL DEF Spec, FairShare

----------------------------------------------------------------------------
(* The pool counts as the limiter does. *)
LEMMA SameCount == ASSUME NEW S PROVE Pool!Cardinality(S) = Cardinality(S)
  BY Zenon DEF Pool!Cardinality, Cardinality

(* The refinement.  The owners of the pool are the reads that hold a       *)
(* permit, and a reader's share is what it is charged for.                 *)
LEMMA PoolReading ==
    ASSUME IInv
    PROVE  /\ Pool!Owners = Held
           /\ \A r : {t \in Pool!Owners : ReaderOf[t] = r} = HeldBy(r)
           /\ \A r \in Reader : Pool!Share(r) = inFlight[r]
           /\ Pool!Full <=> available = 0
<1>1. Pool!Owners = Held
  BY Zenon DEF Pool!Owners, Placed, Held
<1>2. \A r : {t \in Pool!Owners : ReaderOf[t] = r} = HeldBy(r)
  BY Zenon, <1>1 DEF HeldBy
<1>3. \A r \in Reader : Pool!Share(r) = inFlight[r]
  BY Zenon, <1>2, SameCount DEF Pool!Share, IInv, ChargedToHolder
<1>4. Pool!Full <=> available = 0
  <2>1. available \in Nat /\ Cardinality(Held) \in Nat /\ TotalPermits \in Nat
    BY HeldFinite, PermitsAssumption DEF IInv, TypeOK
  <2>2. available + Cardinality(Held) = TotalPermits
    BY Zenon DEF IInv, PermitsConserved
  <2> QED
    BY <1>1, <2>1, <2>2, SameCount DEF Pool!Full
<1> QED
  BY Zenon, <1>1, <1>2, <1>3, <1>4

(* Every parked read of the pool has its reader among the waiting ones. *)
LEMMA ParkedReaderWaits ==
    ASSUME IInv, NEW u \in Pool!Parked
    PROVE  /\ u \in Task /\ pc[u] = "waiting"
           /\ ReaderOf[u] \in Waiting
           /\ available = IF handing THEN 1 ELSE 0
<1>1. u \in Task /\ pc[u] = "waiting"
  BY Zenon DEF Pool!Parked, Placed
<1>2. PICK i \in 1..Len(waiters[ReaderOf[u]]) : waiters[ReaderOf[u]][i] = u
  BY Zenon, <1>1 DEF IInv, ParkedIsQueued
<1>3. waiters[ReaderOf[u]] # <<>>
  BY <1>2, EmptySeq
<1>4. ReaderOf[u] \in Reader
  BY Zenon, <1>1, TaskAssumption
<1> QED
  BY Zenon, <1>1, <1>3, <1>4 DEF IInv, TrackedExactly, QueuedMeansTaken, Waiting

(* Every step of the limiter is a step of the fair pool, or changes        *)
(* nothing a caller can see.                                               *)
LEMMA StepImplementsPool ==
    ASSUME IInv, [Next]_vars
    PROVE  [Pool!Next]_Placed
<1> USE DEF TaskState
<1>0. pc \in [Task -> TaskState] /\ Placed \in [Task -> {"away", "parked", "owner", "gone"}]
  BY Zenon DEF IInv, TypeOK, Placed
<1>1. ASSUME NEW t \in Task, AcquireNow(t) PROVE Pool!Serve(t)
  <2>1. ~Pool!Full
    BY <1>1, PoolReading DEF AcquireNow, IInv, TypeOK
  <2>2. Pool!Parked = {}
    BY <1>1, ParkedReaderWaits DEF AcquireNow
  <2>3. Pool!Move(t, "away", "owner")
    BY Zenon, <1>0, <1>1 DEF AcquireNow, Pool!Move, Placed
  <2> QED
    BY Zenon, <2>1, <2>2, <2>3 DEF Pool!Serve
<1>2. ASSUME NEW t \in Task, AcquireWait(t) PROVE Pool!Park(t)
  <2>1. Pool!Full
    BY Zenon, <1>2, PoolReading DEF AcquireWait
  <2>2. Pool!Move(t, "away", "parked")
    BY Zenon, <1>0, <1>2 DEF AcquireWait, Pool!Move, Placed
  <2> QED
    BY Zenon, <2>1, <2>2 DEF Pool!Park
<1>3. ASSUME NEW t \in Task, Receive(t) PROVE Placed' = Placed
  BY Zenon, <1>0, <1>3 DEF Receive, Placed
<1>4. ASSUME NEW t \in Task, CancelWaiting(t) PROVE Pool!Withdraw(t)
  BY Zenon, <1>0, <1>4 DEF CancelWaiting, Pool!Withdraw, Pool!Move, Placed
<1>5. ASSUME NEW t \in Task, Release(t) PROVE Pool!GiveBack(t)
  BY Zenon, <1>0, <1>5 DEF Release, Returned, Pool!GiveBack, Pool!Move, Placed
<1>6. ASSUME NEW r \in Reader, HandOver(r) PROVE \E t \in Task : Pool!Grant(t)
  <2> DEFINE h == Head(waiters[r])
  <2>1. waiters[r] # <<>> /\ waiters[r] \in Seq(Task)
    BY Zenon, <1>6 DEF HandOver, Offered, Neediest, Waiting, IInv, TypeOK
  <2>2. h \in Task /\ ReaderOf[h] = r /\ h = waiters[r][1] /\ 1 \in 1..Len(waiters[r])
    BY <2>1 DEF IInv, QueuedOnce
  <2>3. ~Pool!Full
    BY <1>6, PoolReading DEF HandOver, Offered, IInv, TypeOK
  <2>4. ASSUME NEW u \in Pool!Parked PROVE Pool!Share(ReaderOf[h]) <= Pool!Share(ReaderOf[u])
    <3>1. u \in Task /\ ReaderOf[u] \in Waiting /\ ReaderOf[u] \in Reader
      BY Zenon, <2>4, ParkedReaderWaits, TaskAssumption
    <3>2. ReaderOf[u] = r \/ Before(r, ReaderOf[u])
      BY Zenon, <1>6, <3>1 DEF HandOver, Offered, Neediest
    <3>3. inFlight \in [Reader -> Nat]
      BY Zenon DEF IInv, TypeOK
    <3>4. inFlight[r] <= inFlight[ReaderOf[u]]
      BY <3>1, <3>2, <3>3 DEF Before
    <3> QED
      BY Zenon, <2>2, <3>1, <3>4, PoolReading
  <2>5. Pool!Move(h, "parked", "owner")
    BY Zenon, <1>0, <1>6, <2>2 DEF HandOver, Pool!Move, Placed
  <2>6. Pool!Grant(h)
    BY Zenon, <2>3, <2>4, <2>5 DEF Pool!Grant
  <2> QED
    BY Zenon, <2>2, <2>6
<1>7. ASSUME pc' = pc PROVE Placed' = Placed
  BY Zenon, <1>7 DEF Placed
<1>8. CASE \E t \in Task : AcquireNow(t) \/ AcquireWait(t) \/ Receive(t) \/ CancelWaiting(t) \/ Release(t)
  BY Zenon, <1>1, <1>2, <1>3, <1>4, <1>5, <1>8 DEF Pool!Next
<1>9. CASE \E r \in Reader : HandOver(r)
  BY Zenon, <1>6, <1>9 DEF Pool!Next
<1>10. CASE NoTaker \/ (\E r \in Reader : SkipDead(r)) \/ UNCHANGED vars
  BY Zenon, <1>7, <1>10 DEF NoTaker, SkipDead, vars
<1> QED
  BY Zenon, <1>8, <1>9, <1>10 DEF Next

(* The limiter implements the fair pool: from outside, nothing that its    *)
(* counters, queues and hand-off loop do can be told from a pool that      *)
(* serves at once while permits are free, parks only when none is, and     *)
(* grants a returned permit to a reader that holds the fewest.             *)
THEOREM LimiterIsAFairPool == Spec => ImplementsFairPool
<1>1. Init => Pool!Init
  BY Zenon DEF Init, Pool!Init, Placed
<1> QED
  BY <1>1, Inductive, StepImplementsPool, PTL DEF Spec, ImplementsFairPool, Pool!Spec

----------------------------------------------------------------------------
(* The rotation among readers.                                             *)

(* No stamp is ahead of the mark. *)
StampsBehind == \A r \in Reader : lastGranted[r] <= granted

(* Whoever was given a permit ahead of a reader that is owed one is not    *)
(* tracked any more or is stamped after it, and so is everyone who enters. *)
RotationInv ==
    /\ IInv
    /\ StampsBehind
    /\ overtaken \in [Reader -> [Reader -> {0, 1}]]
    /\ \A r, s \in Reader : Owed(r) /\ overtaken[r][s] = 1 =>
          /\ lastGranted[r] < granted
          /\ s \in tracked => lastGranted[r] < lastGranted[s]

(* A step leaves a stamp alone, forgets its reader, or moves it to the     *)
(* mark or beyond; the mark never goes back.                               *)
LEMMA StampStep ==
    ASSUME TypeOK, [Next]_vars, NEW s \in Reader, lastGranted[s] <= granted
    PROVE  /\ granted' \in Nat /\ granted <= granted' /\ lastGranted'[s] <= granted'
           /\ s \in tracked' => \/ s \in tracked /\ lastGranted'[s] = lastGranted[s]
                                \/ granted <= lastGranted'[s]
<1> DEFINE Stamped == /\ granted' \in Nat /\ granted <= granted' /\ lastGranted'[s] <= granted'
                      /\ s \in tracked' => \/ s \in tracked /\ lastGranted'[s] = lastGranted[s]
                                           \/ granted <= lastGranted'[s]
<1>0. granted \in Nat /\ lastGranted \in [Reader -> Nat] /\ lastGranted[s] \in Nat
  BY Zenon DEF TypeOK
<1>1. ASSUME NEW n \in Reader, Admit(n) PROVE Stamped
  <2>1. /\ granted' = granted + 1 /\ tracked' = tracked \union {n}
        /\ lastGranted'[s] = IF s = n THEN granted + 1 ELSE lastGranted[s]
    BY Zenon, <1>0, <1>1 DEF Admit
  <2> QED
    BY <1>0, <2>1
<1>2. ASSUME NEW n \in Reader, NEW m \in Nat, Prune(n, m), granted' \in Nat,
             granted <= granted', s = n => m <= granted', m = lastGranted[n] \/ granted <= m
      PROVE  Stamped
  <2>1. /\ \/ lastGranted'[s] = lastGranted[s] \/ lastGranted'[s] = 0
           \/ s = n /\ lastGranted'[s] = m
        /\ s \in tracked' => /\ s \in tracked
                             /\ lastGranted'[s] = IF s = n THEN m ELSE lastGranted[s]
    BY Zenon, <1>0, <1>2 DEF Prune
  <2> QED
    BY <1>0, <1>2, <2>1
<1>3. ASSUME granted' = granted, tracked' = tracked, lastGranted' = lastGranted PROVE Stamped
  BY <1>0, <1>3
<1> HIDE DEF Stamped
<1>4. ASSUME NEW t \in Task, AcquireNow(t) PROVE Stamped
  BY Zenon, <1>1, <1>4, TaskAssumption DEF AcquireNow
<1>5. ASSUME NEW t \in Task, AcquireWait(t) PROVE Stamped
  <2>1. /\ granted' = granted /\ tracked' = tracked \union {ReaderOf[t]}
        /\ lastGranted'[s] = IF s = ReaderOf[t] /\ s \notin tracked THEN granted
                             ELSE lastGranted[s]
    BY Zenon, <1>0, <1>5 DEF AcquireWait, Entering
  <2> QED
    BY <1>0, <2>1 DEF Stamped
<1>6. ASSUME NEW t \in Task, Receive(t) \/ CancelWaiting(t) PROVE Stamped
  BY Zenon, <1>3, <1>6 DEF Receive, CancelWaiting
<1>7. ASSUME NEW t \in Task, Release(t) PROVE Stamped
  <2>1. ReaderOf[t] \in Reader /\ granted' = granted /\ lastGranted[ReaderOf[t]] \in Nat
        /\ Prune(ReaderOf[t], lastGranted[ReaderOf[t]])
    BY Zenon, <1>0, <1>7, TaskAssumption DEF Release, Returned
  <2>2. granted <= granted' /\ granted' \in Nat
    BY <1>0, <2>1
  <2>3. s = ReaderOf[t] => lastGranted[ReaderOf[t]] <= granted'
    BY Zenon, <2>1
  <2> QED
    BY Zenon, <1>2, <2>1, <2>2, <2>3
<1>8. ASSUME NEW n \in Reader, HandOver(n) PROVE Stamped
  BY Zenon, <1>1, <1>8 DEF HandOver
<1>9. ASSUME NEW n \in Reader, SkipDead(n) PROVE Stamped
  <2>1. granted' = granted + 1 /\ Prune(n, granted + 1)
    BY Zenon, <1>9 DEF SkipDead
  <2>2. /\ granted + 1 \in Nat /\ granted + 1 <= granted' /\ granted' \in Nat
        /\ granted <= granted' /\ granted <= granted + 1
    BY <1>0, <2>1
  <2> QED
    BY Zenon, <1>2, <2>1, <2>2
<1>10. ASSUME NoTaker PROVE Stamped
  BY Zenon, <1>3, <1>10 DEF NoTaker
<1>11. ASSUME UNCHANGED vars PROVE Stamped
  BY Zenon, <1>3, <1>11 DEF vars
<1>12. Stamped
  BY Zenon, <1>4, <1>5, <1>6, <1>7, <1>8, <1>9, <1>10, <1>11 DEF Next
<1> QED
  BY Zenon, <1>12 DEF Stamped

(* A permit given while another reader is owed one is handed over, and to  *)
(* a reader that is stamped no later than the one that goes without.       *)
LEMMA GivenStep ==
    ASSUME IInv, [Next]_vars, NEW r \in Reader, NEW s \in Reader, s # r, Owed(r), Given(s)
    PROVE  /\ granted' = granted + 1 /\ lastGranted'[s] = granted + 1
           /\ s \in tracked /\ lastGranted[s] <= lastGranted[r]
<1>0. /\ granted \in Nat /\ lastGranted \in [Reader -> Nat] /\ inFlight \in [Reader -> Nat]
      /\ lastGranted[r] \in Nat /\ lastGranted[s] \in Nat /\ inFlight[s] \in Nat
      /\ r \in Waiting /\ inFlight[r] = 0 /\ available = IF handing THEN 1 ELSE 0
  BY Zenon DEF IInv, TypeOK, TrackedExactly, QueuedMeansTaken, Owed, Waiting
<1>1. ASSUME inFlight'[s] = inFlight[s] \/ inFlight'[s] = inFlight[s] - 1 PROVE FALSE
  BY SMTT(30), <1>0, <1>1 DEF Given
<1>2. ASSUME NEW t \in Task, AcquireNow(t) PROVE FALSE
  BY <1>0, <1>2 DEF AcquireNow
<1>3. ASSUME NEW t \in Task, AcquireWait(t) \/ Receive(t) \/ CancelWaiting(t) PROVE FALSE
  BY Zenon, <1>1, <1>3 DEF AcquireWait, Receive, CancelWaiting
<1>4. ASSUME NEW t \in Task, Release(t) PROVE FALSE
  BY Zenon, <1>0, <1>1, <1>4 DEF Release, Returned
<1>5. ASSUME NEW n \in Reader, SkipDead(n) PROVE FALSE
  BY Zenon, <1>1, <1>5 DEF SkipDead
<1>6. ASSUME NoTaker PROVE FALSE
  BY Zenon, <1>1, <1>6 DEF NoTaker
<1>7. ASSUME UNCHANGED vars PROVE FALSE
  BY Zenon, <1>1, <1>7 DEF vars
<1>8. PICK n \in Reader : HandOver(n)
  BY Zenon, <1>2, <1>3, <1>4, <1>5, <1>6, <1>7 DEF Next
<1>9. n = s
  BY Zenon, <1>0, <1>1, <1>8 DEF HandOver, Admit
<1>10. granted' = granted + 1 /\ lastGranted'[s] = granted + 1
  BY Zenon, <1>0, <1>8, <1>9 DEF HandOver, Admit
<1>11. s \in tracked /\ Before(s, r)
  BY Zenon, <1>0, <1>8, <1>9 DEF HandOver, Offered, Neediest, Waiting
<1>12. lastGranted[s] <= lastGranted[r]
  BY <1>0, <1>11 DEF Before
<1> QED
  BY Zenon, <1>10, <1>11, <1>12

(* The history of who overtook whom changes as the rotation demands. *)
LEMMA RotationStep ==
    ASSUME RotationInv, [RotationNext]_rotationVars PROVE RotationInv'
<1>n. [Next]_vars
  BY Zenon DEF RotationNext, rotationVars
<1>1. IInv'
  BY Zenon, <1>n, StepIInv DEF RotationInv
<1>2. \A s \in Reader : lastGranted[s] <= granted
  BY Zenon DEF RotationInv, StampsBehind
<1>3. TypeOK /\ granted \in Nat /\ lastGranted \in [Reader -> Nat]
      /\ TypeOK' /\ granted' \in Nat /\ lastGranted' \in [Reader -> Nat]
  BY Zenon, <1>1 DEF RotationInv, IInv, TypeOK
<1>4. StampsBehind'
  BY Zenon, <1>n, <1>2, <1>3, StampStep DEF StampsBehind
<1>5. CASE UNCHANGED rotationVars
  <2>1. UNCHANGED <<tracked, lastGranted, granted, waiters, inFlight, overtaken>>
    BY Zenon, <1>5 DEF rotationVars, vars
  <2> QED
    BY Zenon, <1>1, <1>4, <2>1 DEF RotationInv, Owed
<1>6. CASE RotationNext
  <2>1. ASSUME NEW r \in Reader, NEW s \in Reader
        PROVE  overtaken'[r][s] = CASE ~SameTurn(r) -> 0
                                    [] SameTurn(r) /\ s # r /\ Given(s) -> overtaken[r][s] + 1
                                    [] OTHER -> overtaken[r][s]
    BY Zenon, <1>6 DEF RotationNext
  <2>2. ASSUME NEW r \in Reader, NEW s \in Reader
        PROVE  /\ overtaken'[r][s] \in {0, 1}
               /\ overtaken'[r][s] = 1 => /\ lastGranted'[r] < granted'
                                          /\ s \in tracked' => lastGranted'[r] < lastGranted'[s]
    <3>0. /\ lastGranted[r] \in Nat /\ lastGranted'[s] \in Nat /\ lastGranted[s] \in Nat
          /\ overtaken[r][s] \in {0, 1} /\ lastGranted[r] <= granted
      BY Zenon, <1>2, <1>3 DEF RotationInv
    <3>1. CASE ~SameTurn(r)
      <4>1. overtaken'[r][s] = 0
        BY Zenon, <2>1, <3>1
      <4> QED
        BY <4>1
    <3>2. CASE SameTurn(r) /\ s # r /\ Given(s)
      <4>1. /\ granted' = granted + 1 /\ lastGranted'[s] = granted + 1
            /\ s \in tracked /\ lastGranted[s] <= lastGranted[r]
            /\ lastGranted'[r] = lastGranted[r]
        BY Zenon, <1>n, <3>2, GivenStep DEF SameTurn, RotationInv
      <4>2. overtaken[r][s] # 1
        <5>1. ASSUME overtaken[r][s] = 1 PROVE lastGranted[r] < lastGranted[s]
          BY Zenon, <3>2, <4>1, <5>1 DEF RotationInv, SameTurn
        <5> QED
          BY <3>0, <4>1, <5>1
      <4>3. overtaken'[r][s] = overtaken[r][s] + 1
        BY Zenon, <2>1, <3>2
      <4> QED
        BY <1>3, <3>0, <4>1, <4>2, <4>3
    <3>3. CASE SameTurn(r) /\ ~(s # r /\ Given(s))
      <4>1. overtaken'[r][s] = overtaken[r][s] /\ lastGranted'[r] = lastGranted[r] /\ Owed(r)
        BY Zenon, <2>1, <3>3 DEF SameTurn
      <4>2. /\ granted <= granted'
            /\ s \in tracked' => \/ s \in tracked /\ lastGranted'[s] = lastGranted[s]
                                 \/ granted <= lastGranted'[s]
        BY Zenon, <1>n, <1>2, <1>3, StampStep
      <4>3. overtaken[r][s] = 1 => /\ lastGranted[r] < granted
                                   /\ s \in tracked => lastGranted[r] < lastGranted[s]
        BY Zenon, <4>1 DEF RotationInv
      <4> QED
        BY <1>3, <3>0, <4>1, <4>2, <4>3
    <3> QED
      BY Zenon, <3>1, <3>2, <3>3
  <2>3. overtaken' \in [Reader -> [Reader -> {0, 1}]]
    <3>1. overtaken' = [r \in Reader |-> [s \in Reader |-> overtaken'[r][s]]]
      BY Zenon, <1>6 DEF RotationNext
    <3> QED
      BY Zenon, <2>2, <3>1
  <2> QED
    BY Zenon, <1>1, <1>4, <2>2, <2>3 DEF RotationInv
<1> QED
  BY Zenon, <1>5, <1>6

(* However often readers are pruned and come back, and however many of     *)
(* them there are, none is given a second permit while another waits with  *)
(* nothing in flight (reader_mut, neediest_waiting_reader).                *)
THEOREM NobodyIsLeapfrogged == RotationSpec => []OvertakenOnce
<1>1. RotationInit => RotationInv
  <2> SUFFICES ASSUME RotationInit PROVE RotationInv
    OBVIOUS
  <2>1. IInv
    BY Zenon, InitIInv DEF RotationInit
  <2>2. StampsBehind
    BY DEF RotationInit, Init, StampsBehind
  <2>3. overtaken \in [Reader -> [Reader -> {0, 1}]] /\ \A r, s \in Reader : overtaken[r][s] = 0
    BY Zenon DEF RotationInit
  <2>4. \A r, s \in Reader : overtaken[r][s] # 1
    BY <2>3
  <2> QED
    BY Zenon, <2>1, <2>2, <2>3, <2>4 DEF RotationInv
<1>2. RotationInv /\ [RotationNext]_rotationVars => RotationInv'
  BY Zenon, RotationStep
<1>3. RotationInv => OvertakenOnce
  <2> SUFFICES ASSUME RotationInv, NEW r \in Reader, NEW s \in Reader
               PROVE  overtaken[r][s] <= 1
    BY Zenon DEF OvertakenOnce
  <2>1. overtaken[r][s] \in {0, 1}
    BY Zenon DEF RotationInv
  <2> QED
    BY <2>1
<1> QED
  BY <1>1, <1>2, <1>3, PTL DEF RotationSpec

============================================================================
