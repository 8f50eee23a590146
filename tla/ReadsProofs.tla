----------------------------- MODULE ReadsProofs -----------------------------
(***************************************************************************)
(* The reads of the server.  Any number of calls on any keys of one object *)
(* store: StoreIsSound, ExactBytes and AbsenceIsReal.  Any finite set of   *)
(* proxy requests on any specs and any number of permits, with read errors,*)
(* failed generations, failed writes and panics at any point:              *)
(* ProxiesAreSound.                                                        *)
(***************************************************************************)
EXTENDS CachedStoreSteps, ProxyGenerator, FiniteSetTheorems, NaturalsInduction,
        WellFoundedInduction, TLAPS

(* The leaves that name no prover are the SMT solver's. *)
USE SMTT(60)

-----------------------------------------------------------------------------
(* The claim of a group.                                                   *)

LEMMA QueueBounded ==
    ASSUME StoreAssumption, Types, FlightsInv, NEW p \in Path
    PROVE  queue[p] \in Seq(Bounded) /\ queue[p] \in Seq(QueueEntry) /\ Distinct(queue[p])
<1>1. queue[p] \in Seq(QueueEntry) /\ Distinct(queue[p])
  BY Zenon DEF Types, FlightsInv, QueueInv
<1>2. ASSUME NEW y \in Range(queue[p]) PROVE y \in Bounded
  <2>1. y \in QueueEntry
    BY Zenon, <1>1, RangeIn
  <2>2. PICK u \in Task : flight[u] = y.owner /\ queuedAt[u] /\ KeyOf[u] = y.key
    BY Zenon DEF FlightsInv, QueueInv
  <2>3. Mergeable(u)
    BY Zenon, <2>2 DEF FlightsInv, GuardInv
  <2>4. y.key \in Key /\ y.key.range \notin Unbounded
    BY Zenon, <2>1, <2>2, <2>3 DEF Mergeable, QueueEntry
  <2>5. y.key.range \in {r \in Nat \X Nat : r[1] < r[2]}
    BY Zenon, <2>4 DEF StoreAssumption
  <2> QED
    BY Zenon, <2>1, <2>5 DEF Bounded
<1>3. \A i \in 1..Len(queue[p]) : queue[p][i] \in Bounded
  BY <1>1, <1>2 DEF Range
<1>4. queue[p] \in [1..Len(queue[p]) -> Bounded] /\ Len(queue[p]) \in Nat
  <2> DEFINE q == queue[p]
  <2>1. q \in Seq(QueueEntry) /\ Len(q) \in Nat
    BY <1>1
  <2>2. \A i \in 1..Len(q) : q[i] \in Bounded
    BY Zenon, <1>3
  <2> HIDE DEF q
  <2>3. q \in [1..Len(q) -> Bounded]
    BY <2>1, <2>2
  <2> QED
    BY Zenon, <2>1, <2>3 DEF q
<1> QED
  BY <1>1, <1>4

(* A neighbour carried the range: nothing of t is left in the table. *)
LEMMA AlreadyCarriedStep ==
    ASSUME StoreAssumption, Counting, IInv, NEW t \in Task, AlreadyCarried(t) PROVE IInv'
<1> USE DEF IInv
<1> DEFINE p == KeyOf[t].path
           q == queue[p]
           s == Sorted(q)
<1>1. /\ pc[t] = "admitted" /\ OwnRanks(q, flight[t]) = {} /\ ReturnPermit(t)
      /\ DropGuard(t) /\ Goto(t, "carried")
      /\ queue' = [queue EXCEPT ![p] = s]
      /\ UNCHANGED <<result, sub, reads, chan, lru, absent, said>>
  BY Zenon DEF AlreadyCarried
<1>f. FlightsInv
  BY Zenon DEF FlightsInv
<1>p. p \in Path /\ KeyOf[t] \in Key
  BY Zenon DEF StoreAssumption, Path
<1> HIDE DEF p
<1>2. /\ q \in Seq(Bounded) /\ q \in Seq(QueueEntry) /\ Distinct(q)
  BY Zenon, <1>f, <1>p, QueueBounded
<1>3. \A y \in Range(q) : y.owner # flight[t]
  BY Zenon, <1>1 DEF OwnRanks, Range
<1> HIDE DEF q
<1>4. /\ s \in Seq(Bounded) /\ Distinct(s) /\ \A x : x \in Range(s) <=> x \in Range(q)
  BY Zenon, <1>2, SortedFrame
<1>5. s \in Seq(QueueEntry)
  <2>1. Bounded \subseteq QueueEntry
    BY Zenon DEF Bounded
  <2> HIDE DEF s
  <2> QED
    BY <2>1, <1>4
<1> HIDE DEF s
<1>6. flight[t] # 0 /\ queuedAt[t] /\ group[t] = <<KeyOf[t]>> /\ sub[t] = flight[t]
  BY Zenon, <1>1 DEF GuardInv, Guarded
<1>7. ASSUME NEW k \in Key, reads[k].owner = flight[t] PROVE FALSE
  <2>1. reads[k] # NotInFlight
    BY Zenon, <1>6, <1>7, EntryIs
  <2>2. PICK u \in Task : flight[u] = reads[k].owner /\ k \in Range(group[u])
    BY Zenon, <2>1 DEF TableInv
  <2>3. u = t
    BY Zenon, <1>6, <1>7, <2>2 DEF GuardInv
  <2>4. k = KeyOf[t]
    BY <1>6, <2>2, <2>3 DEF Range
  <2>5. [key |-> KeyOf[t], owner |-> flight[t]] \in Range(q)
    BY Zenon, <1>6, <1>7, <2>4 DEF QueueInv, q, p
  <2> QED
    BY Zenon, <1>3, <2>5
<1>8. /\ pc' \in [Task -> Label] /\ pc'[t] = "carried"
      /\ \A u \in Task : u # t => pc'[u] = pc[u]
  BY Zenon, <1>1 DEF Goto, Types, Label
<1>9. /\ flight' \in [Task -> {0} \union FlightId] /\ flight'[t] = 0 /\ queuedAt'[t] = FALSE
      /\ \A u \in Task : u # t => /\ flight'[u] = flight[u] /\ queuedAt'[u] = queuedAt[u]
                                  /\ group'[u] = group[u] /\ answer'[u] = answer[u]
  BY Zenon, <1>1 DEF DropGuard, Types
<1>10. queuedAt' \in [Task -> BOOLEAN] /\ group' \in [Task -> Seq(Key)] /\ DOMAIN answer' = Task
  BY <1>1 DEF DropGuard, Types
<1>11. /\ queue' \in [Path -> Seq(QueueEntry)]
       /\ \A h \in Path : /\ Distinct(queue'[h])
                          /\ \A x : x \in Range(queue'[h]) <=> x \in Range(queue[h])
  <2>1. queue' \in [Path -> Seq(QueueEntry)] /\ queue'[p] = s
        /\ \A h \in Path : h # p => queue'[h] = queue[h]
    BY Zenon, <1>1, <1>p, <1>5 DEF Types
  <2> QED
    BY Zenon, <2>1, <1>4 DEF q, QueueInv
<1>12. GuardInv'
  <2> SUFFICES ASSUME NEW u \in Task
               PROVE  /\ flight'[u] # 0 <=> pc'[u] \in Guarded
                      /\ sub[u] # 0 <=> pc'[u] \in Listening
                      /\ flight'[u] # 0 => sub[u] = flight'[u]
                      /\ \A w \in Task : flight'[u] = flight'[w] /\ flight'[u] # 0 => u = w
                      /\ queuedAt'[u] <=> pc'[u] \in {"queueing", "admitted"}
                      /\ queuedAt'[u] => Mergeable(u)
                      /\ pc'[u] \in {"queueing", "admitted", "leading"} => group'[u] = <<KeyOf[u]>>
                      /\ pc'[u] \in Guarded => /\ KeyOf[u] \in Range(group'[u])
                                               /\ \A j \in Range(group'[u]) : j.path = KeyOf[u].path
    BY Zenon, <1>1 DEF GuardInv, Mergeable
  <2>1. CASE u = t
    BY Zenon, <2>1, <1>6, <1>8, <1>9 DEF Guarded, Listening
  <2>2. CASE u # t
    <3>1. \A w \in Task : flight'[u] = flight'[w] /\ flight'[u] # 0 => u = w
      BY <2>2, <1>9 DEF GuardInv
    <3> QED
      BY <2>2, <3>1, <1>8, <1>9 DEF GuardInv
  <2> QED
    BY Zenon, <2>1, <2>2
<1>13. TableInv'
  <2>0. reads' = reads /\ chan' = chan
    BY Zenon, <1>1
  <2>1. ASSUME NEW j \in Key, reads[j] # NotInFlight
        PROVE  \E u \in Task : flight'[u] = reads[j].owner /\ j \in Range(group'[u])
    <3>1. PICK u \in Task : flight[u] = reads[j].owner /\ j \in Range(group[u])
      BY Zenon, <2>1 DEF TableInv
    <3> QED
      BY Zenon, <3>1, <1>7, <1>9
  <2>2. ASSUME NEW u \in Task
        PROVE  /\ pc'[u] \in Claimed => \A j \in Range(group'[u]) : reads[j].owner = flight'[u]
               /\ flight'[u] # 0 /\ reads[KeyOf[u]].owner = flight'[u]
                    => reads[KeyOf[u]].tx = flight'[u]
    BY Zenon, <1>8, <1>9 DEF TableInv, Claimed
  <2> QED
    BY Zenon, <2>0, <2>1, <2>2 DEF TableInv
<1>14. ChannelInv'
  BY Zenon, <1>1 DEF ChannelInv
<1>15. QueueInv'
  <2>0. reads' = reads
    BY Zenon, <1>1
  <2>1. ASSUME NEW h \in Path, NEW y \in Range(queue'[h])
        PROVE  /\ reads[y.key].owner = y.owner
               /\ \E u \in Task : flight'[u] = y.owner /\ queuedAt'[u] /\ KeyOf[u] = y.key
               /\ y.key.path = h
    <3>1. y \in Range(queue[h])
      BY Zenon, <1>11, <2>1
    <3>2. PICK u \in Task : flight[u] = y.owner /\ queuedAt[u] /\ KeyOf[u] = y.key
      BY Zenon, <3>1 DEF QueueInv
    <3>3. reads[y.key].owner = y.owner /\ y.key.path = h /\ y.key \in Key
      BY Zenon, <3>1, <3>2 DEF QueueInv, StoreAssumption
    <3>4. u # t
      BY Zenon, <3>2, <3>3, <1>7
    <3> QED
      BY Zenon, <3>2, <3>3, <3>4, <1>9
  <2>2. ASSUME NEW u \in Task, queuedAt'[u], reads[KeyOf[u]].owner = flight'[u]
        PROVE  [key |-> KeyOf[u], owner |-> flight'[u]] \in Range(queue'[KeyOf[u].path])
    <3>1. u # t /\ queuedAt[u] /\ flight'[u] = flight[u]
      BY Zenon, <2>2, <1>9
    <3>2. KeyOf[u].path \in Path
      BY Zenon DEF StoreAssumption, Path
    <3>3. [key |-> KeyOf[u], owner |-> flight[u]] \in Range(queue[KeyOf[u].path])
      BY Zenon, <2>2, <3>1 DEF QueueInv
    <3> QED
      BY Zenon, <3>1, <3>2, <3>3, <1>11
  <2> QED
    BY ZenonT(40), <2>0, <2>1, <2>2, <1>11 DEF QueueInv
<1>16. PermitsBalance' /\ chunkFree' \in Nat /\ metaFree' \in Nat
  <2>1. pc[t] \in Outstanding /\ "carried" \notin Outstanding
    BY Zenon, <1>1 DEF Outstanding
  <2> QED
    BY Zenon, <2>1, <1>1, PermitReturned
<1>17. AnswerInv'
  BY Zenon, <1>1, <1>9, AnswersKept
<1>18. LruInv'
  BY Zenon, <1>1 DEF LruInv, Clean, Bytes
<1>19. ExactBytes' /\ AbsenceIsReal' /\ DOMAIN result' = Task
  BY Zenon, <1>1, <1>18, ResultsKept DEF AbsenceIsReal, LruInv
<1>20. Types'
  BY Zenon, <1>1, <1>8, <1>9, <1>10, <1>11, <1>16, <1>19 DEF Types
<1> QED
  BY Zenon, <1>12, <1>13, <1>14, <1>15, <1>16, <1>17, <1>18, <1>19, <1>20

(* The two scans: from the last gap before own to the next one after it. *)
LEMMA RunIs ==
    ASSUME Counting, NEW q \in Seq(Bounded), NEW own \in 1..Len(q)
    PROVE  /\ FirstCarried(q, own) \in 1..own /\ LastCarried(q, own) \in own..Len(q)
           /\ FirstCarried(q, own) > 1 => ~Touches(q, FirstCarried(q, own))
           /\ \A i \in (FirstCarried(q, own) + 1)..LastCarried(q, own) : Touches(q, i)
           /\ LastCarried(q, own) < Len(q) => ~Touches(q, LastCarried(q, own) + 1)
<1> DEFINE n == Len(q)
           A == {1} \union {i \in 2..own : ~Touches(q, i)}
           B == {i \in own..n : \A j \in (own + 1)..i : Touches(q, j)}
           a == Max(A)
           b == Max(B)
<1>1. n \in Nat /\ own \in Nat /\ 1 <= own /\ own <= n
  OBVIOUS
<1>2. FirstCarried(q, own) = a /\ LastCarried(q, own) = b
  BY Zenon DEF FirstCarried, LastCarried
<1> HIDE DEF n
<1>3. A \subseteq 0..own /\ A # {} /\ A \subseteq 1..own
  BY <1>1
<1>4. B \subseteq 0..n /\ B # {} /\ B \subseteq own..n
  <2>1. own \in B
    BY <1>1
  <2>2. own..n \subseteq 0..n
    BY <1>1
  <2> QED
    BY Zenon, <2>1, <2>2
<1>5. a \in A /\ \A y \in A : a >= y
  <2> HIDE DEF A
  <2> QED
    BY Zenon, <1>1, <1>3, MaxIs
<1>6. b \in B /\ \A y \in B : b >= y
  <2> HIDE DEF B
  <2> QED
    BY Zenon, <1>1, <1>4, MaxIs
<1>7. a \in 1..own /\ (a > 1 => ~Touches(q, a))
  <2> HIDE DEF a
  <2> QED
    BY <1>5, <1>3
<1>8. b \in own..n /\ \A j \in (own + 1)..b : Touches(q, j)
  <2> HIDE DEF b
  <2> QED
    BY Zenon, <1>6
<1>9. \A i \in (a + 1)..own : Touches(q, i)
  <2> HIDE DEF a
  <2> TAKE i \in (a + 1)..own
  <2>1. i \in 2..own /\ ~(a >= i)
    BY <1>1, <1>7
  <2> QED
    BY Zenon, <2>1, <1>5
<1> HIDE DEF a
<1>10. \A i \in (a + 1)..b : Touches(q, i)
  <2> HIDE DEF b
  <2> TAKE i \in (a + 1)..b
  <2>1. i \in (a + 1)..own \/ i \in (own + 1)..b
    BY <1>1, <1>7, <1>8
  <2> QED
    BY Zenon, <2>1, <1>8, <1>9
<1>11. b < n => ~Touches(q, b + 1)
  <2> HIDE DEF b
  <2> SUFFICES ASSUME b < n, Touches(q, b + 1) PROVE FALSE
    BY Zenon
  <2>1. b + 1 \in own..n /\ ~(b >= b + 1) /\ b \in Nat
    BY <1>1, <1>8
  <2>2. \A j \in (own + 1)..(b + 1) : j \in (own + 1)..b \/ j = b + 1
    BY <2>1, <1>1
  <2>3. b + 1 \in B
    BY Zenon, <2>1, <2>2, <1>8
  <2> QED
    BY Zenon, <2>1, <2>3, <1>6
<1> HIDE DEF b
<1> QED
  BY Zenon, <1>2, <1>7, <1>8, <1>10, <1>11 DEF n

Run(t) == Sorted(queue[KeyOf[t].path])
Own(t) == Min(OwnRanks(Run(t), flight[t]))
FromRank(t) == FirstCarried(Run(t), Own(t))
ToRank(t) == LastCarried(Run(t), Own(t))
Ranks(t) == FromRank(t)..ToRank(t)
Together(t) == {Run(t)[i].key : i \in Ranks(t)}

LEMMA GroupIs ==
    ASSUME StoreAssumption, Counting, Types, FlightsInv, NEW t \in Task, pc[t] = "admitted",
           OwnRanks(queue[KeyOf[t].path], flight[t]) # {}
    PROVE  /\ Run(t) \in Seq(Bounded) /\ InOrder(Run(t)) /\ Distinct(Run(t))
           /\ \A x : x \in Range(Run(t)) <=> x \in Range(queue[KeyOf[t].path])
           /\ Own(t) \in 1..Len(Run(t)) /\ Run(t)[Own(t)].key = KeyOf[t]
           /\ \A i \in 1..Len(Run(t)) : Run(t)[i].owner = flight[t] => i = Own(t)
           /\ FromRank(t) \in 1..Own(t) /\ ToRank(t) \in Own(t)..Len(Run(t))
<1> DEFINE p == KeyOf[t].path
           q == queue[p]
           s == Run(t)
           own == Own(t)
<1>p. p \in Path /\ KeyOf[t] \in Key
  BY Zenon DEF StoreAssumption, Path
<1>1. /\ q \in Seq(Bounded) /\ q \in Seq(QueueEntry) /\ Distinct(q)
  BY Zenon, <1>p, QueueBounded
<1>2. /\ s \in Seq(Bounded) /\ InOrder(s) /\ Distinct(s)
      /\ \A x : x \in Range(s) <=> x \in Range(q)
  <2> HIDE DEF q
  <2>1. s = Sorted(q)
    BY Zenon DEF Run, q
  <2> HIDE DEF s
  <2> QED
    BY Zenon, <2>1, <1>1, SortedFrame
<1>3. Len(s) \in Nat /\ DOMAIN s = 1..Len(s)
  BY <1>2
<1>4. ASSUME NEW i \in DOMAIN s, s[i].owner = flight[t] PROVE s[i].key = KeyOf[t]
  <2>1. s[i] \in Range(q)
    BY Zenon, <1>2, <1>4 DEF Range
  <2>2. PICK u \in Task : flight[u] = s[i].owner /\ queuedAt[u] /\ KeyOf[u] = s[i].key
    BY Zenon, <2>1, <1>p DEF FlightsInv, QueueInv
  <2> QED
    BY <2>2, <1>4 DEF FlightsInv, GuardInv, Guarded
<1>5. OwnRanks(s, flight[t]) \subseteq Nat /\ OwnRanks(s, flight[t]) # {}
  <2>1. PICK j \in DOMAIN q : q[j].owner = flight[t]
    BY Zenon DEF OwnRanks
  <2>2. q[j] \in Range(s)
    BY Zenon, <2>1, <1>2 DEF Range
  <2>3. PICK i \in DOMAIN s : s[i] = q[j]
    BY Zenon, <2>2 DEF Range
  <2> HIDE DEF s, q
  <2>4. OwnRanks(s, flight[t]) \subseteq 1..Len(s)
    BY Zenon, <1>3 DEF OwnRanks
  <2>5. 1..Len(s) \subseteq Nat
    BY <1>3
  <2> QED
    BY Zenon, <2>1, <2>3, <2>4, <2>5 DEF OwnRanks
<1>6. own \in OwnRanks(s, flight[t])
  <2> HIDE DEF s
  <2> DEFINE O == OwnRanks(s, flight[t])
  <2>1. own = Min(O)
    BY Zenon DEF Own, s
  <2>2. O \subseteq Nat /\ O # {}
    BY Zenon, <1>5
  <2> HIDE DEF O, own
  <2>3. Min(O) \in O
    BY Zenon, <2>2, MinIs
  <2> QED
    BY Zenon, <2>1, <2>3 DEF O
<1>7. own \in 1..Len(s) /\ s[own].owner = flight[t]
  BY Zenon, <1>6, <1>3 DEF OwnRanks
<1>8. s[own].key = KeyOf[t]
  BY Zenon, <1>3, <1>4, <1>7
<1>9. \A i \in 1..Len(s) : s[i].owner = flight[t] => i = own
  BY Zenon, <1>2, <1>3, <1>4, <1>7, <1>8 DEF Distinct
<1>10. FromRank(t) \in 1..own /\ ToRank(t) \in own..Len(s)
  <2>1. FromRank(t) = FirstCarried(s, own) /\ ToRank(t) = LastCarried(s, own)
    BY Zenon DEF FromRank, ToRank
  <2> HIDE DEF s, own
  <2> QED
    BY <2>1, <1>2, <1>7, RunIs
<1> QED
  BY Zenon, <1>2, <1>7, <1>8, <1>9, <1>10

LEMMA GroupTaken ==
    ASSUME StoreAssumption, Counting, Types, FlightsInv, NEW t \in Task, ClaimGroup(t)
    PROVE  /\ group' \in [Task -> Seq(Key)] /\ Range(group'[t]) = Together(t)
           /\ \A u \in Task : u # t => group'[u] = group[u]
           /\ reads' = [k \in Key |-> IF k \in Together(t)
                                      THEN [tx |-> reads[k].tx, owner |-> flight[t]] ELSE reads[k]]
<1> DEFINE s == Run(t)
           a == FromRank(t)
           b == ToRank(t)
           c == SubSeq(s, a, b)
           g == [i \in DOMAIN c |-> c[i].key]
<1>1. /\ pc[t] = "admitted" /\ OwnRanks(queue[KeyOf[t].path], flight[t]) # {}
      /\ reads' = [k \in Key |-> IF k \in {c[i].key : i \in DOMAIN c}
                                 THEN [tx |-> reads[k].tx, owner |-> flight[t]] ELSE reads[k]]
      /\ group' = [group EXCEPT ![t] = g]
  BY Zenon DEF ClaimGroup, Run, FromRank, ToRank, Own
<1>2. s \in Seq(Bounded) /\ a \in 1..Own(t) /\ b \in Own(t)..Len(s) /\ Own(t) \in 1..Len(s)
  BY Zenon, <1>1, GroupIs
<1> HIDE DEF s, a, b
<1>3. Len(s) \in Nat /\ a \in Nat /\ b \in Nat /\ 1 <= a /\ a <= b /\ b <= Len(s)
  BY <1>2
<1>4. /\ c \in Seq(Bounded) /\ Len(c) = b + 1 - a
      /\ \A i \in 1..(b + 1 - a) : c[i] = s[a + i - 1]
  BY <1>2, <1>3
<1> HIDE DEF c
<1>5. DOMAIN c = 1..(b + 1 - a) /\ \A i \in DOMAIN c : c[i] \in Bounded
  BY <1>3, <1>4
<1>6. {c[i].key : i \in DOMAIN c} = {s[i].key : i \in a..b}
  <2>1. ASSUME NEW i \in 1..(b + 1 - a) PROVE a + i - 1 \in a..b
    BY <1>3
  <2>2. ASSUME NEW i \in a..b PROVE i + 1 - a \in 1..(b + 1 - a) /\ a + (i + 1 - a) - 1 = i
    BY <1>3
  <2>3. \A i \in DOMAIN c : \E j \in a..b : c[i].key = s[j].key
    BY Zenon, <2>1, <1>4, <1>5
  <2>4. \A j \in a..b : \E i \in DOMAIN c : c[i].key = s[j].key
    BY ZenonT(40), <2>2, <1>4, <1>5
  <2> QED
    BY <2>3, <2>4
<1>7. g \in Seq(Key) /\ Range(g) = {c[i].key : i \in DOMAIN c}
  <2>1. \A i \in DOMAIN c : c[i].key \in Key
    BY Zenon, <1>5 DEF Bounded, QueueEntry
  <2>2. b + 1 - a \in Nat
    BY <1>3
  <2>3. g \in [1..(b + 1 - a) -> Key]
    BY Zenon, <2>1, <1>5
  <2>4. g \in Seq(Key)
    BY <2>2, <2>3
  <2>5. Range(g) = {c[i].key : i \in DOMAIN c}
    BY Zenon DEF Range
  <2> QED
    BY Zenon, <2>4, <2>5
<1> HIDE DEF g
<1>8. Together(t) = {s[i].key : i \in a..b}
  BY Zenon DEF Together, Ranks, s, a, b
<1> QED
  BY Zenon, <1>1, <1>6, <1>7, <1>8 DEF Types

LEMMA ClaimGroupStep ==
    ASSUME StoreAssumption, Counting, IInv, NEW t \in Task, ClaimGroup(t) PROVE IInv'
<1> USE DEF IInv
<1> DEFINE p == KeyOf[t].path
           s == Run(t)
           own == Own(t)
           claimed == [i \in DOMAIN s |-> IF i \in Ranks(t)
                                          THEN [key |-> s[i].key, owner |-> flight[t]] ELSE s[i]]
           left == Retained(claimed, flight[t])
<1>1. /\ pc[t] = "admitted" /\ OwnRanks(queue[p], flight[t]) # {}
      /\ queue' = [queue EXCEPT ![p] = left]
      /\ queuedAt' = [queuedAt EXCEPT ![t] = FALSE]
      /\ Goto(t, "requesting")
      /\ UNCHANGED <<result, flight, sub, answer, chan, lru, absent, pools, said>>
  BY Zenon DEF ClaimGroup, Run, FromRank, ToRank, Own, Ranks
<1>f. FlightsInv
  BY Zenon DEF FlightsInv
<1>p. p \in Path /\ KeyOf[t] \in Key
  BY Zenon DEF StoreAssumption, Path
<1>2. /\ s \in Seq(Bounded) /\ Distinct(s)
      /\ \A x : x \in Range(s) <=> x \in Range(queue[p])
      /\ own \in 1..Len(s) /\ s[own].key = KeyOf[t]
      /\ \A i \in 1..Len(s) : s[i].owner = flight[t] => i = own
      /\ FromRank(t) \in 1..own /\ ToRank(t) \in own..Len(s)
  BY Zenon, <1>1, <1>f, GroupIs
<1>3. /\ group' \in [Task -> Seq(Key)] /\ Range(group'[t]) = Together(t)
      /\ \A u \in Task : u # t => group'[u] = group[u]
      /\ reads' = [k \in Key |-> IF k \in Together(t)
                                 THEN [tx |-> reads[k].tx, owner |-> flight[t]] ELSE reads[k]]
  BY Zenon, <1>f, GroupTaken
<1>4. /\ Len(s) \in Nat /\ DOMAIN s = 1..Len(s)
      /\ Ranks(t) \subseteq DOMAIN s /\ own \in Ranks(t)
  <2> HIDE DEF s, own
  <2>1. Len(s) \in Nat /\ DOMAIN s = 1..Len(s)
    BY <1>2
  <2> QED
    BY <2>1, <1>2 DEF Ranks
<1>5. flight[t] # 0 /\ flight[t] \in FlightId /\ queuedAt[t] /\ group[t] = <<KeyOf[t]>>
  BY Zenon, <1>1 DEF GuardInv, Guarded, Types
(* Every range of the run is queued by a live leader that owns its entry. *)
<1>6. ASSUME NEW i \in DOMAIN s
      PROVE  /\ s[i] \in QueueEntry /\ s[i].key \in Key
             /\ reads[s[i].key].owner = s[i].owner /\ s[i].owner # 0
             /\ \E u \in Task : flight[u] = s[i].owner /\ queuedAt[u] /\ KeyOf[u] = s[i].key
             /\ s[i].key.path = p
  <2>1. s[i] \in Range(queue[p])
    BY Zenon, <1>2 DEF Range
  <2>2. queue[p] \in Seq(QueueEntry)
    BY Zenon, <1>p DEF Types
  <2>3. s[i] \in QueueEntry
    BY Zenon, <2>1, <2>2, RangeIn
  <2> HIDE DEF s, p
  <2> QED
    BY Zenon, <2>1, <2>3, <1>p DEF QueueInv, QueueEntry, StoreAssumption
<1> HIDE DEF s, own
<1>7. \A k : k \in Together(t) <=> \E i \in Ranks(t) : s[i].key = k
  BY Zenon DEF Together, s
<1>8. KeyOf[t] \in Together(t)
  BY Zenon, <1>2, <1>4, <1>7
<1>9. ASSUME NEW k \in Together(t)
      PROVE  /\ k \in Key /\ k.path = p /\ reads[k] # NotInFlight
             /\ \E u \in Task : flight[u] = reads[k].owner /\ queuedAt[u]
  <2>1. PICK i \in Ranks(t) : s[i].key = k
    BY Zenon, <1>7
  <2>2. i \in DOMAIN s
    BY Zenon, <1>4
  <2>3. k \in Key /\ k.path = p /\ reads[k].owner # 0
        /\ \E u \in Task : flight[u] = reads[k].owner /\ queuedAt[u]
    BY Zenon, <2>1, <2>2, <1>6
  <2> QED
    BY Zenon, <2>3, EntryIs
<1>10. /\ pc' \in [Task -> Label] /\ pc'[t] = "requesting"
       /\ \A u \in Task : u # t => pc'[u] = pc[u]
  BY Zenon, <1>1 DEF Goto, Types, Label
<1>11. /\ queuedAt' \in [Task -> BOOLEAN] /\ queuedAt'[t] = FALSE
       /\ \A u \in Task : u # t => queuedAt'[u] = queuedAt[u]
  BY Zenon, <1>1 DEF Types
<1>12. ASSUME NEW k \in Key
       PROVE  /\ reads'[k].tx = reads[k].tx
              /\ k \in Together(t) => reads'[k].owner = flight[t]
              /\ k \notin Together(t) => reads'[k] = reads[k]
              /\ reads'[k] # NotInFlight => reads[k] # NotInFlight
  BY Zenon, <1>3, <1>9
<1>13. reads' \in [Key -> InFlightRead \union {NotInFlight}]
  <2>1. ASSUME NEW k \in Key
        PROVE  (IF k \in Together(t) THEN [tx |-> reads[k].tx, owner |-> flight[t]] ELSE reads[k])
                 \in InFlightRead \union {NotInFlight}
    <3>1. CASE k \in Together(t)
      <4>1. reads[k].tx \in FlightId
        BY Zenon, <3>1, <1>9, EntryIs
      <4> QED
        BY Zenon, <3>1, <4>1, <1>5 DEF InFlightRead
    <3>2. CASE k \notin Together(t)
      BY Zenon, <3>2 DEF Types
    <3> QED
      BY Zenon, <3>1, <3>2
  <2> QED
    BY Zenon, <2>1, <1>3
<1>14. GuardInv'
  <2> SUFFICES ASSUME NEW u \in Task
               PROVE  /\ flight[u] # 0 <=> pc'[u] \in Guarded
                      /\ sub[u] # 0 <=> pc'[u] \in Listening
                      /\ queuedAt'[u] <=> pc'[u] \in {"queueing", "admitted"}
                      /\ queuedAt'[u] => Mergeable(u)
                      /\ pc'[u] \in {"queueing", "admitted", "leading"} => group'[u] = <<KeyOf[u]>>
                      /\ pc'[u] \in Guarded => /\ KeyOf[u] \in Range(group'[u])
                                               /\ \A j \in Range(group'[u]) : j.path = KeyOf[u].path
    BY Zenon, <1>1 DEF GuardInv, Mergeable
  <2>1. CASE u = t
    <3>1. sub[t] # 0 /\ flight[t] # 0
      BY Zenon, <1>1 DEF GuardInv, Guarded, Listening
    <3> QED
      BY ZenonT(40), <2>1, <3>1, <1>3, <1>8, <1>9, <1>10, <1>11 DEF Guarded, Listening
  <2>2. CASE u # t
    BY ZenonT(40), <2>2, <1>3, <1>10, <1>11 DEF GuardInv
  <2> QED
    BY Zenon, <2>1, <2>2
<1>15. TableInv'
  <2>0. chan' = chan /\ flight' = flight
    BY Zenon, <1>1
  <2>1. ASSUME NEW j \in Key, reads'[j] # NotInFlight
        PROVE  /\ \E u \in Task : flight[u] = reads'[j].owner /\ j \in Range(group'[u])
               /\ \A i \in Key : reads'[i].tx = reads'[j].tx => i = j
               /\ chan[reads'[j].tx] = Nothing
    <3>1. reads[j] # NotInFlight /\ reads'[j].tx = reads[j].tx
      BY Zenon, <2>1, <1>12
    <3>2. CASE j \in Together(t)
      BY Zenon, <3>1, <3>2, <1>3, <1>12 DEF TableInv
    <3>3. CASE j \notin Together(t)
      <4>1. PICK u \in Task : flight[u] = reads[j].owner /\ j \in Range(group[u])
        BY Zenon, <3>1 DEF TableInv
      <4>2. u # t
        <5>1. Range(<<KeyOf[t]>>) = {KeyOf[t]}
          BY DEF Range
        <5> QED
          BY Zenon, <4>1, <5>1, <3>3, <1>5, <1>8
      <4> QED
        BY ZenonT(40), <3>1, <3>3, <4>1, <4>2, <1>3, <1>12 DEF TableInv
    <3> QED
      BY Zenon, <3>2, <3>3
  <2>2. ASSUME NEW u \in Task
        PROVE  /\ pc'[u] \in Claimed => \A j \in Range(group'[u]) : reads'[j].owner = flight[u]
               /\ flight[u] # 0 /\ reads'[KeyOf[u]].owner = flight[u]
                    => reads'[KeyOf[u]].tx = flight[u]
    <3>k. KeyOf[u] \in Key
      BY Zenon DEF StoreAssumption
    <3>1. CASE u = t
      <4>1. reads[KeyOf[t]].owner = flight[t]
        <5>1. PICK v \in Task : flight[v] = s[own].owner /\ queuedAt[v] /\ KeyOf[v] = s[own].key
          BY Zenon, <1>2, <1>4, <1>6
        <5>2. s[own].owner = flight[t]
          <6>1. PICK j \in DOMAIN queue[p] : queue[p][j].owner = flight[t]
            BY Zenon, <1>1 DEF OwnRanks
          <6>2. queue[p][j] \in Range(s)
            BY Zenon, <6>1, <1>2 DEF Range
          <6>3. PICK i \in DOMAIN s : s[i] = queue[p][j]
            BY Zenon, <6>2 DEF Range
          <6> QED
            BY Zenon, <6>1, <6>3, <1>2, <1>4
        <5> QED
          BY Zenon, <5>2, <1>2, <1>4, <1>6
      <4>2. \A j \in Range(group'[t]) : reads'[j].owner = flight[t]
        BY Zenon, <1>3, <1>9, <1>12
      <4>3. flight[t] # 0 => reads[KeyOf[t]].tx = flight[t]
        BY Zenon, <4>1 DEF TableInv
      <4>4. reads'[KeyOf[t]].tx = reads[KeyOf[t]].tx
        BY Zenon, <1>p, <1>12
      <4> QED
        BY Zenon, <3>1, <4>2, <4>3, <4>4
    <3>2. CASE u # t
      <4>1. ASSUME pc[u] \in Claimed, NEW j \in Range(group[u]) PROVE reads'[j].owner = flight[u]
        <5>1. reads[j].owner = flight[u] /\ flight[u] # 0 /\ ~queuedAt[u]
          BY Zenon, <4>1 DEF TableInv, GuardInv, Claimed, Guarded
        <5>2. j \in Key
          BY Zenon, <4>1, RangeIn DEF Types
        <5>3. j \notin Together(t)
          BY <5>1, <1>9 DEF GuardInv
        <5> QED
          BY Zenon, <5>1, <5>2, <5>3, <1>12
      <4>2. ASSUME flight[u] # 0, reads'[KeyOf[u]].owner = flight[u]
            PROVE  reads'[KeyOf[u]].tx = flight[u]
        <5>1. KeyOf[u] \notin Together(t)
          BY Zenon, <3>k, <3>2, <4>2, <1>12 DEF GuardInv
        <5> QED
          BY Zenon, <5>1, <3>k, <4>2, <1>12 DEF TableInv
      <4> QED
        BY Zenon, <3>2, <4>1, <4>2, <1>3, <1>10
    <3> QED
      BY Zenon, <3>1, <3>2
  <2> QED
    BY Zenon, <2>0, <2>1, <2>2 DEF TableInv
<1>16. ChannelInv'
  <2>1. chan' = chan /\ sub' = sub /\ said' = said
    BY Zenon, <1>1
  <2>2. \A k \in Key : reads'[k].tx = reads[k].tx
    BY Zenon, <1>12
  <2>3. \A u \in Task : KeyOf[u] \in Key
    BY Zenon DEF StoreAssumption
  <2> QED
    BY <2>1, <2>2, <2>3 DEF ChannelInv
<1>17. /\ queue' \in [Path -> Seq(QueueEntry)]
       /\ \A h \in Path : h # p => queue'[h] = queue[h]
       /\ Distinct(queue'[p])
       /\ \A y : y \in Range(queue'[p]) <=> y \in Range(queue[p]) /\ y.key \notin Together(t)
  <2>1. ASSUME NEW i \in DOMAIN s
        PROVE  claimed[i] \in QueueEntry /\ claimed[i].key = s[i].key
    BY Zenon, <1>5, <1>6 DEF QueueEntry
  <2>2. claimed \in Seq(QueueEntry) /\ DOMAIN claimed = DOMAIN s
    <3>1. claimed \in [1..Len(s) -> QueueEntry]
      BY Zenon, <2>1, <1>4
    <3> HIDE DEF claimed
    <3> QED
      BY <3>1, <1>4
  <2>3. Distinct(claimed)
    <3> HIDE DEF claimed
    <3> QED
      BY Zenon, <2>1, <2>2, <1>2 DEF Distinct
  <2>4. ASSUME NEW i \in DOMAIN s
        PROVE  /\ i \in Ranks(t) => claimed[i].owner = flight[t] /\ s[i].key \in Together(t)
               /\ i \notin Ranks(t) => /\ claimed[i] = s[i] /\ s[i].owner # flight[t]
                                       /\ s[i].key \notin Together(t)
    <3>1. i \in Ranks(t) => claimed[i].owner = flight[t] /\ s[i].key \in Together(t)
      BY Zenon, <1>7
    <3>2. ASSUME i \notin Ranks(t) PROVE s[i].owner # flight[t]
      BY Zenon, <3>2, <1>2, <1>4
    <3>3. ASSUME i \notin Ranks(t) PROVE s[i].key \notin Together(t)
      BY <3>3, <1>2, <1>4, <1>7 DEF Distinct
    <3> QED
      BY Zenon, <3>1, <3>2, <3>3
  <2> HIDE DEF claimed
  <2>5. /\ left \in Seq(QueueEntry) /\ Distinct(left)
        /\ Range(left) = {e \in Range(claimed) : e.owner # flight[t]}
    BY Zenon, <2>2, <2>3, RetainedFrame
  <2> HIDE DEF left
  <2>6. \A y : y \in Range(left) <=> y \in Range(queue[p]) /\ y.key \notin Together(t)
    <3> TAKE y
    <3>1. y \in Range(left) <=> \E i \in DOMAIN s : claimed[i] = y /\ y.owner # flight[t]
      BY Zenon, <2>2, <2>5 DEF Range
    <3>2. y \in Range(queue[p]) <=> \E i \in DOMAIN s : s[i] = y
      BY Zenon, <1>2 DEF Range
    <3> HIDE DEF p
    <3> QED
      BY Zenon, <3>1, <3>2, <2>4
  <2> QED
    BY Zenon, <2>5, <2>6, <1>1, <1>p DEF Types
<1>18. QueueInv'
  <2>0. flight' = flight
    BY Zenon, <1>1
  <2>1. ASSUME NEW h \in Path, NEW y \in Range(queue'[h])
        PROVE  /\ Distinct(queue'[h])
               /\ reads'[y.key].owner = y.owner
               /\ \E u \in Task : flight[u] = y.owner /\ queuedAt'[u] /\ KeyOf[u] = y.key
               /\ y.key.path = h
    <3>1. y \in Range(queue[h]) /\ Distinct(queue'[h])
      BY Zenon, <2>1, <1>17 DEF QueueInv
    <3>2. /\ reads[y.key].owner = y.owner /\ y.key.path = h
      BY Zenon, <3>1 DEF QueueInv
    <3>3. PICK u \in Task : flight[u] = y.owner /\ queuedAt[u] /\ KeyOf[u] = y.key
      BY Zenon, <3>1 DEF QueueInv
    <3>4. y.key \notin Together(t)
      <4>1. CASE h = p
        BY Zenon, <4>1, <2>1, <1>17
      <4>2. CASE h # p
        BY Zenon, <4>2, <3>2, <1>9
      <4> QED
        BY Zenon, <4>1, <4>2
    <3>5. u # t
      BY Zenon, <3>3, <3>4, <1>8
    <3>6. y.key \in Key
      BY Zenon, <3>3 DEF StoreAssumption
    <3> QED
      BY ZenonT(40), <3>1, <3>2, <3>3, <3>4, <3>5, <3>6, <1>11, <1>12
  <2>d. ASSUME NEW h \in Path PROVE Distinct(queue'[h])
    BY Zenon, <1>17 DEF QueueInv
  <2>2. ASSUME NEW u \in Task, queuedAt'[u], reads'[KeyOf[u]].owner = flight[u]
        PROVE  [key |-> KeyOf[u], owner |-> flight[u]] \in Range(queue'[KeyOf[u].path])
    <3>1. u # t /\ queuedAt[u]
      BY Zenon, <2>2, <1>11
    <3>2. KeyOf[u] \in Key /\ KeyOf[u].path \in Path
      BY Zenon DEF StoreAssumption, Path
    <3>3. KeyOf[u] \notin Together(t)
      BY ZenonT(40), <3>1, <3>2, <2>2, <1>5, <1>12 DEF GuardInv
    <3>4. reads[KeyOf[u]].owner = flight[u]
      BY Zenon, <3>2, <3>3, <2>2, <1>12
    <3>5. [key |-> KeyOf[u], owner |-> flight[u]] \in Range(queue[KeyOf[u].path])
      BY Zenon, <3>1, <3>4 DEF QueueInv
    <3>6. CASE KeyOf[u].path = p
      BY Zenon, <3>3, <3>5, <3>6, <1>17
    <3>7. CASE KeyOf[u].path # p
      BY Zenon, <3>2, <3>5, <3>7, <1>17
    <3> QED
      BY Zenon, <3>6, <3>7
  <2> QED
    BY ZenonT(40), <2>0, <2>1, <2>d, <2>2 DEF QueueInv
<1>19. PermitsBalance'
  <2>1. pc[t] \in Outstanding /\ "requesting" \in Outstanding
    BY Zenon, <1>1 DEF Outstanding
  <2> QED
    BY Zenon, <2>1, <1>1, PermitsKept
<1>20. AnswerInv'
  BY Zenon, <1>1, <1>3, AnswersKept
<1>21. LruInv'
  BY Zenon, <1>1 DEF LruInv, Clean, Bytes
<1>22. ExactBytes' /\ AbsenceIsReal' /\ DOMAIN result' = Task
  BY Zenon, <1>1, <1>21, ResultsKept DEF AbsenceIsReal, LruInv
<1>23. Types'
  BY ZenonT(40), <1>1, <1>3, <1>10, <1>11, <1>13, <1>17, <1>22 DEF Types, pools
<1> QED
  BY ZenonT(40), <1>14, <1>15, <1>16, <1>18, <1>19, <1>20, <1>21, <1>22, <1>23

-----------------------------------------------------------------------------
(* The run a request carries: between two gaps, and connected.             *)
LEMMA ClaimCarriesTheRun ==
    ASSUME StoreAssumption, Counting, Types, FlightsInv, NEW t \in Task, ClaimGroup(t)
    PROVE  CarriesTheRun(t)
<1> DEFINE s == Run(t)
           n == Len(s)
           own == Own(t)
           a == FromRank(t)
           b == ToRank(t)
           ks == Range(group'[t])
           q == queue[KeyOf[t].path]
           waiting == {q[i].key : i \in DOMAIN q}
<1>1. pc[t] = "admitted" /\ OwnRanks(q, flight[t]) # {}
  BY Zenon DEF ClaimGroup
<1>2. /\ s \in Seq(Bounded) /\ InOrder(s) /\ Distinct(s)
      /\ \A x : x \in Range(s) <=> x \in Range(q)
      /\ own \in 1..n /\ s[own].key = KeyOf[t]
      /\ a \in 1..own /\ b \in own..n
  BY Zenon, <1>1, GroupIs
<1>3. ks = {s[i].key : i \in a..b}
  BY Zenon, GroupTaken DEF Together, Ranks
<1>4. /\ a > 1 => ~Touches(s, a)
      /\ \A i \in (a + 1)..b : Touches(s, i)
      /\ b < n => ~Touches(s, b + 1)
  <2>1. a = FirstCarried(s, own) /\ b = LastCarried(s, own)
    BY Zenon DEF FromRank, ToRank
  <2> HIDE DEF s, own, a, b
  <2> QED
    BY Zenon, <2>1, <1>2, RunIs
<1>5. waiting = {s[i].key : i \in 1..n}
  <2>1. DOMAIN s = 1..n
    BY <1>2
  <2>2. \A x : (\E i \in DOMAIN s : s[i] = x) <=> (\E i \in DOMAIN q : q[i] = x)
    BY Zenon, <1>2 DEF Range
  <2>3. ASSUME NEW i \in DOMAIN q PROVE \E j \in 1..n : q[i].key = s[j].key
    <3>1. PICK j \in DOMAIN s : s[j] = q[i]
      BY Zenon, <2>2
    <3> QED
      BY Zenon, <3>1, <2>1
  <2>4. ASSUME NEW j \in 1..n PROVE \E i \in DOMAIN q : q[i].key = s[j].key
    <3>1. PICK i \in DOMAIN q : q[i] = s[j]
      BY Zenon, <2>1, <2>2
    <3> QED
      BY Zenon, <3>1
  <2> HIDE DEF s, q, n
  <2> QED
    BY <2>3, <2>4
<1>6. n \in Nat /\ \A i \in 1..n : /\ Start(s, i) \in Nat /\ End(s, i) \in Nat
                                   /\ Start(s, i) < End(s, i)
  <2>1. \A i \in 1..n : s[i] \in Bounded
    BY <1>2
  <2> HIDE DEF s
  <2> QED
    BY <2>1, <1>2 DEF Bounded, Start, End
<1>7. \A i, j \in 1..n : i <= j => Start(s, i) <= Start(s, j)
  BY Zenon, <1>2 DEF InOrder
<1>8. \A i \in 1..n : s[i].key.range[1] = Start(s, i) /\ s[i].key.range[2] = End(s, i)
  BY Zenon DEF Start, End
<1>9. own \in Nat /\ a \in Nat /\ b \in Nat /\ 1 <= a /\ a <= own /\ own <= b /\ b <= n
  BY <1>2, <1>6
<1>d. \A i, j \in 1..n : s[i].key = s[j].key => i = j
  BY <1>2 DEF Distinct
<1> HIDE DEF s, n, own, a, b, ks, waiting, q
<1>10. KeyOf[t] \in ks /\ ks \subseteq waiting
  <2>1. own \in a..b /\ a..b \subseteq 1..n
    BY <1>6, <1>9
  <2> QED
    BY Zenon, <2>1, <1>2, <1>3, <1>5
<1>11. ASSUME NEW x \in ks, NEW y \in waiting \ ks PROVE ~Adjacent(x, y)
  <2>1. PICK i \in a..b : x = s[i].key
    BY Zenon, <1>3
  <2>2. PICK j \in 1..n : y = s[j].key
    BY Zenon, <1>5
  <2>3. j \notin a..b
    BY Zenon, <2>2, <1>3
  <2>4. i \in 1..n /\ i \in Nat /\ j \in Nat /\ a <= i /\ i <= b /\ 1 <= j /\ j <= n
    BY <1>6, <1>9
  <2>5. CASE j < a
    <3>1. a > 1 /\ a \in 1..n /\ j \in 1..(a - 1)
      BY <2>4, <2>5, <1>6, <1>9
    <3>2. ~(Start(s, a) <= End(s, j))
      BY Zenon, <3>1, <1>4 DEF Touches
    <3>3. Start(s, a) <= Start(s, i)
      BY Zenon, <3>1, <2>4, <1>7
    <3>4. ~(Start(s, i) <= End(s, j))
      BY <3>1, <3>2, <3>3, <2>4, <1>6
    <3> QED
      BY Zenon, <3>4, <2>1, <2>2, <2>4, <1>8 DEF Adjacent
  <2>6. CASE b < j
    <3>1. b < n /\ b + 1 \in 1..n /\ i \in 1..((b + 1) - 1) /\ b + 1 <= j
      BY <2>4, <2>6, <1>6, <1>9
    <3>2. ~(Start(s, b + 1) <= End(s, i))
      BY Zenon, <3>1, <1>4 DEF Touches
    <3>3. Start(s, b + 1) <= Start(s, j)
      BY Zenon, <3>1, <2>4, <1>7
    <3>4. ~(Start(s, j) <= End(s, i))
      BY <3>1, <3>2, <3>3, <2>4, <1>6
    <3> QED
      BY Zenon, <3>4, <2>1, <2>2, <2>4, <1>8 DEF Adjacent
  <2> QED
    BY <2>3, <2>4, <2>5, <2>6, <1>9
<1>12. ASSUME NEW part \in SUBSET ks, part # {}, part # ks
       PROVE  \E x \in part, y \in ks \ part : Adjacent(x, y)
  <2> DEFINE in(i) == s[i].key \in part
             D == {i \in a..b : in(i) # in(a)}
  <2>1. D # {}
    <3>1. PICK x \in part : x \in ks
      BY Zenon, <1>12
    <3>2. PICK y \in ks : y \notin part
      BY Zenon, <1>12
    <3>3. PICK i \in a..b : x = s[i].key
      BY Zenon, <3>1, <1>3
    <3>4. PICK j \in a..b : y = s[j].key
      BY Zenon, <3>2, <1>3
    <3>5. in(i) /\ ~in(j)
      BY Zenon, <3>1, <3>2, <3>3, <3>4
    <3> HIDE DEF in
    <3> QED
      BY Zenon, <3>5
  <2>2. D \subseteq Nat
    BY <1>9
  <2> DEFINE d == Min(D)
  <2>3. d \in D /\ \A y \in D : d <= y
    <3> HIDE DEF D
    <3> QED
      BY Zenon, <2>1, <2>2, MinIs
  <2> HIDE DEF d
  <2>4. d \in a..b /\ in(d) # in(a)
    BY Zenon, <2>3
  <2>5. d # a
    BY Zenon, <2>4
  <2>6. d \in (a + 1)..b /\ d \in 1..n /\ d \in Nat /\ a \in 1..n
    BY <2>4, <2>5, <1>6, <1>9
  <2>7. PICK j \in 1..(d - 1) : Start(s, d) <= End(s, j)
    BY Zenon, <2>6, <1>4 DEF Touches
  <2>8. j \in 1..n /\ j \in Nat /\ j < d
    BY <2>6, <1>6
  <2>9. j >= a
    <3> SUFFICES ASSUME j < a PROVE FALSE
      BY <2>8, <1>9
    <3>1. a > 1 /\ j \in 1..(a - 1) /\ a <= d
      BY <2>6, <2>8, <1>9
    <3>2. ~(Start(s, a) <= End(s, j))
      BY Zenon, <3>1, <1>4 DEF Touches
    <3>3. Start(s, a) <= Start(s, d)
      BY Zenon, <3>1, <2>6, <1>7
    <3> QED
      BY <3>2, <3>3, <2>6, <2>7, <2>8, <1>6
  <2>10. j \in a..b /\ ~(d <= j)
    BY <2>6, <2>8, <2>9, <1>9
  <2>11. in(j) = in(a)
    BY Zenon, <2>3, <2>10
  <2>12. Start(s, j) <= End(s, d)
    <3>1. Start(s, j) <= Start(s, d)
      BY <2>6, <2>8, <1>7
    <3> QED
      BY <3>1, <2>6, <2>8, <1>6
  <2>13. Adjacent(s[d].key, s[j].key) /\ Adjacent(s[j].key, s[d].key)
    BY Zenon, <2>6, <2>7, <2>8, <2>12, <1>8 DEF Adjacent
  <2>14. s[d].key \in ks /\ s[j].key \in ks
    BY Zenon, <2>4, <2>10, <1>3
  <2>15. in(d) # in(j)
    BY Zenon, <2>4, <2>11
  <2>16. (in(d) /\ ~in(j)) \/ (in(j) /\ ~in(d))
    BY <2>15
  <2> QED
    BY Zenon, <2>13, <2>14, <2>16
<1> QED
  BY Zenon, <1>10, <1>11, <1>12 DEF CarriesTheRun, ks, waiting, q

-----------------------------------------------------------------------------
LEMMA IInvInit ==
    ASSUME StoreAssumption, Counting, Init PROVE IInv
<1>1. Types
  BY DEF Init, Types, Label, StoreAssumption, Path
<1>2. FlightsInv
  <2>1. GuardInv
    BY Zenon DEF Init, GuardInv, Guarded, Listening
  <2>2. TableInv
    BY Zenon DEF Init, TableInv, Claimed, NotInFlight
  <2>3. ChannelInv
    BY Zenon DEF Init, ChannelInv
  <2>4. QueueInv
    <3>1. \A p \in Path : queue[p] = <<>>
      BY Zenon DEF Init
    <3>2. Range(<<>>) = {} /\ Distinct(<<>>)
      BY DEF Range, Distinct
    <3>3. \A u \in Task : ~queuedAt[u]
      BY Zenon DEF Init
    <3> QED
      BY Zenon, <3>1, <3>2, <3>3 DEF QueueInv
  <2> QED
    BY Zenon, <2>1, <2>2, <2>3, <2>4 DEF FlightsInv
<1>3. AnswerInv
  BY Zenon DEF Init, AnswerInv
<1>4. LruInv
  <2>1. lru = <<>> /\ lru \in Seq(LruEntry) /\ Len(lru) = 0 /\ DOMAIN lru = {}
    BY DEF Init
  <2>2. PICK f : Summing(lru, f) /\ Bytes(lru) = f[Len(lru)]
    BY Zenon, <2>1, BytesIs
  <2>3. Bytes(lru) = 0
    BY Zenon, <2>1, <2>2 DEF Summing
  <2> QED
    BY <2>1, <2>3 DEF LruInv, Clean, Distinct, StoreAssumption
<1>5. PermitsBalance
  <2>1. \A cs : Holding(cs) = {}
    BY Zenon DEF Holding, Init, Outstanding
  <2>2. Cardinality({}) = 0
    BY Zenon, FS_EmptySet
  <2>3. chunkFree + 0 = ChunkPermits /\ metaFree + 0 = MetaPermits
    BY DEF Init, StoreAssumption
  <2> QED
    BY Zenon, <2>1, <2>2, <2>3, BalanceIs
<1>6. ExactBytes /\ AbsenceIsReal
  <2>1. Range(<<>>) = {}
    BY DEF Range
  <2> QED
    BY Zenon, <2>1 DEF Init, ExactBytes, AbsenceIsReal, Nothing, Absent, Answer
<1> QED
  BY Zenon, <1>1, <1>2, <1>3, <1>4, <1>5, <1>6 DEF IInv, FlightsInv

LEMMA IInvNext ==
    ASSUME StoreAssumption, Counting, IInv, [Next]_vars PROVE IInv'
<1>1. CASE Next
  <2>1. PICK t \in Task : Progress(t) \/ Answered(t) \/ Cancel(t)
    BY Zenon, <1>1 DEF Next
  <2>2. CASE Progress(t)
    BY ZenonT(40), <2>2, CheckAbsentStep, NoteAbsentStep, LookupStep, FollowStep, LeadStep,
       AcquiredStep,
       ClaimGroupStep, AlreadyCarriedStep, FileStep, PublishStep, DeliveredStep, ProbeStep,
       ProbeResidentStep DEF Progress
  <2>3. CASE Answered(t)
    BY Zenon, <2>3, RespondStep, HeadAnsweredStep DEF Answered
  <2>4. CASE Cancel(t)
    BY Zenon, <2>4, CancelStep
  <2> QED
    BY Zenon, <2>1, <2>2, <2>3, <2>4
<1>2. CASE UNCHANGED vars
  <2>0. /\ UNCHANGED <<pc, result, flight, queuedAt, group, answer, sub, reads, queue, chan>>
        /\ UNCHANGED <<lru, absent, chunkFree, metaFree, said>>
    BY Zenon, <1>2 DEF vars, guards, flights, pools
  <2>1. Types'
    BY Zenon, <2>0 DEF IInv, Types
  <2>2. GuardInv'
    BY ZenonT(40), <2>0 DEF IInv, GuardInv, Mergeable
  <2>3. TableInv' /\ ChannelInv' /\ QueueInv'
    BY <2>0 DEF IInv, TableInv, ChannelInv, QueueInv
  <2>4. AnswerInv'
    BY Zenon, <2>0 DEF IInv, AnswerInv, Answered1, Refused
  <2>5. LruInv' /\ ExactBytes' /\ AbsenceIsReal'
    BY Zenon, <2>0 DEF IInv, LruInv, Clean, Bytes, ExactBytes, AbsenceIsReal
  <2>6. PermitsBalance'
    BY Zenon, <2>0 DEF IInv, PermitsBalance
  <2> QED
    BY Zenon, <2>1, <2>2, <2>3, <2>4, <2>5, <2>6 DEF IInv
<1> QED
  BY Zenon, <1>1, <1>2

LEMMA CountingHolds == Counting
<1>1. ASSUME NEW S \in SUBSET Nat, S # {} PROVE \E x \in S : \A y \in S : x <= y
  <2> DEFINE Less == {p \in Nat \X Nat : p[1] < p[2]}
  <2>1. IsWellFoundedOn(Less, Nat)
    BY Zenon, NatLessThanWellFounded DEF OpToRel
  <2> HIDE DEF Less
  <2>2. PICK x \in S : \A y \in S : <<y, x>> \notin Less
    BY Zenon, <1>1, <2>1, WFMin
  <2>3. x \in Nat /\ \A y \in S : y \in Nat /\ ~(y < x)
    BY Zenon, <2>2 DEF Less
  <2>4. \A y \in S : x <= y
    BY <2>3
  <2> QED
    BY Zenon, <2>4
<1>2. ASSUME NEW S, NEW T, IsFiniteSet(S), T \subseteq S
      PROVE  IsFiniteSet(T) /\ Cardinality(T) \in Nat
  BY Zenon, <1>2, FS_Subset, FS_CardinalityType
<1>3. ASSUME NEW S, NEW x, IsFiniteSet(S), x \notin S
      PROVE  Cardinality(S \union {x}) = Cardinality(S) + 1
  BY Zenon, <1>3, FS_AddElement
<1>4. ASSUME NEW S, NEW x, IsFiniteSet(S), x \in S
      PROVE  Cardinality(S \ {x}) = Cardinality(S) - 1
  BY Zenon, <1>4, FS_RemoveElement
<1> QED
  BY Zenon, <1>1, <1>2, <1>3, <1>4 DEF Counting

LEMMA IInvHolds ==
    ASSUME StoreAssumption PROVE Spec => []IInv
<1>1. Init => IInv
  BY Zenon, IInvInit, CountingHolds
<1>2. IInv /\ [Next]_vars => IInv'
  BY Zenon, IInvNext, CountingHolds
<1> QED
  BY <1>1, <1>2, PTL DEF Spec

(* What the inductive invariant says of the table, the queues, the         *)
(* requests, the permits and the LRU.                                      *)
LEMMA Consequences ==
    ASSUME StoreAssumption, IInv
    PROVE  /\ TypeOK /\ NoWedge /\ QueuedIsInFlight
           /\ OneRequestPerKey /\ PermitsBalance /\ BudgetKept
<1> USE DEF IInv
<1>k. \A t \in Task : KeyOf[t] \in Key
  BY Zenon DEF StoreAssumption
<1>1. TypeOK
  <2>1. ASSUME NEW t \in Task
        PROVE  /\ pc[t] \in {"idle", "lookup", "placing", "following", "queueing", "admitted",
                             "carried", "leading", "requesting", "fetched", "publishing",
                             "noting", "probeLookup", "probeQueued", "heading"} \union Done
               /\ flight[t] \in {0} \union FlightId /\ sub[t] \in {0} \union FlightId
               /\ Range(group[t]) \subseteq Key
               /\ t \in Leading <=> pc[t] \in {"queueing", "admitted", "leading",
                                              "requesting", "fetched", "publishing"}
    <3>1. pc[t] \in Label
      BY Zenon DEF Types
    <3>2. flight[t] # 0 <=> pc[t] \in Guarded
      BY Zenon DEF GuardInv
    <3>3. Range(group[t]) \subseteq Key
      BY Zenon, RangeIn DEF Types
    <3>4. flight[t] \in {0} \union FlightId /\ sub[t] \in {0} \union FlightId
      BY Zenon DEF Types
    <3> QED
      BY Zenon, <3>1, <3>2, <3>3, <3>4 DEF Leading, Label, Guarded, Done
  <2>2. \A k \in Key : reads[k] = NotInFlight \/ {reads[k].tx, reads[k].owner} \subseteq FlightId
    BY Zenon, EntryIs
  <2>3. \A e \in Range(lru) : e.key \in Key
    <3>1. \A e \in Range(lru) : e \in LruEntry
      BY Zenon, RangeIn DEF Types
    <3> QED
      BY Zenon, <3>1 DEF LruEntry
  <2>4. chunkFree \in 0..ChunkPermits /\ metaFree \in 0..MetaPermits
    <3>1. /\ chunkFree + Cardinality(Holding({"chunk"})) = ChunkPermits
          /\ metaFree + Cardinality(Holding(Other)) = MetaPermits
      BY Zenon, BalanceIs
    <3>2. /\ chunkFree \in Nat /\ metaFree \in Nat /\ ChunkPermits \in Nat /\ MetaPermits \in Nat
          /\ Cardinality(Holding({"chunk"})) \in Nat /\ Cardinality(Holding(Other)) \in Nat
      BY Zenon, HoldingIs, CountingHolds DEF Types, StoreAssumption
    <3> QED
      BY <3>1, <3>2
  <2>5. absent \subseteq Path
    BY Zenon DEF Types
  <2> QED
    BY Zenon, <2>1, <2>2, <2>3, <2>4, <2>5 DEF TypeOK
<1>2. NoWedge
  <2> SUFFICES ASSUME NEW t \in Task,
                      pc[t] \in {"following", "carried", "queueing", "admitted"},
                      chan[sub[t]] = Nothing
               PROVE  /\ reads[KeyOf[t]].tx = sub[t]
                      /\ \E u \in Leading : flight[u] = reads[KeyOf[t]].owner
    BY Zenon DEF NoWedge
  <2>1. sub[t] # 0
    BY Zenon DEF GuardInv, Listening, Guarded
  <2>2. reads[KeyOf[t]].tx = sub[t]
    BY Zenon, <2>1 DEF ChannelInv
  <2>3. reads[KeyOf[t]] # NotInFlight
    BY Zenon, <2>1, <2>2, <1>k, EntryIs
  <2>4. PICK u \in Task : flight[u] = reads[KeyOf[t]].owner
    BY Zenon, <2>3, <1>k DEF TableInv
  <2>5. flight[u] # 0
    BY Zenon, <2>3, <2>4, <1>k, EntryIs
  <2> QED
    BY Zenon, <2>2, <2>4, <2>5 DEF Leading
<1>3. QueuedIsInFlight
  <2> SUFFICES ASSUME NEW p \in Path, NEW i \in DOMAIN queue[p]
               PROVE  /\ reads[queue[p][i].key].owner = queue[p][i].owner
                      /\ \E u \in Leading : flight[u] = queue[p][i].owner /\ queuedAt[u]
                      /\ \A j \in DOMAIN queue[p] : queue[p][i].key = queue[p][j].key => i = j
    BY Zenon DEF QueuedIsInFlight
  <2>1. queue[p][i] \in Range(queue[p])
    BY Zenon DEF Range
  <2>2. PICK u \in Task : flight[u] = queue[p][i].owner /\ queuedAt[u]
    BY <2>1 DEF QueueInv
  <2>3. u \in Leading
    BY Zenon, <2>2 DEF Leading, GuardInv, Guarded
  <2> QED
    BY ZenonT(40), <2>1, <2>2, <2>3 DEF QueueInv, Distinct
<1>4. OneRequestPerKey
  <2> SUFFICES ASSUME NEW t \in Task, NEW u \in Task, t # u,
                      pc[t] = "requesting", pc[u] = "requesting",
                      NEW k \in Range(group[t]), k \in Range(group[u])
               PROVE  FALSE
    BY Zenon DEF OneRequestPerKey
  <2>1. reads[k].owner = flight[t] /\ reads[k].owner = flight[u]
    BY Zenon DEF TableInv, Claimed
  <2>2. flight[t] # 0
    BY Zenon DEF GuardInv, Guarded
  <2> QED
    BY ZenonT(40), <2>1, <2>2 DEF GuardInv
<1>5. BudgetKept
  BY Zenon DEF LruInv, Clean, Distinct, BudgetKept
<1> QED
  BY Zenon, <1>1, <1>2, <1>3, <1>4, <1>5

(* Only the claim takes a range read from its permit to its request. *)
LEMMA ClaimsTheRun ==
    ASSUME StoreAssumption, IInv, [Next]_vars
    PROVE  [\A t \in Task : pc[t] = "admitted" /\ pc'[t] = "requesting" => CarriesTheRun(t)]_vars
<1> SUFFICES ASSUME Next, NEW u \in Task, pc[u] = "admitted", pc'[u] = "requesting"
             PROVE  CarriesTheRun(u)
  BY Zenon
<1>f. Types /\ FlightsInv
  BY Zenon DEF IInv, FlightsInv
<1>1. PICK t \in Task : Progress(t) \/ Answered(t) \/ Cancel(t)
  BY Zenon DEF Next
<1>2. ASSUME NEW l, Goto(t, l) PROVE t = u /\ l = "requesting"
  BY Zenon, <1>2, <1>f DEF Goto, Types
<1>3. CASE ClaimGroup(t)
  <2>1. t = u
    BY Zenon, <1>2, <1>3 DEF ClaimGroup
  <2> QED
    BY Zenon, <2>1, <1>3, <1>f, ClaimCarriesTheRun, CountingHolds
<1>4. CASE ~ClaimGroup(t)
  <2>1. CASE Progress(t)
    <3>1. CheckAbsent(t) => FALSE
      BY Zenon, <1>2 DEF CheckAbsent
    <3>2. NoteAbsent(t) => FALSE
      BY Zenon, <1>2 DEF NoteAbsent
    <3>3. Lookup(t) => FALSE
      BY Zenon, <1>2 DEF Lookup, Return
    <3>4. Follow(t) \/ Lead(t) => FALSE
      BY Zenon, <1>2 DEF Follow, Lead
    <3>5. Acquired(t) => FALSE
      <4> SUFFICES ASSUME Acquired(t) PROVE FALSE
        BY Zenon
      <4>1. t = u
        BY ZenonT(40), <1>2 DEF Acquired
      <4> QED
        BY Zenon, <4>1 DEF Acquired
    <3>6. AlreadyCarried(t) \/ File(t) => FALSE
      BY <1>2 DEF AlreadyCarried, File
    <3>7. Publish(t) => FALSE
      BY Zenon, <1>2 DEF Publish, Return
    <3>8. Delivered(t) => FALSE
      BY Zenon, <1>2 DEF Delivered, Return
    <3>9. Probe(t) \/ ProbeResident(t) => FALSE
      BY Zenon, <1>2 DEF Probe, ProbeResident
    <3> QED
      BY ZenonT(40), <2>1, <1>4, <3>1, <3>2, <3>3, <3>4, <3>5, <3>6, <3>7, <3>8, <3>9
         DEF Progress
  <2>2. CASE Answered(t)
    <3>1. PICK r \in {"ok"} \union BackendError : Respond(t, r) \/ HeadAnswered(t, r)
      BY Zenon, <2>2 DEF Answered
    <3> QED
      BY Zenon, <3>1, <1>2 DEF Respond, HeadAnswered
  <2>3. CASE Cancel(t)
    BY Zenon, <2>3, <1>2 DEF Cancel
  <2> QED
    BY Zenon, <2>1, <2>2, <2>3, <1>1
<1> QED
  BY Zenon, <1>3, <1>4

-----------------------------------------------------------------------------
(* get_bytes_as returns the bytes of the key it was asked for, whoever     *)
(* read them: any number of followers, merged ranges, retries and          *)
(* evictions.                                                              *)
THEOREM BytesAreExact ==
    ASSUME StoreAssumption PROVE Spec => []ExactBytes
<1>1. IInv => ExactBytes
  BY Zenon DEF IInv
<1> QED
  BY <1>1, IInvHolds, PTL

(* get_optional_metadata and probe_exists report an object absent only     *)
(* when the backend said so.                                               *)
THEOREM AbsencesAreReal ==
    ASSUME StoreAssumption PROVE Spec => []AbsenceIsReal
<1>1. IInv => AbsenceIsReal
  BY Zenon DEF IInv
<1> QED
  BY <1>1, IInvHolds, PTL

(* The single flight, the merged requests, the permits and the LRU: no     *)
(* wedge, one request per key, every permit accounted for, the budget      *)
(* kept, and each merged request exactly a run of touching ranges.         *)
THEOREM StoreHolds ==
    ASSUME StoreAssumption PROVE Spec => StoreIsSound
<1>1. IInv => /\ TypeOK /\ NoWedge /\ QueuedIsInFlight
              /\ OneRequestPerKey /\ PermitsBalance /\ BudgetKept
  BY Zenon, Consequences
<1>2. IInv /\ [Next]_vars
        => [\A t \in Task : pc[t] = "admitted" /\ pc'[t] = "requesting" => CarriesTheRun(t)]_vars
  BY Zenon, ClaimsTheRun
<1>3. Spec => [](/\ TypeOK /\ NoWedge /\ QueuedIsInFlight
                 /\ OneRequestPerKey /\ PermitsBalance /\ BudgetKept)
  BY <1>1, IInvHolds, PTL
<1>4. Spec => MergesTheRun
  BY <1>2, IInvHolds, PTL DEF Spec, MergesTheRun
<1> QED
  BY Zenon, <1>3, <1>4 DEF StoreIsSound

-----------------------------------------------------------------------------
(* Proxy volumes on demand.                                                *)

\* The stages between entering the in-flight map and leaving it.
LeadStage == {"acquire", "source", "compute", "put", "send"}

\* What a call can be told.
Told == {"nothing", "fresh", "error"}

\* The stages of a call.
RequestStage == {"idle", "check", "join", "follow", "done", "dead"} \cup LeadStage

ProxyTypes ==
    /\ file \in [Kind -> {"absent", "stale", "fresh"}]
    /\ inFlight \in [Kind -> Caller \cup {NoLeader}]
    /\ doing \in [Caller -> RequestStage]
    /\ want \in [Caller -> Kind]
    /\ sent \in [Caller -> Told] /\ inbox \in [Caller -> Told]
    /\ returned \in [Caller -> Told]

\* A call that leads is the one the map names for its spec: what makes the
\* lookup and the insertion under one lock exclude a second leader.
LeaderIsListed == \A c \in Caller : doing[c] \in LeadStage => inFlight[want[c]] = c

\* The calls that hold a permit.
Generators == {c \in Caller : doing[c] \in Generating}

ProxyInv ==
    /\ ProxyTypes
    /\ LeaderIsListed
    /\ Cardinality(Generators) <= Permits

\* A step that lets nobody new start to generate keeps within the permits.
LEMMA NoNewGenerator ==
    ASSUME ProxyAssumption, Cardinality(Generators) <= Permits,
           Generators' \subseteq Generators
    PROVE  Cardinality(Generators') <= Permits
<1>1. IsFiniteSet(Generators)
  BY Zenon, FS_Subset DEF ProxyAssumption, Generators
<1>2. IsFiniteSet(Generators') /\ Cardinality(Generators') <= Cardinality(Generators)
  BY Zenon, <1>1, FS_Subset
<1> QED
  BY <1>1, <1>2, FS_CardinalityType DEF ProxyAssumption

\* The initial states.
LEMMA ProxyInitHolds == ASSUME ProxyAssumption PROVE ProxyInit => ProxyInv
<1> SUFFICES ASSUME ProxyInit PROVE ProxyInv
  BY Zenon
<1>1. Generators = {}
  BY Zenon DEF ProxyInit, Generators, Generating
<1>2. Cardinality(Generators) <= Permits
  BY <1>1, FS_EmptySet DEF ProxyAssumption
<1>3. ProxyTypes
  BY Zenon DEF ProxyInit, ProxyTypes, RequestStage, Told, ProxyAssumption
<1>4. LeaderIsListed
  BY Zenon DEF ProxyInit, LeaderIsListed, LeadStage
<1> QED
  BY Zenon, <1>2, <1>3, <1>4 DEF ProxyInv

\* Every step keeps the types.
LEMMA ProxyTypeStep == ProxyTypes /\ [ProxyNext]_proxyVars => ProxyTypes'
<1> SUFFICES ASSUME ProxyTypes, [ProxyNext]_proxyVars PROVE ProxyTypes'
  BY Zenon
<1> USE DEF ProxyTypes, RequestStage, LeadStage, Told
<1>1. ASSUME NEW c \in Caller, NEW s \in Kind, Ask(c, s) PROVE ProxyTypes'
  BY Zenon, <1>1 DEF Ask, At
<1>2. ASSUME NEW c \in Caller, CheckCache(c) PROVE ProxyTypes'
  BY <1>2 DEF CheckCache, get, At, Returns, Fault
<1>3. ASSUME NEW c \in Caller, LeadSpec(c) \/ FollowSpec(c) \/ Acquire(c) PROVE ProxyTypes'
  BY <1>3 DEF LeadSpec, FollowSpec, Acquire, At
<1>4. ASSUME NEW c \in Caller, Generate(c) PROVE ProxyTypes'
  BY Zenon, <1>4 DEF Generate, Fault
<1>5. ASSUME NEW c \in Caller, PutCache(c) PROVE ProxyTypes'
  BY Zenon, <1>5 DEF PutCache, Fault, At
<1>6. ASSUME NEW c \in Caller, Broadcast(c) PROVE ProxyTypes'
  BY Zenon, <1>6 DEF Broadcast, Returns, after_send
<1>7. ASSUME NEW c \in Caller, Receive(c) \/ Panic(c) PROVE ProxyTypes'
  BY Zenon, <1>7 DEF Receive, Returns, Panic
<1>8. CASE UNCHANGED proxyVars
  BY Zenon, <1>8 DEF proxyVars
<1> QED
  BY Zenon, <1>1, <1>2, <1>3, <1>4, <1>5, <1>6, <1>7, <1>8 DEF ProxyNext, Step

\* Every step keeps the map in agreement with who leads: an entry is made
\* only where there was none, and only its own leader takes it out.
LEMMA ListedStep ==
    ASSUME ProxyAssumption, ProxyTypes, LeaderIsListed, [ProxyNext]_proxyVars
    PROVE  LeaderIsListed'
<1> USE DEF LeaderIsListed, LeadStage, ProxyTypes
<1>1. ASSUME NEW c \in Caller, NEW s \in Kind, Ask(c, s) PROVE LeaderIsListed'
  BY Zenon, <1>1 DEF Ask, At
<1>2. ASSUME NEW c \in Caller, CheckCache(c) PROVE LeaderIsListed'
  BY Zenon, <1>2 DEF CheckCache, get, At, Returns
<1>3. ASSUME NEW c \in Caller, LeadSpec(c) PROVE LeaderIsListed'
  BY Zenon, <1>3 DEF LeadSpec, may_lead, At, ProxyAssumption
<1>4. ASSUME NEW c \in Caller, FollowSpec(c) \/ Acquire(c) PROVE LeaderIsListed'
  BY Zenon, <1>4 DEF FollowSpec, Acquire, At
<1>5. ASSUME NEW c \in Caller, Generate(c) \/ PutCache(c) PROVE LeaderIsListed'
  BY Zenon, <1>5 DEF Generate, PutCache, At
<1>6. ASSUME NEW c \in Caller, Broadcast(c) PROVE LeaderIsListed'
  BY Zenon, <1>6 DEF Broadcast, Returns, after_send
<1>7. ASSUME NEW c \in Caller, Receive(c) \/ Panic(c) PROVE LeaderIsListed'
  BY Zenon, <1>7 DEF Receive, Returns, Panic
<1>8. CASE UNCHANGED proxyVars
  BY Zenon, <1>8 DEF proxyVars
<1> QED
  BY Zenon, <1>1, <1>2, <1>3, <1>4, <1>5, <1>6, <1>7, <1>8 DEF ProxyNext, Step

\* Every step keeps within the permits: only Acquire makes a generator, and
\* its guard counts those there are.
LEMMA PermitsStep ==
    ASSUME ProxyAssumption, ProxyTypes, Cardinality(Generators) <= Permits, [ProxyNext]_proxyVars
    PROVE  Cardinality(Generators') <= Permits
<1>1. ASSUME NEW c \in Caller, Acquire(c) PROVE Cardinality(Generators') <= Permits
  <2>1. Generators' = Generators \cup {c} /\ c \notin Generators
    BY Zenon, <1>1 DEF Acquire, At, Generators, Generating, ProxyTypes
  <2>2. IsFiniteSet(Generators)
    BY Zenon, FS_Subset DEF ProxyAssumption, Generators
  <2>3. Cardinality(Generators') = Cardinality(Generators) + 1
    BY Zenon, <2>1, <2>2, FS_AddElement
  <2>4. Cardinality(Generators) < Permits
    BY Zenon, <1>1 DEF Acquire, Generators
  <2> QED
    BY <2>2, <2>3, <2>4, FS_CardinalityType DEF ProxyAssumption
<1>2. ASSUME NEW c \in Caller, Step(c) \/ Panic(c), ~Acquire(c)
      PROVE  Generators' \subseteq Generators
  BY Zenon, <1>2
     DEF Step, Panic, CheckCache, LeadSpec, FollowSpec, Generate, PutCache, Broadcast, Receive,
     At, Returns, Generators, Generating, ProxyTypes
<1>3. ASSUME NEW c \in Caller, NEW s \in Kind, Ask(c, s) PROVE Generators' \subseteq Generators
  BY Zenon, <1>3 DEF Ask, At, Generators, Generating, ProxyTypes
<1>4. CASE UNCHANGED proxyVars
  BY Zenon, <1>4, NoNewGenerator DEF proxyVars, Generators
<1> QED
  BY Zenon, <1>1, <1>2, <1>3, <1>4, NoNewGenerator DEF ProxyNext

\* The inductive invariant holds in every reachable state.
THEOREM ProxyInvHolds == ASSUME ProxyAssumption PROVE ProxySpec => []ProxyInv
<1>1. ProxyInit => ProxyInv
  BY Zenon, ProxyInitHolds
<1>2. ProxyInv /\ [ProxyNext]_proxyVars => ProxyInv'
  BY Zenon, ProxyTypeStep, ListedStep, PermitsStep DEF ProxyInv
<1> QED
  BY <1>1, <1>2, PTL DEF ProxySpec

\* However requests, failures and panics interleave, a spec is generated by
\* one caller at a time and within the permits, and what a caller is told
\* was made for the content it asked about (ProxyGenerator::request).
THEOREM ProxiesSound == ASSUME ProxyAssumption PROVE ProxySpec => []ProxiesAreSound
<1>1. ProxyInv => ProxiesAreSound
  <2> SUFFICES ASSUME ProxyInv PROVE OneGeneration /\ FreshOrError
    BY Zenon DEF ProxiesAreSound
  <2>1. OneGeneration
    BY Zenon DEF ProxyInv, OneGeneration, LeaderIsListed, LeadStage, Generating, Generators
  <2>2. FreshOrError
    BY Zenon DEF ProxyInv, ProxyTypes, FreshOrError, Told
  <2> QED
    BY Zenon, <2>1, <2>2
<1> QED
  BY <1>1, ProxyInvHolds, PTL
=============================================================================
