-------------------------- MODULE CachedStoreSteps ---------------------------
(***************************************************************************)
(* Every step of a call but the claim of a group keeps CachedStore's       *)
(* inductive invariant.                                                    *)
(***************************************************************************)
EXTENDS CachedStoreLemmas

(* The leaves that name no prover are the SMT solver's. *)
USE SMTT(60)

-----------------------------------------------------------------------------
(* The steps of a call, one by one.                                        *)

LEMMA CheckAbsentStep ==
    ASSUME StoreAssumption, IInv, NEW t \in Task, CheckAbsent(t) PROVE IInv'
<1> USE DEF IInv
<1> DEFINE l == IF KeyOf[t].path \in absent THEN "done" ELSE "lookup"
<1>1. /\ Goto(t, l) /\ pc[t] = "idle"
      /\ UNCHANGED <<guards, sub, flights, lru, absent, pools, said>>
  BY Zenon DEF CheckAbsent
<1>2. Alike(pc[t], l) /\ l \notin Outstanding /\ pc[t] \notin Outstanding
      /\ l \notin {"fetched", "publishing", "noting"}
  BY Zenon, <1>1 DEF Alike, Guarded, Listening, Claimed, Label, Outstanding
<1>r. result' = result \/ (result' = [result EXCEPT ![t] = Absent] /\ Honest(t, Absent))
  BY Zenon, <1>1 DEF CheckAbsent, AbsenceIsReal, Honest, Absent
<1> HIDE DEF l
<1>3. FlightsInv' /\ pc' \in [Task -> Label]
  BY Zenon, <1>1, <1>2, QuietStep DEF FlightsInv, guards, flights
<1>4. PermitsBalance'
  BY Zenon, <1>1, <1>2, PermitsKept
<1>5. AnswerInv'
  BY Zenon, <1>1, <1>2, AnswersKept DEF guards
<1>6. LruInv'
  BY Zenon, <1>1 DEF LruInv, Clean, Bytes
<1>7. ExactBytes' /\ AbsenceIsReal' /\ DOMAIN result' = Task
  BY Zenon, <1>1, <1>6, <1>r, ResultsKept DEF AbsenceIsReal, LruInv
<1>8. Types'
  BY Zenon, <1>1, <1>3, <1>7 DEF Types, guards, flights, pools
<1> QED
  BY Zenon, <1>3, <1>4, <1>5, <1>6, <1>7, <1>8 DEF FlightsInv

LEMMA NoteAbsentStep ==
    ASSUME StoreAssumption, IInv, NEW t \in Task, NoteAbsent(t) PROVE IInv'
<1> USE DEF IInv
<1> DEFINE r == IF ClassOf[t] = "probe" THEN Answer(FALSE) ELSE Absent
<1>1. /\ Goto(t, "done") /\ pc[t] = "noting" /\ result' = [result EXCEPT ![t] = r]
      /\ absent' = absent \union {KeyOf[t].path}
      /\ UNCHANGED <<guards, sub, flights, lru, pools, said>>
  BY Zenon DEF NoteAbsent
<1>2. Alike(pc[t], "done") /\ "done" \notin Outstanding /\ pc[t] \notin Outstanding
  BY Zenon, <1>1 DEF Alike, Guarded, Listening, Claimed, Label, Outstanding
<1>3. KeyOf[t].path \in said /\ KeyOf[t].path \in Path
  BY Zenon, <1>1 DEF AnswerInv, StoreAssumption, Path
<1>r. Honest(t, r)
  BY Zenon, <1>1, <1>3 DEF Honest, Absent, Answer
<1> HIDE DEF r
<1>4. FlightsInv' /\ pc' \in [Task -> Label]
  BY Zenon, <1>1, <1>2, QuietStep DEF FlightsInv, guards, flights
<1>5. PermitsBalance'
  BY Zenon, <1>1, <1>2, PermitsKept
<1>6. AnswerInv'
  BY Zenon, <1>1, <1>2, AnswersKept DEF guards
<1>7. LruInv'
  BY Zenon, <1>1 DEF LruInv, Clean, Bytes
<1>8. ExactBytes' /\ AbsenceIsReal' /\ DOMAIN result' = Task
  BY Zenon, <1>1, <1>3, <1>7, <1>r, ResultsKept DEF AbsenceIsReal, LruInv
<1>9. Types'
  BY Zenon, <1>1, <1>3, <1>4, <1>8 DEF Types, guards, flights, pools
<1> QED
  BY Zenon, <1>4, <1>5, <1>6, <1>7, <1>8, <1>9 DEF FlightsInv

LEMMA LookupStep ==
    ASSUME StoreAssumption, Counting, IInv, NEW t \in Task, Lookup(t) PROVE IInv'
<1> USE DEF IInv
<1> DEFINE k == KeyOf[t]
           hit == Resident(lru, k)
           r == Ok(EntryOf(lru, k).bytes)
           l == IF hit THEN "done" ELSE "placing"
<1>1. pc[t] \in {"lookup", "idle"} /\ UNCHANGED <<guards, sub, flights, absent, pools, said>>
  BY Zenon DEF Lookup
<1>2. hit => EntryOf(lru, k).bytes = k
  BY Zenon, RankIs DEF EntryOf, LruInv, Clean
<1>3. Goto(t, l)
  BY Zenon DEF Lookup, Return, Ok, Err
<1>4. LruInv' /\ lru' \in Seq(LruEntry)
  <2>1. CASE hit
    BY <2>1, TouchFrame DEF Lookup, LruInv, Clean
  <2>2. CASE ~hit
    BY Zenon, <2>2 DEF Lookup, LruInv, Clean, Bytes
  <2> QED
    BY Zenon, <2>1, <2>2
<1>5. Alike(pc[t], l) /\ l \notin Outstanding /\ pc[t] \notin Outstanding
      /\ l \notin {"fetched", "publishing", "noting"}
  BY Zenon, <1>1 DEF Alike, Guarded, Listening, Claimed, Label, Outstanding
<1>r. result' = result \/ (result' = [result EXCEPT ![t] = r] /\ Honest(t, r))
  BY Zenon, <1>2 DEF Lookup, Return, Honest, Ok, Absent, Answer
<1> HIDE DEF l, r, hit, k
<1>6. FlightsInv' /\ pc' \in [Task -> Label]
  BY Zenon, <1>1, <1>3, <1>5, QuietStep DEF FlightsInv, guards, flights
<1>7. PermitsBalance'
  BY Zenon, <1>1, <1>3, <1>5, PermitsKept
<1>8. AnswerInv'
  BY Zenon, <1>1, <1>3, <1>5, AnswersKept DEF guards
<1>9. ExactBytes' /\ AbsenceIsReal' /\ DOMAIN result' = Task
  BY Zenon, <1>1, <1>4, <1>r, ResultsKept DEF AbsenceIsReal, LruInv
<1>10. Types'
  BY Zenon, <1>1, <1>4, <1>6, <1>9 DEF Types, guards, flights, pools
<1> QED
  BY Zenon, <1>4, <1>6, <1>7, <1>8, <1>9, <1>10 DEF FlightsInv

LEMMA AcquiredStep ==
    ASSUME StoreAssumption, Counting, IInv, NEW t \in Task, Acquired(t) PROVE IInv'
<1> USE DEF IInv
<1> DEFINE l == CASE pc[t] = "queueing" -> "admitted"
                  [] pc[t] = "leading" -> "requesting"
                  [] pc[t] = "probeQueued" -> "heading"
<1>1. /\ Goto(t, l) /\ pc[t] \in {"queueing", "leading", "probeQueued"} /\ TakePermit(t)
      /\ UNCHANGED <<result, guards, sub, flights, lru, absent, said>>
  BY Zenon DEF Acquired
<1>2. /\ pc[t] = "queueing" => l = "admitted"
      /\ pc[t] = "leading" => l = "requesting"
      /\ pc[t] = "probeQueued" => l = "heading"
  BY Zenon
<1> HIDE DEF l
<1>3. Alike(pc[t], l) /\ l \in Outstanding /\ pc[t] \notin Outstanding
      /\ l \notin {"fetched", "publishing", "noting"}
  BY Zenon, <1>1, <1>2 DEF Alike, Guarded, Listening, Claimed, Label, Outstanding
<1>4. FlightsInv' /\ pc' \in [Task -> Label]
  BY Zenon, <1>1, <1>3, QuietStep DEF FlightsInv, guards, flights
<1>5. PermitsBalance' /\ chunkFree' \in Nat /\ metaFree' \in Nat
  BY Zenon, <1>1, <1>3, PermitTaken
<1>6. AnswerInv'
  BY Zenon, <1>1, <1>3, AnswersKept DEF guards
<1>7. LruInv'
  BY Zenon, <1>1 DEF LruInv, Clean, Bytes
<1>8. ExactBytes' /\ AbsenceIsReal' /\ DOMAIN result' = Task
  BY Zenon, <1>1, <1>7, ResultsKept DEF AbsenceIsReal, LruInv
<1>9. Types'
  BY Zenon, <1>1, <1>4, <1>5, <1>8 DEF Types, guards, flights
<1> QED
  BY Zenon, <1>4, <1>5, <1>6, <1>7, <1>8, <1>9 DEF FlightsInv

LEMMA ProbeStep ==
    ASSUME StoreAssumption, IInv, NEW t \in Task, Probe(t) PROVE IInv'
<1> USE DEF IInv
<1> DEFINE l == IF KeyOf[t].path \in absent THEN "done" ELSE "probeLookup"
           r == Answer(FALSE)
<1>1. /\ Goto(t, l) /\ pc[t] = "idle"
      /\ UNCHANGED <<guards, sub, flights, lru, absent, pools, said>>
  BY Zenon DEF Probe
<1>2. Alike(pc[t], l) /\ l \notin Outstanding /\ pc[t] \notin Outstanding
      /\ l \notin {"fetched", "publishing", "noting"}
  BY Zenon, <1>1 DEF Alike, Guarded, Listening, Claimed, Label, Outstanding
<1>r. result' = result \/ (result' = [result EXCEPT ![t] = r] /\ Honest(t, r))
  BY Zenon, <1>1 DEF Probe, AbsenceIsReal, Honest, Answer
<1> HIDE DEF l, r
<1>3. FlightsInv' /\ pc' \in [Task -> Label]
  BY Zenon, <1>1, <1>2, QuietStep DEF FlightsInv, guards, flights
<1>4. PermitsBalance'
  BY Zenon, <1>1, <1>2, PermitsKept
<1>5. AnswerInv'
  BY Zenon, <1>1, <1>2, AnswersKept DEF guards
<1>6. LruInv'
  BY Zenon, <1>1 DEF LruInv, Clean, Bytes
<1>7. ExactBytes' /\ AbsenceIsReal' /\ DOMAIN result' = Task
  BY Zenon, <1>1, <1>6, <1>r, ResultsKept DEF AbsenceIsReal, LruInv
<1>8. Types'
  BY Zenon, <1>1, <1>3, <1>7 DEF Types, guards, flights, pools
<1> QED
  BY Zenon, <1>3, <1>4, <1>5, <1>6, <1>7, <1>8 DEF FlightsInv

LEMMA ProbeResidentStep ==
    ASSUME StoreAssumption, Counting, IInv, NEW t \in Task, ProbeResident(t) PROVE IInv'
<1> USE DEF IInv
<1> DEFINE k == KeyOf[t]
           hit == Resident(lru, k)
           r == Answer(TRUE)
           l == IF hit THEN "done" ELSE "probeQueued"
<1>1. pc[t] = "probeLookup" /\ UNCHANGED <<guards, sub, flights, absent, pools, said>>
  BY Zenon DEF ProbeResident
<1>3. Goto(t, l)
  BY Zenon DEF ProbeResident
<1>4. LruInv' /\ lru' \in Seq(LruEntry)
  <2>1. CASE hit
    BY <2>1, TouchFrame DEF ProbeResident, LruInv, Clean
  <2>2. CASE ~hit
    BY Zenon, <2>2 DEF ProbeResident, LruInv, Clean, Bytes
  <2> QED
    BY Zenon, <2>1, <2>2
<1>5. Alike(pc[t], l) /\ l \notin Outstanding /\ pc[t] \notin Outstanding
      /\ l \notin {"fetched", "publishing", "noting"}
  BY Zenon, <1>1 DEF Alike, Guarded, Listening, Claimed, Label, Outstanding
<1>r. result' = result \/ (result' = [result EXCEPT ![t] = r] /\ Honest(t, r))
  BY Zenon DEF ProbeResident, Honest, Absent, Answer
<1> HIDE DEF l, r, hit, k
<1>6. FlightsInv' /\ pc' \in [Task -> Label]
  BY Zenon, <1>1, <1>3, <1>5, QuietStep DEF FlightsInv, guards, flights
<1>7. PermitsBalance'
  BY Zenon, <1>1, <1>3, <1>5, PermitsKept
<1>8. AnswerInv'
  BY Zenon, <1>1, <1>3, <1>5, AnswersKept DEF guards
<1>9. ExactBytes' /\ AbsenceIsReal' /\ DOMAIN result' = Task
  BY Zenon, <1>1, <1>4, <1>r, ResultsKept DEF AbsenceIsReal, LruInv
<1>10. Types'
  BY Zenon, <1>1, <1>4, <1>6, <1>9 DEF Types, guards, flights, pools
<1> QED
  BY Zenon, <1>4, <1>6, <1>7, <1>8, <1>9, <1>10 DEF FlightsInv

LEMMA HeadAnsweredStep ==
    ASSUME StoreAssumption, Counting, IInv, NEW t \in Task, NEW r \in {"ok"} \union BackendError,
           HeadAnswered(t, r)
    PROVE  IInv'
<1> USE DEF IInv
<1> DEFINE l == IF r = "NotFound" THEN "noting" ELSE "done"
           v == IF r = "ok" THEN Answer(TRUE) ELSE Err(r)
<1>1. /\ Goto(t, l) /\ pc[t] = "heading" /\ ReturnPermit(t)
      /\ result' = [result EXCEPT ![t] = v]
      /\ said' = IF r = "NotFound" THEN said \union {KeyOf[t].path} ELSE said
      /\ UNCHANGED <<guards, sub, flights, lru, absent>>
  BY Zenon DEF HeadAnswered
<1>2. /\ Alike(pc[t], l) /\ l \notin Outstanding /\ pc[t] \in Outstanding
      /\ l \notin {"fetched", "publishing"} /\ (l = "noting" => KeyOf[t].path \in said')
  BY Zenon, <1>1 DEF Alike, Guarded, Listening, Claimed, Label, Outstanding
<1>3. KeyOf[t].path \in Path
  BY Zenon DEF StoreAssumption, Path
<1>s. said \subseteq said' /\ said' \subseteq Path
  BY Zenon, <1>1, <1>3 DEF Types
<1>r. Honest(t, v)
  BY Zenon DEF Honest, Absent, Answer, Err
<1> HIDE DEF l, v
<1>4. FlightsInv' /\ pc' \in [Task -> Label]
  BY Zenon, <1>1, <1>2, <1>s, QuietStep DEF FlightsInv, guards, flights
<1>5. PermitsBalance' /\ chunkFree' \in Nat /\ metaFree' \in Nat
  BY Zenon, <1>1, <1>2, PermitReturned
<1>6. AnswerInv'
  BY Zenon, <1>1, <1>2, <1>s, AnswersKept DEF guards
<1>7. LruInv'
  BY Zenon, <1>1 DEF LruInv, Clean, Bytes
<1>8. ExactBytes' /\ AbsenceIsReal' /\ DOMAIN result' = Task
  BY Zenon, <1>1, <1>s, <1>7, <1>r, ResultsKept DEF AbsenceIsReal, LruInv
<1>9. Types'
  BY Zenon, <1>1, <1>s, <1>4, <1>5, <1>8 DEF Types, guards, flights
<1> QED
  BY Zenon, <1>4, <1>5, <1>6, <1>7, <1>8, <1>9 DEF FlightsInv

LEMMA RespondStep ==
    ASSUME StoreAssumption, Counting, IInv, NEW t \in Task, NEW r \in {"ok"} \union BackendError,
           Respond(t, r)
    PROVE  IInv'
<1> USE DEF IInv
<1> DEFINE v == [i \in DOMAIN group[t] |-> IF r = "ok" THEN Ok(group[t][i]) ELSE Err(r)]
<1>1. /\ Goto(t, "fetched") /\ pc[t] = "requesting" /\ ReturnPermit(t)
      /\ answer' = [answer EXCEPT ![t] = v]
      /\ said' = IF r = "NotFound" THEN said \union {KeyOf[t].path} ELSE said
      /\ UNCHANGED <<result, flight, queuedAt, sub, group, flights, lru, absent>>
  BY Zenon DEF Respond
<1>2. /\ Alike(pc[t], "fetched") /\ "fetched" \notin Outstanding /\ pc[t] \in Outstanding
  BY Zenon, <1>1 DEF Alike, Guarded, Listening, Claimed, Label, Outstanding
<1>3. KeyOf[t].path \in Path
  BY Zenon DEF StoreAssumption, Path
<1>s. said \subseteq said' /\ said' \subseteq Path
  BY Zenon, <1>1, <1>3 DEF Types
<1>v. /\ r = "ok" => v = [i \in DOMAIN group[t] |-> Ok(group[t][i])]
      /\ r # "ok" => v = [i \in DOMAIN group[t] |-> Err(r)] /\ r \in ErrorVariant
  BY Zenon DEF StoreAssumption
<1> HIDE DEF v
<1>4. FlightsInv' /\ pc' \in [Task -> Label]
  BY Zenon, <1>1, <1>2, <1>s, QuietStep DEF FlightsInv, flights
<1>5. PermitsBalance' /\ chunkFree' \in Nat /\ metaFree' \in Nat
  BY Zenon, <1>1, <1>2, PermitReturned
<1>a. DOMAIN answer' = Task /\ answer'[t] = v /\ \A u \in Task : u # t => answer'[u] = answer[u]
  BY Zenon, <1>1 DEF Types
<1>6. AnswerInv'
  <2> SUFFICES ASSUME NEW u \in Task
               PROVE  /\ pc'[u] \in {"fetched", "publishing"} => Answered1(u)' \/ Refused(u)'
                      /\ pc'[u] = "noting" => KeyOf[u].path \in said'
    BY Zenon DEF AnswerInv
  <2>1. pc'[t] = "fetched" /\ \A w \in Task : w # t => pc'[w] = pc[w]
    BY Zenon, <1>1 DEF Goto, Types
  <2>2. CASE u = t
    <3>1. CASE r = "ok"
      BY Zenon, <3>1, <2>1, <2>2, <1>v, <1>a, <1>1 DEF Answered1
    <3>2. CASE r # "ok"
      BY Zenon, <3>2, <2>1, <2>2, <1>v, <1>a, <1>1 DEF Refused
    <3> QED
      BY Zenon, <3>1, <3>2
  <2>3. CASE u # t
    <3>1. Answered1(u) => Answered1(u)'
      BY Zenon, <2>3, <1>1, <1>a DEF Answered1
    <3>2. Refused(u) => Refused(u)'
      BY Zenon, <2>3, <1>1, <1>a, <1>s DEF Refused
    <3> QED
      BY Zenon, <2>1, <2>3, <3>1, <3>2, <1>s DEF AnswerInv
  <2> QED
    BY Zenon, <2>2, <2>3
<1>7. LruInv'
  BY Zenon, <1>1 DEF LruInv, Clean, Bytes
<1>8. ExactBytes' /\ AbsenceIsReal' /\ DOMAIN result' = Task
  BY Zenon, <1>1, <1>s, <1>7, ResultsKept DEF AbsenceIsReal, LruInv
<1>9. Types'
  BY Zenon, <1>1, <1>a, <1>s, <1>4, <1>5, <1>8 DEF Types, flights
<1> QED
  BY Zenon, <1>4, <1>5, <1>6, <1>7, <1>8, <1>9 DEF FlightsInv

(* Every member of the group is filed under its own key. *)
LEMMA FileStep ==
    ASSUME StoreAssumption, Counting, IInv, NEW t \in Task, File(t) PROVE IInv'
<1> USE DEF IInv
<1> DEFINE g == group[t]
           bytes == [i \in DOMAIN g |-> answer[t][i].val]
           after == Filing(lru, g, bytes)
           ok == answer[t][1].tag = "ok"
           filed == [i \in DOMAIN g |-> Ok(EntryOf(after[i], g[i]).bytes)]
<1>1. /\ Goto(t, "publishing") /\ pc[t] = "fetched"
      /\ UNCHANGED <<result, flight, queuedAt, sub, group, flights, absent, pools, said>>
      /\ lru' = IF ok THEN after[Len(g)] ELSE lru
      /\ answer' = IF ok THEN [answer EXCEPT ![t] = filed] ELSE answer
  BY Zenon DEF File
<1>2. /\ Alike(pc[t], "publishing") /\ "publishing" \notin Outstanding /\ pc[t] \notin Outstanding
  BY Zenon, <1>1 DEF Alike, Guarded, Listening, Claimed, Label, Outstanding
<1>g. g \in Seq(Key) /\ Len(g) \in Nat /\ DOMAIN g = 1..Len(g) /\ 1 \in DOMAIN g
  <2>1. g \in Seq(Key)
    BY Zenon DEF Types
  <2>2. Len(g) \in Nat /\ DOMAIN g = 1..Len(g)
    BY <2>1
  <2>3. PICK i \in DOMAIN g : g[i] = KeyOf[t]
    BY Zenon, <1>1 DEF GuardInv, Guarded, Range
  <2> HIDE DEF g
  <2>4. 1 \in 1..Len(g)
    BY <2>2, <2>3
  <2> QED
    BY Zenon, <2>1, <2>2, <2>4
<1>3. Answered1(t) \/ Refused(t)
  BY Zenon, <1>1 DEF AnswerInv
<1>a. \/ Answered1(t) /\ answer' = [answer EXCEPT ![t] = [i \in DOMAIN g |-> Ok(g[i])]]
         /\ Clean(lru')
      \/ Refused(t) /\ answer' = answer /\ lru' = lru
  <2>1. CASE Answered1(t)
    <3>1. ok /\ \A i \in DOMAIN g : bytes[i] = g[i]
      <4>1. answer[t] = [i \in DOMAIN g |-> Ok(g[i])]
        BY Zenon, <2>1 DEF Answered1
      <4> HIDE DEF g
      <4> QED
        BY <4>1, <1>g DEF Ok
    <3> HIDE DEF g, bytes
    <3>2. /\ \A i \in 0..Len(g) : Clean(after[i])
          /\ \A i \in 1..Len(g) : Freshest(after[i], g[i])
      BY Zenon, <3>1, <1>g, FilingFrame DEF LruInv
    <3> HIDE DEF after
    <3>3. \A i \in 1..Len(g) : EntryOf(after[i], g[i]).bytes = g[i]
      <4> TAKE i \in 1..Len(g)
      <4>1. i \in 0..Len(g)
        BY <1>g
      <4> QED
        BY Zenon, <4>1, <3>2, FreshestIs
    <3>4. filed = [i \in DOMAIN g |-> Ok(g[i])]
      BY Zenon, <3>3, <1>g
    <3>5. Len(g) \in 0..Len(g)
      BY <1>g
    <3> HIDE DEF filed
    <3> QED
      BY Zenon, <3>1, <3>2, <3>4, <3>5, <1>1, <2>1
  <2>2. CASE Refused(t)
    <3>1. ~ok
      <4>1. PICK e \in ErrorVariant : answer[t] = [i \in DOMAIN g |-> Err(e)]
        BY Zenon, <2>2 DEF Refused
      <4> HIDE DEF g
      <4> QED
        BY <4>1, <1>g DEF Err
    <3> QED
      BY Zenon, <3>1, <1>1, <2>2
  <2> QED
    BY Zenon, <2>1, <2>2, <1>3
<1> HIDE DEF after, filed, bytes, ok
<1>b. FlightsInv' /\ pc' \in [Task -> Label]
  BY Zenon, <1>1, <1>2, QuietStep DEF FlightsInv, flights
<1>c. PermitsBalance'
  BY Zenon, <1>1, <1>2, PermitsKept
<1>d. DOMAIN answer' = Task /\ (Answered1(t)' \/ Refused(t)')
      /\ \A u \in Task : u # t => answer'[u] = answer[u]
  BY Zenon, <1>a, <1>1 DEF Types, Answered1, Refused
<1>6. AnswerInv'
  <2> SUFFICES ASSUME NEW u \in Task
               PROVE  /\ pc'[u] \in {"fetched", "publishing"} => Answered1(u)' \/ Refused(u)'
                      /\ pc'[u] = "noting" => KeyOf[u].path \in said'
    BY Zenon DEF AnswerInv
  <2>1. pc'[t] = "publishing" /\ \A w \in Task : w # t => pc'[w] = pc[w]
    BY Zenon, <1>1 DEF Goto, Types
  <2>2. CASE u = t
    BY Zenon, <2>1, <2>2, <1>d
  <2>3. CASE u # t
    <3>1. Answered1(u) => Answered1(u)'
      BY Zenon, <2>3, <1>1, <1>d DEF Answered1
    <3>2. Refused(u) => Refused(u)'
      BY Zenon, <2>3, <1>1, <1>d DEF Refused
    <3> QED
      BY Zenon, <2>1, <2>3, <3>1, <3>2, <1>1 DEF AnswerInv
  <2> QED
    BY Zenon, <2>2, <2>3
<1>7. LruInv' /\ lru' \in Seq(LruEntry)
  BY Zenon, <1>a DEF LruInv, Clean, Bytes
<1>8. ExactBytes' /\ AbsenceIsReal' /\ DOMAIN result' = Task
  BY Zenon, <1>1, <1>7, ResultsKept DEF AbsenceIsReal, LruInv
<1>9. Types'
  BY Zenon, <1>1, <1>b, <1>d, <1>7, <1>8 DEF Types, flights, pools
<1> QED
  BY Zenon, <1>b, <1>c, <1>6, <1>7, <1>8, <1>9 DEF FlightsInv

(* place, the key is in flight. *)
LEMMA FollowStep ==
    ASSUME StoreAssumption, IInv, NEW t \in Task, Follow(t) PROVE IInv'
<1> USE DEF IInv
<1> DEFINE k == KeyOf[t]
           x == reads[k].tx
<1>1. /\ Goto(t, "following") /\ pc[t] = "placing" /\ reads[k] # NotInFlight
      /\ sub' = [sub EXCEPT ![t] = x]
      /\ UNCHANGED <<result, guards, flights, lru, absent, pools, said>>
  BY Zenon DEF Follow
<1>k. k \in Key
  BY Zenon DEF StoreAssumption
<1>2. x \in FlightId /\ x # 0
  BY Zenon, <1>1, <1>k DEF Types, InFlightRead, StoreAssumption
<1>3. /\ chan[x] = Nothing /\ \A j \in Key : reads[j].tx = x => j = k
  BY Zenon, <1>1, <1>k DEF TableInv
<1> HIDE DEF x
<1>4. pc' \in [Task -> Label] /\ pc'[t] = "following" /\ \A u \in Task : u # t => pc'[u] = pc[u]
  BY Zenon, <1>1 DEF Goto, Types, Label
<1>5. /\ sub' \in [Task -> {0} \union FlightId] /\ sub'[t] = x
      /\ \A u \in Task : u # t => sub'[u] = sub[u]
  BY Zenon, <1>1, <1>2 DEF Types
<1>6. sub[t] = 0 /\ flight[t] = 0 /\ ~queuedAt[t]
  BY Zenon, <1>1 DEF GuardInv, Guarded, Listening
<1>7. GuardInv'
  <2> SUFFICES ASSUME NEW u \in Task
               PROVE  /\ flight[u] # 0 <=> pc'[u] \in Guarded
                      /\ sub'[u] # 0 <=> pc'[u] \in Listening
                      /\ flight[u] # 0 => sub'[u] = flight[u]
                      /\ queuedAt[u] <=> pc'[u] \in {"queueing", "admitted"}
                      /\ pc'[u] \in {"queueing", "admitted", "leading"} => group[u] = <<KeyOf[u]>>
                      /\ pc'[u] \in Guarded => /\ KeyOf[u] \in Range(group[u])
                                               /\ \A j \in Range(group[u]) : j.path = KeyOf[u].path
    BY Zenon, <1>1 DEF GuardInv, guards, Mergeable
  <2>1. CASE u = t
    BY Zenon, <2>1, <1>2, <1>4, <1>5, <1>6 DEF Guarded, Listening
  <2>2. CASE u # t
    BY Zenon, <2>2, <1>4, <1>5 DEF GuardInv
  <2> QED
    BY Zenon, <2>1, <2>2
<1>8. TableInv'
  <2>1. ASSUME NEW u \in Task, pc'[u] \in Claimed PROVE pc[u] \in Claimed
    BY Zenon, <2>1, <1>4 DEF Claimed
  <2> QED
    BY Zenon, <2>1, <1>1 DEF TableInv, guards, flights
<1>9. ChannelInv'
  <2>0. chan' = chan /\ reads' = reads /\ said' = said
    BY Zenon, <1>1 DEF flights
  <2>1. ASSUME NEW f \in FlightId, chan[f] # Nothing PROVE \E u \in Task : sub'[u] = f
    <3>1. PICK u \in Task : sub[u] = f
      BY Zenon, <2>1 DEF ChannelInv
    <3>2. f # 0
      BY Zenon DEF StoreAssumption
    <3> QED
      BY Zenon, <3>1, <3>2, <1>5, <1>6
  <2>2. ASSUME NEW u \in Task, sub'[u] # 0
        PROVE  /\ \A j \in Key : reads[j].tx = sub'[u] => j = KeyOf[u]
               /\ chan[sub'[u]] = Nothing => reads[KeyOf[u]].tx = sub'[u]
               /\ chan[sub'[u]].tag = "ok" => chan[sub'[u]] = Ok(KeyOf[u])
               /\ chan[sub'[u]] = Err("NotFound") => KeyOf[u].path \in said
    <3>1. CASE u = t
      BY <3>1, <1>3, <1>5 DEF Nothing, Err, x
    <3>2. CASE u # t
      BY <3>2, <2>2, <1>5 DEF ChannelInv
    <3> QED
      BY Zenon, <3>1, <3>2
  <2> QED
    BY Zenon, <2>0, <2>1, <2>2 DEF ChannelInv
<1>10. QueueInv'
  BY Zenon, <1>1 DEF QueueInv, guards, flights
<1>11. PermitsBalance'
  <2>1. pc[t] \notin Outstanding /\ "following" \notin Outstanding
    BY Zenon, <1>1 DEF Outstanding
  <2> QED
    BY Zenon, <2>1, <1>1, PermitsKept
<1>12. AnswerInv'
  BY Zenon, <1>1, AnswersKept DEF guards
<1>13. LruInv'
  BY Zenon, <1>1 DEF LruInv, Clean, Bytes
<1>14. ExactBytes' /\ AbsenceIsReal' /\ DOMAIN result' = Task
  BY Zenon, <1>1, <1>13, ResultsKept DEF AbsenceIsReal, LruInv
<1>15. Types'
  BY Zenon, <1>1, <1>4, <1>5, <1>14 DEF Types, guards, flights, pools
<1> QED
  BY Zenon, <1>7, <1>8, <1>9, <1>10, <1>11, <1>12, <1>13, <1>14, <1>15

LEMMA RangeIn ==
    ASSUME NEW S, NEW s \in Seq(S), NEW y \in Range(s) PROVE y \in S
BY DEF Range

(* place, nobody reads the key: a fresh id is neither subscribed to nor in *)
(* the table, so nothing was sent on its channel.                          *)
LEMMA LeadStep ==
    ASSUME StoreAssumption, IInv, NEW t \in Task, Lead(t) PROVE IInv'
<1> USE DEF IInv
<1> DEFINE k == KeyOf[t]
           x == CHOOSE f \in FlightId : ~InUse(f)
           m == Mergeable(t)
           l == IF m THEN "queueing" ELSE "leading"
           e == [key |-> k, owner |-> x]
<1>1. /\ Goto(t, l) /\ pc[t] = "placing" /\ reads[k] = NotInFlight
      /\ \E f \in FlightId : ~InUse(f)
      /\ reads' = [reads EXCEPT ![k] = [tx |-> x, owner |-> x]]
      /\ queue' = IF m THEN [queue EXCEPT ![k.path] = Append(@, e)] ELSE queue
      /\ flight' = [flight EXCEPT ![t] = x]
      /\ queuedAt' = [queuedAt EXCEPT ![t] = m]
      /\ sub' = [sub EXCEPT ![t] = x]
      /\ group' = [group EXCEPT ![t] = <<k>>]
      /\ UNCHANGED <<result, answer, chan, lru, absent, pools, said>>
  BY Zenon DEF Lead
<1>k. k \in Key /\ k.path \in Path
  BY Zenon DEF StoreAssumption, Path
<1>2. x \in FlightId /\ x # 0 /\ ~InUse(x)
  BY Zenon, <1>1 DEF StoreAssumption
<1>3. /\ \A u \in Task : flight[u] # x /\ sub[u] # x
      /\ \A j \in Key : reads[j].tx # x /\ reads[j].owner # x
  BY Zenon, <1>2 DEF InUse
<1>4. chan[x] = Nothing
  BY Zenon, <1>2, <1>3 DEF ChannelInv
<1> HIDE DEF x
<1>m. m \in BOOLEAN
  BY Zenon DEF Mergeable
<1> HIDE DEF m
<1>5. /\ pc' \in [Task -> Label] /\ pc'[t] = l /\ l \in {"queueing", "leading"}
      /\ \A u \in Task : u # t => pc'[u] = pc[u]
  BY Zenon, <1>1 DEF Goto, Types, Label
<1>6. /\ flight' \in [Task -> {0} \union FlightId] /\ sub' \in [Task -> {0} \union FlightId]
      /\ flight'[t] = x /\ sub'[t] = x /\ queuedAt'[t] = m /\ group'[t] = <<k>>
      /\ \A u \in Task : u # t => /\ flight'[u] = flight[u] /\ sub'[u] = sub[u]
                                  /\ queuedAt'[u] = queuedAt[u] /\ group'[u] = group[u]
  BY Zenon, <1>1, <1>2 DEF Types
<1>7. queuedAt' \in [Task -> BOOLEAN] /\ group' \in [Task -> Seq(Key)]
  BY <1>1, <1>k, <1>m DEF Types
<1>8. /\ reads' \in [Key -> InFlightRead \union {NotInFlight}]
      /\ reads'[k] = [tx |-> x, owner |-> x]
      /\ \A j \in Key : j # k => reads'[j] = reads[j]
  BY Zenon, <1>1, <1>2, <1>k DEF Types, InFlightRead
<1>9. /\ sub[t] = 0 /\ flight[t] = 0 /\ ~queuedAt[t] /\ reads[k].tx = 0 /\ reads[k].owner = 0
  BY <1>1 DEF GuardInv, Guarded, Listening, NotInFlight
<1>10. /\ Range(<<k>>) = {k} /\ \A u \in Task : flight[u] # 0 => u # t
  BY <1>9 DEF Range
<1>e. e \in QueueEntry /\ e.key = k /\ e.owner = x
  BY Zenon, <1>2, <1>k DEF QueueEntry
<1>11. GuardInv'
  <2> SUFFICES ASSUME NEW u \in Task
               PROVE  /\ flight'[u] # 0 <=> pc'[u] \in Guarded
                      /\ sub'[u] # 0 <=> pc'[u] \in Listening
                      /\ flight'[u] # 0 => sub'[u] = flight'[u]
                      /\ \A w \in Task : flight'[u] = flight'[w] /\ flight'[u] # 0 => u = w
                      /\ queuedAt'[u] <=> pc'[u] \in {"queueing", "admitted"}
                      /\ queuedAt'[u] => Mergeable(u)
                      /\ pc'[u] \in {"queueing", "admitted", "leading"} => group'[u] = <<KeyOf[u]>>
                      /\ pc'[u] \in Guarded => /\ KeyOf[u] \in Range(group'[u])
                                               /\ \A j \in Range(group'[u]) : j.path = KeyOf[u].path
    BY Zenon DEF GuardInv, Mergeable
  <2>1. CASE u = t
    <3>1. \A w \in Task : flight'[u] = flight'[w] => u = w
      BY Zenon, <2>1, <1>3, <1>6
    <3>2. m => Mergeable(u)
      BY Zenon, <2>1 DEF m
    <3> QED
      BY Zenon, <2>1, <3>1, <3>2, <1>2, <1>5, <1>6, <1>10 DEF Guarded, Listening
  <2>2. CASE u # t
    <3>1. \A w \in Task : flight'[u] = flight'[w] /\ flight'[u] # 0 => u = w
      BY <2>2, <1>3, <1>6 DEF GuardInv
    <3> QED
      BY <2>2, <3>1, <1>5, <1>6 DEF GuardInv
  <2> QED
    BY Zenon, <2>1, <2>2
<1>12. TableInv'
  <2>0. chan' = chan
    BY Zenon, <1>1
  <2>1. ASSUME NEW j \in Key, reads'[j] # NotInFlight
        PROVE  /\ \E u \in Task : flight'[u] = reads'[j].owner /\ j \in Range(group'[u])
               /\ \A i \in Key : reads'[i].tx = reads'[j].tx => i = j
               /\ chan[reads'[j].tx] = Nothing
    <3>1. CASE j = k
      BY <3>1, <1>3, <1>4, <1>6, <1>8, <1>10
    <3>2. CASE j # k
      <4>1. reads'[j] = reads[j] /\ reads[j] # NotInFlight
        BY Zenon, <3>2, <2>1, <1>8
      <4>2. PICK u \in Task : flight[u] = reads[j].owner /\ j \in Range(group[u])
        BY Zenon, <4>1 DEF TableInv
      <4>3. flight[u] # 0
        BY Zenon, <4>1, <4>2 DEF Types, InFlightRead, StoreAssumption
      <4>4. flight'[u] = reads'[j].owner /\ j \in Range(group'[u])
        BY Zenon, <4>1, <4>2, <4>3, <1>6, <1>10
      <4>5. \A i \in Key : reads'[i].tx = reads'[j].tx => i = j
        BY <4>1, <1>3, <1>8 DEF TableInv
      <4> QED
        BY Zenon, <4>1, <4>4, <4>5 DEF TableInv
    <3> QED
      BY Zenon, <3>1, <3>2
  <2>2. ASSUME NEW u \in Task
        PROVE  /\ pc'[u] \in Claimed => \A j \in Range(group'[u]) : reads'[j].owner = flight'[u]
               /\ flight'[u] # 0 /\ reads'[KeyOf[u]].owner = flight'[u]
                    => reads'[KeyOf[u]].tx = flight'[u]
    <3>1. CASE u = t
      BY <3>1, <1>6, <1>8, <1>10
    <3>2. CASE u # t
      <4>1. ASSUME pc[u] \in Claimed, NEW j \in Range(group[u]) PROVE reads'[j].owner = flight[u]
        <5>1. reads[j].owner = flight[u] /\ flight[u] # 0 /\ j \in Key
          BY <4>1 DEF TableInv, GuardInv, Claimed, Guarded, Types, Range
        <5> QED
          BY Zenon, <5>1, <1>8, <1>9
      <4>2. KeyOf[u] \in Key
        BY Zenon DEF StoreAssumption
      <4>3. ASSUME flight[u] # 0, reads'[KeyOf[u]].owner = flight[u]
            PROVE  reads'[KeyOf[u]].tx = flight[u]
        BY <4>2, <4>3, <1>3, <1>8 DEF TableInv
      <4> QED
        BY Zenon, <3>2, <4>1, <4>3, <1>5, <1>6
    <3> QED
      BY Zenon, <3>1, <3>2
  <2> QED
    BY Zenon, <2>0, <2>1, <2>2 DEF TableInv
<1>13. ChannelInv'
  <2>0. chan' = chan /\ said' = said
    BY Zenon, <1>1
  <2>1. ASSUME NEW f \in FlightId, chan[f] # Nothing PROVE \E u \in Task : sub'[u] = f
    <3>1. PICK u \in Task : sub[u] = f
      BY Zenon, <2>1 DEF ChannelInv
    <3>2. f # 0
      BY Zenon DEF StoreAssumption
    <3> QED
      BY Zenon, <3>1, <3>2, <1>6, <1>9
  <2>2. ASSUME NEW u \in Task, sub'[u] # 0
        PROVE  /\ \A j \in Key : reads'[j].tx = sub'[u] => j = KeyOf[u]
               /\ chan[sub'[u]] = Nothing => reads'[KeyOf[u]].tx = sub'[u]
               /\ chan[sub'[u]].tag = "ok" => chan[sub'[u]] = Ok(KeyOf[u])
               /\ chan[sub'[u]] = Err("NotFound") => KeyOf[u].path \in said
    <3>1. CASE u = t
      BY <3>1, <1>3, <1>4, <1>6, <1>8 DEF Nothing, Err
    <3>2. CASE u # t
      <4>1. sub'[u] = sub[u] /\ sub[u] # 0 /\ sub[u] # x /\ KeyOf[u] \in Key
        BY Zenon, <3>2, <2>2, <1>3, <1>6 DEF StoreAssumption
      <4>2. \A j \in Key : reads'[j].tx = sub[u] => j = KeyOf[u]
        BY <4>1, <1>8 DEF ChannelInv
      <4>3. chan[sub[u]] = Nothing => reads'[KeyOf[u]].tx = sub[u]
        BY Zenon, <4>1, <1>8, <1>9 DEF ChannelInv
      <4> QED
        BY Zenon, <4>1, <4>2, <4>3 DEF ChannelInv
    <3> QED
      BY Zenon, <3>1, <3>2
  <2> QED
    BY Zenon, <2>0, <2>1, <2>2 DEF ChannelInv
<1>14. QueueInv' /\ queue' \in [Path -> Seq(QueueEntry)]
  <2> DEFINE q == queue[k.path]
             a == Append(q, e)
  <2>1. q \in Seq(QueueEntry) /\ Len(q) \in Nat /\ DOMAIN q = 1..Len(q)
    BY <1>k DEF Types
  <2> HIDE DEF e
  <2>2. /\ a \in Seq(QueueEntry) /\ Len(a) = Len(q) + 1 /\ a[Len(q) + 1] = e
        /\ \A j \in 1..Len(q) : a[j] = q[j]
    BY <2>1, <1>e
  <2>3. DOMAIN a = 1..(Len(q) + 1)
    BY <2>1, <2>2
  <2>q. queue' = IF m THEN [queue EXCEPT ![k.path] = a] ELSE queue
    BY Zenon, <1>1 DEF e
  <2> HIDE DEF a
  <2>4. \A y : y \in Range(a) <=> y \in Range(q) \/ y = e
    BY <2>1, <2>2, <2>3 DEF Range
  <2>5. ASSUME NEW p \in Path, NEW y \in Range(queue[p]) PROVE y.key # k /\ y.key \in Key
    <3>1. PICK u \in Task : flight[u] = y.owner /\ KeyOf[u] = y.key
      BY Zenon, <2>5 DEF QueueInv
    <3>2. reads[y.key].owner = y.owner /\ y \in QueueEntry
      BY Zenon, <2>5, RangeIn DEF QueueInv, Types
    <3>3. y.owner # 0
      BY Zenon, <3>2 DEF QueueEntry, StoreAssumption
    <3> QED
      BY Zenon, <3>2, <3>3, <1>9 DEF QueueEntry
  <2>6. Distinct(a)
    <3>1. Distinct(q)
      BY Zenon, <1>k DEF QueueInv
    <3>2. \A j \in 1..Len(q) : q[j].key # k
      BY Zenon, <2>1, <2>5, <1>k DEF Range
    <3>3. \A i, j \in 1..Len(q) : a[i].key = a[j].key => i = j
      BY Zenon, <3>1, <2>1, <2>2 DEF Distinct
    <3>4. /\ a[Len(q) + 1].key = k /\ \A j \in 1..Len(q) : a[j].key # k
      BY Zenon, <3>2, <2>2, <1>e
    <3>5. \A j \in 1..(Len(q) + 1) : j \in 1..Len(q) \/ j = Len(q) + 1
      BY <2>1
    <3> HIDE DEF k
    <3> QED
      BY Zenon, <3>3, <3>4, <3>5, <2>3 DEF Distinct
  <2>7. queue' \in [Path -> Seq(QueueEntry)]
    BY Zenon, <2>2, <2>q, <1>k DEF Types
  <2>8. ASSUME NEW p \in Path
        PROVE  /\ Distinct(queue'[p])
               /\ \A y : y \in Range(queue'[p]) <=> y \in Range(queue[p]) \/ (y = e /\ m /\ p = k.path)
    <3>1. CASE m /\ p = k.path
      BY Zenon, <3>1, <2>q, <2>4, <2>6, <1>k DEF Types
    <3>2. CASE ~(m /\ p = k.path)
      BY Zenon, <3>2, <2>q, <1>k DEF Types, QueueInv
    <3> QED
      BY Zenon, <3>1, <3>2
  <2>9. ASSUME NEW p \in Path, NEW y \in Range(queue'[p])
        PROVE  /\ reads'[y.key].owner = y.owner
               /\ \E u \in Task : flight'[u] = y.owner /\ queuedAt'[u] /\ KeyOf[u] = y.key
               /\ y.key.path = p
    <3>1. CASE y = e /\ m /\ p = k.path
      <4>1. queuedAt'[t]
        BY Zenon, <3>1, <1>6
      <4>2. flight'[t] = y.owner /\ KeyOf[t] = y.key
        BY Zenon, <3>1, <1>e, <1>6
      <4>3. reads'[y.key].owner = y.owner
        BY <3>1, <1>e, <1>8
      <4> QED
        BY Zenon, <3>1, <4>1, <4>2, <4>3, <1>e
    <3>2. CASE y \in Range(queue[p])
      <4>1. PICK u \in Task : flight[u] = y.owner /\ queuedAt[u] /\ KeyOf[u] = y.key
        BY Zenon, <3>2 DEF QueueInv
      <4>2. u # t
        BY Zenon, <4>1, <1>9
      <4> QED
        BY <3>2, <4>1, <4>2, <2>5, <1>6, <1>8 DEF QueueInv
    <3> QED
      BY Zenon, <2>8, <2>9, <3>1, <3>2
  <2>10. ASSUME NEW u \in Task, queuedAt'[u], reads'[KeyOf[u]].owner = flight'[u]
         PROVE  [key |-> KeyOf[u], owner |-> flight'[u]] \in Range(queue'[KeyOf[u].path])
    <3>1. CASE u = t
      <4>1. m /\ [key |-> KeyOf[u], owner |-> flight'[u]] = e
        BY Zenon, <3>1, <2>10, <1>6 DEF e
      <4> QED
        BY Zenon, <3>1, <4>1, <2>8, <1>k
    <3>2. CASE u # t
      <4>1. KeyOf[u] \in Key /\ KeyOf[u].path \in Path
        BY Zenon DEF StoreAssumption, Path
      <4>2. queuedAt[u] /\ flight[u] = flight'[u] /\ reads[KeyOf[u]].owner = flight[u]
        BY <3>2, <4>1, <2>10, <1>3, <1>6, <1>8
      <4>3. [key |-> KeyOf[u], owner |-> flight[u]] \in Range(queue[KeyOf[u].path])
        BY Zenon, <4>2 DEF QueueInv
      <4> QED
        BY Zenon, <4>1, <4>2, <4>3, <2>8
    <3> QED
      BY Zenon, <3>1, <3>2
  <2> QED
    BY Zenon, <2>7, <2>8, <2>9, <2>10 DEF QueueInv
<1>15. PermitsBalance'
  <2>1. pc[t] \notin Outstanding /\ l \notin Outstanding
    BY Zenon, <1>1 DEF Outstanding
  <2> QED
    BY Zenon, <2>1, <1>1, PermitsKept
<1>16. AnswerInv'
  BY Zenon, <1>1, <1>6, AnswersKept
<1>17. LruInv'
  BY Zenon, <1>1 DEF LruInv, Clean, Bytes
<1>18. ExactBytes' /\ AbsenceIsReal' /\ DOMAIN result' = Task
  BY Zenon, <1>1, <1>17, ResultsKept DEF AbsenceIsReal, LruInv
<1>19. Types'
  BY Zenon, <1>1, <1>5, <1>6, <1>7, <1>8, <1>14, <1>18 DEF Types, pools
<1> QED
  BY Zenon, <1>11, <1>12, <1>13, <1>14, <1>15, <1>16, <1>17, <1>18, <1>19

-----------------------------------------------------------------------------
(* The ends of a guard: completion, abandonment, delivery by a neighbour.  *)

(* Everything under the id of t leaves the table. *)
Releases(t, new) ==
    /\ Unsubscribe(t)
    /\ DropGuard(t)
    /\ chan' = Heard(new)
    /\ reads' = [k \in Key |-> IF reads[k].owner = flight[t] THEN NotInFlight ELSE reads[k]]
    /\ said' = said

(* The channels of what leaves the table are sent something true of their  *)
(* key, the others nothing.                                                *)
Leaves(t, f) == \E k \in Key : reads[k].tx = f /\ reads[k].owner = flight[t]
Sends(t, new) ==
    \A f \in FlightId :
        /\ new[f] \in Outcome \union {Nothing, Abandoned}
        /\ Leaves(t, f) =>
              /\ new[f] # Nothing
              /\ \A k \in Key : reads[k].tx = f =>
                    /\ new[f].tag = "ok" => new[f] = Ok(k)
                    /\ new[f] = Err("NotFound") => k.path \in said
        /\ ~Leaves(t, f) => new[f] = chan[f]

(* What t had queued, and nothing else, leaves the queues. *)
QueuesLeft(t) ==
    /\ queue' \in [Path -> Seq(QueueEntry)]
    /\ \A p \in Path :
          /\ Distinct(queue'[p])
          /\ \A y : y \in Range(queue'[p]) <=> y \in Range(queue[p]) /\ y.owner # flight[t]

HeldTypes ==
    /\ pc \in [Task -> Label]
    /\ flight \in [Task -> {0} \union FlightId]
    /\ queuedAt \in [Task -> BOOLEAN]
    /\ group \in [Task -> Seq(Key)]
    /\ DOMAIN answer = Task
    /\ sub \in [Task -> {0} \union FlightId]
    /\ reads \in [Key -> InFlightRead \union {NotInFlight}]
    /\ queue \in [Path -> Seq(QueueEntry)]
    /\ chan \in [FlightId -> Outcome \union {Nothing, Abandoned}]

LEMMA EntryIs ==
    ASSUME StoreAssumption, Types, NEW k \in Key
    PROVE  /\ reads[k] = NotInFlight => reads[k].tx = 0 /\ reads[k].owner = 0
           /\ reads[k] # NotInFlight => /\ reads[k].tx \in FlightId /\ reads[k].owner \in FlightId
                                        /\ reads[k].tx # 0 /\ reads[k].owner # 0
BY DEF StoreAssumption, Types, InFlightRead, NotInFlight

LEMMA ReleaseStep ==
    ASSUME StoreAssumption, Types, FlightsInv, NEW t \in Task, NEW l \in Label \ Listening,
           Goto(t, l), NEW new, Releases(t, new), Sends(t, new), QueuesLeft(t)
    PROVE  FlightsInv' /\ HeldTypes'
<1> USE DEF FlightsInv
<1>1. /\ pc' \in [Task -> Label] /\ pc'[t] = l /\ \A u \in Task : u # t => pc'[u] = pc[u]
  BY Zenon DEF Goto, Types
<1>2. /\ flight' \in [Task -> {0} \union FlightId] /\ sub' \in [Task -> {0} \union FlightId]
      /\ flight'[t] = 0 /\ sub'[t] = 0 /\ queuedAt'[t] = FALSE
      /\ \A u \in Task : u # t => /\ flight'[u] = flight[u] /\ sub'[u] = sub[u]
                                  /\ queuedAt'[u] = queuedAt[u] /\ group'[u] = group[u]
  BY Zenon DEF Releases, DropGuard, Unsubscribe, Types
<1>3. queuedAt' \in [Task -> BOOLEAN] /\ group' \in [Task -> Seq(Key)] /\ DOMAIN answer' = Task
  BY DEF Releases, DropGuard, Types
<1>4. reads' \in [Key -> InFlightRead \union {NotInFlight}]
      /\ \A k \in Key : reads'[k] = IF reads[k].owner = flight[t] THEN NotInFlight ELSE reads[k]
  BY Zenon DEF Releases, Types
<1>5. \A f \in FlightId : chan'[f] = IF \E u \in Task : sub'[u] = f THEN new[f] ELSE Nothing
  BY Zenon DEF Releases, Heard
<1>6. chan' \in [FlightId -> Outcome \union {Nothing, Abandoned}]
  <2>1. \A f \in FlightId : new[f] \in Outcome \union {Nothing, Abandoned}
    BY Zenon DEF Sends
  <2>2. chan' = [f \in FlightId |-> chan'[f]]
    BY Zenon DEF Releases, Heard
  <2>3. \A f \in FlightId : chan'[f] \in Outcome \union {Nothing, Abandoned}
    BY Zenon, <2>1, <1>5
  <2> QED
    BY Zenon, <2>2, <2>3
<1>7. HeldTypes'
  BY Zenon, <1>1, <1>2, <1>3, <1>4, <1>6 DEF HeldTypes, QueuesLeft
<1>8. l \notin Guarded /\ l \notin Claimed /\ l \notin {"queueing", "admitted", "leading"}
  BY Zenon DEF Listening, Guarded, Claimed
<1>9. \A u \in Task : flight[u] = flight[t] /\ flight[u] # 0 => u = t
  BY Zenon DEF GuardInv
<1>10. GuardInv'
  <2> SUFFICES ASSUME NEW u \in Task
               PROVE  /\ flight'[u] # 0 <=> pc'[u] \in Guarded
                      /\ sub'[u] # 0 <=> pc'[u] \in Listening
                      /\ flight'[u] # 0 => sub'[u] = flight'[u]
                      /\ \A w \in Task : flight'[u] = flight'[w] /\ flight'[u] # 0 => u = w
                      /\ queuedAt'[u] <=> pc'[u] \in {"queueing", "admitted"}
                      /\ queuedAt'[u] => Mergeable(u)
                      /\ pc'[u] \in {"queueing", "admitted", "leading"} => group'[u] = <<KeyOf[u]>>
                      /\ pc'[u] \in Guarded => /\ KeyOf[u] \in Range(group'[u])
                                               /\ \A j \in Range(group'[u]) : j.path = KeyOf[u].path
    BY Zenon DEF GuardInv, Mergeable
  <2>1. CASE u = t
    BY Zenon, <2>1, <1>1, <1>2, <1>8
  <2>2. CASE u # t
    <3>1. \A w \in Task : flight'[u] = flight'[w] /\ flight'[u] # 0 => u = w
      BY <2>2, <1>2 DEF GuardInv
    <3> QED
      BY <2>2, <3>1, <1>1, <1>2 DEF GuardInv
  <2> QED
    BY Zenon, <2>1, <2>2
<1>11. TableInv'
  <2>1. ASSUME NEW j \in Key, reads'[j] # NotInFlight
        PROVE  /\ \E u \in Task : flight'[u] = reads'[j].owner /\ j \in Range(group'[u])
               /\ \A i \in Key : reads'[i].tx = reads'[j].tx => i = j
               /\ chan'[reads'[j].tx] = Nothing
    <3>1. reads'[j] = reads[j] /\ reads[j] # NotInFlight /\ reads[j].owner # flight[t]
      BY Zenon, <2>1, <1>4
    <3>2. PICK u \in Task : flight[u] = reads[j].owner /\ j \in Range(group[u])
      BY Zenon, <3>1 DEF TableInv
    <3>3. flight'[u] = reads'[j].owner /\ j \in Range(group'[u])
      BY Zenon, <3>1, <3>2, <1>2
    <3>4. reads[j].tx \in FlightId /\ reads[j].tx # 0
      BY Zenon, <3>1, EntryIs
    <3>5. ASSUME NEW i \in Key, reads'[i].tx = reads'[j].tx PROVE i = j
      <4>1. reads'[i] = reads[i]
        BY <3>1, <3>4, <3>5, <1>4 DEF NotInFlight
      <4> QED
        BY ZenonT(40), <4>1, <3>1, <3>5 DEF TableInv
    <3>6. ~Leaves(t, reads[j].tx) /\ chan[reads[j].tx] = Nothing
      BY Zenon, <3>1 DEF Leaves, TableInv
    <3>7. chan'[reads[j].tx] = Nothing
      BY Zenon, <3>4, <3>6, <1>5 DEF Sends
    <3> QED
      BY Zenon, <3>1, <3>3, <3>5, <3>7
  <2>2. ASSUME NEW u \in Task
        PROVE  /\ pc'[u] \in Claimed => \A j \in Range(group'[u]) : reads'[j].owner = flight'[u]
               /\ flight'[u] # 0 /\ reads'[KeyOf[u]].owner = flight'[u]
                    => reads'[KeyOf[u]].tx = flight'[u]
    <3>1. CASE u = t
      BY Zenon, <3>1, <1>1, <1>2, <1>8
    <3>2. CASE u # t
      <4>1. ASSUME pc[u] \in Claimed, NEW j \in Range(group[u]) PROVE reads'[j].owner = flight[u]
        <5>1. reads[j].owner = flight[u] /\ flight[u] # 0
          BY Zenon, <4>1 DEF TableInv, GuardInv, Claimed, Guarded
        <5>2. j \in Key
          BY Zenon, <4>1, RangeIn DEF Types
        <5> QED
          BY Zenon, <5>1, <5>2, <3>2, <1>4, <1>9
      <4>2. KeyOf[u] \in Key
        BY Zenon DEF StoreAssumption
      <4>3. ASSUME flight[u] # 0, reads'[KeyOf[u]].owner = flight[u]
            PROVE  reads'[KeyOf[u]].tx = flight[u]
        <5>1. reads'[KeyOf[u]] = reads[KeyOf[u]]
          BY <4>2, <4>3, <1>4 DEF NotInFlight
        <5> QED
          BY Zenon, <5>1, <4>3 DEF TableInv
      <4> QED
        BY Zenon, <3>2, <4>1, <4>3, <1>1, <1>2
    <3> QED
      BY Zenon, <3>1, <3>2
  <2> QED
    BY Zenon, <2>1, <2>2 DEF TableInv
<1>12. ChannelInv'
  <2>0. said' = said
    BY Zenon DEF Releases
  <2>1. ASSUME NEW f \in FlightId, chan'[f] # Nothing PROVE \E u \in Task : sub'[u] = f
    BY Zenon, <2>1, <1>5
  <2>2. ASSUME NEW u \in Task, sub'[u] # 0
        PROVE  /\ \A j \in Key : reads'[j].tx = sub'[u] => j = KeyOf[u]
               /\ chan'[sub'[u]] = Nothing => reads'[KeyOf[u]].tx = sub'[u]
               /\ chan'[sub'[u]].tag = "ok" => chan'[sub'[u]] = Ok(KeyOf[u])
               /\ chan'[sub'[u]] = Err("NotFound") => KeyOf[u].path \in said
    <3> DEFINE s == sub[u]
    <3>1. u # t /\ sub'[u] = s /\ s # 0 /\ KeyOf[u] \in Key
      BY Zenon, <2>2, <1>2 DEF StoreAssumption
    <3>2. s \in FlightId
      BY Zenon, <3>1 DEF Types
    <3>3. chan'[s] = new[s]
      BY Zenon, <3>1, <3>2, <1>5
    <3>4. \A j \in Key : reads[j].tx = s => j = KeyOf[u]
      BY Zenon, <3>1 DEF ChannelInv
    <3>5. \A j \in Key : reads'[j].tx = s => j = KeyOf[u]
      BY <3>1, <3>4, <1>4 DEF NotInFlight
    <3>6. CASE Leaves(t, s)
      <4>1. PICK k \in Key : reads[k].tx = s
        BY Zenon, <3>6 DEF Leaves
      <4>2. reads[KeyOf[u]].tx = s
        BY Zenon, <4>1, <3>4
      <4>3. /\ new[s] # Nothing
            /\ new[s].tag = "ok" => new[s] = Ok(KeyOf[u])
            /\ new[s] = Err("NotFound") => KeyOf[u].path \in said
        BY Zenon, <4>2, <3>1, <3>2, <3>6 DEF Sends
      <4> QED
        BY Zenon, <4>3, <3>1, <3>3, <3>5
    <3>7. CASE ~Leaves(t, s)
      <4>1. new[s] = chan[s]
        BY Zenon, <3>2, <3>7 DEF Sends
      <4>2. chan[s] = Nothing => reads'[KeyOf[u]].tx = s
        <5>1. chan[s] = Nothing => reads[KeyOf[u]].tx = s
          BY Zenon, <3>1 DEF ChannelInv
        <5> QED
          BY Zenon, <5>1, <3>1, <3>7, <1>4 DEF Leaves
      <4>3. /\ chan[s].tag = "ok" => chan[s] = Ok(KeyOf[u])
            /\ chan[s] = Err("NotFound") => KeyOf[u].path \in said
        BY Zenon, <3>1 DEF ChannelInv
      <4> QED
        BY Zenon, <4>1, <4>2, <4>3, <3>1, <3>3, <3>5
    <3> QED
      BY Zenon, <3>6, <3>7
  <2> QED
    BY Zenon, <2>0, <2>1, <2>2 DEF ChannelInv
<1>13. QueueInv'
  <2>1. ASSUME NEW p \in Path, NEW y \in Range(queue'[p])
        PROVE  /\ reads'[y.key].owner = y.owner
               /\ \E u \in Task : flight'[u] = y.owner /\ queuedAt'[u] /\ KeyOf[u] = y.key
               /\ y.key.path = p
    <3>1. y \in Range(queue[p]) /\ y.owner # flight[t]
      BY Zenon, <2>1 DEF QueuesLeft
    <3>2. /\ reads[y.key].owner = y.owner /\ y.key.path = p
      BY Zenon, <3>1 DEF QueueInv
    <3>3. PICK u \in Task : flight[u] = y.owner /\ queuedAt[u] /\ KeyOf[u] = y.key
      BY Zenon, <3>1 DEF QueueInv
    <3>4. y.key \in Key
      BY Zenon, <3>3 DEF StoreAssumption
    <3> QED
      BY Zenon, <3>1, <3>2, <3>3, <3>4, <1>2, <1>4
  <2>2. ASSUME NEW u \in Task, queuedAt'[u], reads'[KeyOf[u]].owner = flight'[u]
        PROVE  [key |-> KeyOf[u], owner |-> flight'[u]] \in Range(queue'[KeyOf[u].path])
    <3>1. u # t
      BY Zenon, <2>2, <1>2
    <3>2. KeyOf[u] \in Key /\ KeyOf[u].path \in Path
      BY Zenon DEF StoreAssumption, Path
    <3>3. queuedAt[u] /\ flight'[u] = flight[u] /\ flight[u] # 0
      BY Zenon, <3>1, <2>2, <1>2 DEF GuardInv, Guarded
    <3>4. reads[KeyOf[u]].owner = flight[u] /\ flight[u] # flight[t]
      BY <3>1, <3>2, <3>3, <2>2, <1>4, <1>9 DEF NotInFlight
    <3>5. [key |-> KeyOf[u], owner |-> flight[u]] \in Range(queue[KeyOf[u].path])
      BY Zenon, <3>3, <3>4 DEF QueueInv
    <3> QED
      BY Zenon, <3>2, <3>3, <3>4, <3>5 DEF QueuesLeft
  <2> QED
    BY Zenon, <2>1, <2>2 DEF QueueInv, QueuesLeft
<1> QED
  BY Zenon, <1>7, <1>10, <1>11, <1>12, <1>13

LEMMA OwnedIs ==
    ASSUME StoreAssumption, Types, FlightsInv, NEW t \in Task
    PROVE  /\ Owned(t) \subseteq Key
           /\ \A k \in Key : reads[k] # NotInFlight => (k \in Owned(t) <=> reads[k].owner = flight[t])
           /\ \A k \in Key : (IF k \in Owned(t) THEN NotInFlight ELSE reads[k])
                               = (IF reads[k].owner = flight[t] THEN NotInFlight ELSE reads[k])
           /\ \A f \in FlightId : Leaves(t, f) <=> \E k \in Owned(t) : reads[k].tx = f
<1> USE DEF FlightsInv
<1>1. Owned(t) \subseteq Key
  BY Zenon, RangeIn DEF Owned, Types
<1>2. ASSUME NEW k \in Key, reads[k] # NotInFlight PROVE k \in Owned(t) <=> reads[k].owner = flight[t]
  <2>1. reads[k].owner # 0
    BY Zenon, <1>2, EntryIs
  <2>2. PICK u \in Task : flight[u] = reads[k].owner /\ k \in Range(group[u])
    BY Zenon, <1>2 DEF TableInv
  <2> QED
    BY <2>1, <2>2 DEF Owned, GuardInv
<1>3. ASSUME NEW k \in Key
      PROVE  (IF k \in Owned(t) THEN NotInFlight ELSE reads[k])
               = (IF reads[k].owner = flight[t] THEN NotInFlight ELSE reads[k])
  BY Zenon, <1>2
<1>4. ASSUME NEW f \in FlightId PROVE Leaves(t, f) <=> \E k \in Owned(t) : reads[k].tx = f
  <2>1. \A k \in Key : reads[k].tx = f => reads[k] # NotInFlight
    BY Zenon, EntryIs DEF StoreAssumption
  <2> QED
    BY Zenon, <2>1, <1>1, <1>2 DEF Leaves
<1> QED
  BY Zenon, <1>1, <1>2, <1>3, <1>4

(* The queues when nothing of t is queued. *)
LEMMA QueuesSame ==
    ASSUME Types, QueueInv, NEW t \in Task, queue' = queue,
           \A p \in Path : \A y \in Range(queue[p]) : y.owner # flight[t]
    PROVE  QueuesLeft(t)
BY Zenon DEF QueuesLeft, Types, QueueInv

(* What may be returned to t. *)
Fit(r, k) ==
    /\ r.tag = "ok" => r = Ok(k)
    /\ r = Err("NotFound") => k.path \in said

Returned(t, r) == IF ClassOf[t] = "optional" /\ r = Err("NotFound") THEN "noting" ELSE "done"

LEMMA ReturnIs ==
    ASSUME NEW t \in Task, NEW r \in Outcome, Fit(r, KeyOf[t]), Return(t, r), said' = said
    PROVE  /\ result' = [result EXCEPT ![t] = r] /\ Honest(t, r) /\ Goto(t, Returned(t, r))
           /\ Returned(t, r) \in Label \ Listening
           /\ Returned(t, r) \notin {"fetched", "publishing"}
           /\ Returned(t, r) \notin Outstanding
           /\ Returned(t, r) = "noting" => KeyOf[t].path \in said'
<1>1. result' = [result EXCEPT ![t] = r] /\ Goto(t, Returned(t, r))
  BY Zenon DEF Return, Returned
<1>2. Honest(t, r)
  BY DEF Honest, Fit, Outcome, Ok, Err, Absent, Answer
<1> QED
  BY Zenon, <1>1, <1>2 DEF Returned, Label, Listening, Guarded, Outstanding, Fit

(* The outcome of a group's request for one of its keys, as the leader and *)
(* as its followers get it.                                                *)
LEMMA SharedIs ==
    ASSUME NEW r \in Outcome, NEW k, Fit(r, k)
    PROVE  Shared(r) \in Outcome /\ Fit(Shared(r), k)
<1>1. CASE \E j \in Key : r = Ok(j)
  BY <1>1 DEF Shared, Ok, Fit
<1>2. CASE \E e \in ErrorVariant : r = Err(e)
  <2>1. PICK e \in ErrorVariant : r = Err(e)
    BY Zenon, <1>2
  <2>2. Rebuilt(e) \in ErrorVariant /\ (Rebuilt(e) = "NotFound" => e = "NotFound")
    BY Zenon, <2>1 DEF Rebuilt, ErrorVariant
  <2>3. Shared(r) = Err(Rebuilt(e))
    BY Zenon, <2>1 DEF Shared, Err
  <2>4. Err(Rebuilt(e)) = Err("NotFound") => Rebuilt(e) = "NotFound"
    BY Zenon DEF Err
  <2>5. Err(Rebuilt(e)).tag # "ok"
    BY Zenon DEF Err
  <2> QED
    BY Zenon, <2>1, <2>2, <2>3, <2>4, <2>5 DEF Fit, Outcome
<1> QED
  BY Zenon, <1>1, <1>2 DEF Outcome

LEMMA AnswerIs ==
    ASSUME StoreAssumption, Types, GuardInv, AnswerInv, NEW t \in Task, pc[t] = "publishing",
           NEW k \in Range(group[t]), NEW i \in DOMAIN group[t], group[t][i] = k
    PROVE  answer[t][i] \in Outcome /\ Fit(answer[t][i], k)
<1>1. k.path = KeyOf[t].path /\ k \in Key
  BY ZenonT(40), RangeIn DEF GuardInv, Guarded, Types
<1>2. CASE Answered1(t)
  <2>1. answer[t][i] = Ok(k)
    BY Zenon, <1>2 DEF Answered1
  <2> QED
    BY <2>1, <1>1 DEF Outcome, Fit, Ok, Err
<1>3. CASE Refused(t)
  <2>1. PICK e \in ErrorVariant : answer[t][i] = Err(e) /\ (e = "NotFound" => KeyOf[t].path \in said)
    BY Zenon, <1>3 DEF Refused
  <2>2. /\ Err(e) = Err("NotFound") => e = "NotFound"
        /\ Err(e).tag # "ok"
    BY Zenon DEF Err
  <2> QED
    BY Zenon, <2>1, <2>2, <1>1 DEF Outcome, Fit
<1> QED
  BY Zenon, <1>2, <1>3 DEF AnswerInv

LEMMA PublishStep ==
    ASSUME StoreAssumption, IInv, NEW t \in Task, Publish(t) PROVE IInv'
<1> USE DEF IInv
<1> DEFINE At(k) == CHOOSE i \in DOMAIN group[t] : group[t][i] = k
           Sent(f) == {k \in Owned(t) : reads[k].tx = f}
           new == [f \in FlightId |-> IF Sent(f) # {}
                                      THEN Shared(answer[t][At(CHOOSE k \in Sent(f) : TRUE)])
                                      ELSE chan[f]]
           r == answer[t][At(KeyOf[t])]
           l == Returned(t, r)
<1>1. /\ pc[t] = "publishing" /\ Unsubscribe(t) /\ DropGuard(t) /\ chan' = Heard(new)
      /\ reads' = [k \in Key |-> IF k \in Owned(t) THEN NotInFlight ELSE reads[k]]
      /\ Return(t, r)
      /\ UNCHANGED <<queue, lru, absent, pools, said>>
  BY Zenon DEF Publish
<1>f. FlightsInv
  BY Zenon DEF FlightsInv
<1>2. ASSUME NEW k \in Range(group[t]) PROVE answer[t][At(k)] \in Outcome /\ Fit(answer[t][At(k)], k)
  <2>1. At(k) \in DOMAIN group[t] /\ group[t][At(k)] = k
    BY Zenon DEF Range
  <2> HIDE DEF At
  <2> QED
    BY Zenon, <2>1, <1>1, AnswerIs
<1>3. r \in Outcome /\ Fit(r, KeyOf[t])
  <2>1. KeyOf[t] \in Range(group[t])
    BY Zenon, <1>1 DEF GuardInv, Guarded
  <2> QED
    BY Zenon, <2>1, <1>2
<1>4. Sends(t, new)
  <2> SUFFICES ASSUME NEW f \in FlightId
               PROVE  /\ new[f] \in Outcome \union {Nothing, Abandoned}
                      /\ Leaves(t, f) =>
                            /\ new[f] # Nothing
                            /\ \A k \in Key : reads[k].tx = f => Fit(new[f], k)
                      /\ ~Leaves(t, f) => new[f] = chan[f]
    BY Zenon DEF Sends, Fit
  <2>1. Leaves(t, f) <=> Sent(f) # {}
    <3>1. Leaves(t, f) <=> \E k \in Owned(t) : reads[k].tx = f
      BY Zenon, <1>f, OwnedIs
    <3> QED
      BY Zenon, <3>1
  <2>2. CASE Leaves(t, f)
    <3> DEFINE k == CHOOSE k \in Sent(f) : TRUE
               a == answer[t][At(k)]
    <3>1. k \in Owned(t) /\ reads[k].tx = f /\ new[f] = Shared(a)
      BY Zenon, <2>1, <2>2
    <3>2. k \in Range(group[t])
      BY Zenon, <3>1 DEF Owned
    <3> HIDE DEF k
    <3>3. a \in Outcome /\ Fit(a, k)
      BY Zenon, <3>2, <1>2
    <3> HIDE DEF a
    <3>4. Shared(a) \in Outcome /\ Fit(Shared(a), k)
      BY Zenon, <3>3, SharedIs
    <3>5. Shared(a) # Nothing
      BY <3>4 DEF Outcome, Ok, Err, Nothing
    <3>6. ASSUME NEW j \in Key, reads[j].tx = f PROVE j = k
      <4>1. k \in Key
        BY Zenon, <3>1, <1>f, OwnedIs
      <4>2. reads[k] # NotInFlight
        BY Zenon, <4>1, <3>1, EntryIs DEF StoreAssumption
      <4> QED
        BY <4>1, <4>2, <3>1, <3>6 DEF TableInv
    <3> HIDE DEF new
    <3> QED
      BY Zenon, <2>2, <3>1, <3>4, <3>5, <3>6
  <2>3. CASE ~Leaves(t, f)
    <3>1. new[f] = chan[f]
      BY Zenon, <2>1, <2>3
    <3> QED
      BY Zenon, <3>1, <2>3 DEF Types
  <2> QED
    BY Zenon, <2>2, <2>3
<1> HIDE DEF new, r, At
<1>5. Releases(t, new)
  <2>1. \A k \in Key : (IF k \in Owned(t) THEN NotInFlight ELSE reads[k])
                        = (IF reads[k].owner = flight[t] THEN NotInFlight ELSE reads[k])
    BY Zenon, <1>f, OwnedIs
  <2> QED
    BY Zenon, <2>1, <1>1 DEF Releases
<1>6. QueuesLeft(t)
  <2>1. ASSUME NEW p \in Path, NEW y \in Range(queue[p]) PROVE y.owner # flight[t]
    <3>1. PICK u \in Task : flight[u] = y.owner /\ queuedAt[u]
      BY <2>1 DEF QueueInv
    <3> QED
      BY Zenon, <3>1, <1>1 DEF GuardInv, Guarded
  <2> QED
    BY Zenon, <2>1, <1>1, QueuesSame
<1>7. /\ result' = [result EXCEPT ![t] = r] /\ Honest(t, r) /\ Goto(t, l)
      /\ l \in Label \ Listening /\ l \notin {"fetched", "publishing"} /\ l \notin Outstanding
      /\ l = "noting" => KeyOf[t].path \in said'
  BY Zenon, <1>1, <1>3, ReturnIs
<1> HIDE DEF l
<1>8. FlightsInv' /\ HeldTypes'
  BY Zenon, <1>f, <1>4, <1>5, <1>6, <1>7, ReleaseStep
<1>9. PermitsBalance'
  <2>1. pc[t] \notin Outstanding
    BY Zenon, <1>1 DEF Outstanding
  <2> QED
    BY Zenon, <2>1, <1>1, <1>7, PermitsKept
<1>10. AnswerInv'
  <2>1. \A u \in Task : u # t => group'[u] = group[u] /\ answer'[u] = answer[u]
    BY Zenon, <1>1 DEF DropGuard, Types
  <2> QED
    BY Zenon, <2>1, <1>1, <1>7, AnswersKept
<1>11. LruInv'
  BY Zenon, <1>1 DEF LruInv, Clean, Bytes
<1>12. ExactBytes' /\ AbsenceIsReal' /\ DOMAIN result' = Task
  BY Zenon, <1>1, <1>7, <1>11, ResultsKept DEF AbsenceIsReal, LruInv
<1>13. Types'
  BY Zenon, <1>1, <1>8, <1>12 DEF Types, HeldTypes, pools
<1> QED
  BY Zenon, <1>8, <1>9, <1>10, <1>11, <1>12, <1>13 DEF FlightsInv

(* A delivery only reaches a task whose own entry has left the table. *)
LEMMA DeliveredStep ==
    ASSUME StoreAssumption, IInv, NEW t \in Task, Delivered(t) PROVE IInv'
<1> USE DEF IInv
<1> DEFINE d == chan[sub[t]]
           l == IF d = Abandoned THEN "lookup" ELSE Returned(t, d)
<1>1. /\ pc[t] \in {"following", "carried", "queueing"} /\ d # Nothing
      /\ Unsubscribe(t) /\ DropGuard(t) /\ chan' = Heard(chan)
      /\ UNCHANGED <<reads, queue, lru, absent, pools, said>>
  BY Zenon DEF Delivered
<1>f. FlightsInv
  BY Zenon DEF FlightsInv
<1>2. sub[t] # 0 /\ sub[t] \in FlightId
  BY Zenon, <1>1 DEF GuardInv, Listening, Guarded, Types
<1>3. d \in Outcome \union {Nothing, Abandoned} /\ Fit(d, KeyOf[t])
  BY Zenon, <1>2 DEF Types, ChannelInv, Fit
<1>4. ASSUME NEW k \in Key, reads[k] # NotInFlight PROVE reads[k].owner # flight[t]
  <2>1. reads[k].owner # 0
    BY Zenon, <1>4, EntryIs
  <2>2. CASE flight[t] # 0 /\ reads[k].owner = flight[t]
    <3>1. pc[t] = "queueing" /\ group[t] = <<KeyOf[t]>> /\ sub[t] = flight[t]
      BY Zenon, <1>1, <2>2 DEF GuardInv, Guarded
    <3>2. PICK u \in Task : flight[u] = reads[k].owner /\ k \in Range(group[u])
      BY Zenon, <1>4 DEF TableInv
    <3>3. u = t
      BY ZenonT(40), <2>2, <3>2 DEF GuardInv
    <3>4. k = KeyOf[t]
      BY <3>1, <3>2, <3>3 DEF Range
    <3>5. reads[k].tx = sub[t] /\ chan[reads[k].tx] = Nothing
      BY Zenon, <1>4, <2>2, <3>1, <3>4 DEF TableInv
    <3> QED
      BY Zenon, <3>5, <1>1
  <2> QED
    BY Zenon, <2>1, <2>2
<1>5. Sends(t, chan)
  <2>1. ASSUME NEW f \in FlightId PROVE ~Leaves(t, f)
    <3>1. \A k \in Key : reads[k].tx = f => reads[k] # NotInFlight
      BY Zenon, EntryIs DEF StoreAssumption
    <3> QED
      BY Zenon, <3>1, <1>4 DEF Leaves
  <2> QED
    BY Zenon, <2>1 DEF Sends, Types
<1>6. Releases(t, chan)
  <2>1. \A k \in Key : reads[k] = IF reads[k].owner = flight[t] THEN NotInFlight ELSE reads[k]
    BY Zenon, <1>4
  <2>2. reads = [k \in Key |-> reads[k]]
    BY Zenon DEF Types
  <2>3. reads' = [k \in Key |-> IF reads[k].owner = flight[t] THEN NotInFlight ELSE reads[k]]
    BY Zenon, <2>1, <2>2, <1>1
  <2> QED
    BY Zenon, <2>3, <1>1 DEF Releases
<1>7. QueuesLeft(t)
  <2>1. ASSUME NEW p \in Path, NEW y \in Range(queue[p]) PROVE y.owner # flight[t]
    <3>1. y \in QueueEntry /\ reads[y.key].owner = y.owner
      BY Zenon, <2>1, RangeIn DEF QueueInv, Types
    <3>2. y.key \in Key /\ y.owner # 0
      BY Zenon, <3>1 DEF QueueEntry, StoreAssumption
    <3>3. reads[y.key] # NotInFlight
      BY Zenon, <3>1, <3>2, EntryIs
    <3> QED
      BY Zenon, <3>1, <3>2, <3>3, <1>4
  <2> QED
    BY Zenon, <2>1, <1>1, QueuesSame
<1> HIDE DEF d
<1>8. /\ result' = result \/ (result' = [result EXCEPT ![t] = d] /\ Honest(t, d))
      /\ Goto(t, l)
      /\ l \in Label \ Listening /\ l \notin {"fetched", "publishing"} /\ l \notin Outstanding
      /\ l = "noting" => KeyOf[t].path \in said'
  <2>1. CASE d = Abandoned
    BY Zenon, <2>1, <1>1 DEF Delivered, d, Label, Listening, Guarded, Outstanding
  <2>2. CASE d # Abandoned
    <3>1. d \in Outcome /\ Return(t, d) /\ said' = said
      BY Zenon, <2>2, <1>1, <1>3 DEF Delivered, d
    <3> QED
      BY Zenon, <2>2, <3>1, <1>3, ReturnIs
  <2> QED
    BY Zenon, <2>1, <2>2
<1> HIDE DEF l
<1>9. FlightsInv' /\ HeldTypes'
  BY Zenon, <1>f, <1>5, <1>6, <1>7, <1>8, ReleaseStep
<1>10. PermitsBalance'
  <2>1. pc[t] \notin Outstanding
    BY Zenon, <1>1 DEF Outstanding
  <2> QED
    BY Zenon, <2>1, <1>1, <1>8, PermitsKept
<1>11. AnswerInv'
  <2>1. \A u \in Task : u # t => group'[u] = group[u] /\ answer'[u] = answer[u]
    BY Zenon, <1>1 DEF DropGuard, Types
  <2> QED
    BY Zenon, <2>1, <1>1, <1>8, AnswersKept
<1>12. LruInv'
  BY Zenon, <1>1 DEF LruInv, Clean, Bytes
<1>13. ExactBytes' /\ AbsenceIsReal' /\ DOMAIN result' = Task
  BY Zenon, <1>1, <1>8, <1>12, ResultsKept DEF AbsenceIsReal, LruInv
<1>14. Types'
  BY Zenon, <1>1, <1>9, <1>13 DEF Types, HeldTypes, pools
<1> QED
  BY Zenon, <1>9, <1>10, <1>11, <1>12, <1>13, <1>14 DEF FlightsInv

(* A call dropped at an await. *)
LEMMA CancelStep ==
    ASSUME StoreAssumption, Counting, IInv, NEW t \in Task, Cancel(t) PROVE IInv'
<1> USE DEF IInv
<1> DEFINE new == [f \in FlightId |-> IF \E k \in Owned(t) : reads[k].tx = f
                                      THEN Abandoned ELSE chan[f]]
<1>1. /\ pc[t] \in {"following", "carried", "queueing", "leading", "requesting",
                    "probeQueued", "heading"}
      /\ Unsubscribe(t) /\ DropGuard(t) /\ chan' = Heard(new)
      /\ reads' = [k \in Key |-> IF k \in Owned(t) THEN NotInFlight ELSE reads[k]]
      /\ queue' = Dequeued(t)
      /\ Goto(t, "cancelled")
      /\ UNCHANGED <<result, lru, absent, said>>
      /\ IF pc[t] \in {"requesting", "heading"} THEN ReturnPermit(t) ELSE UNCHANGED pools
  BY Zenon DEF Cancel, Abandon
<1>f. FlightsInv
  BY Zenon DEF FlightsInv
<1>2. Sends(t, new)
  <2> SUFFICES ASSUME NEW f \in FlightId
               PROVE  /\ new[f] \in Outcome \union {Nothing, Abandoned}
                      /\ Leaves(t, f) =>
                            /\ new[f] # Nothing
                            /\ new[f].tag # "ok" /\ new[f] # Err("NotFound")
                      /\ ~Leaves(t, f) => new[f] = chan[f]
    BY Zenon DEF Sends
  <2>1. Leaves(t, f) <=> \E k \in Owned(t) : reads[k].tx = f
    BY Zenon, <1>f, OwnedIs
  <2>2. CASE Leaves(t, f)
    <3>1. new[f] = Abandoned
      BY Zenon, <2>1, <2>2
    <3> QED
      BY <3>1, <2>2 DEF Abandoned, Nothing, Err
  <2>3. CASE ~Leaves(t, f)
    <3>1. new[f] = chan[f]
      BY Zenon, <2>1, <2>3
    <3> QED
      BY Zenon, <3>1, <2>3 DEF Types
  <2> QED
    BY Zenon, <2>2, <2>3
<1> HIDE DEF new
<1>3. Releases(t, new)
  <2>1. \A k \in Key : (IF k \in Owned(t) THEN NotInFlight ELSE reads[k])
                        = (IF reads[k].owner = flight[t] THEN NotInFlight ELSE reads[k])
    BY Zenon, <1>f, OwnedIs
  <2> QED
    BY Zenon, <2>1, <1>1 DEF Releases
<1>4. QueuesLeft(t)
  <2> DEFINE h == KeyOf[t].path
             q == queue[h]
             a == Retained(q, flight[t])
  <2>1. ASSUME NEW p \in Path, NEW y \in Range(queue[p]), y.owner = flight[t]
        PROVE  queuedAt[t] /\ p = h
    <3>1. PICK u \in Task : flight[u] = y.owner /\ queuedAt[u] /\ KeyOf[u] = y.key
      BY Zenon, <2>1 DEF QueueInv
    <3>2. y.key.path = p
      BY Zenon, <2>1 DEF QueueInv
    <3>3. flight[u] # 0
      BY Zenon, <3>1 DEF GuardInv, Guarded
    <3> QED
      BY <2>1, <3>1, <3>2, <3>3 DEF GuardInv
  <2>2. CASE queuedAt[t]
    <3>0. h \in Path
      BY Zenon DEF Path, StoreAssumption
    <3>1. q \in Seq(QueueEntry) /\ Distinct(q)
      BY Zenon, <3>0 DEF Types, QueueInv
    <3>2. queue' = [queue EXCEPT ![h] = a]
      BY Zenon, <2>2, <1>1 DEF Dequeued
    <3> HIDE DEF h, q
    <3>3. /\ a \in Seq(QueueEntry) /\ Distinct(a)
          /\ Range(a) = {e \in Range(q) : e.owner # flight[t]}
      BY Zenon, <3>1, RetainedFrame
    <3> HIDE DEF a
    <3>4. queue' \in [Path -> Seq(QueueEntry)] /\ queue'[h] = a
          /\ \A p \in Path : p # h => queue'[p] = queue[p]
      BY Zenon, <3>0, <3>2, <3>3 DEF Types
    <3>5. ASSUME NEW p \in Path
          PROVE  /\ Distinct(queue'[p])
                 /\ \A y : y \in Range(queue'[p]) <=> y \in Range(queue[p]) /\ y.owner # flight[t]
      <4>1. CASE p = h
        BY Zenon, <4>1, <3>3, <3>4 DEF q
      <4>2. CASE p # h
        <5>1. queue'[p] = queue[p] /\ Distinct(queue[p])
          BY Zenon, <4>2, <3>4 DEF QueueInv
        <5> QED
          BY Zenon, <5>1, <4>2, <2>1
      <4> QED
        BY Zenon, <4>1, <4>2
    <3> QED
      BY Zenon, <3>4, <3>5 DEF QueuesLeft
  <2>3. CASE ~queuedAt[t]
    <3>1. queue' = queue
      BY Zenon, <2>3, <1>1 DEF Dequeued
    <3> QED
      BY Zenon, <3>1, <2>1, <2>3, QueuesSame
  <2> QED
    BY Zenon, <2>2, <2>3
<1>5. "cancelled" \in Label \ Listening /\ "cancelled" \notin Outstanding
  BY Zenon DEF Label, Listening, Guarded, Outstanding
<1>6. FlightsInv' /\ HeldTypes'
  <2> DEFINE l == "cancelled"
  <2>1. l \in Label \ Listening /\ Goto(t, l)
    BY Zenon, <1>1, <1>5
  <2> HIDE DEF l
  <2> QED
    BY Zenon, <2>1, <1>f, <1>2, <1>3, <1>4, ReleaseStep
<1>7. PermitsBalance' /\ chunkFree' \in Nat /\ metaFree' \in Nat
  <2>1. CASE pc[t] \in {"requesting", "heading"}
    <3>1. pc[t] \in Outstanding /\ ReturnPermit(t)
      BY Zenon, <2>1, <1>1 DEF Outstanding
    <3> QED
      BY Zenon, <3>1, <1>1, <1>5, PermitReturned
  <2>2. CASE pc[t] \notin {"requesting", "heading"}
    <3>1. pc[t] \notin Outstanding /\ UNCHANGED pools
      BY Zenon, <2>2, <1>1 DEF Outstanding
    <3>2. PermitsBalance'
      BY Zenon, <3>1, <1>1, <1>5, PermitsKept
    <3> QED
      BY Zenon, <3>1, <3>2 DEF pools, Types
  <2> QED
    BY Zenon, <2>1, <2>2
<1>8. AnswerInv'
  <2>1. \A u \in Task : u # t => group'[u] = group[u] /\ answer'[u] = answer[u]
    BY Zenon, <1>1 DEF DropGuard, Types
  <2> QED
    BY Zenon, <2>1, <1>1, AnswersKept
<1>9. LruInv'
  BY Zenon, <1>1 DEF LruInv, Clean, Bytes
<1>10. ExactBytes' /\ AbsenceIsReal' /\ DOMAIN result' = Task
  BY Zenon, <1>1, <1>9, ResultsKept DEF AbsenceIsReal, LruInv
<1>11. Types'
  BY Zenon, <1>1, <1>6, <1>7, <1>10 DEF Types, HeldTypes
<1> QED
  BY Zenon, <1>6, <1>7, <1>8, <1>9, <1>10, <1>11 DEF FlightsInv

=============================================================================
