-------------------------- MODULE CachedStoreLemmas --------------------------
(***************************************************************************)
(* The inductive invariant of CachedStore, and what it needs to know of its*)
(* data: the LRU's bytes and ranks, the queue of touching ranges, the counted*)
(* permits, and the parts of the invariant a step leaves alone.            *)
(***************************************************************************)
EXTENDS CachedStore, TLAPS

(* The leaves that name no prover are the SMT solver's. *)
USE SMTT(60)

Label == {"idle", "lookup", "placing", "following", "queueing", "admitted", "carried",
          "leading", "requesting", "fetched", "publishing", "noting", "probeLookup",
          "probeQueued", "heading", "done", "cancelled"}
Guarded == {"queueing", "admitted", "leading", "requesting", "fetched", "publishing"}
Claimed == {"leading", "requesting", "fetched", "publishing"}
Listening == Guarded \union {"following", "carried"}

QueueEntry == [key : Key, owner : FlightId]
LruEntry == [key : Key, bytes : Key]
InFlightRead == [tx : FlightId, owner : FlightId]
Outcome == {Ok(k) : k \in Key} \union {Err(e) : e \in ErrorVariant}

(* Keys appear once in a queue, and in the LRU. *)
Distinct(s) == \A i, j \in DOMAIN s : s[i].key = s[j].key => i = j

Types ==
    /\ pc \in [Task -> Label]
    /\ DOMAIN result = Task
    /\ flight \in [Task -> {0} \union FlightId]
    /\ queuedAt \in [Task -> BOOLEAN]
    /\ group \in [Task -> Seq(Key)]
    /\ DOMAIN answer = Task
    /\ sub \in [Task -> {0} \union FlightId]
    /\ reads \in [Key -> InFlightRead \union {NotInFlight}]
    /\ queue \in [Path -> Seq(QueueEntry)]
    /\ chan \in [FlightId -> Outcome \union {Nothing, Abandoned}]
    /\ lru \in Seq(LruEntry)
    /\ absent \subseteq Path /\ said \subseteq Path
    /\ chunkFree \in Nat /\ metaFree \in Nat

(* A task holds a guard of its own, under an id of its own, exactly from   *)
(* its registration to its completion.                                     *)
GuardInv ==
    \A t \in Task :
        /\ flight[t] # 0 <=> pc[t] \in Guarded
        /\ sub[t] # 0 <=> pc[t] \in Listening
        /\ flight[t] # 0 => sub[t] = flight[t]
        /\ \A u \in Task : flight[t] = flight[u] /\ flight[t] # 0 => t = u
        /\ queuedAt[t] <=> pc[t] \in {"queueing", "admitted"}
        /\ queuedAt[t] => Mergeable(t)
        /\ pc[t] \in {"queueing", "admitted", "leading"} => group[t] = <<KeyOf[t]>>
        /\ pc[t] \in Guarded => /\ KeyOf[t] \in Range(group[t])
                                /\ \A k \in Range(group[t]) : k.path = KeyOf[t].path

(* The table: an entry has a live owner that carries its key and a channel *)
(* of its own that nothing was sent on; a claimed key stays its claimer's. *)
TableInv ==
    /\ \A k \in Key : reads[k] # NotInFlight =>
          /\ \E t \in Task : flight[t] = reads[k].owner /\ k \in Range(group[t])
          /\ \A j \in Key : reads[j].tx = reads[k].tx => j = k
          /\ chan[reads[k].tx] = Nothing
    /\ \A t \in Task :
          /\ pc[t] \in Claimed => \A k \in Range(group[t]) : reads[k].owner = flight[t]
          /\ flight[t] # 0 /\ reads[KeyOf[t]].owner = flight[t] => reads[KeyOf[t]].tx = flight[t]

(* The channels: a receiver waits for its own key, and until something is  *)
(* sent the table still has the entry that will be answered.               *)
ChannelInv ==
    /\ \A f \in FlightId : chan[f] # Nothing => \E t \in Task : sub[t] = f
    /\ \A t \in Task : sub[t] # 0 =>
          /\ \A k \in Key : reads[k].tx = sub[t] => k = KeyOf[t]
          /\ chan[sub[t]] = Nothing => reads[KeyOf[t]].tx = sub[t]
          /\ chan[sub[t]].tag = "ok" => chan[sub[t]] = Ok(KeyOf[t])
          /\ chan[sub[t]] = Err("NotFound") => KeyOf[t].path \in said

(* The queues: every queued range is the own range of a live leader that   *)
(* still owns its entry, and such a leader is queued.                      *)
QueueInv ==
    /\ \A p \in Path :
          /\ Distinct(queue[p])
          /\ \A e \in Range(queue[p]) :
                /\ reads[e.key].owner = e.owner
                /\ \E u \in Task : flight[u] = e.owner /\ queuedAt[u] /\ KeyOf[u] = e.key
                /\ e.key.path = p
    /\ \A u \in Task : queuedAt[u] /\ reads[KeyOf[u]].owner = flight[u] =>
          [key |-> KeyOf[u], owner |-> flight[u]] \in Range(queue[KeyOf[u].path])

(* The answers: the slices are those of the group's keys, or one error is  *)
(* the answer to all of them.                                              *)
Answered1(t) == answer[t] = [i \in DOMAIN group[t] |-> Ok(group[t][i])]
Refused(t) == \E e \in ErrorVariant : /\ answer[t] = [i \in DOMAIN group[t] |-> Err(e)]
                                      /\ e = "NotFound" => KeyOf[t].path \in said
AnswerInv ==
    \A t \in Task :
        /\ pc[t] \in {"fetched", "publishing"} => Answered1(t) \/ Refused(t)
        /\ pc[t] = "noting" => KeyOf[t].path \in said

Clean(l) ==
    /\ l \in Seq(LruEntry)
    /\ \A i \in DOMAIN l : l[i].bytes = l[i].key
    /\ Distinct(l)
    /\ Bytes(l) <= MaxBytes \/ Len(l) = 1
LruInv == Clean(lru)

IInv ==
    /\ Types /\ GuardInv /\ TableInv /\ ChannelInv /\ QueueInv /\ AnswerInv /\ LruInv
    /\ PermitsBalance /\ ExactBytes /\ AbsenceIsReal

----------------------------------------------------------------------------
(* What the steps rest on of the theory of naturals and of finite sets.     *)
(* Every lemma that needs it takes it as a hypothesis, and the module that  *)
(* states the theorems proves it from the library.                          *)
Counting ==
    /\ \A S \in SUBSET Nat : S # {} => \E x \in S : \A y \in S : x <= y
    /\ \A S, T : IsFiniteSet(S) /\ T \subseteq S => IsFiniteSet(T) /\ Cardinality(T) \in Nat
    /\ \A S, x : IsFiniteSet(S) /\ x \notin S => Cardinality(S \union {x}) = Cardinality(S) + 1
    /\ \A S, x : IsFiniteSet(S) /\ x \in S => Cardinality(S \ {x}) = Cardinality(S) - 1

(* Induction over the naturals, with the statement as a set: a least       *)
(* element of the complement would follow one of the set.                  *)
LEMMA Induction ==
    ASSUME Counting, NEW S, 0 \in S, \A n \in Nat : n \in S => n + 1 \in S
    PROVE  Nat \subseteq S
<1> SUFFICES ASSUME Nat \ S # {} PROVE FALSE
  BY Zenon
<1>1. (Nat \ S) \in SUBSET Nat
  BY Zenon
<1>2. PICK x \in Nat \ S : \A y \in Nat \ S : x <= y
  BY Zenon, <1>1 DEF Counting
<1>3. \A y \in Nat \ S : ~(y < x)
  BY <1>2
<1>4. x # 0 /\ x \in Nat
  BY Zenon, <1>2
<1>5. x - 1 \in Nat /\ x - 1 < x
  BY <1>4
<1>6. x - 1 \in S
  BY Zenon, <1>3, <1>5
<1> QED
  BY <1>2, <1>5, <1>6


(* The same up to a bound. *)
LEMMA UpTo ==
    ASSUME Counting, NEW n \in Nat, NEW S, 0 \in S, \A i \in 1..n : i - 1 \in S => i \in S
    PROVE  0..n \subseteq S
<1> DEFINE R == {m \in Nat : m <= n => m \in S}
<1>1. 0 \in R
  BY Zenon
<1>2. ASSUME NEW m \in Nat, m \in R PROVE m + 1 \in R
  <2>1. CASE m + 1 <= n
    <3>1. m + 1 \in 1..n /\ (m + 1) - 1 = m /\ m \in S
      BY <1>2, <2>1
    <3> QED
      BY <3>1
  <2>2. CASE ~(m + 1 <= n)
    BY <2>2
  <2> QED
    BY Zenon, <2>1, <2>2
<1> HIDE DEF R
<1>3. Nat \subseteq R
  BY Zenon, <1>1, <1>2, Induction
<1> QED
  BY <1>3 DEF R

(* A function defined by recursion on 0..n with values in D exists. *)
Recurs(f, D, n, a, G) ==
    f \in [0..n -> D] /\ f[0] = a /\ \A i \in 1..n : f[i] = G[<<f[i - 1], i>>]
Stepping(D, n, G) == G \in [D \X (1..n) -> D]

LEMMA Recursion ==
    ASSUME Counting, NEW D, NEW n \in Nat, NEW a \in D, NEW G, Stepping(D, n, G)
    PROVE  \E f : Recurs(f, D, n, a, G)
<1> DEFINE Upto(m, f) == /\ f \in [0..m -> D] /\ f[0] = a
                         /\ \A i \in 1..m : f[i] = G[<<f[i - 1], i>>]
           S == {m \in Nat : m <= n => \E f : Upto(m, f)}
<1>1. 0 \in S
  <2>1. Upto(0, [i \in 0..0 |-> a])
    OBVIOUS
  <2> QED
    BY Zenon, <2>1
<1>2. ASSUME NEW m \in Nat, m \in S PROVE m + 1 \in S
  <2> SUFFICES ASSUME m + 1 <= n PROVE \E f : Upto(m + 1, f)
    OBVIOUS
  <2>1. PICK f : Upto(m, f)
    BY <1>2
  <2> DEFINE g == [i \in 0..(m + 1) |-> IF i <= m THEN f[i] ELSE G[<<f[m], m + 1>>]]
  <2>2. f[m] \in D /\ m + 1 \in 1..n
    BY <2>1
  <2>3. G[<<f[m], m + 1>>] \in D
    BY Zenon, <2>2 DEF Stepping
  <2>4. ASSUME NEW i \in 0..(m + 1) PROVE g[i] \in D
    <3>1. CASE i <= m
      BY <2>1, <3>1
    <3>2. CASE ~(i <= m)
      BY Zenon, <2>3, <3>2
    <3> QED
      BY Zenon, <3>1, <3>2
  <2>5. g \in [0..(m + 1) -> D] /\ g[0] = a
    BY <2>1, <2>4
  <2>6. ASSUME NEW i \in 1..(m + 1) PROVE g[i] = G[<<g[i - 1], i>>]
    <3>1. i - 1 \in 0..m /\ i - 1 <= m /\ i \in 0..(m + 1) /\ i - 1 \in 0..(m + 1)
      OBVIOUS
    <3>2. g[i - 1] = f[i - 1]
      BY Zenon, <3>1
    <3>3. CASE i <= m
      <4>1. i \in 1..m /\ g[i] = f[i]
        BY <3>1, <3>3
      <4> HIDE DEF g
      <4> QED
        BY Zenon, <4>1, <3>2, <2>1
    <3>4. CASE ~(i <= m)
      <4>1. i = m + 1 /\ i - 1 = m
        BY <3>4
      <4>2. g[i] = G[<<f[m], m + 1>>]
        BY Zenon, <3>1, <3>4
      <4> HIDE DEF g
      <4> QED
        BY Zenon, <4>1, <4>2, <3>2
    <3> QED
      BY Zenon, <3>3, <3>4
  <2> HIDE DEF g
  <2>7. Upto(m + 1, g)
    BY Zenon, <2>5, <2>6
  <2> QED
    BY Zenon, <2>7
<1> HIDE DEF S
<1>3. n \in S
  BY Zenon, <1>1, <1>2, Induction
<1> QED
  BY <1>3 DEF S, Recurs

-----------------------------------------------------------------------------
(* The LRU.                                                                *)

Summing(l, f) ==
    /\ f \in [0..Len(l) -> Nat] /\ f[0] = 0
    /\ \A i \in 1..Len(l) : f[i] = f[i - 1] + Size[l[i].key]

LEMMA SizeIs ==
    ASSUME StoreAssumption, NEW l \in Seq(LruEntry)
    PROVE  \A i \in 1..Len(l) : l[i] \in LruEntry /\ l[i].key \in Key /\ Size[l[i].key] \in Nat
<1> TAKE i \in 1..Len(l)
<1>1. l[i] \in LruEntry
  OBVIOUS
<1>2. l[i].key \in Key
  BY Zenon, <1>1 DEF LruEntry
<1> QED
  BY Zenon, <1>1, <1>2 DEF StoreAssumption

LEMMA BytesIs ==
    ASSUME StoreAssumption, Counting, NEW l \in Seq(LruEntry)
    PROVE  \E f : Summing(l, f) /\ Bytes(l) = f[Len(l)]
<1> DEFINE n == Len(l)
           s(i) == Size[l[i].key]
           Eqn(f) == f = [i \in 0..n |-> IF i = 0 THEN 0 ELSE f[i - 1] + s(i)]
           c == CHOOSE f : Eqn(f)
           G == [x \in Nat \X (1..n) |-> x[1] + s(x[2])]
<1>1. n \in Nat /\ Bytes(l) = c[n]
  BY DEF Bytes
<1>2. \A i \in 1..n : s(i) \in Nat
  BY Zenon, SizeIs
<1> HIDE DEF n, s
<1>3. n \in Nat /\ 0 \in Nat /\ Stepping(Nat, n, G)
  BY <1>1, <1>2 DEF Stepping
<1>4. PICK f : Recurs(f, Nat, n, 0, G)
  <2> HIDE DEF G
  <2> QED
    BY Zenon, <1>3, Recursion
<1>5. \A i \in 1..n : f[i] = f[i - 1] + s(i)
  <2> TAKE i \in 1..n
  <2>1. i - 1 \in 0..n /\ f[i - 1] \in Nat
    BY <1>1, <1>4 DEF Recurs
  <2> QED
    BY Zenon, <2>1, <1>4 DEF Recurs
<1> HIDE DEF G
<1>6. ASSUME NEW i \in 0..n PROVE f[i] = IF i = 0 THEN 0 ELSE f[i - 1] + s(i)
  <2>1. CASE i = 0
    BY Zenon, <2>1, <1>4 DEF Recurs
  <2>2. CASE i # 0
    BY <2>2, <1>5, <1>1
  <2> QED
    BY Zenon, <2>1, <2>2
<1>7. Eqn(f)
  BY Zenon, <1>4, <1>6 DEF Recurs
<1>8. Eqn(c)
  BY Zenon, <1>7
<1> HIDE DEF c
<1>9. c[0] = 0 /\ \A i \in 1..n : c[i] = c[i - 1] + s(i)
  BY <1>8, <1>1
<1>10. \A i \in 0..n : c[i] \in Nat
  <2> DEFINE S == {i \in 0..n : c[i] \in Nat}
  <2>1. 0 \in S /\ \A i \in 1..n : i - 1 \in S => i \in S
    BY <1>9, <1>2, <1>1
  <2> HIDE DEF S
  <2>2. 0..n \subseteq S
    BY Zenon, <2>1, <1>1, UpTo
  <2> QED
    BY Zenon, <2>2 DEF S
<1>11. c \in [0..n -> Nat]
  BY Zenon, <1>8, <1>10
<1>12. Summing(l, c)
  BY Zenon, <1>9, <1>11 DEF Summing, n, s
<1> QED
  BY Zenon, <1>12, <1>1 DEF n

LEMMA BytesAppend ==
    ASSUME StoreAssumption, Counting, NEW l \in Seq(LruEntry), NEW e \in LruEntry
    PROVE  /\ Bytes(l) \in Nat /\ Size[e.key] \in Nat
           /\ Bytes(Append(l, e)) = Bytes(l) + Size[e.key]
<1> DEFINE m == Append(l, e)
           n == Len(l)
<1>1. m \in Seq(LruEntry) /\ Len(m) = n + 1 /\ m[n + 1] = e /\ n \in Nat
      /\ \A i \in 1..n : m[i] = l[i]
  OBVIOUS
<1>2. PICK f : Summing(l, f) /\ Bytes(l) = f[n]
  BY Zenon, BytesIs
<1>3. PICK g : Summing(m, g) /\ Bytes(m) = g[Len(m)]
  BY Zenon, <1>1, BytesIs
<1> HIDE DEF m
<1>4. f[0] = g[0] /\ \A i \in 1..n : f[i - 1] = g[i - 1] => f[i] = g[i]
  BY <1>1, <1>2, <1>3 DEF Summing
<1>5. f[n] = g[n]
  <2> DEFINE S == {i \in 0..n : f[i] = g[i]}
  <2>1. 0 \in S /\ \A i \in 1..n : i - 1 \in S => i \in S
    BY <1>4, <1>1
  <2> HIDE DEF S, n
  <2>2. 0..n \subseteq S
    BY Zenon, <2>1, <1>1, UpTo
  <2> QED
    BY <2>2, <1>1 DEF S
<1>6. n + 1 \in 1..Len(m) /\ (n + 1) - 1 = n
  BY <1>1
<1>7. g[n + 1] = g[n] + Size[e.key]
  BY Zenon, <1>6, <1>1, <1>3 DEF Summing
<1>8. Size[e.key] \in Nat /\ f[n] \in Nat
  <2>1. e.key \in Key
    BY Zenon DEF LruEntry
  <2>2. n \in 0..n
    BY <1>1
  <2> QED
    BY Zenon, <2>1, <2>2, <1>2 DEF Summing, StoreAssumption
<1> QED
  BY Zenon, <1>1, <1>2, <1>3, <1>5, <1>7, <1>8 DEF m

LEMMA RemoveIs ==
    ASSUME NEW T, NEW l \in Seq(T), NEW i \in 1..Len(l)
    PROVE  /\ WithoutRank(l, i) \in Seq(T)
           /\ Len(WithoutRank(l, i)) = Len(l) - 1
           /\ \A j \in 1..(Len(l) - 1) : WithoutRank(l, i)[j] = IF j < i THEN l[j] ELSE l[j + 1]
<1>1. Len(l) \in Nat /\ i - 1 \in 0..Len(l)
  OBVIOUS
<1>2. SubSeq(l, 1, i - 1) \in Seq(T) /\ SubSeq(l, i + 1, Len(l)) \in Seq(T)
  BY <1>1
<1>3. Len(SubSeq(l, 1, i - 1)) = i - 1 /\ Len(SubSeq(l, i + 1, Len(l))) = Len(l) - i
  BY <1>1
<1>4. \A j \in 1..(i - 1) : SubSeq(l, 1, i - 1)[j] = l[j]
  BY <1>1
<1>5. \A j \in 1..(Len(l) - i) : SubSeq(l, i + 1, Len(l))[j] = l[j + i]
  BY <1>1
<1> DEFINE a == SubSeq(l, 1, i - 1)
           b == SubSeq(l, i + 1, Len(l))
<1>0. a \in Seq(T) /\ b \in Seq(T)
  BY Zenon, <1>2
<1>6. Len(a) = i - 1 /\ Len(b) = Len(l) - i /\ WithoutRank(l, i) = a \o b
  BY Zenon, <1>3 DEF WithoutRank
<1>7. (\A j \in 1..Len(a) : a[j] = l[j]) /\ (\A j \in 1..Len(b) : b[j] = l[j + i])
  BY Zenon, <1>4, <1>5, <1>6
<1> HIDE DEF a, b
<1>8. a \o b \in Seq(T) /\ Len(a \o b) = Len(l) - 1
  <2>1. a \o b \in Seq(T) /\ Len(a \o b) = Len(a) + Len(b)
    BY <1>0
  <2> QED
    BY <2>1, <1>1, <1>6
<1>9. ASSUME NEW j \in 1..(Len(l) - 1) PROVE (a \o b)[j] = IF j < i THEN l[j] ELSE l[j + 1]
  <2>1. CASE j < i
    BY <2>1, <1>0, <1>1, <1>6, <1>7
  <2>2. CASE ~(j < i)
    <3>1. j - Len(a) \in 1..Len(b) /\ (j - Len(a)) + i = j + 1 /\ ~(j <= Len(a))
      BY <2>2, <1>1, <1>6
    <3>2. (a \o b)[j] = b[j - Len(a)]
      BY <3>1, <1>0, <1>6, <1>1
    <3>3. b[j - Len(a)] = l[(j - Len(a)) + i]
      BY Zenon, <3>1, <1>7
    <3> QED
      BY Zenon, <3>1, <3>2, <3>3, <2>2
  <2> QED
    BY Zenon, <2>1, <2>2
<1> QED
  BY Zenon, <1>6, <1>8, <1>9

LEMMA BytesRemove ==
    ASSUME StoreAssumption, Counting, NEW l \in Seq(LruEntry), NEW i \in 1..Len(l)
    PROVE  Bytes(WithoutRank(l, i)) + Size[l[i].key] = Bytes(l)
<1> DEFINE m == WithoutRank(l, i)
           n == Len(l)
           x == Size[l[i].key]
<1>1. n \in Nat /\ n >= 1 /\ i \in 1..n
  OBVIOUS
<1>2. m \in Seq(LruEntry) /\ Len(m) = n - 1
      /\ \A j \in 1..(n - 1) : m[j] = IF j < i THEN l[j] ELSE l[j + 1]
  BY Zenon, RemoveIs
<1>3. PICK f : Summing(l, f) /\ Bytes(l) = f[n]
  BY Zenon, BytesIs
<1>4. PICK g : Summing(m, g) /\ Bytes(m) = g[Len(m)]
  BY Zenon, <1>2, BytesIs
<1>5. x \in Nat /\ \A j \in 1..n : Size[l[j].key] \in Nat
  BY Zenon, SizeIs
<1> HIDE DEF m, n, x
<1>6. f[i] = f[i - 1] + x
  BY Zenon, <1>1, <1>3 DEF Summing, n, x
<1>7. f \in [0..n -> Nat] /\ g \in [0..(n - 1) -> Nat] /\ f[0] = 0 /\ g[0] = 0
  BY Zenon, <1>2, <1>3, <1>4 DEF Summing, n
<1>8. \A j \in 1..n : f[j] = f[j - 1] + Size[l[j].key]
  BY Zenon, <1>3 DEF Summing, n
<1>9. \A j \in 1..(n - 1) : g[j] = g[j - 1] + Size[m[j].key]
  BY Zenon, <1>2, <1>4 DEF Summing
<1> DEFINE S == {j \in Nat : j <= n - 1 => IF j < i THEN g[j] = f[j] ELSE g[j] + x = f[j + 1]}
<1>10. 0 \in S
  BY <1>1, <1>7
<1>11. ASSUME NEW j \in Nat, j \in S PROVE j + 1 \in S
  <2>0. CASE ~(j + 1 <= n - 1)
    BY <2>0
  <2>1. CASE j + 1 <= n - 1
    <3>1. j + 1 \in 1..(n - 1) /\ (j + 1) - 1 = j /\ j \in 0..(n - 1) /\ j <= n - 1
      BY <2>1, <1>1
    <3>2. g[j + 1] = g[j] + Size[m[j + 1].key] /\ g[j] \in Nat /\ g[j + 1] \in Nat
      BY <3>1, <1>9, <1>7, <1>1
    <3>3. CASE j + 1 < i
      <4>1. m[j + 1] = l[j + 1] /\ j < i /\ j + 1 \in 1..n
        BY <3>1, <3>3, <1>2, <1>1
      <4>2. g[j] = f[j]
        BY Zenon, <1>11, <3>1, <4>1
      <4>3. f[j + 1] = f[j] + Size[l[j + 1].key]
        BY Zenon, <4>1, <3>1, <1>8
      <4> QED
        BY <4>1, <4>2, <4>3, <3>2, <3>3
    <3>4. CASE ~(j + 1 < i)
      <4>1. m[j + 1] = l[(j + 1) + 1] /\ (j + 1) + 1 \in 1..n /\ ((j + 1) + 1) - 1 = j + 1
        BY <3>1, <3>4, <1>2, <1>1
      <4>2. g[j] + x = f[j + 1]
        <5>1. CASE j < i
          <6>1. j = i - 1 /\ g[j] = f[j]
            BY <5>1, <3>4, <1>11, <3>1, <1>1
          <6> QED
            BY <6>1, <1>6, <1>1
        <5>2. CASE ~(j < i)
          BY Zenon, <5>2, <1>11, <3>1
        <5> QED
          BY Zenon, <5>1, <5>2
      <4>3. f[(j + 1) + 1] = f[j + 1] + Size[l[(j + 1) + 1].key] /\ Size[l[(j + 1) + 1].key] \in Nat
        BY Zenon, <4>1, <1>8, <1>5
      <4>4. g[j + 1] + x = f[(j + 1) + 1]
        <5>1. g[j + 1] = g[j] + Size[l[(j + 1) + 1].key]
          BY Zenon, <3>2, <4>1
        <5> QED
          BY <5>1, <4>2, <4>3, <3>2, <1>5
      <4> QED
        BY <4>4, <3>4
    <3> QED
      BY Zenon, <3>3, <3>4
  <2> QED
    BY Zenon, <2>0, <2>1
<1> HIDE DEF S
<1>12. n - 1 \in S
  BY <1>10, <1>11, <1>1, Induction
<1>13. g[n - 1] + x = f[n]
  <2>1. CASE n - 1 < i
    <3>1. i = n /\ g[n - 1] = f[n - 1]
      BY <2>1, <1>1, <1>12 DEF S
    <3> QED
      BY Zenon, <3>1, <1>6
  <2>2. CASE ~(n - 1 < i)
    <3>1. (n - 1) + 1 = n
      BY <1>1
    <3> QED
      BY <2>2, <1>1, <1>12, <3>1 DEF S
  <2> QED
    BY Zenon, <2>1, <2>2
<1> QED
  BY Zenon, <1>13, <1>2, <1>3, <1>4 DEF m, x

LEMMA MinIs ==
    ASSUME Counting, NEW S, S \subseteq Nat, S # {}
    PROVE  Min(S) \in S /\ \A y \in S : Min(S) <= y
<1>1. S \in SUBSET Nat
  BY Zenon
<1>2. PICK x \in S : \A y \in S : x <= y
  BY Zenon, <1>1 DEF Counting
<1> QED
  BY Zenon, <1>2 DEF Min

LEMMA MaxIs ==
    ASSUME Counting, NEW n \in Nat, NEW S, S \subseteq 0..n, S # {}
    PROVE  Max(S) \in S /\ \A y \in S : Max(S) >= y
<1> DEFINE R == {n - x : x \in S}
<1>0. \A x \in S : n - x \in Nat
  OBVIOUS
<1>1. R \subseteq Nat /\ R # {}
  BY Zenon, <1>0
<1> HIDE DEF R
<1>2. Min(R) \in R /\ \A y \in R : Min(R) <= y
  BY Zenon, <1>1, MinIs
<1>3. PICK x \in S : Min(R) = n - x
  BY Zenon, <1>2 DEF R
<1>4. \A y \in S : n - x <= n - y
  <2>1. \A y \in S : n - y \in R
    BY Zenon DEF R
  <2> QED
    BY Zenon, <2>1, <1>2, <1>3
<1>5. x \in Int /\ \A y \in S : y \in Int
  OBVIOUS
<1>6. \A y \in S : x >= y
  BY <1>4, <1>5
<1> QED
  BY Zenon, <1>6 DEF Max

LEMMA RankIs ==
    ASSUME NEW l, NEW k, Resident(l, k)
    PROVE  RankOf(l, k) \in DOMAIN l /\ l[RankOf(l, k)].key = k
BY Zenon DEF Resident, RankOf

(* The last entry of l is that of k. *)
Freshest(l, k) == Len(l) \in 1..Len(l) /\ l[Len(l)].key = k

LEMMA FreshestIs ==
    ASSUME NEW l, NEW k, Clean(l), Freshest(l, k)
    PROVE  EntryOf(l, k).bytes = k /\ Resident(l, k)
<1>1. DOMAIN l = 1..Len(l) /\ Resident(l, k)
  BY DEF Clean, Freshest, Resident
<1> QED
  BY Zenon, <1>1, RankIs DEF EntryOf, Clean

(* lru's get: the entry moves, and nothing else changes. *)
LEMMA TouchFrame ==
    ASSUME StoreAssumption, Counting, NEW l, NEW k, Clean(l), Resident(l, k)
    PROVE  Clean(Touch(l, k)) /\ Freshest(Touch(l, k), k)
<1> DEFINE i == RankOf(l, k)
           r == WithoutRank(l, i)
           m == Append(r, l[i])
           n == Len(l)
<1>1. l \in Seq(LruEntry)
  BY Zenon DEF Clean
<1>n. n \in Nat /\ DOMAIN l = 1..n
  BY <1>1
<1>2. i \in 1..n /\ l[i].key = k /\ Touch(l, k) = m
  BY Zenon, <1>n, RankIs DEF Touch, EntryOf
<1>i. i \in Nat /\ 1 <= i /\ i <= n
  BY <1>n, <1>2
<1> HIDE DEF i
<1>3. r \in Seq(LruEntry) /\ Len(r) = n - 1
      /\ \A j \in 1..(n - 1) : r[j] = IF j < i THEN l[j] ELSE l[j + 1]
  BY Zenon, <1>1, <1>2, RemoveIs
<1>4. Bytes(r) + Size[l[i].key] = Bytes(l)
  BY Zenon, <1>1, <1>2, BytesRemove
<1>5. l[i] \in LruEntry
  BY <1>1, <1>2
<1>6. Bytes(m) = Bytes(r) + Size[l[i].key]
  BY Zenon, <1>3, <1>5, BytesAppend
<1> HIDE DEF r, n
<1>7. m \in Seq(LruEntry) /\ Len(m) = n /\ m[n] = l[i] /\ \A j \in 1..(n - 1) : m[j] = r[j]
  <2>1. r \in Seq(LruEntry)
    BY Zenon, <1>3
  <2>2. Len(r) = n - 1
    BY Zenon, <1>3
  <2>3. m \in Seq(LruEntry) /\ Len(m) = Len(r) + 1 /\ m[Len(r) + 1] = l[i]
        /\ \A j \in 1..Len(r) : m[j] = r[j]
    BY <2>1, <1>5
  <2>4. Len(r) + 1 = n
    BY <2>2, <1>n
  <2> HIDE DEF m
  <2> QED
    BY Zenon, <2>2, <2>3, <2>4
<1> HIDE DEF m
<1> DEFINE from(j) == IF j = n THEN i ELSE IF j < i THEN j ELSE j + 1
<1>8. ASSUME NEW j \in 1..n PROVE from(j) \in 1..n /\ m[j] = l[from(j)]
  <2>1. CASE j = n
    BY Zenon, <2>1, <1>2, <1>7
  <2>2. CASE j # n
    <3>1. j \in 1..(n - 1)
      BY <2>2, <1>n
    <3>2. m[j] = IF j < i THEN l[j] ELSE l[j + 1]
      BY Zenon, <3>1, <1>3, <1>7
    <3>3. from(j) \in 1..n
      BY <3>1, <2>2, <1>n, <1>i
    <3> QED
      BY Zenon, <2>2, <3>2, <3>3
  <2> QED
    BY Zenon, <2>1, <2>2
<1>9. \A j, h \in 1..n : from(j) = from(h) => j = h
  BY <1>n, <1>i
<1> HIDE DEF from
<1>10. DOMAIN m = 1..n
  BY <1>7
<1>11. Distinct(m)
  BY <1>n, <1>8, <1>9, <1>10 DEF Distinct, Clean
<1>12. \A j \in DOMAIN m : m[j].bytes = m[j].key
  BY <1>n, <1>8, <1>10 DEF Clean
<1>13. Clean(m)
  <2>1. Len(m) = Len(l)
    BY Zenon, <1>7 DEF n
  <2> QED
    BY Zenon, <2>1, <1>4, <1>6, <1>7, <1>11, <1>12 DEF Clean
<1>14. Freshest(m, k)
  BY <1>n, <1>i, <1>2, <1>7 DEF Freshest
<1> QED
  BY Zenon, <1>2, <1>13, <1>14

(* LruState::insert keeps the budget and leaves the key resident. *)
LEMMA InsertFrame ==
    ASSUME StoreAssumption, Counting, NEW l, NEW k \in Key, Clean(l)
    PROVE  Clean(Insert(l, k, k)) /\ Freshest(Insert(l, k, k), k)
<1>1. CASE Resident(l, k)
  BY Zenon, <1>1, TouchFrame DEF Insert
<1>2. CASE ~Resident(l, k)
  <2> DEFINE n == Len(l)
             room == {x \in 0..n : x = n \/ Bytes(SubSeq(l, x + 1, n)) + Size[k] <= MaxBytes}
             v == Evicted(l, k)
             r == SubSeq(l, v + 1, n)
             e == [key |-> k, bytes |-> k]
             m == Append(r, e)
  <2>0. l \in Seq(LruEntry)
    BY Zenon DEF Clean
  <2>1. n \in Nat /\ DOMAIN l = 1..n
    BY <2>0
  <2>2. v = Min(room) /\ Insert(l, k, k) = m
    BY Zenon, <1>2 DEF Evicted, Insert
  <2>3. room \subseteq Nat /\ n \in room
    BY <2>1
  <2>4. v \in room
    <3> HIDE DEF room
    <3> QED
      BY Zenon, <2>2, <2>3, MinIs
  <2>5. v = n \/ Bytes(r) + Size[k] <= MaxBytes
    BY Zenon, <2>4
  <2>u. v \in 0..n
    BY Zenon, <2>4
  <2> HIDE DEF v, room
  <2>v. v \in Nat /\ v <= n
    <3> HIDE DEF n
    <3> QED
      BY <2>1, <2>u
  <2>6. r \in Seq(LruEntry) /\ Len(r) = n - v /\ \A j \in 1..(n - v) : r[j] = l[j + v]
    <3>1. v + 1 \in Nat /\ v + 1 <= n + 1 /\ 1 <= v + 1 /\ (n - (v + 1)) + 1 = n - v
      BY <2>v, <2>1
    <3>2. r \in Seq(LruEntry) /\ Len(r) = (n - (v + 1)) + 1
          /\ \A j \in 1..((n - (v + 1)) + 1) : r[j] = l[((v + 1) + j) - 1]
      BY <3>1, <2>0
    <3>3. \A j \in Nat : ((v + 1) + j) - 1 = j + v
      BY <2>v
    <3> HIDE DEF r, n
    <3>4. \A j \in 1..(n - v) : j \in Nat
      BY <2>1, <2>v
    <3> QED
      BY Zenon, <3>1, <3>2, <3>3, <3>4
  <2>7. e \in LruEntry /\ e.key = k /\ e.bytes = k
    BY Zenon DEF LruEntry
  <2>w. n - v \in Nat /\ ((n - v) + 1) - 1 = n - v /\ n = (n - v) + v
    BY <2>1, <2>v
  <2> DEFINE d == n - v
  <2>d. d \in Nat /\ n = d + v /\ r \in Seq(LruEntry) /\ Len(r) = d /\ \A j \in 1..d : r[j] = l[j + v]
    BY Zenon, <2>w, <2>6
  <2>e. v = n => d = 0
    BY <2>1, <2>v
  <2> HIDE DEF r, e, n, d
  <2>8. Bytes(m) = Bytes(r) + Size[k]
    BY Zenon, <2>d, <2>7, BytesAppend
  <2>9. m \in Seq(LruEntry) /\ Len(m) = d + 1 /\ m[d + 1] = e
        /\ \A j \in 1..d : m[j] = r[j]
    BY <2>d, <2>7
  <2> HIDE DEF m
  <2>10. DOMAIN m = 1..(d + 1)
    BY <2>9
  <2>11. \A j \in 1..d : j + v \in 1..n /\ m[j] = l[j + v] /\ m[j].key # k
    <3> TAKE j \in 1..d
    <3>1. j + v \in 1..n
      BY <2>d, <2>v
    <3>2. m[j] = l[j + v]
      BY Zenon, <2>d, <2>9
    <3> QED
      BY Zenon, <3>1, <3>2, <1>2, <2>1 DEF Resident
  <2>12. ASSUME NEW j \in 1..(d + 1), NEW h \in 1..(d + 1), m[j].key = m[h].key
         PROVE  j = h
    <3>1. CASE j = d + 1 /\ h # d + 1
      <4>1. h \in 1..d
        BY <3>1, <2>d
      <4> QED
        BY Zenon, <3>1, <4>1, <2>7, <2>9, <2>11, <2>12
    <3>2. CASE h = d + 1 /\ j # d + 1
      <4>1. j \in 1..d
        BY <3>2, <2>d
      <4> QED
        BY Zenon, <3>2, <4>1, <2>7, <2>9, <2>11, <2>12
    <3>3. CASE j # d + 1 /\ h # d + 1
      <4>1. j \in 1..d /\ h \in 1..d
        BY <3>3, <2>d
      <4>2. j + v = h + v
        BY <4>1, <2>1, <2>11, <2>12 DEF Clean, Distinct
      <4> QED
        BY <4>1, <4>2, <2>d, <2>v
    <3> QED
      BY Zenon, <3>1, <3>2, <3>3
  <2>13. Distinct(m)
    BY Zenon, <2>10, <2>12 DEF Distinct
  <2>14. ASSUME NEW j \in DOMAIN m PROVE m[j].bytes = m[j].key
    <3>1. CASE j = d + 1
      BY Zenon, <3>1, <2>7, <2>9
    <3>2. CASE j # d + 1
      <4>1. j \in 1..d
        BY <3>2, <2>10, <2>d
      <4> QED
        BY Zenon, <4>1, <2>1, <2>11 DEF Clean
    <3> QED
      BY Zenon, <3>1, <3>2
  <2>15. Bytes(m) <= MaxBytes \/ Len(m) = 1
    BY <2>d, <2>e, <2>5, <2>8, <2>9
  <2>16. Clean(m)
    BY Zenon, <2>9, <2>13, <2>14, <2>15 DEF Clean
  <2>17. Freshest(m, k)
    BY <2>d, <2>7, <2>9 DEF Freshest
  <2> QED
    BY Zenon, <2>2, <2>16, <2>17
<1> QED
  BY Zenon, <1>1, <1>2

(* Filing the slices of a request one after another. *)
LEMMA FilingFrame ==
    ASSUME StoreAssumption, Counting, NEW l, Clean(l), NEW ks \in Seq(Key), NEW slices,
           \A i \in 1..Len(ks) : slices[i] = ks[i]
    PROVE  /\ \A i \in 0..Len(ks) : Clean(Filing(l, ks, slices)[i])
           /\ \A i \in 1..Len(ks) : Freshest(Filing(l, ks, slices)[i], ks[i])
<1> DEFINE n == Len(ks)
           put(x, i) == Insert(x, ks[i], slices[i])
           D == {x \in Seq(LruEntry) : Clean(x)}
           Eqn(f) == f = [i \in 0..n |-> IF i = 0 THEN l ELSE put(f[i - 1], i)]
           c == CHOOSE f : Eqn(f)
           G == [x \in D \X (1..n) |-> put(x[1], x[2])]
<1>1. n \in Nat /\ Filing(l, ks, slices) = c
  BY DEF Filing
<1>2. ASSUME NEW x \in D, NEW i \in 1..n PROVE put(x, i) \in D /\ Freshest(put(x, i), ks[i])
  <2>1. slices[i] = ks[i] /\ ks[i] \in Key /\ Clean(x)
    OBVIOUS
  <2>2. Clean(put(x, i)) /\ Freshest(put(x, i), ks[i])
    BY Zenon, <2>1, InsertFrame
  <2> QED
    BY Zenon, <2>2 DEF Clean
<1>0. l \in D
  BY Zenon DEF Clean
<1> HIDE DEF n, put, D
<1>3. Stepping(D, n, G)
  BY Zenon, <1>2 DEF Stepping
<1>4. PICK f : Recurs(f, D, n, l, G)
  <2> HIDE DEF G
  <2> QED
    BY Zenon, <1>0, <1>1, <1>3, Recursion
<1>5. f \in [0..n -> D] /\ f[0] = l /\ \A i \in 1..n : f[i] = put(f[i - 1], i)
  <2>1. f \in [0..n -> D] /\ f[0] = l /\ \A i \in 1..n : f[i] = G[<<f[i - 1], i>>]
    BY Zenon, <1>4 DEF Recurs
  <2>2. \A i \in 1..n : i - 1 \in 0..n
    BY <1>1
  <2> QED
    BY Zenon, <2>1, <2>2
<1> HIDE DEF G
<1>6. ASSUME NEW i \in 0..n PROVE f[i] = IF i = 0 THEN l ELSE put(f[i - 1], i)
  <2>1. CASE i = 0
    BY Zenon, <2>1, <1>5
  <2>2. CASE i # 0
    BY <2>2, <1>5, <1>1
  <2> QED
    BY Zenon, <2>1, <2>2
<1>7. Eqn(f)
  BY Zenon, <1>5, <1>6
<1>8. Eqn(c)
  BY Zenon, <1>7
<1> HIDE DEF c
<1>9. c[0] = l /\ \A i \in 1..n : c[i] = put(c[i - 1], i)
  BY <1>8, <1>1
<1>10. \A i \in 0..n : c[i] \in D
  <2> DEFINE S == {i \in 0..n : c[i] \in D}
  <2>1. 0 \in S
    BY <1>9, <1>0, <1>1
  <2>2. \A i \in 1..n : i - 1 \in S => i \in S
    BY <1>9, <1>2, <1>1
  <2> HIDE DEF S
  <2>3. 0..n \subseteq S
    BY Zenon, <2>1, <2>2, <1>1, UpTo
  <2> QED
    BY Zenon, <2>3 DEF S
<1>11. \A i \in 1..n : Freshest(c[i], ks[i])
  <2> TAKE i \in 1..n
  <2>1. i - 1 \in 0..n
    BY <1>1
  <2>2. c[i - 1] \in D
    BY Zenon, <2>1, <1>10
  <2>3. Freshest(put(c[i - 1], i), ks[i])
    BY Zenon, <2>2, <1>2
  <2> QED
    BY Zenon, <2>3, <1>9
<1> QED
  BY Zenon, <1>1, <1>10, <1>11 DEF D, n

-----------------------------------------------------------------------------
(* The queues.                                                             *)

(* retain: what is left is exactly what another owner queued. *)
LEMMA RetainedFrame ==
    ASSUME Counting, NEW q \in Seq(QueueEntry), NEW id
    PROVE  /\ Retained(q, id) \in Seq(QueueEntry)
           /\ Range(Retained(q, id)) = {e \in Range(q) : e.owner # id}
           /\ Distinct(q) => Distinct(Retained(q, id))
<1> DEFINE n == Len(q)
           next(x, i) == IF q[i].owner = id THEN x ELSE Append(x, q[i])
           D == Seq(QueueEntry)
           Eqn(f) == f = [i \in 0..n |-> IF i = 0 THEN <<>> ELSE IF q[i].owner = id THEN f[i - 1]
                                         ELSE Append(f[i - 1], q[i])]
           c == CHOOSE f : Eqn(f)
           G == [x \in D \X (1..n) |-> next(x[1], x[2])]
<1>1. n \in Nat /\ Retained(q, id) = c[n] /\ DOMAIN q = 1..n
  BY DEF Retained
<1>2. ASSUME NEW x \in D, NEW i \in 1..n PROVE next(x, i) \in D
  OBVIOUS
<1>0. <<>> \in D
  OBVIOUS
<1>q. \A i \in 1..n : q[i] \in QueueEntry
  OBVIOUS
<1> HIDE DEF n, next, D
<1>3. Stepping(D, n, G)
  BY Zenon, <1>2 DEF Stepping
<1>4. PICK f : Recurs(f, D, n, <<>>, G)
  <2> HIDE DEF G
  <2> DEFINE empty == <<>>
  <2>1. empty \in D
    BY Zenon, <1>0
  <2> HIDE DEF empty
  <2>2. \E f : Recurs(f, D, n, empty, G)
    BY Zenon, <2>1, <1>1, <1>3, Recursion
  <2> QED
    BY Zenon, <2>2 DEF empty
<1>5. f \in [0..n -> D] /\ f[0] = <<>> /\ \A i \in 1..n : f[i] = next(f[i - 1], i)
  <2>1. f \in [0..n -> D] /\ f[0] = <<>> /\ \A i \in 1..n : f[i] = G[<<f[i - 1], i>>]
    BY Zenon, <1>4 DEF Recurs
  <2>2. \A i \in 1..n : i - 1 \in 0..n
    BY <1>1
  <2> QED
    BY Zenon, <2>1, <2>2
<1> HIDE DEF G
<1>6. ASSUME NEW i \in 0..n PROVE f[i] = IF i = 0 THEN <<>> ELSE next(f[i - 1], i)
  <2>1. CASE i = 0
    BY Zenon, <2>1, <1>5
  <2>2. CASE i # 0
    BY <2>2, <1>5, <1>1
  <2> QED
    BY Zenon, <2>1, <2>2
<1>7. Eqn(f)
  <2>1. f = [i \in 0..n |-> IF i = 0 THEN <<>> ELSE next(f[i - 1], i)]
    BY Zenon, <1>5, <1>6
  <2> QED
    BY Zenon, <2>1 DEF next
<1>8. Eqn(c)
  BY Zenon, <1>7
<1> HIDE DEF c
<1>9. c[0] = <<>> /\ \A i \in 1..n : c[i] = next(c[i - 1], i)
  <2>1. c = [i \in 0..n |-> IF i = 0 THEN <<>> ELSE next(c[i - 1], i)]
    BY Zenon, <1>8 DEF next
  <2> QED
    BY <2>1, <1>1
<1> DEFINE Right(x, i) ==
             /\ x \in D
             /\ \A e : e \in Range(x) <=> \E j \in 1..i : q[j] = e /\ e.owner # id
             /\ Distinct(q) => Distinct(x)
           S == {i \in 0..n : Right(c[i], i)}
<1>10. 0 \in S
  <2>1. Range(<<>>) = {} /\ Distinct(<<>>) /\ 1..0 = {}
    BY DEF Range, Distinct
  <2> QED
    BY <2>1, <1>9, <1>0, <1>1
<1>11. ASSUME NEW i \in 1..n, i - 1 \in S PROVE i \in S
  <2> DEFINE x == c[i - 1]
  <2>1. x \in D /\ x \in Seq(QueueEntry) /\ i \in 0..n /\ i \in Nat
    BY <1>11, <1>1 DEF D
  <2>2. \A e : e \in Range(x) <=> \E j \in 1..(i - 1) : q[j] = e /\ e.owner # id
    BY Zenon, <1>11
  <2>3. Distinct(q) => Distinct(x)
    BY Zenon, <1>11
  <2>4. c[i] = next(x, i)
    BY Zenon, <1>9
  <2> HIDE DEF x
  <2>5. CASE q[i].owner = id
    <3>1. c[i] = x
      BY Zenon, <2>4, <2>5 DEF next
    <3>2. \A e : (\E j \in 1..(i - 1) : q[j] = e /\ e.owner # id)
                   <=> \E j \in 1..i : q[j] = e /\ e.owner # id
      BY <2>1, <2>5
    <3> QED
      BY Zenon, <3>1, <3>2, <2>1, <2>2, <2>3
  <2>6. CASE q[i].owner # id
    <3> DEFINE m == Append(x, q[i])
    <3>1. c[i] = m
      BY Zenon, <2>4, <2>6 DEF next
    <3>2. m \in Seq(QueueEntry) /\ Len(m) = Len(x) + 1 /\ m[Len(x) + 1] = q[i] /\ Len(x) \in Nat
          /\ \A j \in 1..Len(x) : m[j] = x[j]
      BY <2>1, <1>q
    <3> HIDE DEF m
    <3>3. DOMAIN m = 1..(Len(x) + 1) /\ DOMAIN x = 1..Len(x)
      BY <3>2, <2>1
    <3>4. \A e : e \in Range(m) <=> e \in Range(x) \/ e = q[i]
      BY <3>2, <3>3 DEF Range
    <3>5. \A e : e \in Range(m) <=> \E j \in 1..i : q[j] = e /\ e.owner # id
      <4>1. \A j \in 1..i : j \in 1..(i - 1) \/ j = i
        BY <2>1
      <4>2. i \in 1..i /\ \A j \in 1..(i - 1) : j \in 1..i
        BY <2>1
      <4> QED
        BY Zenon, <3>4, <2>2, <2>6, <4>1, <4>2
    <3>6. ASSUME Distinct(q) PROVE Distinct(m)
      <4>1. ASSUME NEW h \in 1..Len(x), x[h].key = q[i].key PROVE FALSE
        <5>1. x[h] \in Range(x)
          BY Zenon, <3>3 DEF Range
        <5>2. PICK j \in 1..(i - 1) : q[j] = x[h]
          BY Zenon, <5>1, <2>2
        <5>3. j \in 1..n /\ i \in 1..n /\ j # i
          BY <1>1, <2>1
        <5> QED
          BY Zenon, <5>2, <5>3, <4>1, <3>6, <1>1 DEF Distinct
      <4>2. \A g, h \in 1..Len(x) : x[g].key = x[h].key => g = h
        BY Zenon, <3>6, <2>3, <3>3 DEF Distinct
      <4> QED
        BY <3>2, <3>3, <4>1, <4>2 DEF Distinct
    <3> QED
      BY Zenon, <3>1, <3>2, <3>5, <3>6, <2>1 DEF D
  <2> QED
    BY Zenon, <2>5, <2>6
<1> HIDE DEF S
<1>12. n \in S
  <2>1. 0..n \subseteq S
    BY Zenon, <1>10, <1>11, <1>1, UpTo
  <2> QED
    BY <2>1, <1>1
<1>13. Right(c[n], n)
  BY Zenon, <1>12 DEF S
<1>14. \A e : e \in Range(q) <=> \E j \in 1..n : q[j] = e
  BY Zenon, <1>1 DEF Range
<1> QED
  BY Zenon, <1>13, <1>14, <1>1 DEF D

(* The entries of a queue have ranges with two ends. *)
Bounded == {e \in QueueEntry : /\ e.key.range \in Nat \X Nat
                               /\ e.key.range[1] < e.key.range[2]}

InOrder(q) == \A i, j \in 1..Len(q) : i <= j => Start(q, i) <= Start(q, j)

(* A queue in order has a place for every range. *)
LEMMA PlaceExists ==
    ASSUME Counting, NEW q \in Seq(Bounded), InOrder(q), NEW e \in Bounded
    PROVE  /\ PlaceOf(q, e) \in 1..(Len(q) + 1)
           /\ \A j \in 1..Len(q) : j < PlaceOf(q, e) <=> Start(q, j) <= e.key.range[1]
<1> DEFINE n == Len(q)
           x == e.key.range[1]
           y(j) == Start(q, j)
           Fits(i, m) == \A j \in 1..m : j < i <=> y(j) <= x
           S == {m \in Nat : m <= n => \E i \in 1..(m + 1) : Fits(i, m)}
<1>1. /\ n \in Nat /\ x \in Nat /\ DOMAIN q = 1..n
      /\ \A j \in 1..n : y(j) \in Nat
      /\ \A i, j \in 1..n : i <= j => y(i) <= y(j)
  <2>1. \A j \in 1..n : q[j] \in Bounded
    OBVIOUS
  <2> QED
    BY <2>1 DEF Bounded, InOrder, Start
<1> HIDE DEF n, x, y
<1>2. 0 \in S
  BY <1>1
<1>3. ASSUME NEW m \in Nat, m \in S PROVE m + 1 \in S
  <2> SUFFICES ASSUME m + 1 <= n PROVE \E i \in 1..(m + 2) : Fits(i, m + 1)
    <3>1. (m + 1) + 1 = m + 2
      OBVIOUS
    <3> QED
      BY <3>1
  <2>0. m \in 0..n /\ m + 1 \in 1..n /\ m <= n
    BY <1>1
  <2>1. PICK i \in 1..(m + 1) : Fits(i, m)
    BY Zenon, <1>3, <2>0
  <2>2. CASE i = m + 1 /\ y(m + 1) <= x
    <3>1. Fits(m + 2, m + 1)
      <4>1. ASSUME NEW j \in 1..(m + 1) PROVE j < m + 2 /\ y(j) <= x
        BY <2>1, <2>2
      <4> QED
        BY Zenon, <4>1
    <3>2. m + 2 \in 1..(m + 2)
      OBVIOUS
    <3> HIDE DEF Fits
    <3> QED
      BY Zenon, <3>1, <3>2
  <2>5. i \in 1..(m + 2)
    OBVIOUS
  <2>3. CASE i = m + 1 /\ ~(y(m + 1) <= x)
    <3>1. Fits(i, m + 1)
      BY <2>1, <2>3
    <3> HIDE DEF Fits
    <3> QED
      BY Zenon, <3>1, <2>5
  <2>4. CASE i <= m
    <3>1. i \in 1..m /\ i \in 1..n /\ i <= m + 1
      BY <2>0, <2>4, <1>1
    <3>2. ~(y(i) <= x) /\ y(i) <= y(m + 1)
      BY <3>1, <2>0, <2>1, <1>1
    <3>3. ~(y(m + 1) <= x)
      BY <3>1, <3>2, <2>0, <1>1
    <3>4. Fits(i, m + 1)
      BY <2>1, <2>4, <3>3
    <3> HIDE DEF Fits
    <3> QED
      BY Zenon, <3>4, <2>5
  <2> QED
    BY <2>2, <2>3, <2>4
<1>4. n \in S
  <2> HIDE DEF S
  <2> QED
    BY Zenon, <1>1, <1>2, <1>3, Induction
<1>5. \E i \in 1..(n + 1) : Fits(i, n)
  BY <1>1, <1>4
<1>6. PlaceOf(q, e) = CHOOSE i \in 1..(n + 1) : Fits(i, n)
  BY Zenon, <1>1 DEF PlaceOf, n, x, y
<1>7. PlaceOf(q, e) \in 1..(n + 1) /\ Fits(PlaceOf(q, e), n)
  BY Zenon, <1>5, <1>6
<1> QED
  BY Zenon, <1>7 DEF n, x, y

(* One step of the insertion. *)
LEMMA PlacedFrame ==
    ASSUME Counting, NEW q \in Seq(Bounded), InOrder(q), NEW e \in Bounded
    PROVE  LET all == InsertedAt(q, PlaceOf(q, e), e) IN
           /\ all \in Seq(Bounded)
           /\ InOrder(all)
           /\ \A x : x \in Range(all) <=> x \in Range(q) \/ x = e
           /\ Distinct(q) /\ (\A x \in Range(q) : x.key # e.key) => Distinct(all)
<1> DEFINE m == Len(q)
           p == PlaceOf(q, e)
           all == InsertedAt(q, p, e)
<1>1. m \in Nat /\ DOMAIN q = 1..m
  OBVIOUS
<1>2. p \in 1..(m + 1) /\ \A j \in 1..m : j < p <=> Start(q, j) <= e.key.range[1]
  BY Zenon, PlaceExists
<1>3. e.key.range[1] \in Nat /\ \A j \in 1..m : Start(q, j) \in Nat
  <2>1. \A j \in 1..m : q[j] \in Bounded
    OBVIOUS
  <2> QED
    BY Zenon, <2>1 DEF Bounded, Start
<1> HIDE DEF p
<1>4. /\ all \in Seq(Bounded) /\ Len(all) = m + 1
      /\ \A i \in 1..(m + 1) : all[i] = IF i < p THEN q[i]
                                       ELSE IF i = p THEN e ELSE q[i - 1]
  <2> DEFINE low == SubSeq(q, 1, p - 1)
             high == SubSeq(q, p, m)
  <2>1. /\ low \in Seq(Bounded) /\ Len(low) = p - 1 /\ \A i \in 1..(p - 1) : low[i] = q[i]
    BY <1>1, <1>2
  <2>2. /\ high \in Seq(Bounded) /\ Len(high) = m + 1 - p
        /\ \A i \in 1..(m + 1 - p) : high[i] = q[p + i - 1]
    BY <1>1, <1>2
  <2>3. all = (low \o <<e>>) \o high
    BY Zenon DEF InsertedAt
  <2> HIDE DEF low, high, all, m
  <2>4. /\ low \o <<e>> \in Seq(Bounded) /\ Len(low \o <<e>>) = p
        /\ \A i \in 1..p : (low \o <<e>>)[i] = IF i < p THEN low[i] ELSE e
    BY <2>1, <1>1, <1>2
  <2> DEFINE lower == low \o <<e>>
  <2>5. /\ lower \in Seq(Bounded) /\ Len(lower) = p
        /\ \A i \in 1..p : lower[i] = IF i < p THEN low[i] ELSE e
        /\ all = lower \o high
    BY Zenon, <2>3, <2>4
  <2> HIDE DEF lower
  <2>6. all \in Seq(Bounded) /\ Len(all) = m + 1
    <3>1. lower \o high \in Seq(Bounded) /\ Len(lower \o high) = Len(lower) + Len(high)
      <4>1. lower \in Seq(Bounded) /\ high \in Seq(Bounded)
        BY Zenon, <2>2, <2>5
      <4> QED
        BY <4>1
    <3>2. p + (m + 1 - p) = m + 1
      BY <1>1, <1>2
    <3> QED
      BY Zenon, <3>1, <3>2, <2>2, <2>5
  <2>7. ASSUME NEW i \in 1..(m + 1)
        PROVE  all[i] = IF i < p THEN q[i] ELSE IF i = p THEN e ELSE q[i - 1]
    <3>1. CASE i <= p
      <4>1. i \in 1..p /\ all[i] = lower[i] /\ (i < p => i \in 1..(p - 1))
        BY <3>1, <2>2, <2>5, <1>1, <1>2
      <4>2. lower[i] = IF i < p THEN low[i] ELSE e
        BY Zenon, <4>1, <2>5
      <4>3. i < p => low[i] = q[i]
        BY Zenon, <4>1, <2>1
      <4>4. ~(i < p) => i = p
        BY <3>1, <1>1, <1>2
      <4> QED
        BY Zenon, <4>1, <4>2, <4>3, <4>4
    <3>2. CASE i > p
      <4>1. /\ i - p \in 1..(m + 1 - p) /\ all[i] = high[i - p] /\ p + (i - p) - 1 = i - 1
            /\ ~(i < p) /\ i # p
        BY <3>2, <2>2, <2>5, <1>1, <1>2
      <4> QED
        BY Zenon, <4>1, <2>2
    <3> QED
      BY <3>1, <3>2, <1>1, <1>2
  <2> QED
    BY Zenon, <2>6, <2>7
<1> HIDE DEF all, m
<1>5. DOMAIN all = 1..(m + 1)
  BY <1>4, <1>1
<1>6. p \in Nat /\ 1 <= p /\ p <= m + 1
  BY <1>1, <1>2
<1>7. ASSUME NEW x \in 1..(m + 1), NEW y \in 1..(m + 1), x <= y PROVE Start(all, x) <= Start(all, y)
  <2>1. \A i, j \in 1..m : i <= j => Start(q, i) <= Start(q, j)
    BY Zenon DEF InOrder, m
  <2>2. CASE x < p /\ y < p
    <3>1. x \in 1..m /\ y \in 1..m
      BY <2>2, <1>1, <1>6
    <3> QED
      BY Zenon, <3>1, <2>1, <2>2, <1>4, <1>7 DEF Start
  <2>3. CASE x < p /\ y = p
    <3>1. x \in 1..m
      BY <2>3, <1>1, <1>6
    <3>2. all[x] = q[x] /\ all[y] = e
      BY <2>3, <1>4, <1>6
    <3>3. Start(q, x) <= e.key.range[1]
      BY Zenon, <3>1, <2>3, <1>2
    <3> QED
      BY Zenon, <3>2, <3>3 DEF Start
  <2>4. CASE x < p /\ y > p
    <3>1. x \in 1..m /\ y - 1 \in 1..m /\ x <= y - 1 /\ ~(y < p) /\ y # p
      BY <2>4, <1>1, <1>6
    <3> QED
      BY Zenon, <3>1, <2>1, <2>4, <1>4 DEF Start
  <2>5. CASE x = p /\ y = p
    BY <2>5, <1>3, <1>4, <1>1, <1>6 DEF Start
  <2>6. CASE x = p /\ y > p
    <3>1. y - 1 \in 1..m /\ ~(y - 1 < p) /\ ~(y < p) /\ y # p /\ ~(x < p)
      BY <2>6, <1>1, <1>6
    <3>2. all[x] = e /\ all[y] = q[y - 1]
      BY Zenon, <3>1, <2>6, <1>4
    <3>3. ~(Start(q, y - 1) <= e.key.range[1]) /\ Start(q, y - 1) \in Nat
      BY Zenon, <3>1, <1>2, <1>3
    <3>4. e.key.range[1] <= Start(q, y - 1)
      BY <3>3, <1>3
    <3> QED
      BY Zenon, <3>2, <3>4 DEF Start
  <2>7. CASE x > p /\ y > p
    <3>1. /\ x - 1 \in 1..m /\ y - 1 \in 1..m /\ x - 1 <= y - 1
          /\ ~(x < p) /\ x # p /\ ~(y < p) /\ y # p
      BY <2>7, <1>1, <1>6, <1>7
    <3>2. all[x] = q[x - 1] /\ all[y] = q[y - 1]
      BY Zenon, <3>1, <1>4
    <3> QED
      BY Zenon, <3>1, <3>2, <2>1 DEF Start
  <2> QED
    BY <2>2, <2>3, <2>4, <2>5, <2>6, <2>7, <1>1, <1>6, <1>7
<1>8. InOrder(all)
  BY Zenon, <1>4, <1>7 DEF InOrder
<1> DEFINE back(i) == IF i < p THEN i ELSE i - 1
<1>9. ASSUME NEW i \in 1..(m + 1), i # p PROVE back(i) \in 1..m /\ all[i] = q[back(i)]
  <2>1. CASE i < p
    BY <2>1, <1>1, <1>4, <1>6
  <2>2. CASE ~(i < p)
    <3>1. i - 1 \in 1..m
      BY <2>2, <1>9, <1>1, <1>6
    <3> QED
      BY Zenon, <3>1, <2>2, <1>4, <1>9
  <2> QED
    BY Zenon, <2>1, <2>2
<1>10. ASSUME NEW j \in 1..m PROVE \E i \in 1..(m + 1) : all[i] = q[j]
  <2>1. CASE j < p
    <3>1. j \in 1..(m + 1)
      BY <1>1
    <3> QED
      BY Zenon, <2>1, <3>1, <1>4
  <2>2. CASE ~(j < p)
    <3>1. j + 1 \in 1..(m + 1) /\ ~(j + 1 < p) /\ j + 1 # p /\ (j + 1) - 1 = j
      BY <2>2, <1>1, <1>6
    <3> QED
      BY Zenon, <3>1, <1>4
  <2> QED
    BY Zenon, <2>1, <2>2
<1>11. all[p] = e /\ p \in 1..(m + 1)
  BY <1>2, <1>4, <1>6
<1>12. \A x : x \in Range(all) <=> x \in Range(q) \/ x = e
  <2> TAKE x
  <2>1. x \in Range(all) => x \in Range(q) \/ x = e
    <3> SUFFICES ASSUME NEW i \in 1..(m + 1), x = all[i] PROVE x \in Range(q) \/ x = e
      BY Zenon, <1>5 DEF Range
    <3> HIDE DEF back
    <3> QED
      BY Zenon, <1>1, <1>9, <1>11 DEF Range
  <2>2. x \in Range(q) => x \in Range(all)
    BY Zenon, <1>1, <1>5, <1>10 DEF Range
  <2>3. x = e => x \in Range(all)
    BY Zenon, <1>5, <1>11 DEF Range
  <2> QED
    BY Zenon, <2>1, <2>2, <2>3
<1>13. ASSUME Distinct(q), \A x \in Range(q) : x.key # e.key PROVE Distinct(all)
  <2> SUFFICES ASSUME NEW i \in 1..(m + 1), NEW j \in 1..(m + 1), all[i].key = all[j].key
               PROVE  i = j
    BY Zenon, <1>5 DEF Distinct
  <2>1. \A h \in 1..m : q[h].key # e.key
    BY Zenon, <1>1, <1>13 DEF Range
  <2>2. CASE i = p \/ j = p
    <3> HIDE DEF back
    <3> QED
      BY Zenon, <2>1, <2>2, <1>9, <1>11
  <2>3. CASE i # p /\ j # p
    <3>1. back(i) = back(j)
      <4> HIDE DEF back
      <4> QED
        BY <2>3, <1>1, <1>9, <1>13 DEF Distinct
    <3> QED
      BY <3>1, <2>3, <1>1, <1>6
  <2> QED
    BY Zenon, <2>2, <2>3
<1> QED
  BY Zenon, <1>4, <1>8, <1>12, <1>13 DEF all, p

(* sort_by_key: the same entries, in the order of their first byte. *)
LEMMA SortedFrame ==
    ASSUME Counting, NEW q \in Seq(Bounded)
    PROVE  /\ Sorted(q) \in Seq(Bounded)
           /\ InOrder(Sorted(q))
           /\ \A x : x \in Range(Sorted(q)) <=> x \in Range(q)
           /\ Distinct(q) => Distinct(Sorted(q))
<1> DEFINE n == Len(q)
           next(x, i) == InsertedAt(x, PlaceOf(x, q[i]), q[i])
           D == {x \in Seq(Bounded) : InOrder(x)}
           Eqn(f) == f = [i \in 0..n |-> IF i = 0 THEN <<>>
                                         ELSE InsertedAt(f[i - 1], PlaceOf(f[i - 1], q[i]), q[i])]
           c == CHOOSE f : Eqn(f)
           G == [x \in D \X (1..n) |-> next(x[1], x[2])]
<1>1. n \in Nat /\ Sorted(q) = c[n] /\ DOMAIN q = 1..n
  BY DEF Sorted
<1>q. \A i \in 1..n : q[i] \in Bounded
  OBVIOUS
<1>2. ASSUME NEW x \in D, NEW i \in 1..n
      PROVE  /\ next(x, i) \in D
             /\ \A e : e \in Range(next(x, i)) <=> e \in Range(x) \/ e = q[i]
             /\ Distinct(x) /\ (\A e \in Range(x) : e.key # q[i].key) => Distinct(next(x, i))
  <2>1. x \in Seq(Bounded) /\ InOrder(x) /\ q[i] \in Bounded
    BY Zenon, <1>q
  <2> HIDE DEF n
  <2> QED
    BY Zenon, <2>1, PlacedFrame
<1>0. <<>> \in D
  BY DEF InOrder
<1> HIDE DEF n, next, D
<1>3. Stepping(D, n, G)
  BY Zenon, <1>2 DEF Stepping
<1>4. PICK f : Recurs(f, D, n, <<>>, G)
  <2> HIDE DEF G
  <2> DEFINE empty == <<>>
  <2>1. empty \in D
    BY Zenon, <1>0
  <2> HIDE DEF empty
  <2>2. \E f : Recurs(f, D, n, empty, G)
    BY Zenon, <2>1, <1>1, <1>3, Recursion
  <2> QED
    BY Zenon, <2>2 DEF empty
<1>5. f \in [0..n -> D] /\ f[0] = <<>> /\ \A i \in 1..n : f[i] = next(f[i - 1], i)
  <2>1. f \in [0..n -> D] /\ f[0] = <<>> /\ \A i \in 1..n : f[i] = G[<<f[i - 1], i>>]
    BY Zenon, <1>4 DEF Recurs
  <2>2. \A i \in 1..n : i - 1 \in 0..n
    BY <1>1
  <2> QED
    BY Zenon, <2>1, <2>2
<1> HIDE DEF G
<1>6. ASSUME NEW i \in 0..n PROVE f[i] = IF i = 0 THEN <<>> ELSE next(f[i - 1], i)
  <2>1. CASE i = 0
    BY Zenon, <2>1, <1>5
  <2>2. CASE i # 0
    BY <2>2, <1>5, <1>1
  <2> QED
    BY Zenon, <2>1, <2>2
<1>7. Eqn(f)
  <2>1. f = [i \in 0..n |-> IF i = 0 THEN <<>> ELSE next(f[i - 1], i)]
    BY Zenon, <1>5, <1>6
  <2> QED
    BY Zenon, <2>1 DEF next
<1>8. Eqn(c)
  BY Zenon, <1>7
<1> HIDE DEF c
<1>9. c[0] = <<>> /\ \A i \in 1..n : c[i] = next(c[i - 1], i)
  <2>1. c = [i \in 0..n |-> IF i = 0 THEN <<>> ELSE next(c[i - 1], i)]
    BY Zenon, <1>8 DEF next
  <2> QED
    BY <2>1, <1>1
<1> DEFINE Right(x, i) ==
             /\ x \in D
             /\ \A e : e \in Range(x) <=> \E j \in 1..i : q[j] = e
             /\ Distinct(q) => Distinct(x)
           S == {i \in 0..n : Right(c[i], i)}
<1>10. 0 \in S
  <2>1. Range(<<>>) = {} /\ Distinct(<<>>) /\ 1..0 = {}
    BY DEF Range, Distinct
  <2> QED
    BY <2>1, <1>9, <1>0, <1>1
<1>11. ASSUME NEW i \in 1..n, i - 1 \in S PROVE i \in S
  <2> DEFINE x == c[i - 1]
  <2>1. x \in D /\ i \in 0..n /\ i \in Nat
    BY <1>11, <1>1
  <2>2. \A e : e \in Range(x) <=> \E j \in 1..(i - 1) : q[j] = e
    BY Zenon, <1>11
  <2>3. Distinct(q) => Distinct(x)
    BY Zenon, <1>11
  <2>4. c[i] = next(x, i)
    BY Zenon, <1>9
  <2> HIDE DEF x
  <2> DEFINE m == next(x, i)
  <2>5. m \in D /\ \A e : e \in Range(m) <=> e \in Range(x) \/ e = q[i]
    BY Zenon, <2>1, <1>2
  <2>5b. Distinct(x) /\ (\A e \in Range(x) : e.key # q[i].key) => Distinct(m)
    BY Zenon, <2>1, <1>2
  <2> HIDE DEF m
  <2>6. \A e : e \in Range(m) <=> \E j \in 1..i : q[j] = e
    <3>1. \A j \in 1..i : j \in 1..(i - 1) \/ j = i
      BY <2>1
    <3>2. i \in 1..i /\ \A j \in 1..(i - 1) : j \in 1..i
      BY <2>1
    <3> QED
      BY Zenon, <2>5, <2>2, <3>1, <3>2
  <2>7. ASSUME Distinct(q) PROVE Distinct(m)
    <3>1. ASSUME NEW e \in Range(x), e.key = q[i].key PROVE FALSE
      <4>1. PICK j \in 1..(i - 1) : q[j] = e
        BY Zenon, <3>1, <2>2
      <4>2. j \in 1..n /\ i \in 1..n /\ j # i
        BY <1>1, <2>1
      <4> QED
        BY Zenon, <4>1, <4>2, <3>1, <2>7, <1>1 DEF Distinct
    <3> QED
      BY Zenon, <3>1, <2>3, <2>5b, <2>7
  <2>8. Right(c[i], i)
    BY Zenon, <2>4, <2>5, <2>6, <2>7 DEF m
  <2> QED
    BY Zenon, <2>8, <2>1
<1> HIDE DEF S
<1>12. n \in S
  <2>1. 0..n \subseteq S
    BY Zenon, <1>10, <1>11, <1>1, UpTo
  <2> QED
    BY <2>1, <1>1
<1>13. Right(c[n], n)
  BY Zenon, <1>12 DEF S
<1>14. \A e : e \in Range(q) <=> \E j \in 1..n : q[j] = e
  BY Zenon, <1>1 DEF Range
<1> QED
  BY Zenon, <1>13, <1>14, <1>1 DEF D

-----------------------------------------------------------------------------
(* The permits.                                                            *)

Outstanding == {"admitted", "requesting", "heading"}
Holding(cs) == {t \in Task : ClassOf[t] \in cs /\ pc[t] \in Outstanding}
Other == {"meta", "optional", "probe"}

LEMMA BalanceIs ==
    PermitsBalance <=> /\ chunkFree + Cardinality(Holding({"chunk"})) = ChunkPermits
                       /\ metaFree + Cardinality(Holding(Other)) = MetaPermits
BY Zenon DEF PermitsBalance, Holding, Other, Outstanding

LEMMA HoldingIs ==
    ASSUME StoreAssumption, Counting, NEW cs
    PROVE  IsFiniteSet(Holding(cs)) /\ Cardinality(Holding(cs)) \in Nat
<1>1. IsFiniteSet(Task) /\ Holding(cs) \subseteq Task
  BY Zenon DEF StoreAssumption, Holding
<1> QED
  BY Zenon, <1>1 DEF Counting

LEMMA PermitsKept ==
    ASSUME Types, PermitsBalance, NEW t \in Task, NEW l, Goto(t, l), UNCHANGED pools,
           pc[t] \in Outstanding <=> l \in Outstanding
    PROVE  PermitsBalance'
<1>1. \A cs : Holding(cs)' = Holding(cs)
  BY Zenon DEF Holding, Goto, Types
<1> QED
  BY Zenon, <1>1, BalanceIs DEF pools, PermitsBalance, Holding, Outstanding

LEMMA PermitTaken ==
    ASSUME StoreAssumption, Counting, Types, PermitsBalance, NEW t \in Task, NEW l, Goto(t, l),
           TakePermit(t), pc[t] \notin Outstanding, l \in Outstanding
    PROVE  PermitsBalance' /\ chunkFree' \in Nat /\ metaFree' \in Nat
<1>1. ASSUME NEW cs, ClassOf[t] \in cs
      PROVE  Cardinality(Holding(cs)') = Cardinality(Holding(cs)) + 1
  <2>1. Holding(cs)' = Holding(cs) \union {t} /\ t \notin Holding(cs)
    BY Zenon, <1>1 DEF Holding, Goto, Types
  <2> QED
    BY Zenon, <2>1, HoldingIs DEF Counting
<1>2. ASSUME NEW cs, ClassOf[t] \notin cs PROVE Holding(cs)' = Holding(cs)
  BY Zenon, <1>2 DEF Holding, Goto, Types
<1>3. ClassOf[t] \in Class
  BY Zenon DEF StoreAssumption
<1>4. /\ chunkFree \in Nat /\ metaFree \in Nat /\ ChunkPermits \in Nat /\ MetaPermits \in Nat
      /\ Cardinality(Holding({"chunk"})) \in Nat /\ Cardinality(Holding(Other)) \in Nat
  BY Zenon, HoldingIs DEF Types, StoreAssumption
<1>5. /\ chunkFree + Cardinality(Holding({"chunk"})) = ChunkPermits
      /\ metaFree + Cardinality(Holding(Other)) = MetaPermits
  BY Zenon, BalanceIs
<1>6. /\ chunkFree' + Cardinality(Holding({"chunk"})') = ChunkPermits
      /\ metaFree' + Cardinality(Holding(Other)') = MetaPermits
      /\ chunkFree' \in Nat /\ metaFree' \in Nat
  <2>1. CASE ClassOf[t] = "chunk"
    <3>1. ClassOf[t] \in {"chunk"} /\ ClassOf[t] \notin Other
      BY Zenon, <2>1 DEF Other
    <3>2. chunkFree > 0 /\ chunkFree' = chunkFree - 1 /\ metaFree' = metaFree
      BY Zenon, <2>1 DEF TakePermit
    <3> QED
      BY <3>1, <3>2, <1>1, <1>2, <1>4, <1>5
  <2>2. CASE ClassOf[t] # "chunk"
    <3>1. ClassOf[t] \notin {"chunk"} /\ ClassOf[t] \in Other
      BY Zenon, <2>2, <1>3 DEF Other, Class
    <3>2. metaFree > 0 /\ metaFree' = metaFree - 1 /\ chunkFree' = chunkFree
      BY Zenon, <2>2 DEF TakePermit
    <3> QED
      BY <3>1, <3>2, <1>1, <1>2, <1>4, <1>5
  <2> QED
    BY Zenon, <2>1, <2>2
<1> QED
  BY Zenon, <1>6 DEF PermitsBalance, Holding, Outstanding, Other

LEMMA PermitReturned ==
    ASSUME StoreAssumption, Counting, Types, PermitsBalance, NEW t \in Task, NEW l, Goto(t, l),
           ReturnPermit(t), pc[t] \in Outstanding, l \notin Outstanding
    PROVE  PermitsBalance' /\ chunkFree' \in Nat /\ metaFree' \in Nat
<1>1. ASSUME NEW cs, ClassOf[t] \in cs
      PROVE  Cardinality(Holding(cs)') + 1 = Cardinality(Holding(cs))
  <2>1. Holding(cs)' = Holding(cs) \ {t} /\ t \in Holding(cs)
    BY Zenon, <1>1 DEF Holding, Goto, Types
  <2>2. Cardinality(Holding(cs)) \in Nat /\ IsFiniteSet(Holding(cs))
    BY Zenon, HoldingIs
  <2>3. Cardinality(Holding(cs) \ {t}) = Cardinality(Holding(cs)) - 1
    BY Zenon, <2>1, <2>2 DEF Counting
  <2> QED
    BY <2>1, <2>2, <2>3
<1>2. ASSUME NEW cs, ClassOf[t] \notin cs PROVE Holding(cs)' = Holding(cs)
  BY Zenon, <1>2 DEF Holding, Goto, Types
<1>3. ClassOf[t] \in Class
  BY Zenon DEF StoreAssumption
<1>4. /\ chunkFree \in Nat /\ metaFree \in Nat /\ ChunkPermits \in Nat /\ MetaPermits \in Nat
      /\ Cardinality(Holding({"chunk"})) \in Nat /\ Cardinality(Holding(Other)) \in Nat
  BY Zenon, HoldingIs DEF Types, StoreAssumption
<1>5. /\ chunkFree + Cardinality(Holding({"chunk"})) = ChunkPermits
      /\ metaFree + Cardinality(Holding(Other)) = MetaPermits
  BY Zenon, BalanceIs
<1>7. \A cs : Cardinality(Holding(cs)') \in Nat
  <2>1. \A cs : IsFiniteSet(Task) /\ Holding(cs)' \subseteq Task
    BY Zenon DEF StoreAssumption, Holding
  <2> QED
    BY Zenon, <2>1 DEF Counting
<1>6. /\ chunkFree' + Cardinality(Holding({"chunk"})') = ChunkPermits
      /\ metaFree' + Cardinality(Holding(Other)') = MetaPermits
      /\ chunkFree' \in Nat /\ metaFree' \in Nat
  <2>1. CASE ClassOf[t] = "chunk"
    <3>1. ClassOf[t] \in {"chunk"} /\ ClassOf[t] \notin Other
      BY Zenon, <2>1 DEF Other
    <3>2. chunkFree' = chunkFree + 1 /\ metaFree' = metaFree
      BY Zenon, <2>1 DEF ReturnPermit
    <3> QED
      BY <3>1, <3>2, <1>1, <1>2, <1>4, <1>5, <1>7
  <2>2. CASE ClassOf[t] # "chunk"
    <3>1. ClassOf[t] \notin {"chunk"} /\ ClassOf[t] \in Other
      BY Zenon, <2>2, <1>3 DEF Other, Class
    <3>2. metaFree' = metaFree + 1 /\ chunkFree' = chunkFree
      BY Zenon, <2>2 DEF ReturnPermit
    <3> QED
      BY <3>1, <3>2, <1>1, <1>2, <1>4, <1>5, <1>7
  <2> QED
    BY Zenon, <2>1, <2>2
<1> QED
  BY Zenon, <1>6 DEF PermitsBalance, Holding, Outstanding, Other

-----------------------------------------------------------------------------
(* Steps that leave the guards, the table, the channels and the queues.    *)

Alike(x, y) ==
    /\ x \in Guarded <=> y \in Guarded
    /\ x \in Listening <=> y \in Listening
    /\ x \in {"queueing", "admitted"} <=> y \in {"queueing", "admitted"}
    /\ y \in {"queueing", "admitted", "leading"} => x \in {"queueing", "admitted", "leading"}
    /\ y \in Claimed => x \in Claimed
    /\ y \in Label

FlightsInv == GuardInv /\ TableInv /\ ChannelInv /\ QueueInv

LEMMA QuietStep ==
    ASSUME Types, FlightsInv, NEW t \in Task, NEW l, Goto(t, l), Alike(pc[t], l),
           UNCHANGED <<flight, queuedAt, group, sub, flights>>, said \subseteq said'
    PROVE  FlightsInv' /\ pc' \in [Task -> Label]
<1>0. /\ flight' = flight /\ queuedAt' = queuedAt /\ group' = group /\ sub' = sub
      /\ reads' = reads /\ queue' = queue /\ chan' = chan
  BY Zenon DEF flights
<1>1. pc' \in [Task -> Label] /\ pc'[t] = l /\ \A u \in Task : u # t => pc'[u] = pc[u]
  BY Zenon DEF Goto, Types, Alike
<1>2. GuardInv'
  <2> SUFFICES ASSUME NEW u \in Task
               PROVE  /\ flight[u] # 0 <=> pc'[u] \in Guarded
                      /\ sub[u] # 0 <=> pc'[u] \in Listening
                      /\ queuedAt[u] <=> pc'[u] \in {"queueing", "admitted"}
                      /\ pc'[u] \in {"queueing", "admitted", "leading"} => group[u] = <<KeyOf[u]>>
                      /\ pc'[u] \in Guarded => /\ KeyOf[u] \in Range(group[u])
                                               /\ \A k \in Range(group[u]) : k.path = KeyOf[u].path
    BY <1>0 DEF GuardInv, FlightsInv, Mergeable
  <2>1. CASE u = t
    BY Zenon, <2>1, <1>1 DEF Alike, FlightsInv, GuardInv
  <2>2. CASE u # t
    BY Zenon, <2>2, <1>1 DEF FlightsInv, GuardInv
  <2> QED
    BY Zenon, <2>1, <2>2
<1>3. TableInv'
  <2>1. ASSUME NEW u \in Task, pc'[u] \in Claimed PROVE pc[u] \in Claimed
    BY Zenon, <2>1, <1>1 DEF Alike
  <2> QED
    BY <2>1, <1>0 DEF TableInv, FlightsInv
<1>4. ChannelInv'
  BY <1>0 DEF ChannelInv, FlightsInv
<1>5. QueueInv'
  BY <1>0 DEF QueueInv, FlightsInv
<1> QED
  BY Zenon, <1>1, <1>2, <1>3, <1>4, <1>5 DEF FlightsInv

LEMMA AnswersKept ==
    ASSUME Types, AnswerInv, NEW t \in Task, NEW l, Goto(t, l),
           l \notin {"fetched", "publishing"}, l = "noting" => KeyOf[t].path \in said',
           \A u \in Task : u # t => group'[u] = group[u] /\ answer'[u] = answer[u],
           said \subseteq said'
    PROVE  AnswerInv'
<1>1. pc'[t] = l /\ \A u \in Task : u # t => pc'[u] = pc[u]
  BY Zenon DEF Goto, Types
<1> SUFFICES ASSUME NEW u \in Task
             PROVE  /\ pc'[u] \in {"fetched", "publishing"} => Answered1(u)' \/ Refused(u)'
                    /\ pc'[u] = "noting" => KeyOf[u].path \in said'
  BY Zenon DEF AnswerInv
<1>2. CASE u = t
  BY Zenon, <1>1, <1>2
<1>3. CASE u # t
  <2>1. pc[u] \in {"fetched", "publishing"} => Answered1(u) \/ Refused(u)
    BY Zenon DEF AnswerInv
  <2>2. Answered1(u) => Answered1(u)'
    BY Zenon, <1>3 DEF Answered1
  <2>3. Refused(u) => Refused(u)'
    BY Zenon, <1>3 DEF Refused
  <2> QED
    BY Zenon, <1>1, <1>3, <2>1, <2>2, <2>3 DEF AnswerInv
<1> QED
  BY Zenon, <1>2, <1>3

(* What a call returns and what the LRU holds. *)
Honest(t, r) ==
    /\ r.tag = "ok" => r.val = KeyOf[t]
    /\ r \in {Absent, Answer(FALSE)} => KeyOf[t].path \in said'

LEMMA ResultsKept ==
    ASSUME Types, ExactBytes, AbsenceIsReal, NEW t \in Task, NEW r,
           result' = result \/ (result' = [result EXCEPT ![t] = r] /\ Honest(t, r)),
           Clean(lru)', absent' \subseteq said', said \subseteq said'
    PROVE  ExactBytes' /\ AbsenceIsReal' /\ DOMAIN result' = Task
<1>1. \A e \in Range(lru') : e.bytes = e.key
  BY Zenon DEF Clean, Range
<1>2. \A u \in Task : Honest(u, result'[u])
  <2> TAKE u \in Task
  <2>1. CASE u = t /\ result' = [result EXCEPT ![t] = r] /\ Honest(t, r)
    BY Zenon, <2>1 DEF Types
  <2>2. CASE result'[u] = result[u]
    BY Zenon, <2>2 DEF Honest, ExactBytes, AbsenceIsReal
  <2> QED
    BY Zenon, <2>1, <2>2 DEF Types
<1>3. DOMAIN result' = Task
  BY Zenon DEF Types
<1> QED
  BY Zenon, <1>1, <1>2, <1>3 DEF ExactBytes, AbsenceIsReal, Honest, Absent, Answer

=============================================================================
