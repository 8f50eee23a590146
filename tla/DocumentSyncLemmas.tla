------------------------- MODULE DocumentSyncLemmas --------------------------
(***************************************************************************)
(* Any number of clients that rename and remove datasets of one session,   *)
(* and any number of openings of one source in it: the documents, queues   *)
(* and bridges stay well formed, NeverRewinds and OpensAgree.              *)
(***************************************************************************)
EXTENDS DocumentSync, FiniteSetTheorems, NaturalsInduction, WellFoundedInduction, TLAPS

(* The leaves that name no prover are the SMT solver's. *)
USE SMTT(60)

(* Induction over the naturals, with the statement as a set: a least       *)
(* element of the complement would follow one of the set.                  *)
LEMMA Induction ==
    ASSUME NEW S, 0 \in S, \A n \in Nat : n \in S => n + 1 \in S
    PROVE  Nat \subseteq S
<1> SUFFICES ASSUME Nat \ S # {} PROVE FALSE
  BY Zenon
<1> DEFINE Less == {p \in Nat \X Nat : p[1] < p[2]}
<1>1. IsWellFoundedOn(Less, Nat)
  BY Zenon, NatLessThanWellFounded DEF OpToRel
<1> HIDE DEF Less
<1>2. PICK x \in Nat \ S : \A y \in Nat \ S : <<y, x>> \notin Less
  BY Zenon, <1>1, WFMin
<1>3. \A y \in Nat \ S : ~(y < x)
  BY Zenon, <1>2 DEF Less
<1>4. x # 0 /\ x \in Nat
  BY Zenon, <1>2
<1>5. x - 1 \in Nat /\ x - 1 < x
  BY <1>4
<1>6. x - 1 \in S
  BY Zenon, <1>3, <1>5
<1> QED
  BY <1>2, <1>5, <1>6

(* The loop of drainPendingSequenced, unfolded. *)
LEMMA DrainingSteps ==
    ASSUME NEW b, Len(b.buf) \in Nat
    PROVE  /\ Draining(b)[0] = [b EXCEPT !.buf = <<>>]
           /\ \A i \in 1..Len(b.buf) : Draining(b)[i] = DrainNext(Draining(b)[i - 1], b.buf[i])
<1> DEFINE first == [b EXCEPT !.buf = <<>>]
           n == Len(b.buf)
           e(i) == b.buf[i]
           Loop(m, f) == f = [i \in 0..m |-> IF i = 0 THEN first ELSE DrainNext(f[i - 1], e(i))]
           S == {m \in Nat : \E f : Loop(m, f)}
<1>1. n \in Nat /\ Draining(b) = CHOOSE f : Loop(n, f)
  BY Zenon DEF Draining
<1> HIDE DEF first, n, e
<1>2. 0 \in S
  <2>1. Loop(0, [i \in 0..0 |-> first])
    OBVIOUS
  <2> QED
    BY Zenon, <2>1
<1>3. ASSUME NEW m \in Nat, m \in S PROVE m + 1 \in S
  <2>1. PICK f : Loop(m, f)
    BY Zenon, <1>3
  <2> DEFINE g == [i \in 0..(m + 1) |-> IF i <= m THEN f[i] ELSE DrainNext(f[m], e(m + 1))]
  <2>2. ASSUME NEW i \in 0..(m + 1)
        PROVE  g[i] = IF i = 0 THEN first ELSE DrainNext(g[i - 1], e(i))
    <3>1. CASE i = 0
      BY <2>1, <3>1
    <3>2. CASE i \in 1..m
      <4>1. i - 1 \in 0..m /\ i - 1 <= m /\ i \in 0..m /\ i # 0 /\ i <= m
        BY <3>2
      <4>2. g[i] = f[i] /\ g[i - 1] = f[i - 1]
        BY <4>1
      <4> HIDE DEF g
      <4>3. f[i] = DrainNext(f[i - 1], e(i))
        BY Zenon, <4>1, <2>1
      <4> QED
        BY Zenon, <4>1, <4>2, <4>3
    <3>3. CASE i = m + 1
      <4>1. m \in 0..(m + 1) /\ i - 1 = m /\ ~(i <= m) /\ i # 0 /\ m <= m
        BY <3>3
      <4>2. g[i] = DrainNext(f[m], e(i)) /\ g[m] = f[m]
        BY Zenon, <4>1, <3>3
      <4> HIDE DEF g
      <4> QED
        BY Zenon, <4>1, <4>2
    <3> QED
      BY <3>1, <3>2, <3>3
  <2>3. DOMAIN g = 0..(m + 1) /\ g = [i \in 0..(m + 1) |-> g[i]]
    BY Zenon
  <2> HIDE DEF g
  <2>4. Loop(m + 1, g)
    BY Zenon, <2>2, <2>3
  <2> QED
    BY <2>4
<1>4. n \in S
  <2> HIDE DEF S
  <2> QED
    BY Zenon, <1>1, <1>2, <1>3, Induction
<1>5. Loop(n, Draining(b))
  BY Zenon, <1>1, <1>4
<1> DEFINE d == Draining(b)
<1> HIDE DEF d
<1>6. /\ d[0] = first
      /\ \A i \in 1..n : d[i] = DrainNext(d[i - 1], e(i))
  <2>1. Loop(n, d)
    BY Zenon, <1>5 DEF d
  <2> QED
    BY <2>1, <1>1
<1> QED
  BY Zenon, <1>6 DEF d, first, n, e

----------------------------------------------------------------------------
(* Types. *)
Given == Name \union {Original}
Label == Given \union {Gone}
Doc == [Dataset -> Label]
Cmd == [op : {"open", "rename"}, ds : Dataset, name : Given] \union [op : {"remove"}, ds : Dataset]
Entry == [seq : Nat, cmd : Cmd \union {Ack}]
Item == [seq : Nat, cmd : Cmd, sender : Client \union {Server}]
Snap == [seq : Nat, doc : Doc]
Handling == {Idle} \union
    [stage : {"persisting"}, seq : Nat, cmd : Cmd, sender : Client \union {Server}]
OpenStage == {Idle, [stage |-> "importing"], [stage |-> "done"]} \union
    [stage : {"persisting", "rebroadcasting"}, seq : Nat, cmd : Cmd]

Fields == {"on", "last", "inFlight", "recent", "grace", "retry", "buf", "mirror", "pending",
           "doc", "since"}
Shaped(b) == b = [f \in Fields |-> b[f]]

(* k differs from b at most in the fields named. *)
Keeps(k, b, but) == Shaped(k) /\ \A f \in Fields \ but : k[f] = b[f]

Bridge(b) ==
    /\ Shaped(b)
    /\ {b.on, b.inFlight, b.recent, b.grace, b.retry} \subseteq BOOLEAN
    /\ b.last \in Nat \union {NoSeq}
    /\ b.buf \in Seq(Entry) /\ b.pending \in Seq(Cmd) /\ b.doc \in Doc

(* A bridge knows of no seq beyond n, and its buffer is in order. *)
Within(b, n) == b.last <= n /\ \A i \in 1..Len(b.buf) : b.buf[i].seq <= n
Sorted(buf) == \A i, j \in 1..Len(buf) : i <= j => buf[i].seq <= buf[j].seq
Beyond(b) == \A i \in 1..Len(b.buf) : b.buf[i].seq > b.last + 1

----------------------------------------------------------------------------
(* The functions of the Bridge: what each may change. *)

LEMMA ApplyTyped == ASSUME NEW dc \in Doc, NEW cmd \in Cmd PROVE Apply(dc, cmd) \in Doc
<1>1. Gone \in Label /\ cmd.ds \in Dataset /\ cmd.op \in {"open", "rename", "remove"}
  BY Zenon DEF Cmd, Label
<1>2. cmd.op \in {"open", "rename"} => cmd.name \in Label
  BY Zenon DEF Cmd, Label
<1> QED
  BY Zenon, <1>1, <1>2 DEF Apply, Doc

LEMMA AckIsNoCommand == Ack \notin Cmd
BY Zenon DEF Ack, Cmd

(* Commands applied one after another, unfolded. *)
Steps(f, dc, cmds) == f[0] = dc /\ \A i \in 1..Len(cmds) : f[i] = Apply(f[i - 1], cmds[i])

(* As for Draining. *)
LEMMA ApplyAllSteps ==
    ASSUME NEW dc, NEW cmds, Len(cmds) \in Nat
    PROVE  \E f : Steps(f, dc, cmds) /\ f[Len(cmds)] = ApplyAll(dc, cmds)
<1> DEFINE n == Len(cmds)
           Loop(m, f) == f = [i \in 0..m |-> IF i = 0 THEN dc ELSE Apply(f[i - 1], cmds[i])]
           S == {m \in Nat : \E f : Loop(m, f)}
           all == CHOOSE f : Loop(n, f)
<1>1. n \in Nat /\ ApplyAll(dc, cmds) = all[n]
  BY DEF ApplyAll
<1> HIDE DEF n
<1>2. 0 \in S
  <2>1. Loop(0, [i \in 0..0 |-> dc])
    OBVIOUS
  <2> QED
    BY Zenon, <2>1
<1>3. ASSUME NEW m \in Nat, m \in S PROVE m + 1 \in S
  <2>1. PICK f : Loop(m, f)
    BY Zenon, <1>3
  <2> DEFINE g == [i \in 0..(m + 1) |-> IF i <= m THEN f[i] ELSE Apply(f[m], cmds[m + 1])]
  <2>2. ASSUME NEW i \in 0..(m + 1)
        PROVE  g[i] = IF i = 0 THEN dc ELSE Apply(g[i - 1], cmds[i])
    <3>1. CASE i = 0
      BY <2>1, <3>1
    <3>2. CASE i \in 1..m
      <4>1. i - 1 \in 0..m /\ i - 1 <= m /\ i \in 0..m /\ i # 0 /\ i <= m
        BY <3>2
      <4>2. g[i] = f[i] /\ g[i - 1] = f[i - 1]
        BY <4>1
      <4> HIDE DEF g
      <4>3. f[i] = Apply(f[i - 1], cmds[i])
        BY Zenon, <4>1, <2>1
      <4> QED
        BY Zenon, <4>1, <4>2, <4>3
    <3>3. CASE i = m + 1
      <4>1. m \in 0..(m + 1) /\ i - 1 = m /\ ~(i <= m) /\ i # 0 /\ m <= m
        BY <3>3
      <4>2. g[i] = Apply(f[m], cmds[i]) /\ g[m] = f[m]
        BY Zenon, <4>1, <3>3
      <4> HIDE DEF g
      <4> QED
        BY Zenon, <4>1, <4>2
    <3> QED
      BY <3>1, <3>2, <3>3
  <2>3. g = [i \in 0..(m + 1) |-> g[i]]
    BY Zenon
  <2> HIDE DEF g
  <2>4. Loop(m + 1, g)
    BY Zenon, <2>2, <2>3
  <2> HIDE DEF Loop
  <2> QED
    BY <2>4
<1>4. n \in S
  <2> HIDE DEF S
  <2> QED
    BY Zenon, <1>1, <1>2, <1>3, Induction
<1>5. Loop(n, all)
  BY Zenon, <1>1, <1>4
<1> HIDE DEF all
<1>6. all[0] = dc /\ \A i \in 1..n : all[i] = Apply(all[i - 1], cmds[i])
  BY <1>1, <1>5
<1> QED
  BY Zenon, <1>1, <1>6 DEF Steps, n

LEMMA ApplyAllTyped ==
    ASSUME NEW dc \in Doc, NEW cmds \in Seq(Cmd)
    PROVE  /\ ApplyAll(dc, cmds) \in Doc
           /\ cmds = <<>> => ApplyAll(dc, cmds) = dc
<1> DEFINE n == Len(cmds)
<1>1. n \in Nat /\ \A i \in 1..n : cmds[i] \in Cmd
  OBVIOUS
<1>2. PICK f : Steps(f, dc, cmds) /\ f[n] = ApplyAll(dc, cmds)
  BY Zenon, <1>1, ApplyAllSteps
<1>3. f[0] = dc /\ \A i \in 1..n : f[i] = Apply(f[i - 1], cmds[i])
  BY Zenon, <1>2 DEF Steps
<1>4. cmds = <<>> => n = 0
  OBVIOUS
<1> HIDE DEF n
<1> DEFINE T == {m \in Nat : m <= n => f[m] \in Doc}
<1>5. 0 \in T
  BY Zenon, <1>3
<1>6. ASSUME NEW m \in Nat, m \in T PROVE m + 1 \in T
  <2> SUFFICES ASSUME m + 1 <= n PROVE f[m + 1] \in Doc
    OBVIOUS
  <2>1. m <= n /\ m + 1 \in 1..n /\ (m + 1) - 1 = m
    BY <1>1
  <2>2. f[m] \in Doc /\ cmds[m + 1] \in Cmd
    BY Zenon, <1>1, <1>6, <2>1
  <2>3. f[m + 1] = Apply(f[m], cmds[m + 1])
    BY Zenon, <1>3, <2>1
  <2> QED
    BY Zenon, <2>2, <2>3, ApplyTyped
<1>7. n \in T
  <2> HIDE DEF T
  <2> QED
    BY Zenon, <1>1, <1>5, <1>6, Induction
<1>8. f[n] \in Doc
  BY <1>1, <1>7
<1> QED
  BY Zenon, <1>2, <1>3, <1>4, <1>8

(* DeliverStale, DeliverNext, ScheduleResync, ClearTimers. *)
LEMMA DeliverFrame ==
    ASSUME NEW b, Bridge(b), NEW e \in Entry
    PROVE  /\ Bridge(DeliverStale(b, e)) /\ Keeps(DeliverStale(b, e), b, {"doc"})
           /\ e.cmd = Ack \/ e.cmd.op # "open" => DeliverStale(b, e) = b
           /\ Bridge(DeliverNext(b, e)) /\ Keeps(DeliverNext(b, e), b, {"last", "doc", "mirror"})
           /\ DeliverNext(b, e).last = e.seq
           /\ DeliverNext(b, e).doc = IF e.cmd = Ack THEN b.doc ELSE Apply(b.doc, e.cmd)
<1>1. e.seq \in Nat /\ e.cmd \in Cmd \union {Ack} /\ Ack.op = "ack"
  BY Zenon DEF Entry, Ack
<1>2. e.cmd # Ack => Apply(b.doc, e.cmd) \in Doc
  BY Zenon, <1>1, ApplyTyped DEF Bridge
<1>3. /\ Keeps(DeliverStale(b, e), b, {"doc"})
      /\ e.cmd = Ack \/ e.cmd.op # "open" => DeliverStale(b, e) = b
      /\ DeliverStale(b, e).doc \in {b.doc, Apply(b.doc, e.cmd)}
      /\ e.cmd = Ack => DeliverStale(b, e).doc = b.doc
  BY Zenon, <1>1 DEF DeliverStale, OnCommand, Keeps, Shaped, Fields, Bridge
<1>4. Bridge(DeliverStale(b, e))
  <2> DEFINE k == DeliverStale(b, e)
  <2>1. Keeps(k, b, {"doc"}) /\ k.doc \in Doc
    BY Zenon, <1>2, <1>3 DEF Bridge
  <2> HIDE DEF k
  <2>2. Bridge(k)
    BY Zenon, <2>1 DEF Bridge, Keeps, Fields
  <2> QED
    BY Zenon, <2>2 DEF k
<1>5. /\ Keeps(DeliverNext(b, e), b, {"last", "doc", "mirror"})
      /\ DeliverNext(b, e).last = e.seq
      /\ DeliverNext(b, e).doc = IF e.cmd = Ack THEN b.doc ELSE Apply(b.doc, e.cmd)
  BY Zenon DEF DeliverNext, OnCommand, Keeps, Shaped, Fields, Bridge
<1>6. Bridge(DeliverNext(b, e))
  <2> DEFINE k == DeliverNext(b, e)
  <2>1. Keeps(k, b, {"last", "doc", "mirror"}) /\ k.doc \in Doc /\ k.last \in Nat
    BY Zenon, <1>1, <1>2, <1>5 DEF Bridge
  <2> HIDE DEF k
  <2>2. Bridge(k)
    BY Zenon, <2>1 DEF Bridge, Keeps, Fields
  <2> QED
    BY Zenon, <2>2 DEF k
<1> QED
  BY Zenon, <1>3, <1>4, <1>5, <1>6

LEMMA TimerFrame ==
    ASSUME NEW b, Bridge(b)
    PROVE  /\ Bridge(ClearTimers(b)) /\ Keeps(ClearTimers(b), b, {"grace", "retry"})
           /\ Bridge(ScheduleResync(b)) /\ Keeps(ScheduleResync(b), b, {"grace"})
           /\ ScheduleResync(b).grace \/ (b.inFlight /\ b.recent)
<1>1. /\ Keeps(ClearTimers(b), b, {"grace", "retry"})
      /\ ClearTimers(b).grace = FALSE /\ ClearTimers(b).retry = FALSE
  BY Zenon DEF ClearTimers, Keeps, Shaped, Fields, Bridge
<1>2. /\ Keeps(ScheduleResync(b), b, {"grace"})
      /\ ScheduleResync(b).grace \in BOOLEAN
      /\ ScheduleResync(b).grace \/ (b.inFlight /\ b.recent)
  BY Zenon DEF ScheduleResync, Keeps, Shaped, Fields, Bridge
<1>3. ASSUME NEW k, Keeps(k, b, {"grace", "retry"}), {k.grace, k.retry} \subseteq BOOLEAN
      PROVE  Bridge(k)
  BY Zenon, <1>3 DEF Bridge, Keeps, Fields
<1>4. Bridge(ClearTimers(b))
  BY Zenon, <1>1, <1>3
<1>5. Bridge(ScheduleResync(b))
  <2>1. /\ Keeps(ScheduleResync(b), b, {"grace", "retry"}) /\ b.retry \in BOOLEAN
        /\ ScheduleResync(b).retry = b.retry
    BY Zenon, <1>2 DEF Keeps, Fields, Bridge
  <2> QED
    BY Zenon, <1>2, <1>3, <2>1
<1> QED
  BY Zenon, <1>1, <1>2, <1>4, <1>5

(* The loop of the drain: what it has not delivered is the rest of the     *)
(* buffer, from a first entry beyond the next seq on.                      *)
Stopped(k, b, i) ==
    \E j \in 1..(i + 1) : k.buf = SubSeq(b.buf, j, i) /\ (j <= i => b.buf[j].seq > k.last + 1)

LEMMA DrainNextFrame ==
    ASSUME NEW b, NEW k, Bridge(b), Bridge(k), NEW i \in 1..Len(b.buf), Stopped(k, b, i - 1)
    PROVE  LET next == DrainNext(k, b.buf[i]) IN
           /\ Bridge(next) /\ Stopped(next, b, i)
           /\ Keeps(next, k, {"last", "doc", "mirror", "buf"})
           /\ next.last >= k.last
           /\ next.last = k.last \/ next.last = b.buf[i].seq
<1> DEFINE e == b.buf[i]
           next == DrainNext(k, e)
<1>a. /\ e \in Entry /\ e.seq \in Nat /\ i \in Nat \ {0} /\ Len(b.buf) \in Nat
      /\ k.last \in Nat \union {-1} /\ k.buf \in Seq(Entry) /\ b.buf \in Seq(Entry)
  <2>1. k.last \in Nat \union {-1} /\ k.buf \in Seq(Entry) /\ b.buf \in Seq(Entry)
    BY Zenon DEF Bridge, NoSeq
  <2>2. i \in Nat \ {0} /\ Len(b.buf) \in Nat /\ e \in Entry
    BY <2>1
  <2> HIDE DEF e
  <2>3. e.seq \in Nat
    BY Zenon, <2>2 DEF Entry
  <2> QED
    BY Zenon, <2>1, <2>2, <2>3
<1>e. i <= i /\ i + 1 \in 1..(i + 1) /\ ~(i + 1 <= i)
  BY <1>a
<1>b. PICK j \in 1..i : k.buf = SubSeq(b.buf, j, i - 1) /\ (j <= i - 1 => b.buf[j].seq > k.last + 1)
  BY <1>a DEF Stopped
<1>c. k.buf = <<>> <=> j = i
  BY <1>a, <1>b
<1>d. SubSeq(b.buf, i + 1, i) = <<>>
  BY <1>a
<1>f. e = b.buf[i]
  BY Zenon
<1> HIDE DEF e
<1>1. CASE k.buf = <<>> /\ e.seq <= k.last
  <2>1. next = DeliverStale(k, e)
    BY <1>1, <1>a DEF DrainNext
  <2>2. Bridge(next) /\ Keeps(next, k, {"doc"})
    BY Zenon, <2>1, <1>a, DeliverFrame
  <2> HIDE DEF next
  <2>3. next.buf = <<>> /\ next.last = k.last /\ Keeps(next, k, {"last", "doc", "mirror", "buf"})
    BY Zenon, <2>2, <1>1 DEF Keeps, Fields
  <2>4. Stopped(next, b, i)
    BY Zenon, <2>3, <1>e, <1>d DEF Stopped
  <2> QED
    BY <2>2, <2>3, <2>4, <1>a, <1>f DEF next
<1>2. CASE k.buf = <<>> /\ e.seq = k.last + 1
  <2>1. next = DeliverNext(k, e)
    BY <1>2, <1>a DEF DrainNext
  <2>2. Bridge(next) /\ Keeps(next, k, {"last", "doc", "mirror"}) /\ next.last = e.seq
    BY Zenon, <2>1, <1>a, DeliverFrame
  <2> HIDE DEF next
  <2>3. next.buf = <<>> /\ Keeps(next, k, {"last", "doc", "mirror", "buf"})
    BY Zenon, <2>2, <1>2 DEF Keeps, Fields
  <2>4. Stopped(next, b, i)
    BY Zenon, <2>3, <1>e, <1>d DEF Stopped
  <2>5. next.last >= k.last
    BY <2>2, <1>2, <1>a
  <2> QED
    BY Zenon, <2>2, <2>3, <2>4, <2>5, <1>f DEF next
<1>3. CASE ~(k.buf = <<>> /\ (e.seq <= k.last \/ e.seq = k.last + 1))
  <2>1. next = [k EXCEPT !.buf = Append(@, e)]
    BY Zenon, <1>3, <1>a DEF DrainNext
  <2>2. /\ next.buf = Append(k.buf, e) /\ next.last = k.last /\ next.buf \in Seq(Entry)
        /\ Keeps(next, k, {"buf"})
    <3> HIDE DEF next
    <3>1. next.buf = Append(k.buf, e) /\ next.last = k.last /\ Keeps(next, k, {"buf"})
      BY Zenon, <2>1 DEF Bridge, Keeps, Shaped, Fields
    <3> QED
      BY <3>1, <1>a
  <2> HIDE DEF next
  <2>3. Bridge(next) /\ Keeps(next, k, {"last", "doc", "mirror", "buf"})
    BY Zenon, <2>2 DEF Bridge, Keeps, Fields
  <2>4. next.buf = SubSeq(b.buf, j, i)
    BY <2>2, <1>a, <1>b, <1>f
  <2>5. b.buf[j].seq > next.last + 1
    <3>1. CASE j = i
      BY <3>1, <1>3, <1>c, <1>a, <1>f, <2>2
    <3>2. CASE j <= i - 1
      BY Zenon, <3>2, <1>b, <2>2
    <3> QED
      BY <3>1, <3>2, <1>a
  <2>6. Stopped(next, b, i)
    BY <2>4, <2>5, <1>a DEF Stopped
  <2> QED
    BY <2>2, <2>3, <2>6, <1>a, <1>f DEF next
<1> QED
  BY Zenon, <1>1, <1>2, <1>3, <1>f

LEMMA DrainingFrame ==
    ASSUME NEW b, Bridge(b), NEW n \in Nat, Within(b, n)
    PROVE  LET k == Draining(b)[Len(b.buf)] IN
           /\ Bridge(k) /\ Stopped(k, b, Len(b.buf))
           /\ Keeps(k, b, {"last", "doc", "mirror", "buf"})
           /\ k.last >= b.last /\ k.last <= n
<1> DEFINE m == Len(b.buf)
           d == Draining(b)
           P(i) == /\ Bridge(d[i]) /\ Stopped(d[i], b, i)
                   /\ Keeps(d[i], b, {"last", "doc", "mirror", "buf"})
                   /\ d[i].last >= b.last /\ d[i].last <= n
           S == {i \in Nat : i <= m => P(i)}
<1>1. /\ m \in Nat /\ d[0] = [b EXCEPT !.buf = <<>>]
      /\ \A i \in 1..m : d[i] = DrainNext(d[i - 1], b.buf[i])
  BY DrainingSteps DEF Bridge
<1> HIDE DEF d
<1>2. P(0)
  <2>1. /\ d[0].buf = <<>> /\ d[0].last = b.last /\ Keeps(d[0], b, {"buf"})
        /\ <<>> \in Seq(Entry)
    BY <1>1 DEF Bridge, Keeps, Shaped, Fields
  <2>2. Bridge(d[0]) /\ Keeps(d[0], b, {"last", "doc", "mirror", "buf"})
    BY Zenon, <2>1 DEF Bridge, Keeps, Fields
  <2>3. Stopped(d[0], b, 0)
    <3>1. SubSeq(b.buf, 1, 0) = <<>> /\ 1 \in 1..(0 + 1)
      BY DEF Bridge
    <3> QED
      BY <2>1, <3>1 DEF Stopped
  <2> QED
    BY <2>1, <2>2, <2>3 DEF Bridge, Within, NoSeq
<1>3. ASSUME NEW i \in Nat, i \in S PROVE i + 1 \in S
  <2> SUFFICES ASSUME i + 1 <= m PROVE P(i + 1)
    OBVIOUS
  <2>1. i + 1 \in 1..m /\ (i + 1) - 1 = i /\ i <= m
    BY <1>1
  <2>2. P(i)
    BY Zenon, <1>3, <2>1
  <2>3. d[i + 1] = DrainNext(d[i], b.buf[i + 1])
    BY Zenon, <1>1, <2>1
  <2>4. /\ Bridge(d[i + 1]) /\ Stopped(d[i + 1], b, i + 1)
        /\ Keeps(d[i + 1], d[i], {"last", "doc", "mirror", "buf"})
        /\ d[i + 1].last >= d[i].last
        /\ d[i + 1].last = d[i].last \/ d[i + 1].last = b.buf[i + 1].seq
    BY Zenon, <2>1, <2>2, <2>3, DrainNextFrame
  <2>5. Keeps(d[i + 1], b, {"last", "doc", "mirror", "buf"})
    BY Zenon, <2>2, <2>4 DEF Keeps
  <2>6. d[i + 1].last >= b.last /\ d[i + 1].last <= n
    <3>1. /\ b.last \in Int /\ d[i].last \in Int /\ d[i + 1].last \in Int
          /\ b.buf[i + 1].seq <= n
      BY <2>1, <2>2, <2>4 DEF Within, Bridge, NoSeq
    <3> QED
      BY <3>1, <2>2, <2>4
  <2> QED
    BY Zenon, <2>4, <2>5, <2>6
<1>4. 0 \in S
  BY Zenon, <1>2
<1>5. m \in S
  <2> HIDE DEF S
  <2> QED
    BY Zenon, <1>1, <1>3, <1>4, Induction
<1> QED
  BY <1>1, <1>5 DEF d

(* drainPendingSequenced: what stays buffered lies beyond a hole that is   *)
(* being looked after, or the buffer is empty.                             *)
LEMMA DrainFrame ==
    ASSUME NEW b, Bridge(b), NEW n \in Nat, Within(b, n), Sorted(b.buf)
    PROVE  LET k == Drain(b) IN
           /\ Bridge(k) /\ Within(k, n) /\ Sorted(k.buf) /\ Beyond(k)
           /\ Len(k.buf) <= Len(b.buf) /\ k.last >= b.last
           /\ Keeps(k, b, {"last", "doc", "mirror", "buf", "grace", "retry"})
           /\ k.buf # <<>> => k.grace \/ (k.inFlight /\ k.recent)
           /\ \A i \in 1..Len(k.buf) : \E j \in 1..Len(b.buf) : k.buf[i] = b.buf[j]
           /\ LET d == Draining(b)[Len(b.buf)] IN k.last = d.last /\ k.doc = d.doc
<1> DEFINE d == Draining(b)[Len(b.buf)]
           m == Len(b.buf)
<1>0. b.last \in Int /\ b.buf \in Seq(Entry) /\ m \in Nat
  BY DEF Bridge, NoSeq
<1>1. /\ Bridge(d) /\ Stopped(d, b, m) /\ Keeps(d, b, {"last", "doc", "mirror", "buf"})
      /\ d.last >= b.last /\ d.last <= n
  BY Zenon, DrainingFrame
<1>2. CASE b.buf = <<>>
  <2>1. Drain(b) = b
    BY Zenon, <1>2 DEF Drain
  <2>2. Draining(b)[Len(b.buf)] = b
    <3>1. Len(b.buf) = 0
      BY <1>2
    <3>2. Draining(b)[0] = [b EXCEPT !.buf = <<>>]
      BY Zenon, <1>0, DrainingSteps
    <3>3. [b EXCEPT !.buf = <<>>] = b
      BY Zenon, <1>2 DEF Bridge, Shaped, Fields
    <3> QED
      BY Zenon, <3>1, <3>2, <3>3
  <2>3. /\ Beyond(b) /\ b.last >= b.last /\ Len(b.buf) <= Len(b.buf)
        /\ Keeps(b, b, {"last", "doc", "mirror", "buf", "grace", "retry"})
    BY <1>0, <1>2 DEF Beyond, Keeps, Bridge
  <2> QED
    BY Zenon, <1>2, <2>1, <2>2, <2>3
<1>3. ASSUME b.buf # <<>>, NEW k, Bridge(k), Keeps(k, d, {"grace", "retry"}),
             k.buf # <<>> => k.grace \/ (k.inFlight /\ k.recent)
      PROVE  /\ Within(k, n) /\ Sorted(k.buf) /\ Beyond(k)
             /\ Len(k.buf) <= Len(b.buf) /\ k.last >= b.last
             /\ Keeps(k, b, {"last", "doc", "mirror", "buf", "grace", "retry"})
             /\ \A i \in 1..Len(k.buf) : \E j \in 1..Len(b.buf) : k.buf[i] = b.buf[j]
             /\ k.last = d.last /\ k.doc = d.doc
  <2> HIDE DEF d
  <2>1. /\ k.buf = d.buf /\ k.last = d.last /\ k.doc = d.doc
        /\ Keeps(k, b, {"last", "doc", "mirror", "buf", "grace", "retry"})
    BY Zenon, <1>1, <1>3 DEF Keeps, Fields
  <2>2. PICK j \in 1..(m + 1) :
            d.buf = SubSeq(b.buf, j, m) /\ (j <= m => b.buf[j].seq > d.last + 1)
    BY Zenon, <1>1 DEF Stopped
  <2>3. d.last \in Int
    BY <1>1 DEF Bridge, NoSeq
  <2>4. /\ Len(k.buf) = m + 1 - j
        /\ \A i \in 1..Len(k.buf) : k.buf[i] = b.buf[j + i - 1] /\ j + i - 1 \in 1..m
    BY <1>0, <2>1, <2>2
  <2>5. \A i \in 1..m : b.buf[i].seq \in Nat
    <3>1. \A i \in 1..m : b.buf[i] \in Entry
      BY <1>0
    <3> QED
      BY Zenon, <3>1 DEF Entry
  <2> HIDE DEF m
  <2>6. Within(k, n)
    <3>1. \A i \in 1..m : b.buf[i].seq <= n
      BY Zenon DEF Within, m
    <3> QED
      BY Zenon, <3>1, <1>1, <2>1, <2>4 DEF Within
  <2>7. Sorted(k.buf)
    <3>1. \A x, y \in 1..m : x <= y => b.buf[x].seq <= b.buf[y].seq
      BY Zenon DEF Sorted, m
    <3>2. ASSUME NEW x \in 1..Len(k.buf), NEW y \in 1..Len(k.buf), x <= y
          PROVE  k.buf[x].seq <= k.buf[y].seq
      <4>1. j + x - 1 <= j + y - 1
        BY <3>2, <2>4, <1>0
      <4> QED
        BY Zenon, <4>1, <3>1, <2>4
    <3> QED
      BY Zenon, <3>2 DEF Sorted
  <2>8. Beyond(k)
    <3>1. ASSUME NEW i \in 1..Len(k.buf) PROVE k.buf[i].seq > k.last + 1
      <4>1. j <= m /\ j \in 1..m /\ j <= j + i - 1 /\ j + i - 1 \in 1..m
        BY <2>4, <1>0
      <4>2. b.buf[j].seq <= b.buf[j + i - 1].seq
        BY Zenon, <4>1 DEF Sorted, m
      <4>3. b.buf[j].seq > d.last + 1
        BY Zenon, <4>1, <2>2
      <4>4. b.buf[j].seq \in Nat /\ b.buf[j + i - 1].seq \in Nat
        BY Zenon, <4>1, <2>5
      <4>5. b.buf[j + i - 1].seq > d.last + 1
        BY <4>2, <4>3, <4>4, <2>3
      <4> QED
        BY Zenon, <4>5, <2>1, <2>4
    <3> QED
      BY Zenon, <3>1 DEF Beyond
  <2>9. Len(k.buf) <= Len(b.buf)
    BY <2>4, <1>0 DEF m
  <2> QED
    BY Zenon, <1>1, <2>1, <2>4, <2>6, <2>7, <2>8, <2>9 DEF m
<1>4. CASE b.buf # <<>> /\ d.buf = <<>>
  <2>1. Drain(b) = ClearTimers(d)
    BY Zenon, <1>4 DEF Drain
  <2> HIDE DEF d
  <2>2. Bridge(ClearTimers(d)) /\ Keeps(ClearTimers(d), d, {"grace", "retry"})
    BY Zenon, <1>1, TimerFrame
  <2>3. ClearTimers(d).buf = <<>>
    BY Zenon, <2>2, <1>4 DEF Keeps, Fields
  <2> QED
    BY Zenon, <2>1, <2>2, <2>3, <1>3, <1>4 DEF d
<1>5. CASE b.buf # <<>> /\ d.buf # <<>>
  <2>1. Drain(b) = ScheduleResync(d)
    BY Zenon, <1>5 DEF Drain
  <2> HIDE DEF d
  <2>2. /\ Bridge(ScheduleResync(d)) /\ Keeps(ScheduleResync(d), d, {"grace"})
        /\ ScheduleResync(d).grace \/ (d.inFlight /\ d.recent)
    BY Zenon, <1>1, TimerFrame
  <2>3. /\ Keeps(ScheduleResync(d), d, {"grace", "retry"})
        /\ ScheduleResync(d).inFlight = d.inFlight /\ ScheduleResync(d).recent = d.recent
    BY Zenon, <2>2 DEF Keeps, Fields
  <2> QED
    BY Zenon, <2>1, <2>2, <2>3, <1>3, <1>5 DEF d
<1> QED
  BY Zenon, <1>2, <1>4, <1>5

(* A sorted buffer has a place for every entry. *)
LEMMA PlaceExists ==
    ASSUME NEW buf \in Seq(Entry), Sorted(buf), NEW e \in Entry
    PROVE  /\ PlaceOf(buf, e) \in 1..(Len(buf) + 1)
           /\ \A j \in 1..Len(buf) : j < PlaceOf(buf, e) <=> buf[j].seq <= e.seq
<1> DEFINE n == Len(buf)
           x == e.seq
           y(j) == buf[j].seq
           Fits(i, m) == \A j \in 1..m : j < i <=> y(j) <= x
           S == {m \in Nat : m <= n => \E i \in 1..(m + 1) : Fits(i, m)}
<1>1. /\ n \in Nat /\ x \in Nat /\ DOMAIN buf = 1..n
      /\ \A j \in 1..n : y(j) \in Nat
      /\ \A i, j \in 1..n : i <= j => y(i) <= y(j)
  <2>1. \A j \in 1..n : buf[j] \in Entry
    OBVIOUS
  <2> QED
    BY <2>1 DEF Entry, Sorted
<1> HIDE DEF n, x, y
<1>2. 0 \in S
  BY <1>1
<1>3. ASSUME NEW m \in Nat, m \in S PROVE m + 1 \in S
  <2> SUFFICES ASSUME m + 1 <= n PROVE \E i \in 1..(m + 2) : Fits(i, m + 1)
    <3>1. (m + 1) + 1 = m + 2
      OBVIOUS
    <3> QED
      BY <3>1
  <2>0. m \in 0..n /\ m + 1 \in 1..n /\ m <= n
    BY <1>1
  <2>1. PICK i \in 1..(m + 1) : Fits(i, m)
    BY Zenon, <1>3, <2>0
  <2>2. CASE i = m + 1 /\ y(m + 1) <= x
    <3>1. Fits(m + 2, m + 1)
      <4>1. ASSUME NEW j \in 1..(m + 1) PROVE j < m + 2 /\ y(j) <= x
        BY <2>1, <2>2
      <4> QED
        BY Zenon, <4>1
    <3>2. m + 2 \in 1..(m + 2)
      OBVIOUS
    <3> HIDE DEF Fits
    <3> QED
      BY Zenon, <3>1, <3>2
  <2>5. i \in 1..(m + 2)
    OBVIOUS
  <2>3. CASE i = m + 1 /\ ~(y(m + 1) <= x)
    <3>1. Fits(i, m + 1)
      BY <2>1, <2>3
    <3> HIDE DEF Fits
    <3> QED
      BY Zenon, <3>1, <2>5
  <2>4. CASE i <= m
    <3>1. i \in 1..m /\ i \in 1..n /\ i <= m + 1
      BY <2>0, <2>4, <1>1
    <3>2. ~(y(i) <= x) /\ y(i) <= y(m + 1)
      BY <3>1, <2>0, <2>1, <1>1
    <3>3. ~(y(m + 1) <= x)
      BY <3>1, <3>2, <2>0, <1>1
    <3>4. Fits(i, m + 1)
      BY <2>1, <2>4, <3>3
    <3> HIDE DEF Fits
    <3> QED
      BY Zenon, <3>4, <2>5
  <2> QED
    BY <2>2, <2>3, <2>4
<1>4. n \in S
  <2> HIDE DEF S
  <2> QED
    BY Zenon, <1>1, <1>2, <1>3, Induction
<1>5. \E i \in 1..(n + 1) : Fits(i, n)
  BY <1>1, <1>4
<1>6. PlaceOf(buf, e) = CHOOSE i \in 1..(n + 1) : Fits(i, n)
  BY Zenon, <1>1 DEF PlaceOf, n, x, y
<1>7. PlaceOf(buf, e) \in 1..(n + 1) /\ Fits(PlaceOf(buf, e), n)
  BY Zenon, <1>5, <1>6
<1> QED
  BY Zenon, <1>7 DEF n, x, y

(* bufferSequenced *)
LEMMA BufferFrame ==
    ASSUME NEW b, Bridge(b), NEW n \in Nat, Within(b, n), Sorted(b.buf), Beyond(b),
           Len(b.buf) <= MaxPending,
           NEW e \in Entry, e.seq > b.last + 1, e.seq <= n
    PROVE  LET k == BufferSequenced(b, e) IN
           /\ Bridge(k) /\ Within(k, n) /\ Sorted(k.buf) /\ Beyond(k)
           /\ Len(k.buf) <= MaxPending
           /\ Keeps(k, b, {"buf"})
           /\ \A i \in 1..Len(k.buf) : k.buf[i] = e \/ \E j \in 1..Len(b.buf) : k.buf[i] = b.buf[j]
<1> DEFINE m == Len(b.buf)
           p == PlaceOf(b.buf, e)
           all == WithEntryAt(b.buf, p, e)
           cut == Shed(all)
           k == BufferSequenced(b, e)
<1>1. b.buf \in Seq(Entry) /\ m \in Nat /\ MaxPending \in Nat \ {0} /\ b.last \in Int
  BY SyncAssumption DEF Bridge, NoSeq
<1>2. p \in 1..(m + 1) /\ \A j \in 1..m : j < p <=> b.buf[j].seq <= e.seq
  BY Zenon, <1>1, PlaceExists
<1>3. e.seq \in Nat /\ \A j \in 1..m : b.buf[j].seq \in Nat
  <2>1. \A j \in 1..m : b.buf[j] \in Entry
    BY <1>1
  <2> QED
    BY Zenon, <2>1 DEF Entry
<1> HIDE DEF p
<1>4. /\ all \in Seq(Entry) /\ Len(all) = m + 1
      /\ \A i \in 1..(m + 1) : all[i] = IF i < p THEN b.buf[i]
                                       ELSE IF i = p THEN e ELSE b.buf[i - 1]
  <2> DEFINE low == SubSeq(b.buf, 1, p - 1)
             high == SubSeq(b.buf, p, m)
  <2>1. /\ low \in Seq(Entry) /\ Len(low) = p - 1 /\ \A i \in 1..(p - 1) : low[i] = b.buf[i]
    BY <1>1, <1>2
  <2>2. /\ high \in Seq(Entry) /\ Len(high) = m + 1 - p
        /\ \A i \in 1..(m + 1 - p) : high[i] = b.buf[p + i - 1]
    BY <1>1, <1>2
  <2>3. all = (low \o <<e>>) \o high
    BY Zenon DEF WithEntryAt
  <2> HIDE DEF low, high, all, m
  <2>4. /\ low \o <<e>> \in Seq(Entry) /\ Len(low \o <<e>>) = p
        /\ \A i \in 1..p : (low \o <<e>>)[i] = IF i < p THEN low[i] ELSE e
    BY <2>1, <1>1, <1>2
  <2> DEFINE lower == low \o <<e>>
  <2>5. /\ lower \in Seq(Entry) /\ Len(lower) = p
        /\ \A i \in 1..p : lower[i] = IF i < p THEN low[i] ELSE e
        /\ all = lower \o high
    BY Zenon, <2>3, <2>4
  <2> HIDE DEF lower
  <2>6. all \in Seq(Entry) /\ Len(all) = m + 1
    BY <2>2, <2>5, <1>1, <1>2
  <2>7. ASSUME NEW i \in 1..(m + 1)
        PROVE  all[i] = IF i < p THEN b.buf[i] ELSE IF i = p THEN e ELSE b.buf[i - 1]
    <3>1. CASE i <= p
      <4>1. i \in 1..p /\ all[i] = lower[i] /\ (i < p => i \in 1..(p - 1))
        BY <3>1, <2>2, <2>5, <1>1, <1>2
      <4> QED
        BY <4>1, <3>1, <2>1, <2>5, <1>2, <1>1
    <3>2. CASE i > p
      <4>1. /\ i - p \in 1..(m + 1 - p) /\ all[i] = high[i - p] /\ p + (i - p) - 1 = i - 1
            /\ ~(i < p) /\ i # p
        BY <3>2, <2>2, <2>5, <1>1, <1>2
      <4> QED
        BY Zenon, <4>1, <2>2
    <3> QED
      BY <3>1, <3>2, <1>1, <1>2
  <2> QED
    BY Zenon, <2>6, <2>7
<1>5. /\ k.buf = cut /\ Keeps(k, b, {"buf"})
  <2> HIDE DEF cut
  <2>1. k = [b EXCEPT !.buf = cut]
    BY Zenon DEF BufferSequenced, cut, p
  <2> HIDE DEF k
  <2> QED
    BY Zenon, <2>1 DEF Bridge, Keeps, Shaped, Fields
<1> HIDE DEF all, k
<1>6. /\ cut \in Seq(Entry) /\ Len(cut) <= MaxPending
      /\ \E o \in {0, 1} : /\ Len(cut) = m + 1 - o
                           /\ \A i \in 1..Len(cut) : cut[i] = all[i + o]
  <2>1. CASE Len(all) > MaxPending
    <3>1. cut = Tail(all)
      BY Zenon, <2>1 DEF Shed
    <3>2. all # <<>> /\ cut \in Seq(Entry) /\ Len(cut) = m /\ \A i \in 1..m : cut[i] = all[i + 1]
      BY <3>1, <1>1, <1>4
    <3> HIDE DEF cut
    <3>3. Len(cut) = m + 1 - 1
      BY <3>2, <1>1
    <3> QED
      BY Zenon, <3>2, <3>3
  <2>2. CASE ~(Len(all) > MaxPending)
    <3>1. cut = all
      BY Zenon, <2>2 DEF Shed
    <3> HIDE DEF cut
    <3>2. Len(cut) = m + 1 - 0 /\ Len(cut) <= MaxPending /\ \A i \in 1..Len(cut) : i + 0 = i
      BY <3>1, <2>2, <1>1, <1>4
    <3> QED
      BY Zenon, <3>1, <3>2, <1>4
  <2> QED
    BY Zenon, <2>1, <2>2
<1> HIDE DEF cut
<1>7. PICK o \in {0, 1} : Len(cut) = m + 1 - o /\ \A i \in 1..Len(cut) : cut[i] = all[i + o]
  BY Zenon, <1>6
<1>8. Bridge(k) /\ Len(k.buf) <= MaxPending
  BY Zenon, <1>5, <1>6 DEF Bridge, Keeps, Fields
<1>9. k.last = b.last
  BY Zenon, <1>5 DEF Keeps, Fields
<1>10. ASSUME NEW i \in 1..(m + 1)
       PROVE  /\ all[i] = e \/ \E j \in 1..m : all[i] = b.buf[j]
              /\ all[i].seq \in Nat /\ all[i].seq <= n /\ all[i].seq > b.last + 1
  <2>1. all[i] = e \/ \E j \in 1..m : all[i] = b.buf[j]
    <3>1. CASE i < p
      BY <3>1, <1>1, <1>2, <1>4
    <3>2. CASE i = p
      BY <3>2, <1>1, <1>2, <1>4
    <3>3. CASE i > p
      <4>1. i - 1 \in 1..m /\ ~(i < p) /\ i # p
        BY <3>3, <1>1, <1>2
      <4> QED
        BY Zenon, <4>1, <1>4
    <3> QED
      BY <3>1, <3>2, <3>3, <1>1, <1>2
  <2> QED
    BY Zenon, <2>1, <1>3 DEF Within, Beyond
<1>11. ASSUME NEW x \in 1..(m + 1), NEW y \in 1..(m + 1), x <= y PROVE all[x].seq <= all[y].seq
  <2>1. \A i, j \in 1..m : i <= j => b.buf[i].seq <= b.buf[j].seq
    BY Zenon DEF Sorted
  <2> HIDE DEF m
  <2>2. CASE x < p /\ y < p
    <3>1. x \in 1..m /\ y \in 1..m
      BY <2>2, <1>1, <1>2
    <3> QED
      BY Zenon, <3>1, <2>1, <2>2, <1>4, <1>11
  <2>3. CASE x < p /\ y = p
    <3>1. x \in 1..m
      BY <2>3, <1>1, <1>2
    <3> QED
      BY <3>1, <2>3, <1>2, <1>4, <1>1
  <2>4. CASE x < p /\ y > p
    <3>1. x \in 1..m /\ y - 1 \in 1..m /\ x <= y - 1 /\ ~(y < p) /\ y # p
      BY <2>4, <1>1, <1>2
    <3> QED
      BY Zenon, <3>1, <2>1, <2>4, <1>4
  <2>5. CASE x = p /\ y = p
    BY <2>5, <1>3, <1>4, <1>1, <1>2
  <2>6. CASE x = p /\ y > p
    <3>1. y - 1 \in 1..m /\ ~(y - 1 < p) /\ ~(y < p) /\ y # p /\ ~(x < p)
      BY <2>6, <1>1, <1>2
    <3>2. all[x] = e /\ all[y] = b.buf[y - 1]
      BY Zenon, <3>1, <2>6, <1>4
    <3>3. ~(b.buf[y - 1].seq <= e.seq)
      BY Zenon, <3>1, <1>2
    <3> QED
      BY <3>1, <3>2, <3>3, <1>3
  <2>7. CASE x > p /\ y > p
    <3>1. /\ x - 1 \in 1..m /\ y - 1 \in 1..m /\ x - 1 <= y - 1
          /\ ~(x < p) /\ x # p /\ ~(y < p) /\ y # p
      BY <2>7, <1>1, <1>2, <1>11
    <3>2. all[x] = b.buf[x - 1] /\ all[y] = b.buf[y - 1]
      BY Zenon, <3>1, <1>4
    <3> QED
      BY Zenon, <3>1, <3>2, <2>1
  <2> QED
    BY <2>2, <2>3, <2>4, <2>5, <2>6, <2>7, <1>1, <1>2, <1>11
<1>12. ASSUME NEW i \in 1..Len(cut) PROVE i + o \in 1..(m + 1) /\ cut[i] = all[i + o]
  BY <1>1, <1>7
<1>13. Within(k, n)
  BY Zenon, <1>5, <1>9, <1>10, <1>12 DEF Within
<1>14. Beyond(k)
  BY Zenon, <1>5, <1>9, <1>10, <1>12 DEF Beyond
<1>15. Sorted(cut)
  <2> SUFFICES ASSUME NEW x \in 1..Len(cut), NEW y \in 1..Len(cut), x <= y
               PROVE  cut[x].seq <= cut[y].seq
    BY Zenon DEF Sorted
  <2>1. x + o <= y + o
    BY <1>1, <1>7
  <2> QED
    BY Zenon, <2>1, <1>11, <1>12
<1>16. \A i \in 1..Len(cut) : cut[i] = e \/ \E j \in 1..m : cut[i] = b.buf[j]
  BY Zenon, <1>10, <1>12
<1> QED
  BY Zenon, <1>5, <1>8, <1>13, <1>14, <1>15, <1>16 DEF k

(* What holds of a bridge between messages, n being the server's seq. *)
Sound(b, n) ==
    /\ Bridge(b) /\ Within(b, n) /\ Sorted(b.buf) /\ Beyond(b)
    /\ Len(b.buf) <= MaxPending

(* The entries of k's buffer come from b's, or are e. *)
From(k, b, e) ==
    \A i \in 1..Len(k.buf) : k.buf[i] = e \/ \E j \in 1..Len(b.buf) : k.buf[i] = b.buf[j]

LEMMA HandleFrame ==
    ASSUME NEW b, NEW n \in Nat, Sound(b, n), NEW e \in Entry, e.seq <= n
    PROVE  LET k == HandleSequenced(b, e) IN
           /\ Sound(k, n) /\ k.last >= b.last /\ From(k, b, e)
           /\ Keeps(k, b, {"last", "doc", "mirror", "buf", "grace", "retry"})
           /\ \/ k.buf = b.buf /\ k.grace = b.grace /\ k.retry = b.retry
              \/ k.buf # <<>> => k.grace \/ (k.inFlight /\ k.recent)
<1> DEFINE k == HandleSequenced(b, e)
<1>a. /\ Bridge(b) /\ Within(b, n) /\ Sorted(b.buf) /\ Beyond(b) /\ Len(b.buf) <= MaxPending
      /\ b.last \in Int /\ b.buf \in Seq(Entry) /\ Len(b.buf) \in Nat /\ MaxPending \in Nat
  BY SyncAssumption DEF Sound, Bridge, NoSeq
<1>b. e.seq \in Nat
  BY Zenon DEF Entry
<1>1. CASE e.seq <= b.last
  <2>1. k = DeliverStale(b, e)
    BY <1>1, <1>a, <1>b DEF HandleSequenced
  <2>2. Bridge(k) /\ Keeps(k, b, {"doc"})
    BY Zenon, <2>1, <1>a, DeliverFrame
  <2> HIDE DEF k
  <2>3. /\ k.buf = b.buf /\ k.last = b.last /\ k.grace = b.grace /\ k.retry = b.retry
        /\ Keeps(k, b, {"last", "doc", "mirror", "buf", "grace", "retry"})
    BY Zenon, <2>2 DEF Keeps, Fields
  <2>4. Sound(k, n) /\ From(k, b, e) /\ k.last >= b.last
    BY <2>2, <2>3, <1>a DEF Sound, Within, Beyond, From
  <2> QED
    BY Zenon, <2>3, <2>4 DEF k
<1>2. CASE e.seq = b.last + 1
  <2> DEFINE d == DeliverNext(b, e)
  <2>1. k = Drain(d)
    BY <1>2, <1>a, <1>b DEF HandleSequenced
  <2>2. Bridge(d) /\ Keeps(d, b, {"last", "doc", "mirror"}) /\ d.last = e.seq
    BY Zenon, <1>a, DeliverFrame
  <2> HIDE DEF d, k
  <2>3. d.buf = b.buf
    BY Zenon, <2>2 DEF Keeps, Fields
  <2>4. Within(d, n) /\ Sorted(d.buf)
    BY Zenon, <2>2, <2>3, <1>a DEF Within
  <2>5. /\ Bridge(k) /\ Within(k, n) /\ Sorted(k.buf) /\ Beyond(k)
        /\ Len(k.buf) <= Len(d.buf) /\ k.last >= d.last
        /\ Keeps(k, d, {"last", "doc", "mirror", "buf", "grace", "retry"})
        /\ k.buf # <<>> => k.grace \/ (k.inFlight /\ k.recent)
        /\ \A i \in 1..Len(k.buf) : \E j \in 1..Len(d.buf) : k.buf[i] = d.buf[j]
    BY Zenon, <2>1, <2>2, <2>4, DrainFrame
  <2>6. Keeps(k, b, {"last", "doc", "mirror", "buf", "grace", "retry"})
    BY Zenon, <2>2, <2>5 DEF Keeps
  <2>7. From(k, b, e)
    BY Zenon, <2>3, <2>5 DEF From
  <2>8. Sound(k, n) /\ k.last >= b.last
    <3>1. k.buf \in Seq(Entry) /\ k.last \in Int /\ Len(k.buf) \in Nat
      BY <2>5 DEF Bridge, NoSeq
    <3> QED
      BY <3>1, <2>2, <2>3, <2>5, <1>2, <1>a, <1>b DEF Sound
  <2> QED
    BY Zenon, <2>5, <2>6, <2>7, <2>8 DEF k
<1>3. CASE e.seq > b.last + 1
  <2> DEFINE d == BufferSequenced(b, e)
  <2>1. k = ScheduleResync(d)
    BY <1>3, <1>a, <1>b DEF HandleSequenced
  <2>2. /\ Bridge(d) /\ Within(d, n) /\ Sorted(d.buf) /\ Beyond(d) /\ Len(d.buf) <= MaxPending
        /\ Keeps(d, b, {"buf"}) /\ From(d, b, e)
    BY <1>3, <1>a, BufferFrame DEF From
  <2> HIDE DEF d, k
  <2>3. Bridge(k) /\ Keeps(k, d, {"grace"}) /\ (k.grace \/ (d.inFlight /\ d.recent))
    BY Zenon, <2>1, <2>2, TimerFrame
  <2>4. /\ k.buf = d.buf /\ k.last = d.last /\ d.last = b.last
        /\ k.inFlight = d.inFlight /\ k.recent = d.recent
        /\ Keeps(k, b, {"last", "doc", "mirror", "buf", "grace", "retry"})
    BY Zenon, <2>2, <2>3 DEF Keeps, Fields
  <2>5. Sound(k, n) /\ From(k, b, e) /\ k.last >= b.last
    BY <2>2, <2>3, <2>4, <1>a DEF Sound, Within, Beyond, From
  <2> QED
    BY Zenon, <2>3, <2>4, <2>5 DEF k
<1> QED
  BY <1>1, <1>2, <1>3, <1>a, <1>b

(* The bridge a snapshot leaves to drain. *)
Start(b, snap) ==
    LET settled == ClearTimers([b EXCEPT !.inFlight = FALSE])
        adopted == [settled EXCEPT !.last = snap.seq, !.doc = snap.doc,
                                   !.mirror = Present(snap.doc), !.since = Since(b)]
    IN  IF Outdated(b, snap) THEN settled ELSE ReplayPending(adopted)

LEMMA StartFrame ==
    ASSUME NEW b, NEW n \in Nat, Sound(b, n), NEW snap \in Snap, snap.seq <= n
    PROVE  LET start == Start(b, snap) IN
           /\ Bridge(start) /\ start.buf = b.buf /\ start.inFlight = FALSE
           /\ start.last >= b.last /\ start.last >= snap.seq /\ start.last <= n
           /\ start.since = IF snap.seq < b.last THEN b.since ELSE Since(b)
           /\ Keeps(start, b, {"last", "doc", "mirror", "buf", "grace", "retry", "inFlight", "since"})
           /\ snap.seq < b.last => start.last = b.last /\ start.doc = b.doc
           /\ ~(snap.seq < b.last) =>
                 start.last = snap.seq /\ (b.pending = <<>> => start.doc = snap.doc)
<1> DEFINE settled == ClearTimers([b EXCEPT !.inFlight = FALSE])
           adopted == [settled EXCEPT !.last = snap.seq, !.doc = snap.doc,
                                      !.mirror = Present(snap.doc), !.since = Since(b)]
           start == IF Outdated(b, snap) THEN settled ELSE ReplayPending(adopted)
<1>a. /\ Bridge(b) /\ Within(b, n) /\ Sorted(b.buf) /\ Len(b.buf) <= MaxPending
      /\ b.last \in Int /\ b.buf \in Seq(Entry) /\ Len(b.buf) \in Nat /\ MaxPending \in Nat
      /\ snap.seq \in Nat /\ snap.doc \in Doc /\ b.pending \in Seq(Cmd)
  BY SyncAssumption DEF Sound, Bridge, NoSeq, Snap
<1>1. start = Start(b, snap)
  BY Zenon DEF Start
<1>2. /\ Keeps(settled, b, {"inFlight", "grace", "retry"})
      /\ settled.inFlight = FALSE /\ settled.grace = FALSE /\ settled.retry = FALSE
  BY Zenon, <1>a DEF ClearTimers, Bridge, Keeps, Shaped, Fields
<1> HIDE DEF settled
<1>3. Bridge(settled) /\ settled.buf = b.buf /\ settled.pending = b.pending /\ settled.last = b.last
  BY Zenon, <1>2, <1>a DEF Bridge, Keeps, Fields
<1>4. /\ Keeps(adopted, settled, {"last", "doc", "mirror", "since"})
      /\ adopted.last = snap.seq /\ adopted.doc = snap.doc /\ adopted.since = Since(b)
  BY Zenon, <1>3 DEF Bridge, Keeps, Shaped, Fields
<1> HIDE DEF adopted
<1>5. Bridge(adopted)
  BY Zenon, <1>3, <1>4, <1>a DEF Bridge, Keeps, Fields
<1>6. /\ Keeps(ReplayPending(adopted), adopted, {"doc", "mirror"})
      /\ ReplayPending(adopted).doc = ApplyAll(snap.doc, adopted.pending)
  BY Zenon, <1>4, <1>5 DEF ReplayPending, Bridge, Keeps, Shaped, Fields
<1>7. adopted.pending = b.pending /\ ApplyAll(snap.doc, adopted.pending) \in Doc
  <2>1. adopted.pending = b.pending
    BY Zenon, <1>3, <1>4 DEF Keeps, Fields
  <2> QED
    BY Zenon, <2>1, <1>a, ApplyAllTyped
<1> DEFINE r == ReplayPending(adopted)
<1>8. Bridge(r) /\ r.buf = b.buf /\ r.last = snap.seq /\ r.since = Since(b) /\ r.inFlight = FALSE
  <2>1. Keeps(r, adopted, {"doc", "mirror"}) /\ r.doc \in Doc
    BY Zenon, <1>6, <1>7
  <2> HIDE DEF r
  <2>2. Bridge(r)
    BY Zenon, <2>1, <1>5 DEF Bridge, Keeps, Fields
  <2> QED
    BY Zenon, <2>1, <2>2, <1>2, <1>3, <1>4 DEF Keeps, Fields
<1>9. Keeps(r, b, {"last", "doc", "mirror", "buf", "grace", "retry", "inFlight", "since"})
  BY Zenon, <1>2, <1>4, <1>6 DEF Keeps
<1> HIDE DEF r
<1>10. /\ Bridge(start) /\ start.buf = b.buf /\ start.inFlight = FALSE
       /\ start.last >= b.last /\ start.last >= snap.seq /\ start.last <= n
       /\ start.since = IF snap.seq < b.last THEN b.since ELSE Since(b)
       /\ Keeps(start, b, {"last", "doc", "mirror", "buf", "grace", "retry", "inFlight", "since"})
  <2>1. CASE snap.seq < b.last
    <3>1. start = settled
      BY Zenon, <2>1 DEF Outdated
    <3>2. settled.since = b.since
      BY Zenon, <1>2 DEF Keeps, Fields
    <3>3. Keeps(settled, b, {"last", "doc", "mirror", "buf", "grace", "retry", "inFlight", "since"})
      BY Zenon, <1>2 DEF Keeps
    <3>4. b.last <= n
      BY Zenon, <1>a DEF Within
    <3> HIDE DEF start
    <3> QED
      BY <2>1, <3>1, <3>2, <3>3, <3>4, <1>2, <1>3, <1>a
  <2>2. CASE ~(snap.seq < b.last)
    <3>1. start = r
      BY Zenon, <2>2 DEF Outdated, r
    <3> HIDE DEF start
    <3> QED
      BY <2>2, <3>1, <1>8, <1>9, <1>a
  <2> QED
    BY Zenon, <2>1, <2>2
<1>16. /\ snap.seq < b.last => start.last = b.last /\ start.doc = b.doc
       /\ ~(snap.seq < b.last) =>
             start.last = snap.seq /\ (b.pending = <<>> => start.doc = snap.doc)
  <2>1. settled.doc = b.doc
    BY Zenon, <1>2 DEF Keeps, Fields
  <2>2. b.pending = <<>> => r.doc = snap.doc
    BY Zenon, <1>6, <1>7, <1>a, ApplyAllTyped DEF r
  <2> QED
    BY Zenon, <2>1, <2>2, <1>3, <1>8 DEF Outdated, r
<1> HIDE DEF start
<1> QED
  BY Zenon, <1>1, <1>10, <1>16

LEMMA AdoptFrame ==
    ASSUME NEW b, NEW n \in Nat, Sound(b, n), NEW snap \in Snap, snap.seq <= n
    PROVE  LET k == AdoptSnapshot(b, snap) IN
           /\ Sound(k, n) /\ k.last >= b.last /\ k.last >= snap.seq
           /\ From(k, b, Ack) /\ k.inFlight = FALSE
           /\ Keeps(k, b, {"last", "doc", "mirror", "buf", "grace", "retry", "inFlight", "since"})
           /\ k.since = IF snap.seq < b.last THEN b.since ELSE Since(b)
           /\ k.buf # <<>> => k.grace
<1> DEFINE start == Start(b, snap)
           k == AdoptSnapshot(b, snap)
<1>a. /\ Bridge(b) /\ Within(b, n) /\ Sorted(b.buf) /\ Len(b.buf) <= MaxPending
      /\ b.last \in Int /\ b.buf \in Seq(Entry) /\ Len(b.buf) \in Nat /\ MaxPending \in Nat
      /\ snap.seq \in Nat
  BY SyncAssumption DEF Sound, Bridge, NoSeq, Snap
<1>1. k = Drain(start)
  BY Zenon DEF AdoptSnapshot, Start
<1>10. /\ Bridge(start) /\ start.buf = b.buf /\ start.inFlight = FALSE
       /\ start.last >= b.last /\ start.last >= snap.seq /\ start.last <= n
       /\ start.since = IF snap.seq < b.last THEN b.since ELSE Since(b)
       /\ Keeps(start, b, {"last", "doc", "mirror", "buf", "grace", "retry", "inFlight", "since"})
  BY Zenon, StartFrame
<1> HIDE DEF k
<1> HIDE DEF start
<1>11. Within(start, n) /\ Sorted(start.buf)
  BY Zenon, <1>10, <1>a DEF Within
<1>12. /\ Bridge(k) /\ Within(k, n) /\ Sorted(k.buf) /\ Beyond(k)
       /\ Len(k.buf) <= Len(start.buf) /\ k.last >= start.last
       /\ Keeps(k, start, {"last", "doc", "mirror", "buf", "grace", "retry"})
       /\ k.buf # <<>> => k.grace \/ (k.inFlight /\ k.recent)
       /\ \A i \in 1..Len(k.buf) : \E j \in 1..Len(start.buf) : k.buf[i] = start.buf[j]
  BY Zenon, <1>1, <1>10, <1>11, DrainFrame
<1>13. k.inFlight = FALSE /\ k.since = start.since
       /\ Keeps(k, b, {"last", "doc", "mirror", "buf", "grace", "retry", "inFlight", "since"})
  BY Zenon, <1>10, <1>12 DEF Keeps, Fields
<1>14. k.last \in Int /\ start.last \in Int /\ Len(k.buf) \in Nat
  BY <1>10, <1>12 DEF Bridge, NoSeq
<1>15. Sound(k, n) /\ k.last >= b.last /\ k.last >= snap.seq /\ From(k, b, Ack)
  BY <1>10, <1>12, <1>14, <1>a DEF Sound, From
<1> QED
  BY Zenon, <1>10, <1>12, <1>13, <1>15 DEF k

----------------------------------------------------------------------------
(* The system: types, and no seq ahead of the server's. *)
Busy(h) == h.stage = "persisting"

ServerInv ==
    /\ seq \in Nat /\ doc \in Doc /\ docAt \in Seq(Doc)
    /\ Len(docAt) = seq + 1 /\ docAt[seq + 1] = doc
    /\ bound \subseteq Dataset
    /\ handler \in [Client -> Handling] /\ open \in [Opener -> OpenStage]
    /\ inbound \in [Client -> Seq(Cmd \union {Request})] /\ throttled \in [Client -> BOOLEAN]
    /\ \A c \in Client : Busy(handler[c]) => handler[c].seq <= seq
    /\ \A o \in Opener : open[o].stage \in {"persisting", "rebroadcasting"} => open[o].seq <= seq

QueueInv ==
    /\ rx \in [Client -> Seq(Item)] /\ lagged \in [Client -> BOOLEAN]
    /\ unicast \in [Client -> Seq(Snap)] /\ pushed \in [Client -> Seq(Snap)]
    /\ \A c \in Client :
          /\ Len(rx[c]) <= Capacity
          /\ \A i \in 1..Len(rx[c]) : rx[c][i].seq <= seq
          /\ \A i \in 1..Len(unicast[c]) : unicast[c][i].seq <= seq
          /\ \A i \in 1..Len(pushed[c]) : pushed[c][i].seq <= seq

ClientInv == DOMAIN bridge = Client /\ \A c \in Client : Sound(bridge[c], seq)

SafeInv == ServerInv /\ QueueInv /\ ClientInv

LEMMA BusyIs ==
    ASSUME NEW h \in Handling
    PROVE  /\ Busy(h) => h.seq \in Nat /\ h.cmd \in Cmd /\ h.sender \in Client \union {Server}
           /\ h # Idle <=> Busy(h)
BY DEF Handling, Busy, Idle

LEMMA OpeningIs ==
    ASSUME NEW h \in OpenStage, h.stage \in {"persisting", "rebroadcasting"}
    PROVE  h.seq \in Nat /\ h.cmd \in Cmd
BY DEF OpenStage, Idle

(* Session::apply *)
LEMMA SessionApplyFrame ==
    ASSUME ServerInv, NEW cmd \in Cmd, SessionApply(cmd)
    PROVE  /\ seq' = seq + 1 /\ seq' \in Nat /\ doc' \in Doc /\ docAt' \in Seq(Doc)
           /\ Len(docAt') = seq' + 1 /\ docAt'[seq' + 1] = doc'
           /\ doc' = Apply(doc, cmd)
           /\ \A s \in 0..seq : docAt'[s + 1] = docAt[s + 1]
<1>1. Apply(doc, cmd) \in Doc
  BY Zenon, ApplyTyped DEF ServerInv
<1> QED
  BY <1>1 DEF ServerInv, SessionApply

LEMMA CommandsTyped ==
    /\ \A d \in Dataset : Removed(d) \in Cmd
    /\ \A d \in Dataset, n \in Given : Renamed(d, n) \in Cmd /\ Opened(d, n) \in Cmd
    /\ Name \subseteq Given /\ Original \in Given
BY Zenon DEF Removed, Renamed, Opened, Cmd, Given

LEMMA ServerStep == SafeInv /\ [Next]_vars => ServerInv' /\ seq' >= seq
<1> SUFFICES ASSUME ServerInv, QueueInv, ClientInv, [Next]_vars PROVE ServerInv' /\ seq' >= seq
  BY Zenon DEF SafeInv
<1>a. /\ seq \in Nat /\ seq >= seq /\ handler \in [Client -> Handling] /\ open \in [Opener -> OpenStage]
      /\ inbound \in [Client -> Seq(Cmd \union {Request})] /\ throttled \in [Client -> BOOLEAN]
      /\ Idle \in Handling /\ ~Busy(Idle)
  BY DEF ServerInv, Handling, Busy, Idle
<1>b. ASSUME UNCHANGED server, handler' \in [Client -> Handling], open' \in [Opener -> OpenStage],
             inbound' \in [Client -> Seq(Cmd \union {Request})], throttled' \in [Client -> BOOLEAN],
             \A c \in Client : Busy(handler'[c]) => handler'[c].seq <= seq,
             \A o \in Opener : open'[o].stage \in {"persisting", "rebroadcasting"} => open'[o].seq <= seq
      PROVE  ServerInv' /\ seq' >= seq
  BY Zenon, <1>b, <1>a DEF ServerInv, server, Busy
<1>c. ASSUME UNCHANGED <<server, handler, open>>, inbound' \in [Client -> Seq(Cmd \union {Request})],
             throttled' \in [Client -> BOOLEAN]
      PROVE  ServerInv' /\ seq' >= seq
  BY Zenon, <1>c, <1>a DEF ServerInv, server, Busy
<1>d. ASSUME NEW c \in Client, inbound[c] # <<>>
      PROVE  /\ Head(inbound[c]) \in Cmd \union {Request}
             /\ Tail(inbound[c]) \in Seq(Cmd \union {Request})
             /\ [inbound EXCEPT ![c] = Tail(@)] \in [Client -> Seq(Cmd \union {Request})]
  BY <1>a, <1>d
<1>e. ASSUME NEW c \in Client, NEW f \in Cmd \union {Request}
      PROVE  [inbound EXCEPT ![c] = Append(@, f)] \in [Client -> Seq(Cmd \union {Request})]
  BY <1>a, <1>e
<1>1. ASSUME NEW c \in Client, TakeCommand(c) PROVE ServerInv' /\ seq' >= seq
  <2> DEFINE cmd == Head(inbound[c])
             new == [stage |-> "persisting", seq |-> seq + 1, cmd |-> cmd, sender |-> c]
  <2>1. /\ cmd \in Cmd /\ inbound' = [inbound EXCEPT ![c] = Tail(@)]
        /\ inbound' \in [Client -> Seq(Cmd \union {Request})]
        /\ bound' = bound /\ open' = open /\ throttled' = throttled
    BY <1>1, <1>d DEF TakeCommand, Request
  <2>2. CASE UNCHANGED <<doc, seq, docAt, handler>>
    BY Zenon, <2>1, <2>2, <1>c, <1>a DEF server
  <2>3. CASE SessionApply(cmd) /\ handler' = [handler EXCEPT ![c] = new]
    <3> HIDE DEF cmd
    <3>1. /\ seq' = seq + 1 /\ seq' \in Nat /\ doc' \in Doc /\ docAt' \in Seq(Doc)
          /\ Len(docAt') = seq' + 1 /\ docAt'[seq' + 1] = doc'
      BY Zenon, <2>1, <2>3, SessionApplyFrame
    <3>2. new \in Handling /\ new.seq = seq + 1
      BY <2>1, <1>a DEF Handling
    <3> HIDE DEF new
    <3>3. handler' \in [Client -> Handling] /\ handler'[c] = new
          /\ \A x \in Client \ {c} : handler'[x] = handler[x]
      BY Zenon, <2>3, <3>2, <1>a
    <3>4. \A x \in Client : Busy(handler'[x]) => handler'[x].seq <= seq'
      <4>1. new.seq <= seq' /\ seq <= seq'
        BY <3>1, <3>2, <1>a
      <4>2. ASSUME NEW x \in Client \ {c}, Busy(handler[x]) PROVE handler[x].seq <= seq'
        <5>1. handler[x].seq \in Nat /\ handler[x].seq <= seq
          BY Zenon, <4>2, <1>a, BusyIs DEF ServerInv
        <5> QED
          BY <5>1, <4>1, <3>1, <1>a
      <4> QED
        BY Zenon, <4>1, <4>2, <3>3
    <3>5. \A o \in Opener : open'[o].stage \in {"persisting", "rebroadcasting"} => open'[o].seq <= seq'
      <4>1. ASSUME NEW o \in Opener, open[o].stage \in {"persisting", "rebroadcasting"}
            PROVE  open[o].seq <= seq + 1
        <5>1. open[o].seq \in Nat /\ open[o].seq <= seq
          BY Zenon, <4>1, <1>a, OpeningIs DEF ServerInv
        <5> QED
          BY <5>1, <1>a
      <4> QED
        BY Zenon, <4>1, <3>1, <2>1
    <3> QED
      BY <2>1, <3>1, <3>3, <3>4, <3>5, <1>a DEF ServerInv, Busy
  <2> QED
    BY Zenon, <1>1, <2>2, <2>3 DEF TakeCommand
<1>2. ASSUME NEW c \in Client, Persisted(c) \/ PersistFailed(c) PROVE ServerInv' /\ seq' >= seq
  <2>1. /\ handler' = [handler EXCEPT ![c] = Idle] /\ UNCHANGED <<server, open, inbound, throttled>>
    BY Zenon, <1>2 DEF Persisted, PersistFailed
  <2>2. handler' \in [Client -> Handling] /\ \A x \in Client : handler'[x] \in {Idle, handler[x]}
    BY Zenon, <2>1, <1>a
  <2>3. \A x \in Client : Busy(handler'[x]) => handler'[x].seq <= seq
    BY Zenon, <2>2, <1>a DEF ServerInv
  <2>4. \A o \in Opener : open'[o].stage \in {"persisting", "rebroadcasting"} => open'[o].seq <= seq
    BY Zenon, <2>1 DEF ServerInv
  <2> QED
    BY Zenon, <2>1, <2>2, <2>3, <2>4, <1>a, <1>b
<1>3. ASSUME NEW c \in Client, TakeRequest(c) PROVE ServerInv' /\ seq' >= seq
  <2>1. throttled' \in [Client -> BOOLEAN]
    BY Zenon, <1>3, <1>a, SyncAssumption DEF TakeRequest
  <2> QED
    BY Zenon, <1>3, <2>1, <1>c, <1>d DEF TakeRequest
<1>4. ASSUME NEW c \in Client, ThrottleExpires(c) PROVE ServerInv' /\ seq' >= seq
  <2>1. throttled' \in [Client -> BOOLEAN]
    BY Zenon, <1>4, <1>a DEF ThrottleExpires
  <2> QED
    BY Zenon, <1>4, <2>1, <1>a, <1>c DEF ThrottleExpires
<1>5. ASSUME NEW o \in Opener, CheckLoaded(o) PROVE ServerInv' /\ seq' >= seq
  <2> DEFINE d == CHOOSE d \in Loaded : TRUE
             new == IF Loaded = {} THEN [stage |-> "importing"]
                    ELSE [stage |-> "rebroadcasting", seq |-> seq, cmd |-> Opened(d, doc[d])]
  <2>1. /\ open' = [open EXCEPT ![o] = new] /\ UNCHANGED <<server, handler, inbound, throttled>>
    BY Zenon, <1>5 DEF CheckLoaded
  <2>2. new \in OpenStage /\ (new.stage = "importing" \/ new.seq = seq)
    <3>1. CASE Loaded = {}
      BY Zenon, <3>1 DEF OpenStage
    <3>2. CASE Loaded # {}
      <4>1. d \in Dataset /\ doc[d] \in Given
        BY Zenon, <3>2 DEF Loaded, ServerInv, Doc, Present, Label
      <4>2. Opened(d, doc[d]) \in Cmd
        BY Zenon, <4>1, CommandsTyped
      <4> HIDE DEF d
      <4> QED
        BY Zenon, <3>2, <4>2, <1>a DEF OpenStage
    <3> QED
      BY Zenon, <3>1, <3>2
  <2> HIDE DEF new
  <2>3. /\ open' \in [Opener -> OpenStage] /\ open'[o] = new
        /\ \A x \in Opener \ {o} : open'[x] = open[x]
    BY Zenon, <2>1, <2>2, <1>a
  <2>4. \A x \in Opener : open'[x].stage \in {"persisting", "rebroadcasting"} => open'[x].seq <= seq
    BY Zenon, <2>2, <2>3, <1>a DEF ServerInv
  <2>5. \A x \in Client : Busy(handler'[x]) => handler'[x].seq <= seq
    BY Zenon, <2>1 DEF ServerInv
  <2> QED
    BY Zenon, <2>1, <2>3, <2>4, <2>5, <1>a, <1>b
<1>6. ASSUME NEW o \in Opener, ApplyOpen(o) PROVE ServerInv' /\ seq' >= seq
  <2> DEFINE d == CHOOSE d \in Loaded : TRUE
  <2>0. UNCHANGED <<handler, inbound, throttled>>
    BY Zenon, <1>6 DEF ApplyOpen
  <2>1. CASE /\ LostRace /\ UNCHANGED server
             /\ open' = [open EXCEPT ![o] =
                            [stage |-> "rebroadcasting", seq |-> seq, cmd |-> Opened(d, Original)]]
    <3> DEFINE new == [stage |-> "rebroadcasting", seq |-> seq, cmd |-> Opened(d, Original)]
    <3>1. Opened(d, Original) \in Cmd
      BY Zenon, <2>1, CommandsTyped DEF Loaded, LostRace, ServerInv
    <3> HIDE DEF d
    <3>2. new \in OpenStage /\ new.seq = seq
      BY Zenon, <3>1, <1>a DEF OpenStage
    <3> HIDE DEF new
    <3>3. /\ open' \in [Opener -> OpenStage] /\ open'[o] = new
          /\ \A x \in Opener \ {o} : open'[x] = open[x]
      BY Zenon, <2>1, <3>2, <1>a DEF new
    <3>4. \A x \in Opener : open'[x].stage \in {"persisting", "rebroadcasting"} => open'[x].seq <= seq
      BY Zenon, <3>2, <3>3, <1>a DEF ServerInv
    <3>5. \A x \in Client : Busy(handler'[x]) => handler'[x].seq <= seq
      BY Zenon, <2>0 DEF ServerInv
    <3> QED
      BY Zenon, <2>0, <2>1, <3>3, <3>4, <3>5, <1>a, <1>b
  <2>2. CASE /\ SessionApply(Opened(o, Original)) /\ bound' = bound \union {o}
             /\ open' = [open EXCEPT ![o] =
                            [stage |-> "persisting", seq |-> seq + 1, cmd |-> Opened(o, Original)]]
    <3> DEFINE cmd == Opened(o, Original)
               new == [stage |-> "persisting", seq |-> seq + 1, cmd |-> cmd]
    <3>1. cmd \in Cmd /\ bound' \subseteq Dataset
      BY Zenon, <2>2, CommandsTyped DEF Dataset, ServerInv
    <3> HIDE DEF cmd
    <3>2. /\ seq' = seq + 1 /\ seq' \in Nat /\ doc' \in Doc /\ docAt' \in Seq(Doc)
          /\ Len(docAt') = seq' + 1 /\ docAt'[seq' + 1] = doc'
      BY Zenon, <2>2, <3>1, SessionApplyFrame DEF cmd
    <3>3. new \in OpenStage /\ new.seq = seq + 1
      BY <3>1, <1>a DEF OpenStage
    <3> HIDE DEF new
    <3>4. /\ open' \in [Opener -> OpenStage] /\ open'[o] = new
          /\ \A x \in Opener \ {o} : open'[x] = open[x]
      BY Zenon, <2>2, <3>3, <1>a DEF new, cmd
    <3>5. \A x \in Client : Busy(handler'[x]) => handler'[x].seq <= seq'
      <4>2. ASSUME NEW x \in Client, Busy(handler[x]) PROVE handler[x].seq <= seq + 1
        <5>1. handler[x].seq \in Nat /\ handler[x].seq <= seq
          BY Zenon, <4>2, <1>a, BusyIs DEF ServerInv
        <5> QED
          BY <5>1, <1>a
      <4> QED
        BY Zenon, <4>2, <3>2, <2>0
    <3>6. \A x \in Opener : open'[x].stage \in {"persisting", "rebroadcasting"} => open'[x].seq <= seq'
      <4>1. ASSUME NEW x \in Opener, open[x].stage \in {"persisting", "rebroadcasting"}
            PROVE  open[x].seq <= seq + 1
        <5>1. open[x].seq \in Nat /\ open[x].seq <= seq
          BY Zenon, <4>1, <1>a, OpeningIs DEF ServerInv
        <5> QED
          BY <5>1, <1>a
      <4>2. new.seq <= seq + 1
        BY <3>3, <1>a
      <4> QED
        BY Zenon, <4>1, <4>2, <3>2, <3>4
    <3> QED
      BY <2>0, <3>1, <3>2, <3>4, <3>5, <3>6, <1>a DEF ServerInv, Busy
  <2> QED
    BY Zenon, <1>6, <2>1, <2>2 DEF ApplyOpen
<1>7. ASSUME NEW o \in Opener, AnnounceOpen(o) \/ OpenPersistFailed(o) PROVE ServerInv' /\ seq' >= seq
  <2> DEFINE done == [stage |-> "done"]
  <2>1. open' = [open EXCEPT ![o] = done] /\ UNCHANGED <<server, handler, inbound, throttled>>
    BY Zenon, <1>7 DEF AnnounceOpen, OpenPersistFailed
  <2>2. done \in OpenStage /\ done.stage = "done"
    BY Zenon DEF OpenStage
  <2> HIDE DEF done
  <2>3. open' \in [Opener -> OpenStage] /\ \A x \in Opener : open'[x] \in {done, open[x]}
    BY Zenon, <2>1, <2>2, <1>a
  <2>4. \A x \in Opener : open'[x].stage \in {"persisting", "rebroadcasting"} => open'[x].seq <= seq
    BY Zenon, <2>2, <2>3 DEF ServerInv
  <2>5. \A x \in Client : Busy(handler'[x]) => handler'[x].seq <= seq
    BY Zenon, <2>1 DEF ServerInv
  <2> QED
    BY Zenon, <2>1, <2>3, <2>4, <2>5, <1>a, <1>b
<1>8. ASSUME NEW c \in Client, NEW cmd \in Cmd, SendCommand(c, cmd) PROVE ServerInv' /\ seq' >= seq
  BY Zenon, <1>8, <1>a, <1>c, <1>e DEF SendCommand
<1>9. ASSUME NEW c \in Client, Edit(c) PROVE ServerInv' /\ seq' >= seq
  <2>1. Present(bridge[c].doc) \subseteq Dataset
    BY Zenon DEF ClientInv, Sound, Bridge, Doc, Present
  <2> QED
    BY Zenon, <1>8, <1>9, <2>1, CommandsTyped DEF Edit
<1>10. ASSUME NEW c \in Client, NEW b, RequestResync(c, b), UNCHANGED <<server, handler, open, throttled>>
       PROVE  ServerInv' /\ seq' >= seq
  <2>1. inbound' \in [Client -> Seq(Cmd \union {Request})]
    BY Zenon, <1>10, <1>a, <1>e DEF RequestResync
  <2> QED
    BY Zenon, <1>10, <2>1, <1>a, <1>c
<1>11. ASSUME NEW c \in Client, Timer(c) PROVE ServerInv' /\ seq' >= seq
  BY Zenon, <1>10, <1>11 DEF Timer, GraceExpires, RetryExpires
<1>12. ASSUME NEW c \in Client, Deliver(c) \/ RequestAges(c) \/ Join(c) PROVE ServerInv' /\ seq' >= seq
  <2>1. UNCHANGED <<server, handler, open, inbound, throttled>>
    BY Zenon, <1>12
       DEF Deliver, PushSnapshot, ReceivePushed, ReceiveSnapshot, ReceiveSequenced,
                 RequestAges, Join
  <2> QED
    BY Zenon, <2>1, <1>a, <1>c
<1>13. ASSUME NEW c \in Client, Disconnect(c) PROVE ServerInv' /\ seq' >= seq
  <2> DEFINE new == IF handler[c] = Idle THEN Idle ELSE [handler[c] EXCEPT !.sender = Server]
  <2>1. /\ handler' = [handler EXCEPT ![c] = new] /\ UNCHANGED <<server, open>>
        /\ inbound' = [inbound EXCEPT ![c] = <<>>] /\ throttled' = [throttled EXCEPT ![c] = FALSE]
    BY Zenon, <1>13 DEF Disconnect
  <2>2. new \in Handling /\ (Busy(new) => Busy(handler[c]) /\ new.seq = handler[c].seq)
    <3>1. CASE handler[c] = Idle
      BY Zenon, <3>1, <1>a
    <3>2. CASE handler[c] # Idle
      BY Zenon, <3>2, <1>a DEF Handling, Busy
    <3> QED
      BY Zenon, <3>1, <3>2
  <2> HIDE DEF new
  <2>3. /\ handler' \in [Client -> Handling] /\ handler'[c] = new
        /\ \A x \in Client \ {c} : handler'[x] = handler[x]
    BY Zenon, <2>1, <2>2, <1>a
  <2>4. \A x \in Client : Busy(handler'[x]) => handler'[x].seq <= seq
    BY Zenon, <2>2, <2>3 DEF ServerInv
  <2>5. inbound' \in [Client -> Seq(Cmd \union {Request})] /\ throttled' \in [Client -> BOOLEAN]
    BY <2>1, <1>a
  <2>6. \A x \in Opener : open'[x].stage \in {"persisting", "rebroadcasting"} => open'[x].seq <= seq
    BY Zenon, <2>1 DEF ServerInv
  <2> QED
    BY Zenon, <2>1, <2>3, <2>4, <2>5, <2>6, <1>a, <1>b
<1>14. CASE UNCHANGED vars
  BY Zenon, <1>14, <1>a, <1>c DEF vars
<1> QED
  BY Zenon, <1>1, <1>2, <1>3, <1>4, <1>5, <1>6, <1>7, <1>9, <1>11, <1>12, <1>13, <1>14
     DEF Next, Serve, Opening

(* broadcast::Sender::send *)
LEMMA BroadcastFrame ==
    ASSUME QueueInv, NEW s \in Nat, NEW cmd \in Cmd, NEW sender \in Client \union {Server},
           Broadcast(s, cmd, sender)
    PROVE  /\ rx' \in [Client -> Seq(Item)] /\ lagged' \in [Client -> BOOLEAN]
           /\ \A c \in Client :
                 /\ Len(rx'[c]) <= Capacity
                 /\ \A i \in 1..Len(rx'[c]) :
                       \/ rx'[c][i] = [seq |-> s, cmd |-> cmd, sender |-> sender]
                       \/ \E j \in 1..Len(rx[c]) : rx'[c][i] = rx[c][j]
<1> DEFINE item == [seq |-> s, cmd |-> cmd, sender |-> sender]
           Full(c) == Len(rx[c]) = Capacity
           base(c) == IF Full(c) THEN Tail(rx[c]) ELSE rx[c]
<1>1. /\ rx' = [c \in Client |-> IF c \notin Subscribed THEN rx[c] ELSE Append(base(c), item)]
      /\ lagged' = [c \in Client |-> lagged[c] \/ (c \in Subscribed /\ Full(c))]
  BY Zenon DEF Broadcast
<1>2. item \in Item
  BY Zenon DEF Item
<1> HIDE DEF item
<1>3. ASSUME NEW c \in Client
      PROVE  /\ base(c) \in Seq(Item) /\ Len(base(c)) + 1 <= Capacity
             /\ \A i \in 1..Len(base(c)) : \E j \in 1..Len(rx[c]) : base(c)[i] = rx[c][j]
  <2>1. rx[c] \in Seq(Item) /\ Len(rx[c]) <= Capacity /\ Capacity \in Nat \ {0} /\ Len(rx[c]) \in Nat
    BY SyncAssumption DEF QueueInv
  <2>2. CASE Full(c)
    <3>1. rx[c] # <<>>
      BY Zenon, <2>1, <2>2
    <3>2. /\ Tail(rx[c]) \in Seq(Item) /\ Len(Tail(rx[c])) = Len(rx[c]) - 1
          /\ \A i \in 1..(Len(rx[c]) - 1) : Tail(rx[c])[i] = rx[c][i + 1] /\ i + 1 \in 1..Len(rx[c])
      BY <2>1, <3>1
    <3> QED
      BY <2>1, <2>2, <3>2
  <2>3. CASE ~Full(c)
    BY <2>1, <2>3
  <2> QED
    BY Zenon, <2>2, <2>3
<1> HIDE DEF base
<1>4. ASSUME NEW c \in Client
      PROVE  /\ rx'[c] \in Seq(Item) /\ Len(rx'[c]) <= Capacity
             /\ \A i \in 1..Len(rx'[c]) : rx'[c][i] = item \/ \E j \in 1..Len(rx[c]) : rx'[c][i] = rx[c][j]
  <2>1. CASE c \notin Subscribed
    <3>1. rx'[c] = rx[c]
      BY Zenon, <1>1, <2>1
    <3> QED
      BY Zenon, <3>1 DEF QueueInv
  <2>2. CASE c \in Subscribed
    <3>1. rx'[c] = Append(base(c), item)
      BY Zenon, <1>1, <2>2
    <3> DEFINE n == Len(base(c))
    <3>2. /\ n \in Nat /\ Len(rx'[c]) = n + 1 /\ rx'[c] \in Seq(Item)
          /\ \A i \in 1..(n + 1) : i \in 1..n \/ i = n + 1
          /\ rx'[c][n + 1] = item /\ \A i \in 1..n : rx'[c][i] = base(c)[i]
      BY <3>1, <1>2, <1>3
    <3> QED
      BY <3>2, <1>3
  <2> QED
    BY Zenon, <2>1, <2>2
<1>5. rx' \in [Client -> Seq(Item)] /\ lagged' \in [Client -> BOOLEAN]
  BY Zenon, <1>1, <1>4 DEF QueueInv
<1> QED
  BY Zenon, <1>4, <1>5 DEF item

LEMMA TailIs ==
    ASSUME NEW T, NEW q \in Seq(T), q # <<>>
    PROVE  /\ Head(q) \in T /\ Head(q) = q[1] /\ 1 \in 1..Len(q) /\ Tail(q) \in Seq(T)
           /\ Len(q) \in Nat /\ Len(Tail(q)) = Len(q) - 1 /\ Len(Tail(q)) <= Len(q)
           /\ \A i \in 1..Len(Tail(q)) : Tail(q)[i] = q[i + 1] /\ i + 1 \in 1..Len(q)
OBVIOUS

LEMMA QueueStep == SafeInv /\ [Next]_vars => QueueInv'
<1> SUFFICES ASSUME SafeInv, [Next]_vars PROVE QueueInv'
  BY Zenon
<1>s. ServerInv /\ QueueInv /\ ClientInv
  BY Zenon DEF SafeInv
<1>t. seq \in Nat /\ seq' \in Nat /\ seq <= seq'
  BY Zenon, <1>s, ServerStep DEF ServerInv
<1>a. /\ rx \in [Client -> Seq(Item)] /\ lagged \in [Client -> BOOLEAN]
      /\ unicast \in [Client -> Seq(Snap)] /\ pushed \in [Client -> Seq(Snap)]
      /\ Snapshot \in Snap /\ Snapshot.seq = seq
  BY Zenon, <1>s DEF QueueInv, Snap, Snapshot, ServerInv
<1> DEFINE Low(q) == \A i \in 1..Len(q) : q[i].seq <= seq
<1>b. \A c \in Client : Len(rx[c]) <= Capacity /\ Low(rx[c]) /\ Low(unicast[c]) /\ Low(pushed[c])
  BY Zenon, <1>s DEF QueueInv
<1>c. ASSUME rx' \in [Client -> Seq(Item)], lagged' \in [Client -> BOOLEAN],
             unicast' \in [Client -> Seq(Snap)], pushed' \in [Client -> Seq(Snap)],
             \A c \in Client : Len(rx'[c]) <= Capacity /\ Low(rx'[c])
                               /\ Low(unicast'[c]) /\ Low(pushed'[c])
      PROVE  QueueInv'
  <2>1. ASSUME NEW T, NEW q \in Seq(T), T \in {Item, Snap}, Low(q)
        PROVE  \A i \in 1..Len(q) : q[i].seq <= seq'
    <3>1. \A i \in 1..Len(q) : q[i] \in T
      BY <2>1
    <3>2. \A i \in 1..Len(q) : q[i].seq \in Nat
      BY Zenon, <2>1, <3>1 DEF Item, Snap
    <3> QED
      BY <2>1, <3>2, <1>t
  <2> HIDE DEF Low
  <2> QED
    BY Zenon, <1>c, <2>1 DEF QueueInv
<1>d. ASSUME NEW T, T \in {Item, Snap}, NEW q \in Seq(T), q # <<>>, Low(q) PROVE Low(Tail(q))
  BY Zenon, <1>d, TailIs
<1>e. ASSUME NEW x \in Snap, x.seq = seq PROVE <<x>> \in Seq(Snap) /\ Low(<<x>>)
  BY <1>e, <1>t
<1>f. <<>> \in Seq(Snap) /\ <<>> \in Seq(Item) /\ Low(<<>>) /\ Len(<<>>) <= Capacity
  BY SyncAssumption
<1>g. ASSUME NEW q \in Seq(Snap), Low(q) PROVE Append(q, Snapshot) \in Seq(Snap) /\ Low(Append(q, Snapshot))
  <2> DEFINE x == Snapshot
  <2>1. x \in Snap /\ x.seq <= seq
    BY <1>a, <1>t
  <2> HIDE DEF x
  <2>2. Append(q, x) \in Seq(Snap) /\ Low(Append(q, x))
    BY <2>1, <1>g
  <2> QED
    BY Zenon, <2>2 DEF x
<1> HIDE DEF Low
<1>1. ASSUME NEW s \in Nat, s <= seq, NEW cmd \in Cmd, NEW sender \in Client \union {Server},
             Broadcast(s, cmd, sender), UNCHANGED <<unicast, pushed>>
      PROVE  QueueInv'
  <2> DEFINE item == [seq |-> s, cmd |-> cmd, sender |-> sender]
  <2>1. /\ rx' \in [Client -> Seq(Item)] /\ lagged' \in [Client -> BOOLEAN]
        /\ \A c \in Client :
              /\ Len(rx'[c]) <= Capacity
              /\ \A i \in 1..Len(rx'[c]) :
                    rx'[c][i] = item \/ \E j \in 1..Len(rx[c]) : rx'[c][i] = rx[c][j]
    BY Zenon, <1>1, <1>s, BroadcastFrame
  <2>2. item.seq <= seq
    BY Zenon, <1>1
  <2> HIDE DEF item
  <2>3. \A c \in Client : Low(rx'[c])
    BY ZenonT(40), <2>1, <2>2, <1>b DEF Low
  <2> QED
    BY Zenon, <1>1, <2>1, <2>3, <1>a, <1>b, <1>c
<1>2. ASSUME NEW c \in Client, Persisted(c) PROVE QueueInv'
  <2>1. /\ handler[c].seq \in Nat /\ handler[c].seq <= seq /\ handler[c].cmd \in Cmd
        /\ handler[c].sender \in Client \union {Server}
    BY Zenon, <1>2, <1>s, BusyIs DEF Persisted, ServerInv, Busy
  <2> QED
    BY Zenon, <1>2, <2>1, <1>1 DEF Persisted
<1>3. ASSUME NEW o \in Opener, AnnounceOpen(o) PROVE QueueInv'
  <2>1. open[o].seq \in Nat /\ open[o].seq <= seq /\ open[o].cmd \in Cmd
    BY Zenon, <1>3, <1>s, OpeningIs DEF AnnounceOpen, ServerInv
  <2> QED
    BY Zenon, <1>3, <2>1, <1>1 DEF AnnounceOpen
<1>4. ASSUME NEW c \in Client, TakeRequest(c) PROVE QueueInv'
  <2>1. UNCHANGED <<rx, lagged, pushed>>
    BY Zenon, <1>4 DEF TakeRequest
  <2>2. CASE unicast' = unicast
    BY Zenon, <2>1, <2>2, <1>a, <1>b, <1>c
  <2>3. CASE unicast' = [unicast EXCEPT ![c] = Append(@, Snapshot)]
    <3> DEFINE new == Append(unicast[c], Snapshot)
    <3>1. new \in Seq(Snap) /\ Low(new)
      BY Zenon, <1>a, <1>b, <1>g
    <3>2. unicast' = [unicast EXCEPT ![c] = new]
      BY Zenon, <2>3
    <3> HIDE DEF new
    <3>3. unicast' \in [Client -> Seq(Snap)] /\ \A x \in Client : Low(unicast'[x])
      BY Zenon, <3>1, <3>2, <1>a, <1>b
    <3> QED
      BY Zenon, <2>1, <3>3, <1>a, <1>b, <1>c
  <2> QED
    BY Zenon, <1>4, <2>2, <2>3 DEF TakeRequest
<1>5. ASSUME NEW c \in Client, PushSnapshot(c) \/ Join(c) PROVE QueueInv'
  <2>1. /\ pushed' = [pushed EXCEPT ![c] = <<Snapshot>>] /\ UNCHANGED <<rx, unicast>>
        /\ lagged' \in {lagged, [lagged EXCEPT ![c] = FALSE]}
    BY Zenon, <1>5 DEF PushSnapshot, Join
  <2> DEFINE new == <<Snapshot>>
  <2>2. new \in Seq(Snap) /\ Low(new)
    BY Zenon, <1>a, <1>e
  <2> HIDE DEF new
  <2>3. pushed' \in [Client -> Seq(Snap)] /\ \A x \in Client : Low(pushed'[x])
    BY Zenon, <2>1, <2>2, <1>a, <1>b DEF new
  <2>4. lagged' \in [Client -> BOOLEAN]
    BY Zenon, <2>1, <1>a
  <2> QED
    BY Zenon, <2>1, <2>3, <2>4, <1>a, <1>b, <1>c
<1>6. ASSUME NEW c \in Client, ReceivePushed(c) PROVE QueueInv'
  <2>1. pushed' = [pushed EXCEPT ![c] = <<>>] /\ UNCHANGED <<rx, lagged, unicast>>
    BY Zenon, <1>6 DEF ReceivePushed
  <2>2. pushed' \in [Client -> Seq(Snap)] /\ \A x \in Client : Low(pushed'[x])
    BY Zenon, <2>1, <1>a, <1>b, <1>f
  <2> QED
    BY Zenon, <2>1, <2>2, <1>a, <1>b, <1>c
<1>7. ASSUME NEW c \in Client, ReceiveSnapshot(c) PROVE QueueInv'
  <2> DEFINE new == Tail(unicast[c])
  <2>1. unicast' = [unicast EXCEPT ![c] = new] /\ UNCHANGED <<rx, lagged, pushed>> /\ unicast[c] # <<>>
    BY Zenon, <1>7 DEF ReceiveSnapshot
  <2>2. new \in Seq(Snap) /\ Low(new)
    BY Zenon, <2>1, <1>a, <1>b, <1>d, TailIs
  <2> HIDE DEF new
  <2>3. unicast' \in [Client -> Seq(Snap)] /\ \A x \in Client : Low(unicast'[x])
    BY Zenon, <2>1, <2>2, <1>a, <1>b
  <2> QED
    BY Zenon, <2>1, <2>3, <1>a, <1>b, <1>c
<1>8. ASSUME NEW c \in Client, ReceiveSequenced(c) PROVE QueueInv'
  <2> DEFINE new == Tail(rx[c])
  <2>1. rx' = [rx EXCEPT ![c] = new] /\ UNCHANGED <<lagged, unicast, pushed>> /\ rx[c] # <<>>
    BY Zenon, <1>8 DEF ReceiveSequenced
  <2>2. new \in Seq(Item) /\ Low(new) /\ Len(new) <= Capacity
    <3>1. rx[c] \in Seq(Item) /\ Len(rx[c]) <= Capacity /\ Low(rx[c]) /\ Capacity \in Nat
      BY Zenon, <1>a, <1>b, SyncAssumption
    <3>2. Tail(rx[c]) \in Seq(Item) /\ Len(Tail(rx[c])) = Len(rx[c]) - 1 /\ Len(rx[c]) \in Nat
      BY Zenon, <2>1, <3>1, TailIs
    <3>3. Low(Tail(rx[c]))
      BY Zenon, <2>1, <3>1, <1>d
    <3> QED
      BY <3>1, <3>2, <3>3
  <2> HIDE DEF new
  <2>3. rx' \in [Client -> Seq(Item)] /\ \A x \in Client : Low(rx'[x]) /\ Len(rx'[x]) <= Capacity
    BY Zenon, <2>1, <2>2, <1>a, <1>b
  <2> QED
    BY Zenon, <2>1, <2>3, <1>a, <1>b, <1>c
<1>9. ASSUME NEW c \in Client, Disconnect(c) PROVE QueueInv'
  <2>1. /\ rx' = [rx EXCEPT ![c] = <<>>] /\ lagged' = [lagged EXCEPT ![c] = FALSE]
        /\ unicast' = [unicast EXCEPT ![c] = <<>>] /\ pushed' = [pushed EXCEPT ![c] = <<>>]
    BY Zenon, <1>9 DEF Disconnect
  <2>2. rx' \in [Client -> Seq(Item)] /\ \A x \in Client : Low(rx'[x]) /\ Len(rx'[x]) <= Capacity
    BY Zenon, <2>1, <1>a, <1>b, <1>f
  <2>3. unicast' \in [Client -> Seq(Snap)] /\ \A x \in Client : Low(unicast'[x])
    BY Zenon, <2>1, <1>a, <1>b, <1>f
  <2>4. pushed' \in [Client -> Seq(Snap)] /\ \A x \in Client : Low(pushed'[x])
    BY Zenon, <2>1, <1>a, <1>b, <1>f
  <2>5. lagged' \in [Client -> BOOLEAN]
    BY Zenon, <2>1, <1>a
  <2> QED
    BY Zenon, <2>2, <2>3, <2>4, <2>5, <1>c
<1>10. ASSUME UNCHANGED queues PROVE QueueInv'
  BY Zenon, <1>10, <1>a, <1>b, <1>c DEF queues
<1>11. ASSUME NEW c \in Client, \/ Edit(c) \/ TakeCommand(c) \/ Timer(c) \/ PersistFailed(c)
                               \/ ThrottleExpires(c) \/ RequestAges(c)
       PROVE  QueueInv'
  BY Zenon, <1>10, <1>11
     DEF Edit, SendCommand, TakeCommand, Timer, GraceExpires, RetryExpires,
                      PersistFailed, ThrottleExpires, RequestAges
<1>12. ASSUME NEW o \in Opener, CheckLoaded(o) \/ ApplyOpen(o) \/ OpenPersistFailed(o) PROVE QueueInv'
  BY Zenon, <1>10, <1>12 DEF CheckLoaded, ApplyOpen, OpenPersistFailed
<1>13. CASE UNCHANGED vars
  BY Zenon, <1>10, <1>13 DEF vars
<1> QED
  BY Zenon, <1>2, <1>3, <1>4, <1>5, <1>6, <1>7, <1>8, <1>9, <1>11, <1>12, <1>13
     DEF Next, Serve, Deliver, Opening

LEMMA SoundGrows ==
    ASSUME NEW b, NEW n \in Nat, NEW m \in Nat, n <= m, Sound(b, n) PROVE Sound(b, m)
<1>1. b.last \in Int /\ b.buf \in Seq(Entry)
  BY DEF Sound, Bridge, NoSeq
<1>2. \A i \in 1..Len(b.buf) : b.buf[i] \in Entry
  BY <1>1
<1>3. \A i \in 1..Len(b.buf) : b.buf[i].seq \in Nat
  BY Zenon, <1>2 DEF Entry
<1>4. Within(b, m)
  BY <1>1, <1>3 DEF Sound, Within
<1> QED
  BY Zenon, <1>4 DEF Sound

LEMMA SoundKeeps ==
    ASSUME NEW b, NEW n \in Nat, Sound(b, n),
           NEW k, Keeps(k, b, Fields \ {"last", "buf"}),
           {k.on, k.inFlight, k.recent, k.grace, k.retry} \subseteq BOOLEAN,
           k.pending \in Seq(Cmd), k.doc \in Doc
    PROVE  Sound(k, n) /\ k.last = b.last /\ k.buf = b.buf
<1>1. k.last = b.last /\ k.buf = b.buf
  BY Zenon DEF Keeps, Fields
<1>2. Bridge(k)
  BY Zenon, <1>1 DEF Sound, Bridge, Keeps
<1> QED
  BY Zenon, <1>1, <1>2 DEF Sound, Within, Beyond

(* A bridge that is told its own command was applied. *)
Acked(b, own) == IF own /\ b.pending # <<>> THEN [b EXCEPT !.pending = Tail(@)] ELSE b

LEMMA AckedFrame ==
    ASSUME NEW b, NEW n \in Nat, Sound(b, n), NEW own \in BOOLEAN
    PROVE  /\ Sound(Acked(b, own), n) /\ Keeps(Acked(b, own), b, {"pending"})
           /\ Acked(b, own).pending = IF own /\ b.pending # <<>> THEN Tail(b.pending) ELSE b.pending
<1> DEFINE k == Acked(b, own)
<1>1. /\ Keeps(k, b, {"pending"})
      /\ k.pending = IF own /\ b.pending # <<>> THEN Tail(b.pending) ELSE b.pending
  BY Zenon DEF Acked, Sound, Bridge, Keeps, Shaped, Fields
<1> HIDE DEF k
<1>2. b.pending \in Seq(Cmd) /\ (b.pending # <<>> => Tail(b.pending) \in Seq(Cmd))
  BY Zenon, TailIs DEF Sound, Bridge
<1>3. /\ Keeps(k, b, Fields \ {"last", "buf"}) /\ k.pending \in Seq(Cmd) /\ k.doc \in Doc
      /\ {k.on, k.inFlight, k.recent, k.grace, k.retry} \subseteq BOOLEAN
  BY Zenon, <1>1, <1>2 DEF Keeps, Fields, Sound, Bridge
<1>4. Sound(k, n)
  BY Zenon, <1>3, SoundKeeps
<1> QED
  BY Zenon, <1>1, <1>4 DEF k

(* The entry a receiver makes of an item. *)
LEMMA EntryOf ==
    ASSUME NEW m \in Item, NEW own \in BOOLEAN
    PROVE  [seq |-> m.seq, cmd |-> IF own THEN Ack ELSE m.cmd] \in Entry
BY Zenon DEF Item, Entry

Forward(c) == Tracking(c) /\ Tracking(c)' => bridge'[c].last >= bridge[c].last

LEMMA ClientStep == SafeInv /\ [Next]_vars => ClientInv' /\ \A c \in Client : Forward(c)
<1> SUFFICES ASSUME SafeInv, [Next]_vars PROVE ClientInv' /\ \A c \in Client : Forward(c)
  BY Zenon
<1>s. ServerInv /\ QueueInv /\ ClientInv
  BY Zenon DEF SafeInv
<1>t. seq \in Nat /\ seq' \in Nat /\ seq <= seq'
  BY Zenon, <1>s, ServerStep DEF ServerInv
<1>a. DOMAIN bridge = Client /\ \A c \in Client : Sound(bridge[c], seq) /\ bridge[c].last \in Int
  BY <1>s DEF ClientInv, Sound, Bridge, NoSeq
<1>b. ASSUME bridge' = bridge PROVE ClientInv' /\ \A c \in Client : Forward(c)
  <2>1. \A c \in Client : Sound(bridge[c], seq')
    BY Zenon, <1>a, <1>t, SoundGrows
  <2> QED
    BY <1>a, <1>b, <2>1 DEF ClientInv, Forward
<1>c. ASSUME NEW c \in Client, NEW k, bridge' = [bridge EXCEPT ![c] = k], Sound(k, seq),
             k.last >= bridge[c].last \/ ~k.on \/ ~bridge[c].on
      PROVE  ClientInv' /\ \A x \in Client : Forward(x)
  <2>1. /\ DOMAIN bridge' = Client /\ bridge'[c] = k
        /\ \A x \in Client \ {c} : bridge'[x] = bridge[x]
    BY Zenon, <1>a, <1>c
  <2>2. \A x \in Client : Sound(bridge'[x], seq')
    <3>1. \A x \in Client : Sound(bridge'[x], seq)
      BY Zenon, <2>1, <1>a, <1>c
    <3> QED
      BY Zenon, <3>1, <1>t, SoundGrows
  <2>3. \A x \in Client : Forward(x)
    BY <2>1, <1>a, <1>c DEF Forward, Tracking
  <2> QED
    BY Zenon, <2>1, <2>2, <2>3 DEF ClientInv
<1>d. ASSUME NEW c \in Client, NEW k, bridge' = [bridge EXCEPT ![c] = k],
             Keeps(k, bridge[c], Fields \ {"last", "buf"}),
             {k.on, k.inFlight, k.recent, k.grace, k.retry} \subseteq BOOLEAN,
             k.pending \in Seq(Cmd), k.doc \in Doc
      PROVE  ClientInv' /\ \A x \in Client : Forward(x)
  <2>1. Sound(k, seq) /\ k.last = bridge[c].last
    BY Zenon, <1>a, <1>d, <1>t, SoundKeeps
  <2>2. k.last >= bridge[c].last
    BY <2>1, <1>a
  <2> QED
    BY Zenon, <2>1, <2>2, <1>c, <1>d
<1>1. ASSUME NEW c \in Client, NEW cmd \in Cmd, SendCommand(c, cmd)
      PROVE  ClientInv' /\ \A x \in Client : Forward(x)
  <2> DEFINE b == bridge[c]
             k == [OnCommand(b, cmd) EXCEPT !.pending = Append(@, cmd), !.since = "edited"]
  <2>1. bridge' = [bridge EXCEPT ![c] = k]
    BY Zenon, <1>1 DEF SendCommand
  <2>2. Sound(b, seq) /\ Bridge(b) /\ b.doc \in Doc /\ b.pending \in Seq(Cmd)
    BY Zenon, <1>a DEF Sound, Bridge
  <2> HIDE DEF b
  <2>3. /\ Keeps(k, b, {"doc", "pending", "since"})
        /\ k.doc = Apply(b.doc, cmd) /\ k.pending = Append(b.pending, cmd)
    BY Zenon, <2>2 DEF OnCommand, Bridge, Keeps, Shaped, Fields
  <2> HIDE DEF k
  <2>4. k.doc \in Doc /\ k.pending \in Seq(Cmd)
    BY <2>2, <2>3, ApplyTyped
  <2>5. /\ Keeps(k, b, Fields \ {"last", "buf"})
        /\ {k.on, k.inFlight, k.recent, k.grace, k.retry} \subseteq BOOLEAN
    BY Zenon, <2>2, <2>3 DEF Keeps, Fields, Bridge
  <2> QED
    BY Zenon, <2>1, <2>4, <2>5, <1>d DEF b
<1>2. ASSUME NEW c \in Client, Edit(c) PROVE ClientInv' /\ \A x \in Client : Forward(x)
  <2>1. Present(bridge[c].doc) \subseteq Dataset
    BY Zenon, <1>a DEF Sound, Bridge, Doc, Present
  <2> QED
    BY Zenon, <1>1, <1>2, <2>1, CommandsTyped DEF Edit
<1>3. ASSUME NEW c \in Client, NEW snap \in Snap, snap.seq <= seq,
             bridge' = [bridge EXCEPT ![c] = AdoptSnapshot(@, snap)]
      PROVE  ClientInv' /\ \A x \in Client : Forward(x)
  <2> DEFINE k == AdoptSnapshot(bridge[c], snap)
  <2>1. Sound(k, seq) /\ k.last >= bridge[c].last
    BY Zenon, <1>3, <1>a, <1>t, AdoptFrame
  <2> HIDE DEF k
  <2> QED
    BY Zenon, <1>3, <2>1, <1>c DEF k
<1>4. ASSUME NEW c \in Client, ReceivePushed(c) \/ ReceiveSnapshot(c)
      PROVE  ClientInv' /\ \A x \in Client : Forward(x)
  <2>1. ASSUME NEW q \in Seq(Snap), q # <<>>, \A i \in 1..Len(q) : q[i].seq <= seq
        PROVE  Head(q) \in Snap /\ Head(q).seq <= seq
    BY Zenon, <2>1, TailIs
  <2>2. CASE ReceivePushed(c)
    BY Zenon, <2>1, <2>2, <1>3, <1>s DEF ReceivePushed, QueueInv
  <2>3. CASE ReceiveSnapshot(c)
    BY Zenon, <2>1, <2>3, <1>3, <1>s DEF ReceiveSnapshot, QueueInv
  <2> QED
    BY Zenon, <1>4, <2>2, <2>3
<1>5. ASSUME NEW c \in Client, ReceiveSequenced(c) PROVE ClientInv' /\ \A x \in Client : Forward(x)
  <2> DEFINE m == Head(rx[c])
             own == m.sender = c
             b == Acked(bridge[c], own)
             e == [seq |-> m.seq, cmd |-> IF own THEN Ack ELSE m.cmd]
             k == HandleSequenced(b, e)
  <2>1. bridge' = [bridge EXCEPT ![c] = k] /\ rx[c] # <<>>
    BY Zenon, <1>5 DEF ReceiveSequenced, Acked
  <2>2. m \in Item /\ m.seq <= seq
    BY ZenonT(40), <2>1, <1>s, TailIs DEF QueueInv
  <2>3. own \in BOOLEAN /\ e.seq = m.seq
    BY Zenon
  <2> HIDE DEF m, own
  <2>4. e \in Entry /\ e.seq <= seq
    BY Zenon, <2>2, <2>3, EntryOf
  <2>5. Sound(b, seq) /\ Keeps(b, bridge[c], {"pending"})
    BY Zenon, <2>3, <1>a, <1>t, AckedFrame
  <2> HIDE DEF b, e
  <2>6. b.last = bridge[c].last
    BY Zenon, <2>5 DEF Keeps, Fields
  <2>7. Sound(k, seq) /\ k.last >= b.last
    BY Zenon, <2>4, <2>5, <1>t, HandleFrame
  <2> HIDE DEF k
  <2> QED
    BY Zenon, <2>1, <2>6, <2>7, <1>c
<1>6. ASSUME NEW c \in Client, NEW b, Sound(b, seq), b.last = bridge[c].last, RequestResync(c, b)
      PROVE  ClientInv' /\ \A x \in Client : Forward(x)
  <2> DEFINE k == IF Requests(b) THEN Requested(b) ELSE b
  <2>1. bridge' = [bridge EXCEPT ![c] = k]
    BY Zenon, <1>6 DEF RequestResync
  <2>2. /\ Keeps(k, b, {"inFlight", "recent", "retry"})
        /\ {k.inFlight, k.recent, k.retry} \subseteq BOOLEAN
    BY Zenon, <1>6 DEF Requested, Sound, Bridge, Keeps, Shaped, Fields
  <2> HIDE DEF k
  <2>3. /\ Keeps(k, b, Fields \ {"last", "buf"}) /\ k.pending \in Seq(Cmd) /\ k.doc \in Doc
        /\ {k.on, k.inFlight, k.recent, k.grace, k.retry} \subseteq BOOLEAN
    BY Zenon, <1>6, <2>2 DEF Keeps, Fields, Sound, Bridge
  <2>4. Sound(k, seq) /\ k.last = b.last
    BY Zenon, <1>6, <2>3, <1>t, SoundKeeps
  <2>5. k.last >= bridge[c].last
    BY <1>6, <2>4, <1>a
  <2> QED
    BY Zenon, <2>1, <2>4, <2>5, <1>c
<1>7. ASSUME NEW c \in Client, NEW b, Keeps(b, bridge[c], {"grace", "retry", "recent"}),
             {b.grace, b.retry, b.recent} \subseteq BOOLEAN
      PROVE  Sound(b, seq) /\ b.last = bridge[c].last
  <2>1. /\ Keeps(b, bridge[c], Fields \ {"last", "buf"}) /\ b.pending \in Seq(Cmd) /\ b.doc \in Doc
        /\ {b.on, b.inFlight, b.recent, b.grace, b.retry} \subseteq BOOLEAN
    BY Zenon, <1>7, <1>a DEF Keeps, Fields, Sound, Bridge
  <2> QED
    BY Zenon, <2>1, <1>a, <1>t, SoundKeeps
<1>8. ASSUME NEW c \in Client, Timer(c) PROVE ClientInv' /\ \A x \in Client : Forward(x)
  <2> DEFINE g == [bridge[c] EXCEPT !.grace = FALSE]
             h == [bridge[c] EXCEPT !.retry = FALSE, !.recent = FALSE]
  <2>1. /\ Keeps(g, bridge[c], {"grace", "retry", "recent"})
        /\ Keeps(h, bridge[c], {"grace", "retry", "recent"})
        /\ {g.grace, g.retry, g.recent} \subseteq BOOLEAN /\ {h.grace, h.retry, h.recent} \subseteq BOOLEAN
    BY ZenonT(40), <1>a DEF Sound, Bridge, Keeps, Shaped, Fields
  <2>2. RequestResync(c, g) \/ RequestResync(c, h)
    BY Zenon, <1>8 DEF Timer, GraceExpires, RetryExpires
  <2> HIDE DEF g, h
  <2> QED
    BY Zenon, <2>1, <2>2, <1>6, <1>7
<1>9. ASSUME NEW c \in Client, RequestAges(c) PROVE ClientInv' /\ \A x \in Client : Forward(x)
  <2> DEFINE k == [bridge[c] EXCEPT !.recent = FALSE]
  <2>1. bridge' = [bridge EXCEPT ![c] = k]
    BY Zenon, <1>9 DEF RequestAges
  <2>2. /\ Keeps(k, bridge[c], {"grace", "retry", "recent"})
        /\ {k.grace, k.retry, k.recent} \subseteq BOOLEAN
    BY Zenon, <1>a DEF Sound, Bridge, Keeps, Shaped, Fields
  <2> HIDE DEF k
  <2>3. Sound(k, seq) /\ k.last = bridge[c].last
    BY Zenon, <2>2, <1>7
  <2>4. k.last >= bridge[c].last
    BY <2>3, <1>a
  <2> QED
    BY Zenon, <2>1, <2>3, <2>4, <1>c
<1>10. ASSUME NEW c \in Client, Join(c) PROVE ClientInv' /\ \A x \in Client : Forward(x)
  <2> DEFINE k == [bridge[c] EXCEPT !.on = TRUE]
  <2>1. bridge' = [bridge EXCEPT ![c] = k]
    BY Zenon, <1>10 DEF Join
  <2>2. /\ Keeps(k, bridge[c], {"on"}) /\ k.on = TRUE
    BY Zenon, <1>a DEF Sound, Bridge, Keeps, Shaped, Fields
  <2> HIDE DEF k
  <2>3. /\ Keeps(k, bridge[c], Fields \ {"last", "buf"}) /\ k.pending \in Seq(Cmd) /\ k.doc \in Doc
        /\ {k.on, k.inFlight, k.recent, k.grace, k.retry} \subseteq BOOLEAN
    BY Zenon, <2>2, <1>a DEF Keeps, Fields, Sound, Bridge
  <2> QED
    BY Zenon, <2>1, <2>3, <1>d
<1>11. ASSUME NEW c \in Client, Disconnect(c) PROVE ClientInv' /\ \A x \in Client : Forward(x)
  <2>1. bridge' = [bridge EXCEPT ![c] = Disconnected]
    BY Zenon, <1>11 DEF Disconnect
  <2>2. /\ Shaped(Disconnected) /\ Disconnected.on = FALSE /\ Disconnected.last = -1
        /\ Disconnected.buf = <<>> /\ Disconnected.pending = <<>>
        /\ Disconnected.doc = [d \in Dataset |-> Gone]
        /\ {Disconnected.inFlight, Disconnected.recent, Disconnected.grace, Disconnected.retry} \subseteq BOOLEAN
    BY Zenon DEF Disconnected, Shaped, Fields, NoSeq
  <2>3. Bridge(Disconnected)
    <3>1. Disconnected.doc \in Doc
      BY Zenon, <2>2 DEF Doc, Label
    <3>2. Disconnected.buf \in Seq(Entry) /\ Disconnected.pending \in Seq(Cmd)
      BY <2>2
    <3>3. Disconnected.last \in Nat \union {NoSeq}
      BY Zenon, <2>2 DEF NoSeq
    <3>4. {Disconnected.on, Disconnected.inFlight, Disconnected.recent, Disconnected.grace, Disconnected.retry} \subseteq BOOLEAN
      BY Zenon, <2>2
    <3> QED
      BY Zenon, <2>2, <3>1, <3>2, <3>3, <3>4 DEF Bridge
  <2>4. Sound(Disconnected, seq)
    BY <2>2, <2>3, <1>t, SyncAssumption DEF Sound, Within, Sorted, Beyond
  <2> QED
    BY Zenon, <2>1, <2>2, <2>4, <1>c
<1>12. ASSUME NEW c \in Client,
              \/ Serve(c) \/ PushSnapshot(c) \/ PersistFailed(c) \/ ThrottleExpires(c)
       PROVE  ClientInv' /\ \A x \in Client : Forward(x)
  BY Zenon, <1>b, <1>12
     DEF Serve, TakeCommand, Persisted, TakeRequest, PushSnapshot, PersistFailed,
                     ThrottleExpires
<1>13. ASSUME NEW o \in Opener, Opening(o) \/ OpenPersistFailed(o)
       PROVE  ClientInv' /\ \A x \in Client : Forward(x)
  BY Zenon, <1>b, <1>13 DEF Opening, CheckLoaded, ApplyOpen, AnnounceOpen, OpenPersistFailed
<1>14. CASE UNCHANGED vars
  BY Zenon, <1>b, <1>14 DEF vars
<1> QED
  BY Zenon, <1>2, <1>4, <1>5, <1>8, <1>9, <1>10, <1>11, <1>12, <1>13, <1>14
     DEF Next, Deliver

LEMMA SafeInit == Init => SafeInv
<1> SUFFICES ASSUME Init PROVE SafeInv
  BY Zenon
<1>1. FirstDoc \in Doc
  BY Zenon DEF FirstDoc, Doc, Label, Given
<1>2. <<FirstDoc>> \in Seq(Doc) /\ Len(<<FirstDoc>>) = 1 /\ <<FirstDoc>>[1] = FirstDoc
  BY <1>1
<1>3. ServerInv
  <2>1. Idle \in Handling /\ Idle \in OpenStage /\ ~Busy(Idle) /\ Idle.stage = "idle"
    BY Zenon DEF Handling, OpenStage, Busy, Idle
  <2>2. /\ seq \in Nat /\ doc \in Doc /\ docAt \in Seq(Doc) /\ Len(docAt) = seq + 1
        /\ docAt[seq + 1] = doc /\ bound \subseteq Dataset
    BY <1>1, <1>2 DEF Init, Dataset
  <2>3. handler \in [Client -> Handling] /\ \A c \in Client : ~Busy(handler[c])
    BY Zenon, <2>1 DEF Init
  <2>4. open \in [Opener -> OpenStage] /\ \A o \in Opener : open[o].stage = "idle"
    BY Zenon, <2>1 DEF Init
  <2>5. inbound \in [Client -> Seq(Cmd \union {Request})] /\ throttled \in [Client -> BOOLEAN]
    BY SyncAssumption DEF Init
  <2> QED
    BY Zenon, <2>2, <2>3, <2>4, <2>5 DEF ServerInv
<1>4. QueueInv
  BY SyncAssumption DEF Init, QueueInv
<1>5. ClientInv
  <2> DEFINE b == [Disconnected EXCEPT !.on = TRUE, !.last = 0, !.doc = FirstDoc, !.mirror = Restored]
  <2>1. DOMAIN bridge = Client /\ \A c \in Client : bridge[c] = b
    BY Zenon DEF Init
  <2>2. /\ Shaped(b) /\ b.on = TRUE /\ b.last = 0 /\ b.buf = <<>> /\ b.pending = <<>>
        /\ b.doc = FirstDoc
        /\ {b.inFlight, b.recent, b.grace, b.retry} \subseteq BOOLEAN
    BY Zenon DEF Disconnected, Shaped, Fields
  <2> HIDE DEF b
  <2>3. b.buf \in Seq(Entry) /\ b.pending \in Seq(Cmd) /\ b.last \in Nat \union {NoSeq} /\ Len(b.buf) = 0
    BY <2>2 DEF NoSeq
  <2>4. Bridge(b)
    BY Zenon, <1>1, <2>2, <2>3 DEF Bridge
  <2>5. Sound(b, 0)
    BY <2>2, <2>3, <2>4, SyncAssumption DEF Sound, Within, Sorted, Beyond
  <2>6. seq = 0
    BY Zenon DEF Init
  <2> QED
    BY Zenon, <2>1, <2>5, <2>6 DEF ClientInv
<1> QED
  BY Zenon, <1>3, <1>4, <1>5 DEF SafeInv

LEMMA SafeStep == SafeInv /\ [Next]_vars => SafeInv'
BY Zenon, ServerStep, QueueStep, ClientStep DEF SafeInv

(* The inductive invariant of every session: types, the history of the     *)
(* document, seqs within it, and buffers sorted, bounded and beyond a      *)
(* hole.                                                                   *)
THEOREM SafeHolds == Spec => []SafeInv
BY SafeInit, SafeStep, PTL DEF Spec

LEMMA SafeTyped == SafeInv => TypeOK
<1> SUFFICES ASSUME SafeInv PROVE TypeOK
  BY Zenon
<1>1. /\ seq \in Nat /\ Len(docAt) = seq + 1 /\ docAt[seq + 1] = doc /\ bound \subseteq Dataset
      /\ \A c \in Client : Len(rx[c]) <= Capacity
  BY Zenon DEF SafeInv, ServerInv, QueueInv
<1>2. ASSUME NEW c \in Client
      PROVE  /\ bridge[c].last \in NoSeq..seq /\ Len(bridge[c].buf) <= MaxPending
             /\ \A i \in DOMAIN bridge[c].buf : bridge[c].buf[i].seq > bridge[c].last + 1
  <2>1. Sound(bridge[c], seq)
    BY Zenon DEF SafeInv, ClientInv
  <2>2. bridge[c].last \in Nat \union {-1} /\ bridge[c].last <= seq /\ DOMAIN bridge[c].buf = 1..Len(bridge[c].buf)
    BY <2>1 DEF Sound, Bridge, Within, NoSeq
  <2>3. bridge[c].last \in NoSeq..seq
    BY <2>2, <1>1 DEF NoSeq
  <2> QED
    BY Zenon, <2>1, <2>2, <2>3 DEF Sound, Beyond
<1> QED
  BY Zenon, <1>1, <1>2 DEF TypeOK

(* No bridge goes back to an older document, with any number of clients,   *)
(* editors and openers, whatever the queues hold and drop.                 *)
THEOREM RewindsNever == Spec => NeverRewinds
<1>1. SafeInv /\ [Next]_vars =>
        [\A c \in Client : Tracking(c) /\ Tracking(c)' => bridge'[c].last >= bridge[c].last]_vars
  BY Zenon, ClientStep DEF Forward
<1> QED
  BY <1>1, SafeHolds, PTL DEF Spec, NeverRewinds

----------------------------------------------------------------------------
(* Opens.  A command changes which datasets are in a document exactly as   *)
(* it changes the mirror of them: no name is the mark of an absent one.    *)

LEMMA MembershipApplied ==
    ASSUME Gone \notin Name, NEW dc \in Doc, NEW cmd \in Cmd
    PROVE  /\ Present(Apply(dc, cmd)) = NoteDeliveredMembership(Present(dc), cmd)
           /\ cmd.op = "open" /\ cmd.ds \in Present(dc) => Present(Apply(dc, cmd)) = Present(dc)
<1>1. /\ cmd.ds \in Dataset /\ cmd.op \in {"open", "rename", "remove"}
      /\ cmd.op \in {"open", "rename"} => cmd.name # Gone
      /\ DOMAIN dc = Dataset /\ DOMAIN Apply(dc, cmd) = Dataset
  <2>1. Original # Gone
    BY DEF Original, Gone
  <2>2. Apply(dc, cmd) \in Doc
    BY Zenon, ApplyTyped
  <2> QED
    BY Zenon, <2>1, <2>2 DEF Cmd, Given, Doc
<1>2. \A d \in Dataset : d # cmd.ds => Apply(dc, cmd)[d] = dc[d]
  BY Zenon, <1>1 DEF Apply
<1>3. /\ cmd.op = "open" => Apply(dc, cmd)[cmd.ds] = cmd.name
      /\ cmd.op = "rename" => Apply(dc, cmd)[cmd.ds] = IF dc[cmd.ds] = Gone THEN Gone ELSE cmd.name
      /\ cmd.op = "remove" => Apply(dc, cmd)[cmd.ds] = Gone
  BY Zenon, <1>1 DEF Apply
<1> DEFINE new == Apply(dc, cmd)
<1> HIDE DEF new
<1>4. /\ \A d \in Dataset : d # cmd.ds => (d \in Present(new) <=> d \in Present(dc))
      /\ cmd.op = "open" => cmd.ds \in Present(new)
      /\ cmd.op = "rename" => (cmd.ds \in Present(new) <=> cmd.ds \in Present(dc))
      /\ cmd.op = "remove" => cmd.ds \notin Present(new)
      /\ Present(new) \subseteq Dataset /\ Present(dc) \subseteq Dataset
  BY Zenon, <1>1, <1>2, <1>3 DEF Present, new
<1>5. CASE cmd.op = "open"
  <2>1. NoteDeliveredMembership(Present(dc), cmd) = Present(dc) \union {cmd.ds}
    BY Zenon, <1>5 DEF NoteDeliveredMembership
  <2>2. Present(new) = Present(dc) \union {cmd.ds}
    BY Zenon, <1>1, <1>4, <1>5
  <2>3. cmd.ds \in Present(dc) => Present(dc) \union {cmd.ds} = Present(dc)
    BY Zenon
  <2> QED
    BY Zenon, <2>1, <2>2, <2>3 DEF new
<1>6. CASE cmd.op = "rename"
  <2>1. NoteDeliveredMembership(Present(dc), cmd) = Present(dc)
    BY <1>6 DEF NoteDeliveredMembership
  <2>2. Present(new) = Present(dc)
    <3>1. \A d : d \in Present(new) <=> d \in Present(dc)
      BY Zenon, <1>1, <1>4, <1>6
    <3> QED
      BY Zenon, <3>1
  <2> QED
    BY Zenon, <2>1, <2>2, <1>6 DEF new
<1>7. CASE cmd.op = "remove"
  <2>1. NoteDeliveredMembership(Present(dc), cmd) = Present(dc) \ {cmd.ds}
    BY Zenon, <1>7 DEF NoteDeliveredMembership
  <2>2. Present(new) = Present(dc) \ {cmd.ds}
    BY Zenon, <1>1, <1>4, <1>7
  <2>3. cmd.op # "open"
    BY <1>7
  <2> QED
    BY Zenon, <2>1, <2>2, <2>3 DEF new
<1> QED
  BY Zenon, <1>1, <1>5, <1>6, <1>7

(* What a bridge delivers keeps the mirror of its document. *)
Mirrors(b) == b.mirror = Present(b.doc)

LEMMA DeliverMirrors ==
    ASSUME Gone \notin Name, NEW b, Bridge(b), Mirrors(b), NEW e \in Entry
    PROVE  Mirrors(DeliverStale(b, e)) /\ Mirrors(DeliverNext(b, e))
<1>1. e.cmd \in Cmd \union {Ack} /\ Ack.op = "ack" /\ b.doc \in Doc
  BY Zenon DEF Entry, Ack, Bridge
<1>2. Mirrors(DeliverStale(b, e))
  <2>1. CASE e.cmd.op = "open" /\ e.cmd.ds \in b.mirror
    <3>1. /\ DeliverStale(b, e).doc = Apply(b.doc, e.cmd)
          /\ DeliverStale(b, e).mirror = b.mirror
      BY Zenon, <2>1 DEF DeliverStale, OnCommand, Bridge, Shaped, Fields
    <3>2. Ack.op # "open"
      BY <1>1
    <3>3. Present(Apply(b.doc, e.cmd)) = Present(b.doc)
      BY Zenon, <1>1, <2>1, <3>2, MembershipApplied DEF Mirrors
    <3> QED
      BY Zenon, <3>1, <3>3 DEF Mirrors
  <2>2. CASE ~(e.cmd.op = "open" /\ e.cmd.ds \in b.mirror)
    BY Zenon, <2>2 DEF DeliverStale
  <2> QED
    BY Zenon, <2>1, <2>2
<1>3. Mirrors(DeliverNext(b, e))
  <2>1. CASE e.cmd = Ack
    <3>1. DeliverNext(b, e).doc = b.doc /\ DeliverNext(b, e).mirror = b.mirror
      BY Zenon, <2>1 DEF DeliverNext, Bridge, Shaped, Fields
    <3> QED
      BY Zenon, <3>1 DEF Mirrors
  <2>2. CASE e.cmd # Ack
    <3>1. /\ DeliverNext(b, e).doc = Apply(b.doc, e.cmd)
          /\ DeliverNext(b, e).mirror = NoteDeliveredMembership(b.mirror, e.cmd)
      BY Zenon, <2>2 DEF DeliverNext, OnCommand, Bridge, Shaped, Fields
    <3>2. Present(Apply(b.doc, e.cmd)) = NoteDeliveredMembership(Present(b.doc), e.cmd)
      BY Zenon, <1>1, <2>2, MembershipApplied
    <3> QED
      BY Zenon, <3>1, <3>2 DEF Mirrors
  <2> QED
    BY Zenon, <2>1, <2>2
<1> QED
  BY Zenon, <1>2, <1>3

LEMMA DrainMirrors ==
    ASSUME Gone \notin Name, NEW b, Bridge(b), Mirrors(b)
    PROVE  Mirrors(Drain(b))
<1> DEFINE m == Len(b.buf)
           d == Draining(b)
           P(i) == Bridge(d[i]) /\ Stopped(d[i], b, i) /\ Mirrors(d[i])
           S == {i \in Nat : i <= m => P(i)}
<1>1. /\ m \in Nat /\ d[0] = [b EXCEPT !.buf = <<>>]
      /\ \A i \in 1..m : d[i] = DrainNext(d[i - 1], b.buf[i])
  BY DrainingSteps DEF Bridge
<1> HIDE DEF d
<1>2. P(0)
  <2>1. d[0].buf = <<>> /\ Keeps(d[0], b, {"buf"}) /\ <<>> \in Seq(Entry)
    <3>1. d[0].buf = <<>> /\ Keeps(d[0], b, {"buf"})
      BY Zenon, <1>1 DEF Bridge, Keeps, Shaped, Fields
    <3> QED
      BY <3>1
  <2>2. Bridge(d[0]) /\ Mirrors(d[0])
    BY Zenon, <2>1 DEF Bridge, Keeps, Fields, Mirrors
  <2>3. Stopped(d[0], b, 0)
    <3>1. SubSeq(b.buf, 1, 0) = <<>> /\ 1 \in 1..(0 + 1)
      BY DEF Bridge
    <3> QED
      BY <2>1, <3>1 DEF Stopped
  <2> QED
    BY Zenon, <2>2, <2>3
<1>3. ASSUME NEW i \in Nat, i \in S PROVE i + 1 \in S
  <2> SUFFICES ASSUME i + 1 <= m PROVE P(i + 1)
    OBVIOUS
  <2>1. i + 1 \in 1..m /\ (i + 1) - 1 = i /\ i <= m
    BY <1>1
  <2>2. P(i)
    BY Zenon, <1>3, <2>1
  <2>3. d[i + 1] = DrainNext(d[i], b.buf[i + 1])
    BY Zenon, <1>1, <2>1
  <2>4. Bridge(d[i + 1]) /\ Stopped(d[i + 1], b, i + 1)
    BY Zenon, <2>1, <2>2, <2>3, DrainNextFrame
  <2> DEFINE e == b.buf[i + 1]
  <2>5. e \in Entry
    BY <2>1 DEF Bridge
  <2> HIDE DEF e
  <2>6. \/ DrainNext(d[i], e) = DeliverStale(d[i], e) \/ DrainNext(d[i], e) = DeliverNext(d[i], e)
        \/ DrainNext(d[i], e) = [d[i] EXCEPT !.buf = Append(@, e)]
    BY DEF DrainNext
  <2>7. Mirrors([d[i] EXCEPT !.buf = Append(@, e)])
    BY Zenon, <2>2 DEF Mirrors, Bridge, Shaped, Fields
  <2>8. Mirrors(DeliverStale(d[i], e)) /\ Mirrors(DeliverNext(d[i], e))
    BY Zenon, <2>2, <2>5, DeliverMirrors
  <2>9. Mirrors(d[i + 1])
    BY Zenon, <2>3, <2>6, <2>7, <2>8 DEF e
  <2> QED
    BY Zenon, <2>4, <2>9
<1>4. 0 \in S
  BY Zenon, <1>2
<1>5. m \in S
  <2> HIDE DEF S
  <2> QED
    BY Zenon, <1>1, <1>3, <1>4, Induction
<1>6. P(m)
  BY <1>1, <1>5
<1>7. Drain(b) \in {b, ClearTimers(d[m]), ScheduleResync(d[m])}
  BY Zenon DEF Drain, d
<1>8. Mirrors(ClearTimers(d[m])) /\ Mirrors(ScheduleResync(d[m]))
  <2>1. /\ Keeps(ClearTimers(d[m]), d[m], {"grace", "retry"})
        /\ Keeps(ScheduleResync(d[m]), d[m], {"grace"})
    BY Zenon, <1>6, TimerFrame
  <2> QED
    BY Zenon, <1>6, <2>1 DEF Mirrors, Keeps, Fields
<1> QED
  BY Zenon, <1>7, <1>8

LEMMA HandleMirrors ==
    ASSUME Gone \notin Name, NEW b, NEW n \in Nat, Sound(b, n), Mirrors(b),
           NEW e \in Entry, e.seq <= n
    PROVE  Mirrors(HandleSequenced(b, e))
<1> DEFINE k == HandleSequenced(b, e)
<1>a. /\ Bridge(b) /\ Within(b, n) /\ Sorted(b.buf) /\ Beyond(b) /\ Len(b.buf) <= MaxPending
      /\ b.last \in Int /\ e.seq \in Nat
  BY DEF Sound, Bridge, NoSeq, Entry
<1>1. CASE e.seq <= b.last
  <2>1. k = DeliverStale(b, e)
    BY <1>1, <1>a DEF HandleSequenced
  <2> QED
    BY Zenon, <2>1, <1>a, DeliverMirrors
<1>2. CASE e.seq = b.last + 1
  <2>1. k = Drain(DeliverNext(b, e))
    BY <1>2, <1>a DEF HandleSequenced
  <2>2. Bridge(DeliverNext(b, e)) /\ Mirrors(DeliverNext(b, e))
    BY Zenon, <1>a, DeliverFrame, DeliverMirrors
  <2> QED
    BY Zenon, <2>1, <2>2, DrainMirrors
<1>3. CASE e.seq > b.last + 1
  <2> DEFINE d == BufferSequenced(b, e)
  <2>1. k = ScheduleResync(d)
    BY <1>3, <1>a DEF HandleSequenced
  <2>2. Bridge(d) /\ Keeps(d, b, {"buf"})
    BY Zenon, <1>3, <1>a, BufferFrame
  <2> HIDE DEF d, k
  <2>3. Keeps(k, d, {"grace"})
    BY Zenon, <2>1, <2>2, TimerFrame
  <2>4. k.mirror = b.mirror /\ k.doc = b.doc
    BY Zenon, <2>2, <2>3 DEF Keeps, Fields
  <2> QED
    BY Zenon, <2>4 DEF k, Mirrors
<1> QED
  BY <1>1, <1>2, <1>3, <1>a

LEMMA NoteNone == ASSUME NEW mirror PROVE NoteAll(mirror, <<>>) = mirror
<1> DEFINE F(f) == f = [i \in 0..0 |-> IF i = 0 THEN mirror
                                       ELSE NoteDeliveredMembership(f[i - 1], <<>>[i])]
           g == [i \in 0..0 |-> mirror]
           f == CHOOSE f : F(f)
<1>1. Len(<<>>) = 0 /\ 0 \in 0..0 /\ \A i \in 0..0 : i = 0
  OBVIOUS
<1>2. F(g)
  BY <1>1
<1>3. F(f)
  BY Zenon, <1>2
<1>4. f[0] = mirror
  <2> HIDE DEF f
  <2> QED
    BY Zenon, <1>1, <1>3
<1> QED
  BY <1>1, <1>4 DEF NoteAll

(* A client that adopts a snapshot with nothing pending mirrors it. *)
LEMMA AdoptMirrors ==
    ASSUME Gone \notin Name, NEW b, NEW n \in Nat, Sound(b, n), b.since = "nothing" => Mirrors(b),
           NEW snap \in Snap, snap.seq <= n, AdoptSnapshot(b, snap).since = "nothing"
    PROVE  Mirrors(AdoptSnapshot(b, snap))
<1> DEFINE settled == ClearTimers([b EXCEPT !.inFlight = FALSE])
           adopted == [settled EXCEPT !.last = snap.seq, !.doc = snap.doc,
                                      !.mirror = Present(snap.doc), !.since = Since(b)]
           start == Start(b, snap)
<1>1. AdoptSnapshot(b, snap) = Drain(start) /\ Bridge(start)
  BY Zenon, StartFrame DEF AdoptSnapshot, Start
<1>2. AdoptSnapshot(b, snap).since = IF snap.seq < b.last THEN b.since ELSE Since(b)
  BY Zenon, AdoptFrame
<1>3. Bridge(b) /\ snap.doc \in Doc
  BY Zenon DEF Sound, Snap
<1>4. CASE snap.seq < b.last
  <2>1. start = settled
    BY Zenon, <1>4 DEF Start, Outdated
  <2>2. settled.mirror = b.mirror /\ settled.doc = b.doc
    BY Zenon, <1>3 DEF ClearTimers, Bridge, Shaped, Fields
  <2>3. Mirrors(start)
    BY Zenon, <1>2, <1>4, <2>1, <2>2 DEF Mirrors
  <2> QED
    BY Zenon, <1>1, <2>3, DrainMirrors
<1>5. CASE ~(snap.seq < b.last)
  <2>1. start = ReplayPending(adopted)
    BY Zenon, <1>5 DEF Start, Outdated
  <2>2. b.pending = <<>>
    BY Zenon, <1>2, <1>5 DEF Since
  <2>3. Keeps(settled, b, {"inFlight", "grace", "retry"})
    BY Zenon, <1>3 DEF ClearTimers, Bridge, Keeps, Shaped, Fields
  <2> HIDE DEF settled
  <2>4. /\ adopted.doc = snap.doc /\ adopted.mirror = Present(snap.doc)
        /\ adopted.pending = <<>> /\ Shaped(adopted)
    BY Zenon, <2>2, <2>3 DEF Keeps, Shaped, Fields
  <2> HIDE DEF adopted
  <2>5. /\ start.doc = ApplyAll(snap.doc, <<>>)
        /\ start.mirror = NoteAll(Present(snap.doc), <<>>)
    BY Zenon, <2>1, <2>4 DEF ReplayPending, Shaped, Fields
  <2>6. <<>> \in Seq(Cmd)
    OBVIOUS
  <2>7. start.doc = snap.doc /\ start.mirror = Present(snap.doc)
    BY Zenon, <1>3, <2>5, <2>6, ApplyAllTyped, NoteNone
  <2>8. Mirrors(start)
    BY Zenon, <2>7 DEF Mirrors
  <2> QED
    BY Zenon, <1>1, <2>8, DrainMirrors
<1> QED
  BY Zenon, <1>4, <1>5

MirrorInv == \A c \in Client : bridge[c].since = "nothing" => Mirrors(bridge[c])

LEMMA MirrorStep ==
    ASSUME Gone \notin Name PROVE SafeInv /\ MirrorInv /\ [Next]_vars => MirrorInv'
<1> SUFFICES ASSUME SafeInv, MirrorInv, [Next]_vars PROVE MirrorInv'
  BY Zenon
<1>s. ServerInv /\ QueueInv /\ ClientInv /\ seq \in Nat
  BY Zenon DEF SafeInv, ServerInv
<1>a. DOMAIN bridge = Client /\ \A c \in Client : Sound(bridge[c], seq) /\ Bridge(bridge[c])
  BY Zenon, <1>s DEF ClientInv, Sound
<1>b. ASSUME bridge' = bridge PROVE MirrorInv'
  BY Zenon, <1>b DEF MirrorInv, Mirrors
<1>c. ASSUME NEW c \in Client, NEW k, bridge' = [bridge EXCEPT ![c] = k],
             k.since = "nothing" => Mirrors(k)
      PROVE  MirrorInv'
  <2>1. \A x \in Client : bridge'[x] = IF x = c THEN k ELSE bridge[x]
    BY Zenon, <1>a, <1>c
  <2> QED
    BY Zenon, <2>1, <1>c DEF MirrorInv, Mirrors
<1>d. ASSUME NEW c \in Client, NEW k, bridge' = [bridge EXCEPT ![c] = k],
             k.mirror = bridge[c].mirror, k.doc = bridge[c].doc, k.since = bridge[c].since
      PROVE  MirrorInv'
  BY Zenon, <1>c, <1>d DEF MirrorInv, Mirrors
<1>1. ASSUME NEW c \in Client, NEW cmd, SendCommand(c, cmd) PROVE MirrorInv'
  <2> DEFINE k == [OnCommand(bridge[c], cmd) EXCEPT !.pending = Append(@, cmd), !.since = "edited"]
  <2>1. bridge' = [bridge EXCEPT ![c] = k]
    BY Zenon, <1>1 DEF SendCommand
  <2>2. k.since = "edited"
    BY Zenon, <1>a DEF OnCommand, Bridge, Shaped, Fields
  <2> HIDE DEF k
  <2>3. k.since # "nothing"
    BY <2>2
  <2> QED
    BY Zenon, <2>1, <2>3, <1>c
<1>2. ASSUME NEW c \in Client, Edit(c) PROVE MirrorInv'
  BY Zenon, <1>1, <1>2 DEF Edit
<1>3. ASSUME NEW c \in Client, NEW snap \in Snap, snap.seq <= seq,
             bridge' = [bridge EXCEPT ![c] = AdoptSnapshot(@, snap)]
      PROVE  MirrorInv'
  <2> DEFINE k == AdoptSnapshot(bridge[c], snap)
  <2>1. k.since = "nothing" => Mirrors(k)
    BY Zenon, <1>3, <1>a, <1>s, AdoptMirrors DEF MirrorInv
  <2> HIDE DEF k
  <2> QED
    BY Zenon, <1>3, <2>1, <1>c DEF k
<1>4. ASSUME NEW c \in Client, ReceivePushed(c) \/ ReceiveSnapshot(c) PROVE MirrorInv'
  <2>1. ASSUME NEW q \in Seq(Snap), q # <<>>, \A i \in 1..Len(q) : q[i].seq <= seq
        PROVE  Head(q) \in Snap /\ Head(q).seq <= seq
    BY Zenon, <2>1, TailIs
  <2>2. CASE ReceivePushed(c)
    BY Zenon, <2>1, <2>2, <1>3, <1>s DEF ReceivePushed, QueueInv
  <2>3. CASE ReceiveSnapshot(c)
    BY Zenon, <2>1, <2>3, <1>3, <1>s DEF ReceiveSnapshot, QueueInv
  <2> QED
    BY Zenon, <1>4, <2>2, <2>3
<1>5. ASSUME NEW c \in Client, ReceiveSequenced(c) PROVE MirrorInv'
  <2> DEFINE m == Head(rx[c])
             own == m.sender = c
             b == Acked(bridge[c], own)
             e == [seq |-> m.seq, cmd |-> IF own THEN Ack ELSE m.cmd]
             k == HandleSequenced(b, e)
  <2>1. bridge' = [bridge EXCEPT ![c] = k] /\ rx[c] # <<>>
    BY Zenon, <1>5 DEF ReceiveSequenced, Acked
  <2>2. m \in Item /\ m.seq <= seq
    BY ZenonT(40), <2>1, <1>s, TailIs DEF QueueInv
  <2>3. own \in BOOLEAN /\ e.seq = m.seq
    BY Zenon
  <2> HIDE DEF m, own
  <2>4. e \in Entry /\ e.seq <= seq
    BY Zenon, <2>2, <2>3, EntryOf
  <2>5. Sound(b, seq) /\ Keeps(b, bridge[c], {"pending"})
    BY Zenon, <2>3, <1>a, <1>s, AckedFrame
  <2> HIDE DEF b, e
  <2>6. b.since = bridge[c].since /\ b.mirror = bridge[c].mirror /\ b.doc = bridge[c].doc
    BY Zenon, <2>5 DEF Keeps, Fields
  <2>7. Keeps(k, b, {"last", "doc", "mirror", "buf", "grace", "retry"})
    BY Zenon, <2>4, <2>5, <1>s, HandleFrame
  <2>8. k.since = b.since
    BY Zenon, <2>7 DEF Keeps, Fields
  <2>9. Mirrors(b) => Mirrors(k)
    BY Zenon, <2>4, <2>5, <1>s, HandleMirrors
  <2> HIDE DEF k
  <2>10. k.since = "nothing" => Mirrors(k)
    BY Zenon, <2>6, <2>8, <2>9 DEF MirrorInv, Mirrors
  <2> QED
    BY Zenon, <2>1, <2>10, <1>c
<1>6. ASSUME NEW c \in Client, NEW b, Keeps(b, bridge[c], {"on", "grace", "retry", "recent"}),
             \/ RequestResync(c, b) \/ bridge' = [bridge EXCEPT ![c] = b]
      PROVE  MirrorInv'
  <2>0. b.mirror = bridge[c].mirror /\ b.doc = bridge[c].doc /\ b.since = bridge[c].since /\ Shaped(b)
    BY Zenon, <1>6 DEF Keeps, Fields
  <2> DEFINE k == Requested(b)
  <2>1. bridge' = [bridge EXCEPT ![c] = k] \/ bridge' = [bridge EXCEPT ![c] = b]
    BY Zenon, <1>6 DEF RequestResync
  <2>2. k.mirror = b.mirror /\ k.doc = b.doc /\ k.since = b.since
    BY Zenon, <2>0 DEF Requested, Shaped, Fields
  <2> HIDE DEF k
  <2>3. CASE bridge' = [bridge EXCEPT ![c] = k]
    BY Zenon, <2>0, <2>2, <2>3, <1>d
  <2>4. CASE bridge' = [bridge EXCEPT ![c] = b]
    BY Zenon, <2>0, <2>4, <1>d
  <2> QED
    BY Zenon, <2>1, <2>3, <2>4
<1>7. ASSUME NEW c \in Client, Timer(c) \/ RequestAges(c) \/ Join(c) PROVE MirrorInv'
  <2> DEFINE g == [bridge[c] EXCEPT !.grace = FALSE]
             h == [bridge[c] EXCEPT !.retry = FALSE, !.recent = FALSE]
             r == [bridge[c] EXCEPT !.recent = FALSE]
             j == [bridge[c] EXCEPT !.on = TRUE]
             but == {"on", "grace", "retry", "recent"}
  <2>1. Keeps(g, bridge[c], but) /\ Keeps(h, bridge[c], but)
    BY ZenonT(40), <1>a DEF Bridge, Keeps, Shaped, Fields
  <2>2. Keeps(r, bridge[c], but) /\ Keeps(j, bridge[c], but)
    BY ZenonT(40), <1>a DEF Bridge, Keeps, Shaped, Fields
  <2>3. \/ RequestResync(c, g) \/ RequestResync(c, h)
        \/ bridge' = [bridge EXCEPT ![c] = r] \/ bridge' = [bridge EXCEPT ![c] = j]
    BY Zenon, <1>7 DEF Timer, GraceExpires, RetryExpires, RequestAges, Join
  <2> HIDE DEF g, h, r, j
  <2> QED
    BY Zenon, <2>1, <2>2, <2>3, <1>6
<1>8. ASSUME NEW c \in Client, Disconnect(c) PROVE MirrorInv'
  <2>1. bridge' = [bridge EXCEPT ![c] = Disconnected]
    BY Zenon, <1>8 DEF Disconnect
  <2>2. Disconnected.mirror = {} /\ Disconnected.doc = [d \in Dataset |-> Gone]
    BY Zenon DEF Disconnected
  <2>3. Mirrors(Disconnected)
    BY Zenon, <2>2 DEF Mirrors, Present
  <2> QED
    BY Zenon, <2>1, <2>3, <1>c
<1>9. ASSUME NEW c \in Client,
             \/ Serve(c) \/ PushSnapshot(c) \/ PersistFailed(c) \/ ThrottleExpires(c)
      PROVE  MirrorInv'
  BY Zenon, <1>b, <1>9
     DEF Serve, TakeCommand, Persisted, TakeRequest, PushSnapshot, PersistFailed, ThrottleExpires
<1>10. ASSUME NEW o \in Opener, Opening(o) \/ OpenPersistFailed(o) PROVE MirrorInv'
  BY Zenon, <1>b, <1>10 DEF Opening, CheckLoaded, ApplyOpen, AnnounceOpen, OpenPersistFailed
<1>11. CASE UNCHANGED vars
  BY Zenon, <1>b, <1>11 DEF vars
<1> QED
  BY Zenon, <1>2, <1>4, <1>5, <1>7, <1>8, <1>9, <1>10, <1>11 DEF Next, Deliver

(* Two bindings of the source are the same one. *)
LoadedInv == \A x, y \in Loaded : x = y

LEMMA LoadedStep ==
    ASSUME Gone \notin Name PROVE SafeInv /\ LoadedInv /\ [Next]_vars => LoadedInv'
<1> SUFFICES ASSUME SafeInv, LoadedInv, [Next]_vars PROVE LoadedInv'
  BY Zenon
<1>a. ServerInv /\ doc \in Doc /\ inbound \in [Client -> Seq(Cmd \union {Request})]
  BY Zenon DEF SafeInv, ServerInv
<1>b. ASSUME UNCHANGED <<doc, bound>> PROVE LoadedInv'
  BY Zenon, <1>b DEF LoadedInv, Loaded
<1>1. ASSUME NEW c \in Client, TakeCommand(c) PROVE LoadedInv'
  <2> DEFINE cmd == Head(inbound[c])
  <2>1. /\ cmd.op \in {"rename", "remove"} /\ inbound[c] # <<>> /\ bound' = bound
        /\ doc' = doc \/ doc' = Apply(doc, cmd)
    BY Zenon, <1>1 DEF TakeCommand, SessionApply
  <2>2. inbound[c] \in Seq(Cmd \union {Request}) /\ Request.op = "request"
    BY Zenon, <1>a DEF Request
  <2>3. cmd \in Cmd \union {Request}
    BY Zenon, <2>1, <2>2, TailIs
  <2> HIDE DEF cmd
  <2>4. cmd \in Cmd
    BY <2>1, <2>2, <2>3
  <2>5. Present(Apply(doc, cmd)) = NoteDeliveredMembership(Present(doc), cmd)
    BY Zenon, <2>4, <1>a, MembershipApplied
  <2>6. NoteDeliveredMembership(Present(doc), cmd) \subseteq Present(doc)
    BY <2>1 DEF NoteDeliveredMembership
  <2>7. Present(doc') \subseteq Present(doc)
    BY Zenon, <2>1, <2>5, <2>6
  <2>8. Loaded' \subseteq Loaded
    BY Zenon, <2>1, <2>7 DEF Loaded
  <2> QED
    BY Zenon, <2>8 DEF LoadedInv
<1>2. ASSUME NEW o \in Opener, ApplyOpen(o) PROVE LoadedInv'
  <2>1. CASE LostRace
    BY Zenon, <1>2, <2>1, <1>b DEF ApplyOpen, server
  <2>2. CASE ~LostRace
    <3> DEFINE cmd == Opened(o, Original)
    <3>1. doc' = Apply(doc, cmd) /\ bound' = bound \union {o} /\ Loaded = {}
      BY Zenon, <1>2, <2>2 DEF ApplyOpen, SessionApply, LostRace
    <3>2. cmd \in Cmd /\ cmd.op = "open" /\ cmd.ds = o
      BY Zenon, CommandsTyped DEF Opened, Dataset
    <3> HIDE DEF cmd
    <3>3. Present(doc') = NoteDeliveredMembership(Present(doc), cmd)
      BY Zenon, <3>1, <3>2, <1>a, MembershipApplied
    <3>4. Present(doc') = Present(doc) \union {o}
      BY Zenon, <3>2, <3>3 DEF NoteDeliveredMembership
    <3>5. Loaded' \subseteq Loaded \union {o}
      BY Zenon, <3>1, <3>4 DEF Loaded
    <3> QED
      BY Zenon, <3>1, <3>5 DEF LoadedInv
  <2> QED
    BY Zenon, <2>1, <2>2
<1>3. ASSUME NEW c \in Client,
             \/ Edit(c) \/ Persisted(c) \/ TakeRequest(c) \/ Deliver(c) \/ Timer(c) \/ PersistFailed(c)
             \/ ThrottleExpires(c) \/ RequestAges(c) \/ Disconnect(c) \/ Join(c)
      PROVE  LoadedInv'
  <2>1. UNCHANGED server
    BY Zenon, <1>3
       DEF Edit, SendCommand, Persisted, TakeRequest, Deliver, PushSnapshot, ReceivePushed,
           ReceiveSnapshot, ReceiveSequenced, Timer, GraceExpires, RetryExpires, PersistFailed,
           ThrottleExpires, RequestAges, Disconnect, Join
  <2> QED
    BY Zenon, <2>1, <1>b DEF server
<1>4. ASSUME NEW o \in Opener, CheckLoaded(o) \/ AnnounceOpen(o) \/ OpenPersistFailed(o)
      PROVE  LoadedInv'
  BY Zenon, <1>4, <1>b DEF CheckLoaded, AnnounceOpen, OpenPersistFailed, server
<1>5. CASE UNCHANGED vars
  BY Zenon, <1>5, <1>b DEF vars, server
<1> QED
  BY Zenon, <1>1, <1>2, <1>3, <1>4, <1>5 DEF Next, Serve, Opening

(* Any number of opens of one source share one dataset, and the mirror of  *)
(* every client that follows is right, whatever is renamed, removed,       *)
(* rebroadcast and reordered: with names that are not the mark of absence, *)
(* and a restored document that holds the source at most once.             *)
THEOREM OpensShareOneDataset ==
    ASSUME Gone \notin Name, \A x, y \in Restored \ Other : x = y
    PROVE  Spec => []OpensAgree
<1>1. Init => MirrorInv /\ LoadedInv
  <2> SUFFICES ASSUME Init PROVE MirrorInv /\ LoadedInv
    BY Zenon
  <2>0. Original # Gone /\ Restored \subseteq Dataset
    BY DEF Original, Gone, Dataset
  <2>1. Present(FirstDoc) = Restored
    <3>1. DOMAIN FirstDoc = Dataset /\ \A d \in Dataset : FirstDoc[d] # Gone <=> d \in Restored
      BY Zenon, <2>0 DEF FirstDoc
    <3> HIDE DEF FirstDoc
    <3> QED
      BY Zenon, <3>1, <2>0 DEF Present
  <2> DEFINE b == [Disconnected EXCEPT !.on = TRUE, !.last = 0, !.doc = FirstDoc, !.mirror = Restored]
  <2>2. \A c \in Client : bridge[c] = b
    BY Zenon DEF Init
  <2>3. b.mirror = Restored /\ b.doc = FirstDoc
    BY Zenon DEF Disconnected
  <2> HIDE DEF b
  <2>4. MirrorInv
    BY Zenon, <2>1, <2>2, <2>3 DEF MirrorInv, Mirrors
  <2>5. Loaded \subseteq Restored \ Other
    BY Zenon DEF Init, Loaded
  <2> QED
    BY Zenon, <2>4, <2>5 DEF LoadedInv
<1>2. SafeInv /\ MirrorInv /\ LoadedInv /\ [Next]_vars => MirrorInv' /\ LoadedInv'
  BY Zenon, MirrorStep, LoadedStep
<1>3. MirrorInv /\ LoadedInv => OpensAgree
  <2> SUFFICES ASSUME MirrorInv, LoadedInv PROVE OpensAgree
    BY Zenon
  <2>1. Cardinality(Loaded) <= 1
    <3>1. CASE Loaded = {}
      <4>1. Cardinality(Loaded) = 0
        BY Zenon, <3>1, FS_EmptySet
      <4> QED
        BY <4>1
    <3>2. CASE Loaded # {}
      <4>0. PICK x : x \in Loaded
        BY Zenon, <3>2
      <4>1. Loaded = {x}
        BY Zenon, <4>0 DEF LoadedInv
      <4>2. Cardinality(Loaded) = 1
        BY Zenon, <4>1, FS_Singleton
      <4> QED
        BY <4>2
    <3> QED
      BY Zenon, <3>1, <3>2
  <2> QED
    BY Zenon, <2>1 DEF OpensAgree, OneDatasetPerSource, ObserverMirror, MirrorInv, Mirrors
<1> QED
  BY <1>1, <1>2, <1>3, SafeHolds, PTL DEF Spec

=============================================================================
