------------------------- MODULE DocumentSyncProofs --------------------------
(***************************************************************************)
(* Any number of clients that rename and remove datasets of one session:   *)
(* FollowersExact; HoleWatched where the server's throttle does not eat    *)
(* requests; and SoleEditorExact.                                          *)
(***************************************************************************)
EXTENDS DocumentSyncLemmas

(* The leaves that name no prover are the SMT solver's. *)
USE SMTT(60)

----------------------------------------------------------------------------
(* A hole is watched, where the server answers every request. *)

Awaited(c) == Request \in Range(inbound[c]) \/ unicast[c] # <<>>
Watched(c) ==
    \/ bridge[c].grace \/ bridge[c].retry
    \/ unicast[c] # <<>> \/ pushed[c] # <<>> \/ lagged[c]
    \/ Request \in Range(inbound[c])

HoleInv ==
    \A c \in Client :
        /\ ~throttled[c]
        /\ bridge[c].inFlight => Awaited(c)
        /\ bridge[c].buf # <<>> => Watched(c)

LEMMA RangeIs ==
    ASSUME NEW T, NEW q \in Seq(T), NEW x \in T
    PROVE  /\ Range(Append(q, x)) = Range(q) \union {x}
           /\ q # <<>> => Range(q) \subseteq Range(Tail(q)) \union {Head(q)}
<1>1. ASSUME NEW r \in Seq(T) PROVE Range(r) = {r[i] : i \in 1..Len(r)}
  BY DEF Range
<1>2. Append(q, x) \in Seq(T) /\ Len(Append(q, x)) = Len(q) + 1 /\ Len(q) \in Nat
  OBVIOUS
<1>3. Append(q, x)[Len(q) + 1] = x /\ \A i \in 1..Len(q) : Append(q, x)[i] = q[i]
  OBVIOUS
<1>4. Range(Append(q, x)) = Range(q) \union {x}
  <2>1. Range(Append(q, x)) = {Append(q, x)[i] : i \in 1..(Len(q) + 1)}
    BY Zenon, <1>1, <1>2
  <2>2. 1..(Len(q) + 1) = (1..Len(q)) \union {Len(q) + 1}
    BY <1>2
  <2> QED
    BY <1>1, <1>3, <2>1, <2>2
<1>5. ASSUME q # <<>> PROVE Range(q) \subseteq Range(Tail(q)) \union {Head(q)}
  <2>1. /\ Tail(q) \in Seq(T) /\ Head(q) = q[1] /\ Len(Tail(q)) = Len(q) - 1
        /\ \A i \in 1..Len(Tail(q)) : Tail(q)[i] = q[i + 1]
    BY Zenon, <1>5, TailIs
  <2>2. ASSUME NEW i \in 1..Len(q), i # 1 PROVE q[i] = Tail(q)[i - 1] /\ i - 1 \in 1..Len(Tail(q))
    <3>1. i - 1 \in 1..Len(Tail(q)) /\ (i - 1) + 1 = i
      BY <2>1, <2>2, <1>2
    <3> QED
      BY Zenon, <3>1, <2>1
  <2>3. Range(q) = {q[i] : i \in 1..Len(q)} /\ Range(Tail(q)) = {Tail(q)[i] : i \in 1..Len(Tail(q))}
    BY Zenon, <1>1, <2>1
  <2> QED
    BY ZenonT(40), <2>1, <2>2, <2>3
<1> QED
  BY Zenon, <1>4, <1>5

LEMMA AdoptSettles ==
    ASSUME NEW b, NEW n \in Nat, Sound(b, n), NEW snap \in Snap, snap.seq <= n
    PROVE  LET k == AdoptSnapshot(b, snap) IN k.inFlight = FALSE /\ (k.buf # <<>> => k.grace)
BY Zenon, AdoptFrame

LEMMA HoleInit == ASSUME ~Throttle PROVE Init => HoleInv
<1> SUFFICES ASSUME Init, NEW c \in Client
             PROVE  ~throttled[c] /\ ~bridge[c].inFlight /\ bridge[c].buf = <<>>
  BY Zenon DEF HoleInv
<1> QED
  BY Zenon DEF Init, Disconnected

(* What a bridge owes after a step that sets it to k. *)
LEMMA HoleOf ==
    ASSUME HoleInv, ~Throttle, NEW c \in Client, NEW k,
           DOMAIN bridge = Client, bridge' = [bridge EXCEPT ![c] = k], throttled' = throttled,
           \A x \in Client \ {c} :
               /\ inbound'[x] = inbound[x] /\ unicast'[x] = unicast[x]
               /\ pushed'[x] = pushed[x] /\ lagged'[x] = lagged[x],
           k.inFlight => Awaited(c)',
           k.buf # <<>> =>
               \/ k.grace \/ k.retry
               \/ unicast'[c] # <<>> \/ pushed'[c] # <<>> \/ lagged'[c]
               \/ Request \in Range(inbound'[c])
    PROVE  HoleInv'
<1>1. bridge'[c] = k /\ \A x \in Client \ {c} : bridge'[x] = bridge[x]
  BY Zenon
<1>2. ASSUME NEW x \in Client
      PROVE  /\ ~throttled'[x]
             /\ bridge'[x].inFlight => Awaited(x)'
             /\ bridge'[x].buf # <<>> => Watched(x)'
  <2>1. CASE x = c
    BY Zenon, <1>1, <2>1 DEF HoleInv, Watched
  <2>2. CASE x # c
    BY ZenonT(40), <1>1, <2>2 DEF HoleInv, Watched, Awaited
  <2> QED
    BY Zenon, <2>1, <2>2
<1> QED
  BY Zenon, <1>2 DEF HoleInv

LEMMA HoleStep == ASSUME ~Throttle PROVE SafeInv /\ HoleInv /\ [Next]_vars => HoleInv'
<1> SUFFICES ASSUME SafeInv, HoleInv, [Next]_vars PROVE HoleInv'
  BY Zenon
<1>s. ServerInv /\ QueueInv /\ ClientInv /\ seq \in Nat
  BY Zenon DEF SafeInv, ServerInv
<1>a. /\ inbound \in [Client -> Seq(Cmd \union {Request})]
      /\ unicast \in [Client -> Seq(Snap)] /\ pushed \in [Client -> Seq(Snap)]
      /\ lagged \in [Client -> BOOLEAN] /\ throttled \in [Client -> BOOLEAN]
      /\ DOMAIN bridge = Client /\ \A c \in Client : Sound(bridge[c], seq)
  BY Zenon, <1>s DEF ServerInv, QueueInv, ClientInv
<1>b. ASSUME NEW c \in Client
      PROVE  /\ ~throttled[c] /\ (bridge[c].inFlight => Awaited(c))
             /\ bridge[c].buf # <<>> => Watched(c)
  BY Zenon DEF HoleInv
<1>r. Request \notin Cmd /\ Request \in Cmd \union {Request} /\ Request.op = "request"
  BY Zenon DEF Request, Cmd
<1>c. ASSUME bridge' = bridge, throttled' = throttled,
             \A c \in Client :
                 /\ Awaited(c) => Awaited(c)'
                 /\ pushed[c] # <<>> \/ lagged[c] => pushed'[c] # <<>> \/ lagged'[c]
      PROVE  HoleInv'
  <2>1. ASSUME NEW c \in Client
        PROVE  /\ ~throttled'[c] /\ (bridge'[c].inFlight => Awaited(c)')
               /\ bridge'[c].buf # <<>> => Watched(c)'
    BY Zenon, <1>b, <1>c DEF Watched, Awaited
  <2> QED
    BY Zenon, <2>1 DEF HoleInv
<1>d. ASSUME NEW c \in Client, handler[c] = Idle, inbound[c] # <<>>, Head(inbound[c]).op # "request",
             inbound' = [inbound EXCEPT ![c] = Tail(@)], UNCHANGED <<queues, throttled, bridge>>
      PROVE  HoleInv'
  <2>1. Range(inbound[c]) \subseteq Range(Tail(inbound[c])) \union {Head(inbound[c])}
    BY Zenon, <1>d, <1>a, <1>r, RangeIs
  <2>2. Request \in Range(inbound[c]) => Request \in Range(inbound'[c])
    BY Zenon, <1>a, <1>d, <1>r, <2>1
  <2>3. ASSUME NEW x \in Client PROVE Awaited(x) => Awaited(x)'
    <3>1. CASE x = c
      BY Zenon, <2>2, <3>1, <1>d DEF Awaited, queues
    <3>2. CASE x # c
      <4>1. inbound'[x] = inbound[x]
        BY Zenon, <3>2, <1>a, <1>d
      <4> QED
        BY Zenon, <4>1, <1>d DEF Awaited, queues
    <3> QED
      BY Zenon, <3>1, <3>2
  <2> QED
    BY Zenon, <1>c, <1>d, <2>3 DEF queues
<1>1. ASSUME NEW c \in Client, NEW cmd \in Cmd, SendCommand(c, cmd) PROVE HoleInv'
  <2> DEFINE b == bridge[c]
             k == [OnCommand(b, cmd) EXCEPT !.pending = Append(@, cmd), !.since = "edited"]
  <2>1. /\ bridge' = [bridge EXCEPT ![c] = k] /\ inbound' = [inbound EXCEPT ![c] = Append(@, cmd)]
        /\ throttled' = throttled /\ UNCHANGED queues
    BY Zenon, <1>1 DEF SendCommand
  <2>2. Shaped(b)
    BY Zenon, <1>a DEF Sound, Bridge
  <2> HIDE DEF b
  <2>3. k.inFlight = b.inFlight /\ k.buf = b.buf /\ k.grace = b.grace /\ k.retry = b.retry
    BY Zenon, <2>2 DEF OnCommand, Shaped, Fields
  <2> HIDE DEF k
  <2>4. Range(Append(inbound[c], cmd)) = Range(inbound[c]) \union {cmd}
    <3>1. inbound[c] \in Seq(Cmd \union {Request}) /\ cmd \in Cmd \union {Request}
      BY Zenon, <1>a
    <3> QED
      BY <3>1, RangeIs
  <2>5. /\ Range(inbound[c]) \subseteq Range(inbound'[c])
        /\ \A x \in Client \ {c} : inbound'[x] = inbound[x]
    BY Zenon, <2>1, <2>4, <1>a
  <2>6. /\ unicast' = unicast /\ pushed' = pushed /\ lagged' = lagged
    BY Zenon, <2>1 DEF queues
  <2>7. k.inFlight => Awaited(c)'
    BY Zenon, <2>3, <2>5, <2>6, <1>b DEF Awaited, b
  <2>8. k.buf # <<>> =>
               \/ k.grace \/ k.retry
               \/ unicast'[c] # <<>> \/ pushed'[c] # <<>> \/ lagged'[c]
               \/ Request \in Range(inbound'[c])
    BY Zenon, <2>3, <2>5, <2>6, <1>b DEF Watched, b
  <2> QED
    BY Zenon, <2>1, <2>5, <2>6, <2>7, <2>8, <1>a, HoleOf
<1>2. ASSUME NEW c \in Client, Edit(c) PROVE HoleInv'
  <2>1. Present(bridge[c].doc) \subseteq Dataset
    BY Zenon, <1>a DEF Sound, Bridge, Doc, Present
  <2> QED
    BY Zenon, <1>1, <1>2, <2>1, CommandsTyped DEF Edit
<1>3. ASSUME NEW c \in Client, TakeCommand(c) PROVE HoleInv'
  BY Zenon, <1>3, <1>d DEF TakeCommand
<1>4. ASSUME NEW c \in Client, TakeRequest(c) PROVE HoleInv'
  <2>1. /\ throttled' = [throttled EXCEPT ![c] = Throttle]
        /\ unicast' = [unicast EXCEPT ![c] = Append(@, Snapshot)]
        /\ inbound' = [inbound EXCEPT ![c] = Tail(@)]
        /\ pushed' = pushed /\ lagged' = lagged /\ bridge' = bridge
    BY Zenon, <1>4, <1>b DEF TakeRequest
  <2>2. throttled' = throttled
    <3>1. throttled[c] = Throttle
      BY Zenon, <1>a, <1>b, SyncAssumption
    <3> QED
      BY Zenon, <2>1, <3>1, <1>a
  <2>3. unicast'[c] # <<>>
    <3>1. unicast'[c] = Append(unicast[c], Snapshot) /\ unicast[c] \in Seq(Snap)
      BY Zenon, <2>1, <1>a
    <3>2. Len(Append(unicast[c], Snapshot)) = Len(unicast[c]) + 1 /\ Len(unicast[c]) \in Nat
      BY <3>1
    <3> QED
      BY <3>1, <3>2
  <2>4. ASSUME NEW x \in Client PROVE Awaited(x) => Awaited(x)'
    <3>1. CASE x = c
      BY Zenon, <2>3, <3>1 DEF Awaited
    <3>2. CASE x # c
      <4>1. inbound'[x] = inbound[x] /\ unicast'[x] = unicast[x]
        BY Zenon, <3>2, <1>a, <2>1
      <4> QED
        BY Zenon, <4>1 DEF Awaited
    <3> QED
      BY Zenon, <3>1, <3>2
  <2> QED
    BY Zenon, <2>1, <2>2, <2>4, <1>c
<1>5. ASSUME NEW c \in Client, NEW s, NEW cmd, NEW sender, Broadcast(s, cmd, sender),
             UNCHANGED <<inbound, unicast, pushed, throttled, bridge>>
      PROVE  HoleInv'
  <2>1. \A x \in Client : lagged[x] => lagged'[x]
    BY Zenon, <1>5 DEF Broadcast
  <2> QED
    BY Zenon, <1>5, <2>1, <1>c DEF Awaited
<1>6. ASSUME NEW c \in Client, Persisted(c) PROVE HoleInv'
  BY Zenon, <1>5, <1>6 DEF Persisted
<1>7. ASSUME NEW c \in Client, PersistFailed(c) \/ ThrottleExpires(c) PROVE HoleInv'
  BY Zenon, <1>7, <1>b, <1>c DEF PersistFailed, ThrottleExpires, queues, Awaited
<1>8. ASSUME NEW c \in Client, PushSnapshot(c) PROVE HoleInv'
  <2>1. pushed'[c] = <<Snapshot>> /\ <<Snapshot>> # <<>>
    BY Zenon, <1>8, <1>a DEF PushSnapshot
  <2>2. ASSUME NEW x \in Client \ {c} PROVE pushed'[x] = pushed[x] /\ lagged'[x] = lagged[x]
    BY Zenon, <1>8, <1>a DEF PushSnapshot
  <2>3. \A x \in Client : pushed[x] # <<>> \/ lagged[x] => pushed'[x] # <<>> \/ lagged'[x]
    BY Zenon, <2>1, <2>2
  <2> QED
    BY Zenon, <1>8, <2>3, <1>c DEF PushSnapshot, Awaited
<1>9. ASSUME NEW c \in Client, NEW snap \in Snap, snap.seq <= seq,
             bridge' = [bridge EXCEPT ![c] = AdoptSnapshot(@, snap)],
             UNCHANGED <<inbound, lagged, throttled>>,
             \A x \in Client \ {c} : unicast'[x] = unicast[x] /\ pushed'[x] = pushed[x]
      PROVE  HoleInv'
  <2> DEFINE k == AdoptSnapshot(bridge[c], snap)
  <2>1. k.inFlight = FALSE /\ (k.buf # <<>> => k.grace)
    <3>1. Sound(bridge[c], seq) /\ seq \in Nat /\ snap \in Snap /\ snap.seq <= seq
      BY Zenon, <1>9, <1>a, <1>s
    <3> QED
      BY Zenon, <3>1, AdoptSettles
  <2> HIDE DEF k
  <2>2. bridge' = [bridge EXCEPT ![c] = k]
    BY Zenon, <1>9 DEF k
  <2> QED
    BY ZenonT(40), <1>9, <2>1, <2>2, <1>a, HoleOf
<1>10. ASSUME NEW c \in Client, ReceivePushed(c) \/ ReceiveSnapshot(c) PROVE HoleInv'
  <2>1. ASSUME NEW q \in Seq(Snap), q # <<>>, \A i \in 1..Len(q) : q[i].seq <= seq
        PROVE  Head(q) \in Snap /\ Head(q).seq <= seq
    BY Zenon, <2>1, TailIs
  <2>2. CASE ReceivePushed(c)
    <3>1. Head(pushed[c]) \in Snap /\ Head(pushed[c]).seq <= seq
      BY Zenon, <2>1, <2>2, <1>s DEF ReceivePushed, QueueInv
    <3>2. \A x \in Client \ {c} : unicast'[x] = unicast[x] /\ pushed'[x] = pushed[x]
      BY Zenon, <2>2, <1>a DEF ReceivePushed
    <3> QED
      BY Zenon, <2>2, <3>1, <3>2, <1>9 DEF ReceivePushed
  <2>3. CASE ReceiveSnapshot(c)
    <3>1. Head(unicast[c]) \in Snap /\ Head(unicast[c]).seq <= seq
      BY Zenon, <2>1, <2>3, <1>s DEF ReceiveSnapshot, QueueInv
    <3>2. \A x \in Client \ {c} : unicast'[x] = unicast[x] /\ pushed'[x] = pushed[x]
      BY Zenon, <2>3, <1>a DEF ReceiveSnapshot
    <3> QED
      BY Zenon, <2>3, <3>1, <3>2, <1>9 DEF ReceiveSnapshot
  <2> QED
    BY Zenon, <1>10, <2>2, <2>3
<1>11. ASSUME NEW c \in Client, ReceiveSequenced(c) PROVE HoleInv'
  <2> DEFINE m == Head(rx[c])
             own == m.sender = c
             b == Acked(bridge[c], own)
             e == [seq |-> m.seq, cmd |-> IF own THEN Ack ELSE m.cmd]
             k == HandleSequenced(b, e)
  <2>1. bridge' = [bridge EXCEPT ![c] = k] /\ rx[c] # <<>>
    BY Zenon, <1>11 DEF ReceiveSequenced, Acked
  <2>2. m \in Item /\ m.seq <= seq
    BY ZenonT(40), <2>1, <1>s, TailIs DEF QueueInv
  <2>3. own \in BOOLEAN /\ e.seq = m.seq
    BY Zenon
  <2> HIDE DEF m, own
  <2>4. e \in Entry /\ e.seq <= seq
    BY Zenon, <2>2, <2>3, EntryOf
  <2>5. Sound(b, seq) /\ Keeps(b, bridge[c], {"pending"})
    BY Zenon, <2>3, <1>a, <1>s, AckedFrame
  <2> HIDE DEF b, e
  <2>6. /\ b.inFlight = bridge[c].inFlight /\ b.buf = bridge[c].buf
        /\ b.grace = bridge[c].grace /\ b.retry = bridge[c].retry
    BY Zenon, <2>5 DEF Keeps, Fields
  <2>7. /\ Keeps(k, b, {"last", "doc", "mirror", "buf", "grace", "retry"})
        /\ \/ k.buf = b.buf /\ k.grace = b.grace /\ k.retry = b.retry
           \/ k.buf # <<>> => k.grace \/ (k.inFlight /\ k.recent)
    BY Zenon, <2>4, <2>5, <1>s, HandleFrame
  <2> HIDE DEF k
  <2>8. k.inFlight = bridge[c].inFlight
    BY Zenon, <2>6, <2>7 DEF Keeps, Fields
  <2>9. inbound' = inbound /\ unicast' = unicast /\ pushed' = pushed /\ lagged' = lagged /\ throttled' = throttled
    BY Zenon, <1>11 DEF ReceiveSequenced
  <2>10. k.inFlight => Awaited(c)'
    BY Zenon, <2>8, <2>9, <1>b DEF Awaited
  <2>11. k.buf # <<>> =>
               \/ k.grace \/ k.retry
               \/ unicast'[c] # <<>> \/ pushed'[c] # <<>> \/ lagged'[c]
               \/ Request \in Range(inbound'[c])
    BY Zenon, <2>6, <2>7, <2>8, <2>9, <1>b DEF Watched, Awaited
  <2> QED
    BY Zenon, <2>1, <2>9, <2>10, <2>11, <1>a, HoleOf
<1>12. ASSUME NEW c \in Client, NEW b, Shaped(b), b.inFlight = bridge[c].inFlight,
              b.buf = bridge[c].buf, RequestResync(c, b), UNCHANGED <<queues, throttled>>
       PROVE  HoleInv'
  <2>0. unicast' = unicast /\ pushed' = pushed /\ lagged' = lagged
    BY Zenon, <1>12 DEF queues
  <2>1. CASE Requests(b)
    <3> DEFINE k == Requested(b)
    <3>1. /\ bridge' = [bridge EXCEPT ![c] = k]
          /\ inbound' = [inbound EXCEPT ![c] = Append(@, Request)]
      BY Zenon, <1>12, <2>1 DEF RequestResync
    <3>2. Range(Append(inbound[c], Request)) = Range(inbound[c]) \union {Request}
      <4>1. inbound[c] \in Seq(Cmd \union {Request})
        BY Zenon, <1>a
      <4>2. Request \in Cmd \union {Request}
        BY Zenon, <1>r
      <4> QED
        BY <4>1, <4>2, RangeIs
    <3>3. Request \in Range(inbound'[c]) /\ \A x \in Client \ {c} : inbound'[x] = inbound[x]
      BY Zenon, <3>1, <3>2, <1>a
    <3> HIDE DEF k
    <3>4. Awaited(c)'
      BY Zenon, <3>3 DEF Awaited
    <3> QED
      BY Zenon, <1>12, <2>0, <3>1, <3>3, <3>4, <1>a, HoleOf
  <2>2. CASE ~Requests(b)
    <3>1. bridge' = [bridge EXCEPT ![c] = b] /\ inbound' = inbound
      BY Zenon, <1>12, <2>2 DEF RequestResync
    <3>2. b.inFlight => Awaited(c)'
      BY Zenon, <1>12, <1>b, <2>0, <3>1 DEF Awaited
    <3>3. b.buf # <<>> => b.inFlight
      BY Zenon, <2>2 DEF Requests
    <3> QED
      BY Zenon, <1>12, <2>0, <3>1, <3>2, <3>3, <1>a, HoleOf DEF Awaited
  <2> QED
    BY Zenon, <2>1, <2>2
<1>13. ASSUME NEW c \in Client, Timer(c) PROVE HoleInv'
  <2> DEFINE g == [bridge[c] EXCEPT !.grace = FALSE]
             h == [bridge[c] EXCEPT !.retry = FALSE, !.recent = FALSE]
  <2>0. Shaped(bridge[c])
    BY Zenon, <1>a DEF Sound, Bridge
  <2>1. /\ Shaped(g) /\ g.inFlight = bridge[c].inFlight /\ g.buf = bridge[c].buf
        /\ Shaped(h) /\ h.inFlight = bridge[c].inFlight /\ h.buf = bridge[c].buf
    <3>1. Shaped(g) /\ g.inFlight = bridge[c].inFlight /\ g.buf = bridge[c].buf
      BY Zenon, <2>0 DEF Shaped, Fields
    <3>2. Shaped(h) /\ h.inFlight = bridge[c].inFlight /\ h.buf = bridge[c].buf
      BY Zenon, <2>0 DEF Shaped, Fields
    <3> QED
      BY Zenon, <3>1, <3>2
  <2>2. RequestResync(c, g) \/ RequestResync(c, h)
    BY Zenon, <1>13 DEF Timer, GraceExpires, RetryExpires
  <2>3. UNCHANGED <<queues, throttled>>
    BY Zenon, <1>13 DEF Timer, GraceExpires, RetryExpires
  <2> HIDE DEF g, h
  <2> QED
    BY Zenon, <2>1, <2>2, <2>3, <1>12
<1>14. ASSUME NEW c \in Client, RequestAges(c) PROVE HoleInv'
  <2> DEFINE k == [bridge[c] EXCEPT !.recent = FALSE]
  <2>1. bridge' = [bridge EXCEPT ![c] = k]
    BY Zenon, <1>14 DEF RequestAges
  <2>2. /\ k.inFlight = bridge[c].inFlight /\ k.buf = bridge[c].buf
        /\ k.grace = bridge[c].grace /\ k.retry = bridge[c].retry
    BY <1>a DEF Sound, Bridge, Shaped, Fields
  <2> HIDE DEF k
  <2>3. inbound' = inbound /\ unicast' = unicast /\ pushed' = pushed /\ lagged' = lagged /\ throttled' = throttled
    BY Zenon, <1>14 DEF RequestAges, queues
  <2>4. k.inFlight => Awaited(c)'
    BY Zenon, <2>2, <2>3, <1>b DEF Awaited
  <2>5. k.buf # <<>> =>
               \/ k.grace \/ k.retry
               \/ unicast'[c] # <<>> \/ pushed'[c] # <<>> \/ lagged'[c]
               \/ Request \in Range(inbound'[c])
    BY Zenon, <2>2, <2>3, <1>b DEF Watched
  <2> QED
    BY Zenon, <2>1, <2>3, <2>4, <2>5, <1>a, HoleOf
<1>15. ASSUME NEW c \in Client, Join(c) PROVE HoleInv'
  <2> DEFINE k == [bridge[c] EXCEPT !.on = TRUE]
  <2>1. bridge' = [bridge EXCEPT ![c] = k]
    BY Zenon, <1>15 DEF Join
  <2>2. k.inFlight = bridge[c].inFlight
    BY <1>a DEF Sound, Bridge, Shaped, Fields
  <2> HIDE DEF k
  <2>3. /\ inbound' = inbound /\ unicast' = unicast /\ lagged' = lagged /\ throttled' = throttled
        /\ pushed'[c] # <<>> /\ \A x \in Client \ {c} : pushed'[x] = pushed[x]
    BY Zenon, <1>15, <1>a DEF Join
  <2>4. k.inFlight => Awaited(c)'
    BY Zenon, <2>2, <2>3, <1>b DEF Awaited
  <2> QED
    BY Zenon, <2>1, <2>3, <2>4, <1>a, HoleOf
<1>16. ASSUME NEW c \in Client, Disconnect(c) PROVE HoleInv'
  <2>1. bridge' = [bridge EXCEPT ![c] = Disconnected]
    BY Zenon, <1>16 DEF Disconnect
  <2>2. ~Disconnected.inFlight /\ Disconnected.buf = <<>>
    BY Zenon DEF Disconnected
  <2>3. throttled' = throttled
    BY Zenon, <1>16, <1>a, <1>b DEF Disconnect
  <2>4. \A x \in Client \ {c} :
               /\ inbound'[x] = inbound[x] /\ unicast'[x] = unicast[x]
               /\ pushed'[x] = pushed[x] /\ lagged'[x] = lagged[x]
    BY Zenon, <1>16, <1>a DEF Disconnect
  <2> QED
    BY Zenon, <2>1, <2>2, <2>3, <2>4, <1>a, HoleOf
<1>17. ASSUME NEW o \in Opener, CheckLoaded(o) \/ ApplyOpen(o) \/ OpenPersistFailed(o)
       PROVE  HoleInv'
  BY Zenon, <1>17, <1>c DEF CheckLoaded, ApplyOpen, OpenPersistFailed, queues, Awaited
<1>18. ASSUME NEW o \in Opener, AnnounceOpen(o) PROVE HoleInv'
  <2>1. \A x \in Client : lagged[x] => lagged'[x]
    BY Zenon, <1>18 DEF AnnounceOpen, Broadcast
  <2> QED
    BY Zenon, <1>18, <2>1, <1>c DEF AnnounceOpen, Awaited
<1>19. CASE UNCHANGED vars
  BY Zenon, <1>19, <1>c DEF vars, queues, Awaited
<1> QED
  BY Zenon, <1>2, <1>3, <1>4, <1>6, <1>7, <1>8, <1>10, <1>11, <1>13, <1>14, <1>15, <1>16,
     <1>17, <1>18, <1>19
     DEF Next, Serve, Deliver, Opening

(* HoleWatched, in every session whose server answers every request: only  *)
(* the throttle that eats requests (REQUEST_SNAPSHOT_MIN_INTERVAL) can     *)
(* leave a hole that nothing looks after.                                  *)
THEOREM HolesAreWatched == ASSUME ~Throttle PROVE Spec => []HoleWatched
<1>1. HoleInv => HoleWatched
  BY Zenon DEF HoleInv, HoleWatched, Watched
<1> QED
  BY <1>1, SafeHolds, HoleInit, HoleStep, PTL DEF Spec

----------------------------------------------------------------------------
(* Exactness, where nobody opens a dataset again.                          *)

(* What e says of the history h: its command made the document of its seq. *)
Right(h, e) ==
    e.cmd.op # "open" /\ e.seq \in Nat \ {0} /\ h[e.seq + 1] = Apply(h[e.seq], e.cmd)

Plain(b, h) == \A i \in 1..Len(b.buf) : b.buf[i].cmd # Ack /\ Right(h, b.buf[i])
Follows(b, h) == b.last # NoSeq => b.doc = h[b.last + 1]

LEMMA DeliverExact ==
    ASSUME NEW h, NEW b, Bridge(b), b.last \in Nat, b.doc = h[b.last + 1],
           NEW e \in Entry, e.cmd # Ack, Right(h, e)
    PROVE  /\ DeliverStale(b, e) = b
           /\ e.seq = b.last + 1 =>
                 DeliverNext(b, e).last \in Nat /\ DeliverNext(b, e).doc = h[DeliverNext(b, e).last + 1]
<1>1. DeliverStale(b, e) = b
  BY Zenon, DeliverFrame DEF Right
<1>2. DeliverNext(b, e).last = e.seq /\ DeliverNext(b, e).doc = Apply(b.doc, e.cmd)
  BY Zenon, DeliverFrame
<1> QED
  BY Zenon, <1>1, <1>2 DEF Right

LEMMA DrainNextExact ==
    ASSUME NEW h, NEW b, Bridge(b), b.last \in Nat, b.doc = h[b.last + 1],
           NEW e \in Entry, e.cmd # Ack, Right(h, e)
    PROVE  DrainNext(b, e).last \in Nat /\ DrainNext(b, e).doc = h[DrainNext(b, e).last + 1]
<1> DEFINE k == DrainNext(b, e)
<1>a. e.seq \in Nat
  BY Zenon DEF Entry
<1>1. CASE b.buf = <<>> /\ e.seq <= b.last
  <2>1. k = b
    BY <1>1, <1>a, DeliverExact DEF DrainNext
  <2> QED
    BY Zenon, <2>1
<1>2. CASE b.buf = <<>> /\ e.seq = b.last + 1
  <2>1. k = DeliverNext(b, e)
    BY <1>2, <1>a DEF DrainNext
  <2>2. DeliverNext(b, e).last \in Nat /\ DeliverNext(b, e).doc = h[DeliverNext(b, e).last + 1]
    BY Zenon, <1>2, DeliverExact
  <2> QED
    BY Zenon, <2>1, <2>2
<1>3. CASE ~(b.buf = <<>> /\ (e.seq <= b.last \/ e.seq = b.last + 1))
  <2>1. k = [b EXCEPT !.buf = Append(@, e)]
    BY Zenon, <1>3, <1>a DEF DrainNext
  <2>2. k.last = b.last /\ k.doc = b.doc
    BY Zenon, <2>1 DEF Bridge, Shaped, Fields
  <2> HIDE DEF k
  <2> QED
    BY Zenon, <2>2 DEF k
<1> QED
  BY Zenon, <1>1, <1>2, <1>3

LEMMA DrainExact ==
    ASSUME NEW h, NEW b, Bridge(b), NEW n \in Nat, Within(b, n), Sorted(b.buf), Plain(b, h),
           Follows(b, h), b.last # NoSeq
    PROVE  Follows(Drain(b), h)
<1> DEFINE m == Len(b.buf)
           d == Draining(b)
           P(i) == /\ Bridge(d[i]) /\ Stopped(d[i], b, i)
                   /\ d[i].last \in Nat /\ d[i].doc = h[d[i].last + 1]
           S == {i \in Nat : i <= m => P(i)}
<1>1. /\ m \in Nat /\ d[0] = [b EXCEPT !.buf = <<>>]
      /\ \A i \in 1..m : d[i] = DrainNext(d[i - 1], b.buf[i])
  BY DrainingSteps DEF Bridge
<1>0. b.last \in Nat /\ b.doc = h[b.last + 1]
  BY Zenon DEF Bridge, Follows
<1> HIDE DEF d
<1>2. P(0)
  <2>1. /\ d[0].buf = <<>> /\ d[0].last = b.last /\ d[0].doc = b.doc /\ Keeps(d[0], b, {"buf"})
        /\ <<>> \in Seq(Entry)
    <3>1. d[0].buf = <<>> /\ Keeps(d[0], b, {"buf"})
      BY Zenon, <1>1 DEF Bridge, Keeps, Shaped, Fields
    <3> QED
      BY <3>1 DEF Keeps, Fields
  <2>2. Bridge(d[0])
    BY Zenon, <2>1 DEF Bridge, Keeps, Fields
  <2>3. Stopped(d[0], b, 0)
    <3>1. SubSeq(b.buf, 1, 0) = <<>> /\ 1 \in 1..(0 + 1)
      BY DEF Bridge
    <3> QED
      BY <2>1, <3>1 DEF Stopped
  <2> QED
    BY Zenon, <1>0, <2>1, <2>2, <2>3
<1>3. ASSUME NEW i \in Nat, i \in S PROVE i + 1 \in S
  <2> SUFFICES ASSUME i + 1 <= m PROVE P(i + 1)
    OBVIOUS
  <2>1. i + 1 \in 1..m /\ (i + 1) - 1 = i /\ i <= m
    BY <1>1
  <2>2. P(i)
    BY Zenon, <1>3, <2>1
  <2>3. d[i + 1] = DrainNext(d[i], b.buf[i + 1])
    BY Zenon, <1>1, <2>1
  <2>4. Bridge(d[i + 1]) /\ Stopped(d[i + 1], b, i + 1)
    BY Zenon, <2>1, <2>2, <2>3, DrainNextFrame
  <2>5. b.buf[i + 1] \in Entry
    BY <2>1 DEF Bridge
  <2>6. b.buf[i + 1].cmd # Ack /\ Right(h, b.buf[i + 1])
    BY Zenon, <2>1 DEF Plain
  <2>7. d[i + 1].last \in Nat /\ d[i + 1].doc = h[d[i + 1].last + 1]
    <3> DEFINE k == DrainNext(d[i], b.buf[i + 1])
    <3>1. k.last \in Nat /\ k.doc = h[k.last + 1]
      BY ZenonT(40), <2>2, <2>5, <2>6, DrainNextExact
    <3> QED
      BY Zenon, <2>3, <3>1
  <2> QED
    BY Zenon, <2>4, <2>7
<1>4. 0 \in S
  BY Zenon, <1>2
<1>5. m \in S
  <2> HIDE DEF S
  <2> QED
    BY Zenon, <1>1, <1>3, <1>4, Induction
<1>6. P(m)
  BY <1>1, <1>5
<1>7. Drain(b).last = d[m].last /\ Drain(b).doc = d[m].doc
  BY Zenon, DrainFrame DEF d
<1> QED
  BY Zenon, <1>6, <1>7 DEF Follows

LEMMA HandleExact ==
    ASSUME NEW h, NEW b, NEW n \in Nat, Sound(b, n), Plain(b, h), Follows(b, h),
           NEW e \in Entry, e.seq <= n, e.cmd # Ack, Right(h, e)
    PROVE  Follows(HandleSequenced(b, e), h)
<1> DEFINE k == HandleSequenced(b, e)
<1>a. /\ Bridge(b) /\ Within(b, n) /\ Sorted(b.buf) /\ Beyond(b) /\ Len(b.buf) <= MaxPending
      /\ b.last \in Int /\ b.buf \in Seq(Entry) /\ (b.last # NoSeq => b.last \in Nat)
  BY DEF Sound, Bridge, NoSeq
<1>b. e.seq \in Nat /\ e.seq >= 1
  BY DEF Entry, Right
<1>1. CASE e.seq <= b.last
  <2>1. k = DeliverStale(b, e)
    BY <1>1, <1>a, <1>b DEF HandleSequenced
  <2>2. b.last # NoSeq
    BY <1>1, <1>b DEF NoSeq
  <2>3. k = b
    BY Zenon, <2>1, <2>2, <1>a, DeliverExact DEF Follows
  <2> QED
    BY Zenon, <2>3
<1>2. CASE e.seq = b.last + 1
  <2> DEFINE d == DeliverNext(b, e)
  <2>1. k = Drain(d)
    BY <1>2, <1>a, <1>b DEF HandleSequenced
  <2>2. Bridge(d) /\ Keeps(d, b, {"last", "doc", "mirror"}) /\ d.last = e.seq
    BY Zenon, <1>a, DeliverFrame
  <2>3. b.last # NoSeq
    BY <1>2, <1>a, <1>b DEF NoSeq
  <2>4. d.last \in Nat /\ d.doc = h[d.last + 1]
    BY Zenon, <2>3, <1>2, <1>a, DeliverExact DEF Follows
  <2> HIDE DEF d, k
  <2>5. d.buf = b.buf
    BY Zenon, <2>2 DEF Keeps, Fields
  <2>6. Within(d, n) /\ Sorted(d.buf)
    BY Zenon, <2>2, <2>5, <1>a DEF Within
  <2>7. Plain(d, h) /\ Follows(d, h) /\ d.last # NoSeq
    BY <2>4, <2>5 DEF Plain, Follows, NoSeq
  <2>8. Follows(k, h)
    BY Zenon, <2>1, <2>2, <2>6, <2>7, DrainExact
  <2> QED
    BY Zenon, <2>8 DEF k
<1>3. CASE e.seq > b.last + 1
  <2> DEFINE d == BufferSequenced(b, e)
  <2>1. k = ScheduleResync(d)
    BY <1>3, <1>a, <1>b DEF HandleSequenced
  <2>2. Bridge(d) /\ Keeps(d, b, {"buf"})
    BY Zenon, <1>3, <1>a, BufferFrame
  <2> HIDE DEF d, k
  <2>3. Keeps(k, d, {"grace"})
    BY Zenon, <2>1, <2>2, TimerFrame
  <2>4. k.last = b.last /\ k.doc = b.doc
    BY Zenon, <2>2, <2>3 DEF Keeps, Fields
  <2> QED
    BY Zenon, <2>4 DEF k, Follows
<1> QED
  BY <1>1, <1>2, <1>3, <1>a, <1>b

(* A bridge that has done nothing since its snapshot is exact. *)
Exact(b, h) ==
    /\ \A i \in 1..Len(b.buf) : b.buf[i].cmd # Ack => Right(h, b.buf[i])
    /\ b.since = "nothing" => b.pending = <<>> /\ Plain(b, h) /\ Follows(b, h)

LEMMA AdoptExact ==
    ASSUME NEW h, NEW b, NEW n \in Nat, Sound(b, n), Exact(b, h),
           NEW snap \in Snap, snap.seq <= n, snap.doc = h[snap.seq + 1]
    PROVE  Exact(AdoptSnapshot(b, snap), h)
<1> DEFINE k == AdoptSnapshot(b, snap)
<1>1. /\ Sound(k, n) /\ From(k, b, Ack)
      /\ Keeps(k, b, {"last", "doc", "mirror", "buf", "grace", "retry", "inFlight", "since"})
      /\ k.since = IF snap.seq < b.last THEN b.since ELSE Since(b)
  BY Zenon, AdoptFrame
<1> DEFINE start == Start(b, snap)
<1>s. k = Drain(start)
  BY Zenon DEF AdoptSnapshot, Start
<1>t. /\ Bridge(start) /\ start.last <= n /\ start.buf = b.buf
      /\ snap.seq < b.last => start.last = b.last /\ start.doc = b.doc
      /\ ~(snap.seq < b.last) => start.last = snap.seq /\ (b.pending = <<>> => start.doc = snap.doc)
  BY Zenon, StartFrame
<1> HIDE DEF k, start
<1>u. Within(start, n)
  BY Zenon, <1>t DEF Sound, Within
<1>2. /\ k = Drain(start)
      /\ Bridge(start) /\ Within(start, n) /\ start.buf = b.buf
      /\ snap.seq < b.last => start.last = b.last /\ start.doc = b.doc
      /\ ~(snap.seq < b.last) => start.last = snap.seq /\ (b.pending = <<>> => start.doc = snap.doc)
  BY Zenon, <1>s, <1>t, <1>u
<1>3. k.pending = b.pending
  BY Zenon, <1>1 DEF Keeps, Fields
<1>4. ASSUME NEW i \in 1..Len(k.buf) PROVE \E j \in 1..Len(b.buf) : k.buf[i] = b.buf[j]
  <2>1. k.buf[i] \in Entry
    BY <1>1 DEF Sound, Bridge
  <2>2. Ack \notin Entry
    BY Zenon DEF Ack, Entry
  <2> QED
    BY Zenon, <2>1, <2>2, <1>1 DEF From
<1>5. \A i \in 1..Len(k.buf) : k.buf[i].cmd # Ack => Right(h, k.buf[i])
  BY Zenon, <1>4 DEF Exact
<1>6. ASSUME k.since = "nothing" PROVE k.pending = <<>> /\ Plain(k, h) /\ Follows(k, h)
  <2>0. b.last \in Int /\ snap.seq \in Nat /\ Sorted(b.buf) /\ DOMAIN b.buf = 1..Len(b.buf)
    BY DEF Sound, Bridge, NoSeq, Snap
  <2>1. b.pending = <<>> /\ Plain(b, h) /\ (snap.seq < b.last => Follows(b, h))
    <3>1. CASE snap.seq < b.last
      BY Zenon, <3>1, <1>1, <1>6 DEF Exact
    <3>2. CASE ~(snap.seq < b.last)
      <4>1. Since(b) = "nothing"
        BY Zenon, <3>2, <1>1, <1>6
      <4>2. b.pending = <<>> /\ ~\E i \in DOMAIN b.buf : b.buf[i].cmd = Ack
        BY Zenon, <4>1 DEF Since
      <4> QED
        BY Zenon, <4>2, <3>2, <2>0 DEF Plain, Exact
    <3> QED
      BY Zenon, <3>1, <3>2
  <2>2. Follows(start, h) /\ start.last # NoSeq
    BY <2>0, <2>1, <1>2 DEF Follows, NoSeq
  <2>3. Plain(start, h) /\ Sorted(start.buf)
    BY Zenon, <2>0, <2>1, <1>2 DEF Plain
  <2>4. Follows(k, h)
    BY Zenon, <2>2, <2>3, <1>2, DrainExact
  <2>5. Plain(k, h)
    BY Zenon, <2>1, <1>4 DEF Plain
  <2> QED
    BY Zenon, <2>1, <2>4, <2>5, <1>3
<1> QED
  BY Zenon, <1>5, <1>6 DEF Exact, k

(* How many elements of q are in T. *)
Count(q, T) == Cardinality({i \in 1..Len(q) : q[i] \in T})

LEMMA CountIs ==
    ASSUME NEW X, NEW q \in Seq(X), NEW T
    PROVE  Count(q, T) \in Nat /\ (q = <<>> => Count(q, T) = 0)
<1> DEFINE A == {i \in 1..Len(q) : q[i] \in T}
<1>1. IsFiniteSet(1..Len(q)) /\ A \in SUBSET (1..Len(q))
  BY FS_Interval
<1>2. IsFiniteSet(A)
  BY Zenon, <1>1, FS_Subset
<1>3. Cardinality(A) \in Nat
  BY Zenon, <1>2, FS_CardinalityType
<1>4. q = <<>> => A = {}
  OBVIOUS
<1> HIDE DEF A
<1>5. q = <<>> => Cardinality(A) = 0
  BY Zenon, <1>4, FS_EmptySet
<1> QED
  BY Zenon, <1>3, <1>5 DEF Count, A

LEMMA CountAppend ==
    ASSUME NEW X, NEW q \in Seq(X), NEW x \in X, NEW T
    PROVE  Count(Append(q, x), T) = IF x \in T THEN Count(q, T) + 1 ELSE Count(q, T)
<1> DEFINE A == {i \in 1..Len(q) : q[i] \in T}
           r == Append(q, x)
           n == Len(q)
           B == {i \in 1..Len(r) : r[i] \in T}
<1>1. n \in Nat /\ Len(r) = n + 1 /\ r[n + 1] = x /\ \A i \in 1..n : r[i] = q[i]
  OBVIOUS
<1>2. A \in SUBSET (1..n) /\ IsFiniteSet(1..n)
  BY <1>1, FS_Interval
<1>3. IsFiniteSet(A)
  BY Zenon, <1>2, FS_Subset
<1> HIDE DEF r
<1>4. 1..(n + 1) = (1..n) \union {n + 1} /\ n + 1 \notin 1..n
  BY <1>1
<1>5. IF x \in T THEN B = A \union {n + 1} ELSE B = A
  BY Zenon, <1>1, <1>4
<1>6. n + 1 \notin A
  BY Zenon, <1>4
<1> HIDE DEF A, B, n
<1>7. Cardinality(A \union {n + 1}) = Cardinality(A) + 1
  BY Zenon, <1>3, <1>6, FS_AddElement
<1>8. Cardinality(B) = IF x \in T THEN Cardinality(A) + 1 ELSE Cardinality(A)
  BY Zenon, <1>5, <1>7
<1> QED
  BY Zenon, <1>8 DEF Count, A, B, r, n

LEMMA CountTail ==
    ASSUME NEW X, NEW q \in Seq(X), q # <<>>, NEW T
    PROVE  Count(q, T) = IF Head(q) \in T THEN Count(Tail(q), T) + 1 ELSE Count(Tail(q), T)
<1> DEFINE r == Tail(q)
           n == Len(r)
           A == {i \in 1..n : r[i] \in T}
           B == {i \in 1..Len(q) : q[i] \in T}
           f == [i \in A |-> i + 1]
<1>1. /\ n \in Nat /\ Len(q) = n + 1 /\ Head(q) = q[1] /\ \A i \in 1..n : r[i] = q[i + 1]
  OBVIOUS
<1> HIDE DEF r
<1>2. B \in SUBSET (1..(n + 1)) /\ IsFiniteSet(1..(n + 1)) /\ A \in SUBSET (1..n) /\ IsFiniteSet(1..n)
  <2>1. n + 1 \in Int /\ n \in Int
    BY <1>1
  <2>2. IsFiniteSet(1..(n + 1)) /\ IsFiniteSet(1..n)
    BY <2>1, FS_Interval
  <2>3. B \in SUBSET (1..(n + 1)) /\ A \in SUBSET (1..n)
    BY Zenon, <1>1
  <2> QED
    BY Zenon, <2>2, <2>3
<1>3. IsFiniteSet(A) /\ IsFiniteSet(B)
  BY Zenon, <1>2, FS_Subset
<1>4. ASSUME NEW j PROVE j \in B \ {1} <=> j \in Nat /\ j - 1 \in A
  <2>1. ASSUME j \in 2..(n + 1) PROVE q[j] = r[j - 1] /\ j \in 1..(n + 1) /\ j - 1 \in 1..n /\ j \in Nat
    <3>1. j - 1 \in 1..n /\ (j - 1) + 1 = j
      BY <1>1, <2>1
    <3> QED
      BY <1>1, <2>1, <3>1
  <2>2. j \in B \ {1} => j \in 2..(n + 1)
    BY <1>1
  <2>3. j \in Nat /\ j - 1 \in A => j \in 2..(n + 1)
    BY <1>1
  <2> QED
    BY <2>1, <2>2, <2>3, <1>1
<1>5. ExistsBijection(A, B \ {1})
  <2>1. ASSUME NEW i \in A PROVE i + 1 \in B \ {1} /\ i \in Nat
    <3>1. i \in Nat /\ i + 1 \in Nat /\ (i + 1) - 1 = i
      BY <1>2
    <3> QED
      BY Zenon, <3>1, <1>4
  <2>2. ASSUME NEW j \in B \ {1} PROVE \E i \in A : f[i] = j
    <3>1. j \in Nat /\ j - 1 \in A /\ (j - 1) + 1 = j
      BY <1>4
    <3> QED
      BY Zenon, <3>1
  <2> HIDE DEF A, B
  <2>3. f \in [A -> B \ {1}]
    BY Zenon, <2>1
  <2>4. ASSUME NEW i \in A, NEW k \in A, f[i] = f[k] PROVE i = k
    BY <2>1, <2>4
  <2>5. DOMAIN f = A
    BY Zenon
  <2> HIDE DEF f
  <2>6. f \in Bijection(A, B \ {1})
    BY Zenon, <2>2, <2>3, <2>4, <2>5 DEF Bijection, Injection, Surjection, IsInjective
  <2> QED
    BY Zenon, <2>6 DEF ExistsBijection
<1>6. 1 \in B <=> Head(q) \in T
  BY <1>1
<1> HIDE DEF A, B
<1>7. Cardinality(B \ {1}) = Cardinality(A)
  BY Zenon, <1>3, <1>5, FS_Bijection
<1>8. Cardinality(B \ {1}) = IF 1 \in B THEN Cardinality(B) - 1 ELSE Cardinality(B)
  BY Zenon, <1>3, FS_RemoveElement
<1>9. Cardinality(B) \in Nat /\ Cardinality(A) \in Nat
  BY Zenon, <1>3, FS_CardinalityType
<1>10. Cardinality(B) = IF Head(q) \in T THEN Cardinality(A) + 1 ELSE Cardinality(A)
  BY <1>6, <1>7, <1>8, <1>9
<1> QED
  BY Zenon, <1>10 DEF Count, A, B, n, r

(* The history only grows. *)
LEMMA HistoryGrows == SafeInv /\ [Next]_vars => \A s \in 0..seq : docAt'[s + 1] = docAt[s + 1]
<1> SUFFICES ASSUME SafeInv, [Next]_vars PROVE \A s \in 0..seq : docAt'[s + 1] = docAt[s + 1]
  BY Zenon
<1>1. ASSUME NEW cmd, SessionApply(cmd) PROVE \A s \in 0..seq : docAt'[s + 1] = docAt[s + 1]
  <2>1. docAt \in Seq(Doc) /\ Len(docAt) = seq + 1 /\ seq \in Nat
    BY Zenon DEF SafeInv, ServerInv
  <2>2. docAt' = Append(docAt, Apply(doc, cmd))
    BY Zenon, <1>1 DEF SessionApply
  <2>3. \A i \in 1..Len(docAt) : Append(docAt, Apply(doc, cmd))[i] = docAt[i]
    BY <2>1
  <2>4. \A s \in 0..seq : s + 1 \in 1..Len(docAt)
    BY <2>1
  <2> QED
    BY Zenon, <2>2, <2>3, <2>4
<1>2. CASE docAt' = docAt
  BY Zenon, <1>2
<1>3. ASSUME NEW c \in Client, Edit(c) \/ Deliver(c) \/ Timer(c) \/ PersistFailed(c) \/ ThrottleExpires(c)
                                \/ RequestAges(c) \/ Disconnect(c) \/ Join(c)
      PROVE  docAt' = docAt
  BY Zenon, <1>3
     DEF Edit, SendCommand, Deliver, PushSnapshot, ReceivePushed, ReceiveSnapshot,
         ReceiveSequenced,
              Timer, GraceExpires, RetryExpires, PersistFailed, ThrottleExpires, RequestAges,
              Disconnect, Join, server
<1>4. ASSUME NEW c \in Client, Serve(c) PROVE docAt' = docAt \/ \E cmd : SessionApply(cmd)
  BY Zenon, <1>4 DEF Serve, TakeCommand, Persisted, TakeRequest, server
<1>5. ASSUME NEW o \in Opener, Opening(o) \/ OpenPersistFailed(o)
      PROVE  docAt' = docAt \/ \E cmd : SessionApply(cmd)
  BY Zenon, <1>5
     DEF Opening, CheckLoaded, ApplyOpen, AnnounceOpen, OpenPersistFailed, server
<1>6. CASE UNCHANGED vars
  BY Zenon, <1>6, <1>2 DEF vars, server
<1> QED
  BY Zenon, <1>1, <1>2, <1>3, <1>4, <1>5, <1>6 DEF Next

(* What is on its way tells the history. *)
HistInv ==
    \A c \in Client :
        /\ Busy(handler[c]) => Right(docAt, handler[c])
        /\ \A i \in 1..Len(rx[c]) : Right(docAt, rx[c][i])
        /\ \A i \in 1..Len(unicast[c]) : unicast[c][i].doc = docAt[unicast[c][i].seq + 1]
        /\ \A i \in 1..Len(pushed[c]) : pushed[c][i].doc = docAt[pushed[c][i].seq + 1]

LEMMA RightStays ==
    ASSUME NEW h, NEW g, NEW n \in Nat, \A s \in 0..n : g[s + 1] = h[s + 1],
           NEW e, Right(h, e), e.seq <= n
    PROVE  Right(g, e)
<1>1. e.seq \in 0..n /\ e.seq - 1 \in 0..n /\ (e.seq - 1) + 1 = e.seq
  BY DEF Right
<1>2. g[e.seq + 1] = h[e.seq + 1] /\ g[e.seq] = h[e.seq]
  BY <1>1
<1> QED
  BY Zenon, <1>2 DEF Right

LEMMA HistStep == ASSUME Opener = {} PROVE SafeInv /\ HistInv /\ [Next]_vars => HistInv'
<1> SUFFICES ASSUME SafeInv, HistInv, [Next]_vars PROVE HistInv'
  BY Zenon
<1>s. ServerInv /\ QueueInv /\ seq \in Nat
  BY Zenon DEF SafeInv, ServerInv
<1>t. ServerInv' /\ QueueInv'
  BY Zenon, ServerStep, QueueStep
<1>a. /\ handler \in [Client -> Handling] /\ rx \in [Client -> Seq(Item)]
      /\ unicast \in [Client -> Seq(Snap)] /\ pushed \in [Client -> Seq(Snap)]
      /\ inbound \in [Client -> Seq(Cmd \union {Request})]
      /\ Snapshot = [seq |-> seq, doc |-> docAt[seq + 1]] /\ ~Busy(Idle)
  BY Zenon, <1>s DEF ServerInv, QueueInv, Snapshot, Busy, Idle
<1>g. \A s \in 0..seq : docAt'[s + 1] = docAt[s + 1]
  BY Zenon, HistoryGrows
<1>b. ASSUME NEW c \in Client, Busy(handler[c]) PROVE Right(docAt', handler[c])
  <2>1. Right(docAt, handler[c]) /\ handler[c].seq <= seq
    BY Zenon, <1>b, <1>s DEF HistInv, ServerInv
  <2> QED
    BY Zenon, <2>1, <1>g, <1>s, RightStays
<1>c. ASSUME NEW c \in Client, NEW i \in 1..Len(rx[c]) PROVE Right(docAt', rx[c][i])
  <2>1. Right(docAt, rx[c][i]) /\ rx[c][i].seq <= seq
    BY Zenon, <1>s DEF HistInv, QueueInv
  <2> QED
    BY Zenon, <2>1, <1>g, <1>s, RightStays
<1>d. ASSUME NEW c \in Client
      PROVE  /\ \A i \in 1..Len(unicast[c]) : unicast[c][i].doc = docAt'[unicast[c][i].seq + 1]
             /\ \A i \in 1..Len(pushed[c]) : pushed[c][i].doc = docAt'[pushed[c][i].seq + 1]
  <2>1. ASSUME NEW q \in Seq(Snap), NEW i \in 1..Len(q), q[i].seq <= seq,
               q[i].doc = docAt[q[i].seq + 1]
        PROVE  q[i].doc = docAt'[q[i].seq + 1]
    <3>1. q[i] \in Snap
      OBVIOUS
    <3>2. q[i].seq \in 0..seq
      BY <2>1, <3>1, <1>s DEF Snap
    <3> QED
      BY Zenon, <2>1, <3>2, <1>g
  <2>2. \A i \in 1..Len(unicast[c]) : unicast[c][i].seq <= seq /\ unicast[c][i].doc = docAt[unicast[c][i].seq + 1]
    BY Zenon, <1>s DEF HistInv, QueueInv
  <2>3. \A i \in 1..Len(pushed[c]) : pushed[c][i].seq <= seq /\ pushed[c][i].doc = docAt[pushed[c][i].seq + 1]
    BY Zenon, <1>s DEF HistInv, QueueInv
  <2> QED
    BY Zenon, <2>1, <2>2, <2>3, <1>a
<1>e. ASSUME \A c \in Client : Busy(handler'[c]) => Right(docAt', handler'[c]),
             \A c \in Client : \A i \in 1..Len(rx'[c]) : Right(docAt', rx'[c][i]),
             \A c \in Client : \A i \in 1..Len(unicast'[c]) :
                 \/ \E j \in 1..Len(unicast[c]) : unicast'[c][i] = unicast[c][j]
                 \/ unicast'[c][i].doc = docAt'[unicast'[c][i].seq + 1],
             \A c \in Client : \A i \in 1..Len(pushed'[c]) :
                 \/ \E j \in 1..Len(pushed[c]) : pushed'[c][i] = pushed[c][j]
                 \/ pushed'[c][i].doc = docAt'[pushed'[c][i].seq + 1]
      PROVE  HistInv'
  <2>1. \A c \in Client : \A i \in 1..Len(unicast'[c]) : unicast'[c][i].doc = docAt'[unicast'[c][i].seq + 1]
    BY <1>d, <1>e
  <2>2. \A c \in Client : \A i \in 1..Len(pushed'[c]) : pushed'[c][i].doc = docAt'[pushed'[c][i].seq + 1]
    BY <1>d, <1>e
  <2> QED
    BY Zenon, <1>e, <2>1, <2>2 DEF HistInv
<1>f. ASSUME \A c \in Client : Busy(handler'[c]) => Right(docAt', handler'[c]),
             \A c \in Client : \A i \in 1..Len(rx'[c]) : Right(docAt', rx'[c][i]),
             unicast' = unicast, pushed' = pushed
      PROVE  HistInv'
  BY Zenon, <1>e, <1>f
<1>h. ASSUME handler' = handler, UNCHANGED queues PROVE HistInv'
  BY Zenon, <1>b, <1>c, <1>f, <1>h DEF queues
<1>1. ASSUME NEW c \in Client, TakeCommand(c) PROVE HistInv'
  <2>0. unicast' = unicast /\ pushed' = pushed /\ rx' = rx
    BY Zenon, <1>1 DEF TakeCommand, queues
  <2>1. CASE handler' = handler
    BY Zenon, <1>b, <1>c, <1>f, <2>0, <2>1
  <2>2. CASE handler' # handler
    <3> DEFINE cmd == Head(inbound[c])
               held == [stage |-> "persisting", seq |-> seq + 1, cmd |-> cmd, sender |-> c]
    <3>1. /\ SessionApply(cmd) /\ handler' = [handler EXCEPT ![c] = held]
          /\ cmd.op \in {"rename", "remove"} /\ inbound[c] # <<>>
      BY Zenon, <1>1, <2>2 DEF TakeCommand
    <3>2. cmd \in Cmd
      <4>1. cmd \in Cmd \union {Request}
        BY <3>1, <1>a
      <4> QED
        BY <3>1, <4>1 DEF Request
    <3> HIDE DEF cmd
    <3>3. docAt'[seq + 2] = Apply(doc, cmd) /\ docAt'[seq + 1] = doc
      <4>1. seq' = seq + 1 /\ docAt'[seq' + 1] = doc' /\ doc' = Apply(doc, cmd)
        BY Zenon, <3>1, <3>2, <1>s, SessionApplyFrame
      <4>2. docAt'[seq + 1] = docAt[seq + 1] /\ docAt[seq + 1] = doc
        BY <1>g, <1>s DEF ServerInv
      <4>3. (seq + 1) + 1 = seq + 2
        BY <1>s
      <4> QED
        BY Zenon, <4>1, <4>2, <4>3
    <3>4. Right(docAt', held)
      BY <3>1, <3>3, <1>s DEF Right
    <3> HIDE DEF held
    <3>5. \A x \in Client : handler'[x] = handler[x] \/ handler'[x] = held
      BY Zenon, <3>1, <1>a
    <3>6. \A x \in Client : Busy(handler'[x]) => Right(docAt', handler'[x])
      BY Zenon, <3>4, <3>5, <1>b
    <3> QED
      BY Zenon, <3>6, <1>c, <1>f, <2>0
  <2> QED
    BY Zenon, <2>1, <2>2
<1>2. ASSUME NEW c \in Client, Persisted(c) PROVE HistInv'
  <2>1. /\ Busy(handler[c]) /\ Broadcast(handler[c].seq, handler[c].cmd, handler[c].sender)
        /\ handler' = [handler EXCEPT ![c] = Idle] /\ unicast' = unicast /\ pushed' = pushed
    BY Zenon, <1>2 DEF Persisted, Busy
  <2>2. handler[c].seq \in Nat /\ handler[c].cmd \in Cmd /\ handler[c].sender \in Client \union {Server}
    BY Zenon, <2>1, <1>a, BusyIs
  <2> DEFINE item == [seq |-> handler[c].seq, cmd |-> handler[c].cmd, sender |-> handler[c].sender]
  <2>3. \A x \in Client : \A i \in 1..Len(rx'[x]) :
           rx'[x][i] = item \/ \E j \in 1..Len(rx[x]) : rx'[x][i] = rx[x][j]
    BY Zenon, <2>1, <2>2, <1>s, BroadcastFrame
  <2>4. Right(docAt', item)
    BY Zenon, <2>1, <1>b DEF Right
  <2> HIDE DEF item
  <2>5. \A x \in Client : \A i \in 1..Len(rx'[x]) : Right(docAt', rx'[x][i])
    BY Zenon, <2>3, <2>4, <1>c
  <2>6. \A x \in Client : Busy(handler'[x]) => Right(docAt', handler'[x])
    BY Zenon, <2>1, <1>a, <1>b
  <2> QED
    BY Zenon, <2>1, <2>5, <2>6, <1>f
<1>3. ASSUME NEW c \in Client, PersistFailed(c) PROVE HistInv'
  <2>1. \A x \in Client : Busy(handler'[x]) => Right(docAt', handler'[x])
    BY Zenon, <1>3, <1>a, <1>b DEF PersistFailed
  <2> QED
    BY Zenon, <2>1, <1>3, <1>c, <1>f DEF PersistFailed, queues
<1>4. ASSUME NEW c \in Client, TakeRequest(c) PROVE HistInv'
  <2>1. handler' = handler /\ rx' = rx /\ pushed' = pushed /\ docAt' = docAt
    BY Zenon, <1>4 DEF TakeRequest, server
  <2>2. \A x \in Client : unicast'[x] = unicast[x] \/ unicast'[x] = Append(unicast[x], Snapshot)
    BY Zenon, <1>4, <1>a DEF TakeRequest
  <2>3. Snapshot.doc = docAt'[Snapshot.seq + 1]
    BY Zenon, <1>a, <2>1
  <2>4. ASSUME NEW x \in Client, NEW i \in 1..Len(unicast'[x])
        PROVE  \/ \E j \in 1..Len(unicast[x]) : unicast'[x][i] = unicast[x][j]
               \/ unicast'[x][i].doc = docAt'[unicast'[x][i].seq + 1]
    <3>1. CASE unicast'[x] = unicast[x]
      BY Zenon, <3>1
    <3>2. CASE unicast'[x] = Append(unicast[x], Snapshot)
      <4>1. unicast[x] \in Seq(Snap)
        BY Zenon, <1>a
      <4>2. /\ Len(unicast[x]) \in Nat /\ Len(Append(unicast[x], Snapshot)) = Len(unicast[x]) + 1
            /\ Append(unicast[x], Snapshot)[Len(unicast[x]) + 1] = Snapshot
            /\ \A k \in 1..Len(unicast[x]) : Append(unicast[x], Snapshot)[k] = unicast[x][k]
        BY <4>1
      <4>3. i \in 1..Len(unicast[x]) \/ i = Len(unicast[x]) + 1
        BY <3>2, <4>2
      <4> QED
        BY Zenon, <3>2, <4>2, <4>3, <2>3
    <3> QED
      BY Zenon, <3>1, <3>2, <2>2
  <2> QED
    BY Zenon, <2>1, <2>4, <1>b, <1>c, <1>e
<1>5. ASSUME NEW c \in Client, PushSnapshot(c) \/ Join(c) PROVE HistInv'
  <2>1. /\ pushed' = [pushed EXCEPT ![c] = <<Snapshot>>] /\ handler' = handler /\ rx' = rx
        /\ unicast' = unicast /\ docAt' = docAt
    BY Zenon, <1>5 DEF PushSnapshot, Join, server
  <2>2. Snapshot.doc = docAt'[Snapshot.seq + 1]
    BY Zenon, <1>a, <2>1
  <2>3. \A x \in Client : pushed'[x] = pushed[x] \/ pushed'[x] = <<Snapshot>>
    BY Zenon, <2>1, <1>a
  <2>4. ASSUME NEW x \in Client, NEW i \in 1..Len(pushed'[x])
        PROVE  \/ \E j \in 1..Len(pushed[x]) : pushed'[x][i] = pushed[x][j]
               \/ pushed'[x][i].doc = docAt'[pushed'[x][i].seq + 1]
    <3>1. CASE pushed'[x] = pushed[x]
      BY Zenon, <3>1
    <3>2. CASE pushed'[x] = <<Snapshot>>
      <4>1. pushed'[x][i] = Snapshot
        BY <3>2
      <4> QED
        BY Zenon, <4>1, <2>2
    <3> QED
      BY Zenon, <3>1, <3>2, <2>3
  <2> QED
    BY Zenon, <2>1, <2>4, <1>b, <1>c, <1>e
<1>6. ASSUME NEW c \in Client, ReceivePushed(c) PROVE HistInv'
  <2>1. /\ pushed' = [pushed EXCEPT ![c] = <<>>] /\ handler' = handler /\ rx' = rx /\ unicast' = unicast
    BY Zenon, <1>6 DEF ReceivePushed
  <2>2. \A x \in Client : \A i \in 1..Len(pushed'[x]) :
           \E j \in 1..Len(pushed[x]) : pushed'[x][i] = pushed[x][j]
    <3>1. \A x \in Client : pushed'[x] = pushed[x] \/ pushed'[x] = <<>>
      BY Zenon, <2>1, <1>a
    <3>2. Len(<<>>) = 0
      BY Zenon
    <3> QED
      BY <3>1, <3>2
  <2> QED
    BY Zenon, <2>1, <2>2, <1>b, <1>c, <1>e
<1>7. ASSUME NEW c \in Client, ReceiveSnapshot(c) PROVE HistInv'
  <2>1. /\ unicast' = [unicast EXCEPT ![c] = Tail(@)] /\ handler' = handler /\ rx' = rx
        /\ pushed' = pushed /\ unicast[c] # <<>>
    BY Zenon, <1>7 DEF ReceiveSnapshot
  <2>2. \A x \in Client : \A i \in 1..Len(unicast'[x]) :
           \E j \in 1..Len(unicast[x]) : unicast'[x][i] = unicast[x][j]
    <3>1. \A x \in Client : unicast'[x] = unicast[x] \/ (x = c /\ unicast'[x] = Tail(unicast[x]))
      BY Zenon, <2>1, <1>a
    <3>2. \A i \in 1..Len(Tail(unicast[c])) : Tail(unicast[c])[i] = unicast[c][i + 1] /\ i + 1 \in 1..Len(unicast[c])
      BY Zenon, <2>1, <1>a, TailIs
    <3> QED
      BY Zenon, <3>1, <3>2
  <2> QED
    BY Zenon, <2>1, <2>2, <1>b, <1>c, <1>e
<1>8. ASSUME NEW c \in Client, ReceiveSequenced(c) PROVE HistInv'
  <2>1. /\ rx' = [rx EXCEPT ![c] = Tail(@)] /\ handler' = handler /\ unicast' = unicast
        /\ pushed' = pushed /\ rx[c] # <<>>
    BY Zenon, <1>8 DEF ReceiveSequenced
  <2>2. \A x \in Client : \A i \in 1..Len(rx'[x]) : \E j \in 1..Len(rx[x]) : rx'[x][i] = rx[x][j]
    <3>1. \A x \in Client : rx'[x] = rx[x] \/ (x = c /\ rx'[x] = Tail(rx[x]))
      BY Zenon, <2>1, <1>a
    <3>2. \A i \in 1..Len(Tail(rx[c])) : Tail(rx[c])[i] = rx[c][i + 1] /\ i + 1 \in 1..Len(rx[c])
      BY Zenon, <2>1, <1>a, TailIs
    <3> QED
      BY Zenon, <3>1, <3>2
  <2> QED
    BY Zenon, <2>1, <2>2, <1>b, <1>c, <1>f
<1>9. ASSUME NEW c \in Client, Disconnect(c) PROVE HistInv'
  <2>1. /\ handler' = [handler EXCEPT ![c] = IF @ = Idle THEN Idle ELSE [@ EXCEPT !.sender = Server]]
        /\ rx' = [rx EXCEPT ![c] = <<>>] /\ unicast' = [unicast EXCEPT ![c] = <<>>]
        /\ pushed' = [pushed EXCEPT ![c] = <<>>]
    BY Zenon, <1>9 DEF Disconnect
  <2>2. ASSUME NEW x \in Client, Busy(handler'[x]) PROVE Right(docAt', handler'[x])
    <3>1. CASE handler'[x] = handler[x]
      BY Zenon, <2>2, <3>1, <1>b
    <3>2. CASE handler'[x] # handler[x]
      <4>1. x = c /\ handler[c] # Idle /\ handler'[c] = [handler[c] EXCEPT !.sender = Server]
        BY Zenon, <2>1, <3>2, <1>a
      <4>2. Busy(handler[c]) /\ handler[c] \in Handling
        BY Zenon, <4>1, <1>a, BusyIs
      <4>3. handler'[c].seq = handler[c].seq /\ handler'[c].cmd = handler[c].cmd
        BY Zenon, <4>1, <4>2 DEF Handling
      <4> QED
        BY Zenon, <4>1, <4>2, <4>3, <1>b DEF Right
    <3> QED
      BY Zenon, <3>1, <3>2
  <2>3. Len(<<>>) = 0
    BY Zenon
  <2>4. \A x \in Client : \A i \in 1..Len(rx'[x]) : Right(docAt', rx'[x][i])
    BY <2>1, <2>3, <1>a, <1>c
  <2>5. \A x \in Client : \A i \in 1..Len(unicast'[x]) : \E j \in 1..Len(unicast[x]) : unicast'[x][i] = unicast[x][j]
    BY <2>1, <2>3, <1>a
  <2>6. \A x \in Client : \A i \in 1..Len(pushed'[x]) : \E j \in 1..Len(pushed[x]) : pushed'[x][i] = pushed[x][j]
    BY <2>1, <2>3, <1>a
  <2> QED
    BY Zenon, <2>2, <2>4, <2>5, <2>6, <1>e
<1>10. ASSUME NEW c \in Client, Edit(c) \/ Timer(c) \/ ThrottleExpires(c) \/ RequestAges(c)
       PROVE  HistInv'
  BY Zenon, <1>10, <1>h
     DEF Edit, SendCommand, Timer, GraceExpires, RetryExpires, ThrottleExpires, RequestAges
<1>11. CASE UNCHANGED vars
  BY Zenon, <1>11, <1>h DEF vars
<1> QED
  BY ZenonT(40), <1>1, <1>2, <1>3, <1>4, <1>5, <1>6, <1>7, <1>8, <1>9, <1>10, <1>11
     DEF Next, Serve, Deliver

(* A client's own commands on their way: each is still pending there. *)
Own(c) == {m \in Item : m.sender = c}
Held(c) == IF Busy(handler[c]) /\ handler[c].sender = c THEN 1 ELSE 0
Owed(c) == Count(inbound[c], Cmd) + Held(c) + Count(rx[c], Own(c))

OwnInv ==
    \A c \in Client :
        /\ Busy(handler[c]) => handler[c].sender \in {c, Server}
        /\ Owed(c) <= Len(bridge[c].pending)

LEMMA BroadcastCounts ==
    ASSUME QueueInv, NEW s \in Nat, NEW cmd \in Cmd, NEW sender \in Client \union {Server},
           Broadcast(s, cmd, sender), NEW c \in Client
    PROVE  Count(rx'[c], Own(c)) <= IF sender = c THEN Count(rx[c], Own(c)) + 1 ELSE Count(rx[c], Own(c))
<1> DEFINE item == [seq |-> s, cmd |-> cmd, sender |-> sender]
           kept == IF Len(rx[c]) = Capacity THEN Tail(rx[c]) ELSE rx[c]
<1>1. rx[c] \in Seq(Item) /\ item \in Item
  BY Zenon DEF QueueInv, Item
<1>2. item \in Own(c) <=> sender = c
  BY Zenon, <1>1 DEF Own
<1>3. rx'[c] = rx[c] \/ rx'[c] = Append(kept, item)
  BY Zenon DEF Broadcast
<1>4. kept \in Seq(Item) /\ Count(kept, Own(c)) <= Count(rx[c], Own(c))
  <2>1. CASE Len(rx[c]) = Capacity
    <3>1. rx[c] # <<>>
      BY Zenon, <2>1, SyncAssumption
    <3>2. Tail(rx[c]) \in Seq(Item)
      BY Zenon, <1>1, <3>1, TailIs
    <3>3. Count(rx[c], Own(c)) = IF Head(rx[c]) \in Own(c) THEN Count(Tail(rx[c]), Own(c)) + 1
                                 ELSE Count(Tail(rx[c]), Own(c))
      BY Zenon, <1>1, <3>1, CountTail
    <3>4. Count(Tail(rx[c]), Own(c)) \in Nat
      BY Zenon, <3>2, CountIs
    <3> QED
      BY <2>1, <3>2, <3>3, <3>4
  <2>2. CASE Len(rx[c]) # Capacity
    <3>1. Count(rx[c], Own(c)) \in Nat
      BY Zenon, <1>1, CountIs
    <3> QED
      BY <1>1, <2>2, <3>1
  <2> QED
    BY Zenon, <2>1, <2>2
<1> HIDE DEF item, kept
<1>5. Count(Append(kept, item), Own(c)) =
        IF item \in Own(c) THEN Count(kept, Own(c)) + 1 ELSE Count(kept, Own(c))
  BY Zenon, <1>1, <1>4, CountAppend
<1>6. Count(rx[c], Own(c)) \in Nat /\ Count(kept, Own(c)) \in Nat
  BY Zenon, <1>1, <1>4, CountIs
<1>7. CASE rx'[c] = rx[c]
  <2>1. Count(rx'[c], Own(c)) = Count(rx[c], Own(c))
    BY Zenon, <1>7
  <2> QED
    BY <2>1, <1>6
<1>8. CASE rx'[c] = Append(kept, item)
  <2>1. Count(rx'[c], Own(c)) = IF sender = c THEN Count(kept, Own(c)) + 1 ELSE Count(kept, Own(c))
    BY Zenon, <1>2, <1>5, <1>8
  <2> QED
    BY <2>1, <1>4, <1>6
<1> QED
  BY Zenon, <1>3, <1>7, <1>8

LEMMA OwnStep == ASSUME Opener = {} PROVE SafeInv /\ OwnInv /\ [Next]_vars => OwnInv'
<1> SUFFICES ASSUME SafeInv, OwnInv, [Next]_vars PROVE OwnInv'
  BY Zenon
<1>s. ServerInv /\ QueueInv /\ ClientInv /\ seq \in Nat
  BY Zenon DEF SafeInv, ServerInv
<1>a. /\ handler \in [Client -> Handling] /\ rx \in [Client -> Seq(Item)]
      /\ inbound \in [Client -> Seq(Cmd \union {Request})]
      /\ DOMAIN bridge = Client /\ \A c \in Client : Sound(bridge[c], seq) /\ Bridge(bridge[c])
      /\ ~Busy(Idle) /\ Request \notin Cmd /\ Request \in Cmd \union {Request}
  BY Zenon, <1>s DEF ServerInv, QueueInv, ClientInv, Sound, Busy, Idle, Request, Cmd
<1>b. ASSUME NEW c \in Client
      PROVE  /\ Count(inbound[c], Cmd) \in Nat /\ Count(rx[c], Own(c)) \in Nat
             /\ Held(c) \in Nat /\ Len(bridge[c].pending) \in Nat
             /\ Count(inbound[c], Cmd) + Held(c) + Count(rx[c], Own(c)) <= Len(bridge[c].pending)
             /\ Busy(handler[c]) => handler[c].sender \in {c, Server}
  <2>1. Count(inbound[c], Cmd) \in Nat /\ Count(rx[c], Own(c)) \in Nat
    BY Zenon, <1>a, CountIs
  <2>2. Len(bridge[c].pending) \in Nat
    BY <1>a DEF Bridge
  <2> QED
    BY Zenon, <2>1, <2>2 DEF OwnInv, Owed, Held
(* Only c's own account changes. *)
<1>c. ASSUME NEW c \in Client,
             \A x \in Client \ {c} :
                 /\ inbound'[x] = inbound[x] /\ handler'[x] = handler[x] /\ rx'[x] = rx[x]
                 /\ bridge'[x].pending = bridge[x].pending,
             Busy(handler'[c]) => handler'[c].sender \in {c, Server},
             Owed(c)' <= Len(bridge'[c].pending)
      PROVE  OwnInv'
  <2>1. ASSUME NEW x \in Client
        PROVE  /\ Busy(handler'[x]) => handler'[x].sender \in {x, Server}
               /\ Owed(x)' <= Len(bridge'[x].pending)
    <3>1. CASE x = c
      BY Zenon, <3>1, <1>c
    <3>2. CASE x # c
      BY Zenon, <3>2, <1>c DEF OwnInv, Owed, Held
    <3> QED
      BY Zenon, <3>1, <3>2
  <2> QED
    BY Zenon, <2>1 DEF OwnInv
<1>d. ASSUME NEW c \in Client, NEW k, bridge' = [bridge EXCEPT ![c] = k], k.pending = bridge[c].pending,
             UNCHANGED <<inbound, handler, rx>>
      PROVE  OwnInv'
  <2>1. bridge'[c] = k /\ \A x \in Client \ {c} : bridge'[x] = bridge[x]
    BY Zenon, <1>a, <1>d
  <2>2. Owed(c)' <= Len(bridge'[c].pending)
    BY Zenon, <2>1, <1>d, <1>b DEF Owed, Held
  <2> QED
    BY Zenon, <2>1, <2>2, <1>b, <1>c, <1>d
<1>e. ASSUME UNCHANGED <<inbound, handler, rx, bridge>> PROVE OwnInv'
  BY Zenon, <1>e DEF OwnInv, Owed, Held
<1>1. ASSUME NEW c \in Client, NEW cmd \in Cmd, SendCommand(c, cmd) PROVE OwnInv'
  <2> DEFINE b == bridge[c]
             k == [OnCommand(b, cmd) EXCEPT !.pending = Append(@, cmd), !.since = "edited"]
  <2>1. /\ bridge' = [bridge EXCEPT ![c] = k] /\ inbound' = [inbound EXCEPT ![c] = Append(@, cmd)]
        /\ handler' = handler /\ rx' = rx
    BY Zenon, <1>1 DEF SendCommand, queues
  <2>2. Shaped(b) /\ b.pending \in Seq(Cmd)
    BY Zenon, <1>a DEF Bridge
  <2> HIDE DEF b
  <2>3. k.pending = Append(b.pending, cmd)
    BY Zenon, <2>2 DEF OnCommand, Shaped, Fields
  <2> HIDE DEF k
  <2>4. Len(k.pending) = Len(b.pending) + 1
    BY <2>2, <2>3
  <2>5. inbound[c] \in Seq(Cmd \union {Request}) /\ cmd \in Cmd \union {Request}
    BY Zenon, <1>a
  <2>6. Count(Append(inbound[c], cmd), Cmd) = Count(inbound[c], Cmd) + 1
    BY <2>5, CountAppend
  <2>7. /\ bridge'[c] = k /\ inbound'[c] = Append(inbound[c], cmd)
        /\ \A x \in Client \ {c} : bridge'[x] = bridge[x] /\ inbound'[x] = inbound[x]
    BY Zenon, <2>1, <1>a
  <2>8. Owed(c)' <= Len(bridge'[c].pending)
    <3>1. Held(c)' = Held(c) /\ Count(rx'[c], Own(c)) = Count(rx[c], Own(c))
      BY Zenon, <2>1 DEF Held
    <3>2. Count(inbound'[c], Cmd) = Count(inbound[c], Cmd) + 1 /\ Len(bridge'[c].pending) = Len(bridge[c].pending) + 1
      BY Zenon, <2>4, <2>6, <2>7 DEF b
    <3>3. Owed(c)' = Count(inbound'[c], Cmd) + Held(c)' + Count(rx'[c], Own(c))
      BY Zenon DEF Owed
    <3> QED
      BY <3>1, <3>2, <3>3, <1>b
  <2> QED
    BY Zenon, <2>1, <2>7, <2>8, <1>b, <1>c
<1>2. ASSUME NEW c \in Client, Edit(c) PROVE OwnInv'
  <2>1. Present(bridge[c].doc) \subseteq Dataset
    BY Zenon, <1>a DEF Bridge, Doc, Present
  <2> QED
    BY Zenon, <1>1, <1>2, <2>1, CommandsTyped DEF Edit
<1>3. ASSUME NEW c \in Client, inbound[c] # <<>>, inbound' = [inbound EXCEPT ![c] = Tail(@)]
      PROVE  /\ Count(inbound[c], Cmd) = IF Head(inbound[c]) \in Cmd THEN Count(inbound'[c], Cmd) + 1
                                          ELSE Count(inbound'[c], Cmd)
             /\ Count(inbound'[c], Cmd) \in Nat /\ Head(inbound[c]) \in Cmd \union {Request}
             /\ \A x \in Client \ {c} : inbound'[x] = inbound[x]
  <2>1. inbound[c] \in Seq(Cmd \union {Request}) /\ inbound'[c] = Tail(inbound[c])
    BY Zenon, <1>a, <1>3
  <2>2. Tail(inbound[c]) \in Seq(Cmd \union {Request}) /\ Head(inbound[c]) \in Cmd \union {Request}
    BY Zenon, <2>1, <1>3, TailIs
  <2>3. Count(inbound'[c], Cmd) \in Nat
    BY Zenon, <2>1, <2>2, CountIs
  <2>4. Count(inbound[c], Cmd) = IF Head(inbound[c]) \in Cmd THEN Count(Tail(inbound[c]), Cmd) + 1
                                 ELSE Count(Tail(inbound[c]), Cmd)
    BY Zenon, <2>1, <1>3, CountTail
  <2> QED
    BY Zenon, <2>1, <2>2, <2>3, <2>4, <1>3, <1>a
<1>4. ASSUME NEW c \in Client, TakeCommand(c) PROVE OwnInv'
  <2> DEFINE held == [stage |-> "persisting", seq |-> seq + 1, cmd |-> Head(inbound[c]), sender |-> c]
  <2>1. /\ handler[c] = Idle /\ inbound[c] # <<>> /\ inbound' = [inbound EXCEPT ![c] = Tail(@)]
        /\ Head(inbound[c]).op \in {"rename", "remove"} /\ rx' = rx /\ bridge' = bridge
        /\ handler' = handler \/ handler' = [handler EXCEPT ![c] = held]
    BY Zenon, <1>4 DEF TakeCommand, queues
  <2>2. Head(inbound[c]) \in Cmd
    <3>1. Head(inbound[c]) \in Cmd \union {Request}
      BY Zenon, <2>1, <1>3
    <3>2. Request.op = "request"
      BY Zenon DEF Request
    <3> QED
      BY Zenon, <2>1, <3>1, <3>2
  <2>3. /\ Count(inbound[c], Cmd) = Count(inbound'[c], Cmd) + 1 /\ Count(inbound'[c], Cmd) \in Nat
        /\ \A x \in Client \ {c} : inbound'[x] = inbound[x]
    BY Zenon, <2>1, <2>2, <1>3
  <2>4. Held(c) = 0 /\ Held(c)' \in {0, 1}
    BY Zenon, <2>1, <1>a DEF Held
  <2>5. held.sender = c
    BY Zenon
  <2> HIDE DEF held
  <2>6. /\ \A x \in Client \ {c} : handler'[x] = handler[x]
        /\ handler'[c] = Idle \/ handler'[c] = held
    BY Zenon, <2>1, <1>a
  <2>7. Busy(handler'[c]) => handler'[c].sender \in {c, Server}
    BY Zenon, <2>5, <2>6, <1>a
  <2>8. Owed(c)' <= Len(bridge'[c].pending)
    <3>1. Owed(c)' = Count(inbound'[c], Cmd) + Held(c)' + Count(rx[c], Own(c))
      BY Zenon, <2>1 DEF Owed
    <3> QED
      BY <3>1, <2>1, <2>3, <2>4, <1>b
  <2> QED
    BY Zenon, <2>1, <2>3, <2>6, <2>7, <2>8, <1>c
<1>5. ASSUME NEW c \in Client, TakeRequest(c) PROVE OwnInv'
  <2>1. /\ inbound[c] # <<>> /\ inbound' = [inbound EXCEPT ![c] = Tail(@)]
        /\ Head(inbound[c]).op = "request" /\ rx' = rx /\ bridge' = bridge /\ handler' = handler
    BY Zenon, <1>5 DEF TakeRequest
  <2>2. Head(inbound[c]) \notin Cmd
    BY Zenon, <2>1 DEF Cmd
  <2>3. /\ Count(inbound[c], Cmd) = Count(inbound'[c], Cmd)
        /\ \A x \in Client \ {c} : inbound'[x] = inbound[x]
    BY Zenon, <2>1, <2>2, <1>3
  <2>4. Owed(c)' <= Len(bridge'[c].pending)
    BY Zenon, <2>1, <2>3, <1>b DEF Owed, Held
  <2> QED
    BY Zenon, <2>1, <2>3, <2>4, <1>b, <1>c
<1>6. ASSUME NEW c \in Client, Persisted(c) PROVE OwnInv'
  <2> DEFINE s == handler[c].sender
  <2>1. /\ Busy(handler[c]) /\ Broadcast(handler[c].seq, handler[c].cmd, s)
        /\ handler' = [handler EXCEPT ![c] = Idle] /\ inbound' = inbound /\ bridge' = bridge
    BY Zenon, <1>6 DEF Persisted, Busy
  <2>2. handler[c].seq \in Nat /\ handler[c].cmd \in Cmd /\ s \in Client \union {Server}
    BY Zenon, <2>1, <1>a, BusyIs
  <2>3. \A x \in Client : Count(rx'[x], Own(x)) <= IF s = x THEN Count(rx[x], Own(x)) + 1 ELSE Count(rx[x], Own(x))
    BY ZenonT(40), <2>1, <2>2, <1>s, BroadcastCounts
  <2>4. s \in {c, Server} /\ Server \notin Client
    BY Zenon, <2>1, <1>b, SyncAssumption
  <2>5. QueueInv'
    BY Zenon, QueueStep
  <2>6. ASSUME NEW x \in Client
        PROVE  /\ Busy(handler'[x]) => handler'[x].sender \in {x, Server}
               /\ Owed(x)' <= Len(bridge'[x].pending)
    <3>0. Count(rx'[x], Own(x)) \in Nat
      BY Zenon, <2>5, CountIs DEF QueueInv
    <3>1. CASE x = c
      <4>1. handler'[x] = Idle /\ Held(x)' = 0
        BY Zenon, <2>1, <3>1, <1>a DEF Held
      <4>2. Held(x) = IF s = x THEN 1 ELSE 0
        BY Zenon, <2>1, <3>1 DEF Held
      <4>3. Owed(x)' = Count(inbound[x], Cmd) + 0 + Count(rx'[x], Own(x))
        BY Zenon, <2>1, <4>1 DEF Owed
      <4>4. Owed(x)' <= Len(bridge[x].pending)
        BY <4>2, <4>3, <3>0, <2>3, <1>b
      <4> QED
        BY Zenon, <4>1, <4>4, <2>1, <1>a
    <3>2. CASE x # c
      <4>1. handler'[x] = handler[x] /\ Held(x)' = Held(x) /\ s # x
        BY Zenon, <2>1, <2>4, <3>2, <1>a DEF Held
      <4>2. Owed(x)' = Count(inbound[x], Cmd) + Held(x) + Count(rx'[x], Own(x))
        BY Zenon, <2>1, <4>1 DEF Owed
      <4>3. Owed(x)' <= Len(bridge[x].pending)
        BY <4>1, <4>2, <3>0, <2>3, <1>b
      <4> QED
        BY Zenon, <4>1, <4>3, <2>1, <1>b
    <3> QED
      BY Zenon, <3>1, <3>2
  <2> QED
    BY Zenon, <2>6 DEF OwnInv
<1>7. ASSUME NEW c \in Client, PersistFailed(c) PROVE OwnInv'
  <2>1. handler' = [handler EXCEPT ![c] = Idle] /\ inbound' = inbound /\ bridge' = bridge /\ rx' = rx
    BY Zenon, <1>7 DEF PersistFailed, queues
  <2>2. handler'[c] = Idle /\ Held(c)' = 0 /\ \A x \in Client \ {c} : handler'[x] = handler[x]
    BY Zenon, <2>1, <1>a DEF Held
  <2>3. Owed(c)' = Count(inbound[c], Cmd) + 0 + Count(rx[c], Own(c))
    BY Zenon, <2>1, <2>2 DEF Owed
  <2>4. Owed(c)' <= Len(bridge'[c].pending)
    BY <2>1, <2>3, <1>b
  <2> QED
    BY Zenon, <2>1, <2>2, <2>4, <1>a, <1>c
<1>8. ASSUME NEW c \in Client, ReceivePushed(c) \/ ReceiveSnapshot(c) PROVE OwnInv'
  <2>1. ASSUME NEW q \in Seq(Snap), q # <<>>, \A i \in 1..Len(q) : q[i].seq <= seq
        PROVE  Head(q) \in Snap /\ Head(q).seq <= seq
    BY Zenon, <2>1, TailIs
  <2>2. PICK snap \in Snap : snap.seq <= seq /\ bridge' = [bridge EXCEPT ![c] = AdoptSnapshot(@, snap)]
    BY Zenon, <1>8, <2>1, <1>s DEF ReceivePushed, ReceiveSnapshot, QueueInv
  <2> DEFINE k == AdoptSnapshot(bridge[c], snap)
  <2>3. Keeps(k, bridge[c], {"last", "doc", "mirror", "buf", "grace", "retry", "inFlight", "since"})
    BY Zenon, <2>2, <1>a, <1>s, AdoptFrame
  <2>4. bridge' = [bridge EXCEPT ![c] = k]
    BY Zenon, <2>2
  <2> HIDE DEF k
  <2>5. k.pending = bridge[c].pending
    BY Zenon, <2>3 DEF Keeps, Fields
  <2> QED
    BY Zenon, <1>8, <2>4, <2>5, <1>d DEF ReceivePushed, ReceiveSnapshot
<1>9. ASSUME NEW c \in Client, ReceiveSequenced(c) PROVE OwnInv'
  <2> DEFINE m == Head(rx[c])
             own == m.sender = c
             b == Acked(bridge[c], own)
             e == [seq |-> m.seq, cmd |-> IF own THEN Ack ELSE m.cmd]
             k == HandleSequenced(b, e)
  <2>1. /\ bridge' = [bridge EXCEPT ![c] = k] /\ rx[c] # <<>> /\ rx' = [rx EXCEPT ![c] = Tail(@)]
        /\ inbound' = inbound /\ handler' = handler
    BY Zenon, <1>9 DEF ReceiveSequenced, Acked
  <2>2. m \in Item /\ m.seq <= seq
    BY ZenonT(40), <2>1, <1>s, TailIs DEF QueueInv
  <2>3. own \in BOOLEAN /\ e.seq = m.seq
    BY Zenon
  <2>o. m \in Own(c) <=> own
    BY Zenon, <2>2 DEF Own
  <2>p. Count(rx[c], Own(c)) = IF m \in Own(c) THEN Count(Tail(rx[c]), Own(c)) + 1 ELSE Count(Tail(rx[c]), Own(c))
    BY Zenon, <2>1, <1>a, CountTail
  <2> HIDE DEF m, own
  <2>4. e \in Entry /\ e.seq <= seq
    BY Zenon, <2>2, <2>3, EntryOf
  <2>5. /\ Sound(b, seq)
        /\ b.pending = IF own /\ bridge[c].pending # <<>> THEN Tail(bridge[c].pending) ELSE bridge[c].pending
    BY Zenon, <2>3, <1>a, <1>s, AckedFrame
  <2> HIDE DEF b, e
  <2>6. Keeps(k, b, {"last", "doc", "mirror", "buf", "grace", "retry"})
    BY Zenon, <2>4, <2>5, <1>s, HandleFrame
  <2> HIDE DEF k
  <2>7. k.pending = b.pending
    BY Zenon, <2>6 DEF Keeps, Fields
  <2>8. /\ bridge'[c] = k /\ rx'[c] = Tail(rx[c])
        /\ \A x \in Client \ {c} : bridge'[x] = bridge[x] /\ rx'[x] = rx[x]
    BY Zenon, <2>1, <1>a
  <2>9. Count(Tail(rx[c]), Own(c)) \in Nat
    <3>1. Tail(rx[c]) \in Seq(Item)
      BY Zenon, <2>1, <1>a, TailIs
    <3> QED
      BY Zenon, <3>1, CountIs
  <2>10. Owed(c)' = Count(inbound[c], Cmd) + Held(c) + Count(Tail(rx[c]), Own(c))
    BY Zenon, <2>1, <2>8 DEF Owed, Held
  <2>11. Owed(c)' <= Len(b.pending)
    <3>1. CASE ~own
      BY ZenonT(40), <3>1, <2>5, <2>9, <2>10, <2>o, <2>p, <1>b
    <3>2. CASE own
      <4>1. Count(rx[c], Own(c)) = Count(Tail(rx[c]), Own(c)) + 1
        BY Zenon, <3>2, <2>o, <2>p
      <4>2. Len(bridge[c].pending) >= 1
        BY <4>1, <2>9, <1>b
      <4>3. bridge[c].pending # <<>> /\ bridge[c].pending \in Seq(Cmd)
        BY <4>2, <1>a DEF Bridge
      <4>4. Len(b.pending) = Len(bridge[c].pending) - 1
        BY Zenon, <3>2, <4>3, <2>5, TailIs
      <4> QED
        BY <4>1, <4>4, <2>9, <2>10, <1>b
    <3> QED
      BY Zenon, <3>1, <3>2, <2>3
  <2>12. Owed(c)' <= Len(bridge'[c].pending)
    BY Zenon, <2>7, <2>8, <2>11
  <2> QED
    BY Zenon, <2>1, <2>8, <2>12, <1>b, <1>c
<1>10. ASSUME NEW c \in Client, NEW b, Shaped(b), b.pending = bridge[c].pending, RequestResync(c, b),
              handler' = handler, rx' = rx
       PROVE  OwnInv'
  <2> DEFINE k == IF Requests(b) THEN Requested(b) ELSE b
  <2>1. /\ bridge' = [bridge EXCEPT ![c] = k]
        /\ inbound' = inbound \/ inbound' = [inbound EXCEPT ![c] = Append(@, Request)]
    BY Zenon, <1>10 DEF RequestResync
  <2>2. k.pending = bridge[c].pending
    BY Zenon, <1>10 DEF Requested, Shaped, Fields
  <2> HIDE DEF k
  <2>3. /\ bridge'[c] = k /\ \A x \in Client \ {c} : bridge'[x] = bridge[x] /\ inbound'[x] = inbound[x]
        /\ inbound'[c] = inbound[c] \/ inbound'[c] = Append(inbound[c], Request)
    BY Zenon, <2>1, <1>a
  <2>4. Count(Append(inbound[c], Request), Cmd) = Count(inbound[c], Cmd)
    <3>1. inbound[c] \in Seq(Cmd \union {Request}) /\ Request \in Cmd \union {Request} /\ Request \notin Cmd
      BY Zenon, <1>a
    <3> QED
      BY Zenon, <3>1, CountAppend
  <2>5. Owed(c)' = Count(inbound[c], Cmd) + Held(c) + Count(rx[c], Own(c))
    BY Zenon, <2>3, <2>4, <1>10 DEF Owed, Held
  <2>6. Owed(c)' <= Len(bridge'[c].pending)
    BY Zenon, <2>2, <2>3, <2>5, <1>b
  <2> QED
    BY Zenon, <1>10, <2>3, <2>6, <1>b, <1>c
<1>11. ASSUME NEW c \in Client, Timer(c) PROVE OwnInv'
  <2> DEFINE g == [bridge[c] EXCEPT !.grace = FALSE]
             h == [bridge[c] EXCEPT !.retry = FALSE, !.recent = FALSE]
  <2>0. Shaped(bridge[c])
    BY Zenon, <1>a DEF Bridge
  <2>1. Shaped(g) /\ g.pending = bridge[c].pending
    BY Zenon, <2>0 DEF Shaped, Fields
  <2>2. Shaped(h) /\ h.pending = bridge[c].pending
    BY Zenon, <2>0 DEF Shaped, Fields
  <2>3. handler' = handler /\ rx' = rx /\ (RequestResync(c, g) \/ RequestResync(c, h))
    BY Zenon, <1>11 DEF Timer, GraceExpires, RetryExpires, queues
  <2> HIDE DEF g, h
  <2> QED
    BY Zenon, <2>1, <2>2, <2>3, <1>10
<1>12. ASSUME NEW c \in Client, RequestAges(c) \/ Join(c) PROVE OwnInv'
  <2> DEFINE g == [bridge[c] EXCEPT !.recent = FALSE]
             h == [bridge[c] EXCEPT !.on = TRUE]
  <2>0. Shaped(bridge[c])
    BY Zenon, <1>a DEF Bridge
  <2>1. g.pending = bridge[c].pending /\ h.pending = bridge[c].pending
    BY Zenon, <2>0 DEF Shaped, Fields
  <2>2. /\ bridge' = [bridge EXCEPT ![c] = g] \/ bridge' = [bridge EXCEPT ![c] = h]
        /\ UNCHANGED <<inbound, handler, rx>>
    BY Zenon, <1>12 DEF RequestAges, Join, queues
  <2> HIDE DEF g, h
  <2> QED
    BY Zenon, <2>1, <2>2, <1>d
<1>13. ASSUME NEW c \in Client, Disconnect(c) PROVE OwnInv'
  <2>1. /\ bridge' = [bridge EXCEPT ![c] = Disconnected]
        /\ handler' = [handler EXCEPT ![c] = IF @ = Idle THEN Idle ELSE [@ EXCEPT !.sender = Server]]
        /\ rx' = [rx EXCEPT ![c] = <<>>] /\ inbound' = [inbound EXCEPT ![c] = <<>>]
    BY Zenon, <1>13 DEF Disconnect
  <2>2. /\ bridge'[c] = Disconnected /\ rx'[c] = <<>> /\ inbound'[c] = <<>>
        /\ \A x \in Client \ {c} : /\ bridge'[x] = bridge[x] /\ rx'[x] = rx[x]
                                    /\ inbound'[x] = inbound[x] /\ handler'[x] = handler[x]
    BY Zenon, <2>1, <1>a
  <2>3. Busy(handler'[c]) => handler'[c].sender = Server
    <3>1. CASE handler[c] = Idle
      BY Zenon, <2>1, <3>1, <1>a
    <3>2. CASE handler[c] # Idle
      <4>1. handler'[c] = [handler[c] EXCEPT !.sender = Server] /\ handler[c] \in Handling
        BY Zenon, <2>1, <3>2, <1>a
      <4> QED
        BY Zenon, <4>1, <3>2 DEF Handling
    <3> QED
      BY Zenon, <3>1, <3>2
  <2>4. Count(inbound'[c], Cmd) = 0 /\ Count(rx'[c], Own(c)) = 0
    <3>1. <<>> \in Seq(Cmd)
      OBVIOUS
    <3> QED
      BY Zenon, <2>2, <3>1, CountIs
  <2>5. Held(c)' = 0 /\ Len(Disconnected.pending) = 0
    BY Zenon, <2>3, SyncAssumption DEF Held, Disconnected
  <2>6. Owed(c)' <= Len(bridge'[c].pending)
    BY <2>2, <2>4, <2>5 DEF Owed
  <2> QED
    BY Zenon, <2>2, <2>3, <2>6, <1>c
<1>14. ASSUME NEW c \in Client, ThrottleExpires(c) \/ PushSnapshot(c) PROVE OwnInv'
  BY Zenon, <1>14, <1>e DEF ThrottleExpires, PushSnapshot, queues
<1>15. CASE UNCHANGED vars
  BY Zenon, <1>15, <1>e DEF vars, queues
<1> QED
  BY ZenonT(40), <1>2, <1>4, <1>5, <1>6, <1>7, <1>8, <1>9, <1>11, <1>12, <1>13, <1>14, <1>15
     DEF Next, Serve, Deliver

(* Every bridge that has done nothing since its snapshot is exact. *)
FollowInv == \A c \in Client : Exact(bridge[c], docAt)

LEMMA ExactStays ==
    ASSUME NEW h, NEW g, NEW n \in Nat, \A s \in 0..n : g[s + 1] = h[s + 1],
           NEW b, Sound(b, n), Exact(b, h)
    PROVE  Exact(b, g)
<1>1. ASSUME NEW i \in 1..Len(b.buf), Right(h, b.buf[i]) PROVE Right(g, b.buf[i])
  <2>1. b.buf[i].seq <= n
    BY Zenon DEF Sound, Within
  <2> QED
    BY Zenon, <1>1, <2>1, RightStays
<1>2. b.last \in Nat \union {-1} /\ b.last <= n
  BY Zenon DEF Sound, Bridge, Within, NoSeq
<1>3. Follows(b, h) => Follows(b, g)
  <2>1. b.last # NoSeq => b.last \in 0..n
    BY <1>2 DEF NoSeq
  <2> QED
    BY Zenon, <2>1 DEF Follows
<1>4. Plain(b, h) => Plain(b, g)
  BY Zenon, <1>1 DEF Plain
<1> QED
  BY Zenon, <1>1, <1>3, <1>4 DEF Exact

LEMMA FollowStep ==
    ASSUME Opener = {} PROVE SafeInv /\ HistInv /\ OwnInv /\ FollowInv /\ [Next]_vars => FollowInv'
<1> SUFFICES ASSUME SafeInv, HistInv, OwnInv, FollowInv, [Next]_vars PROVE FollowInv'
  BY Zenon
<1>s. ServerInv /\ QueueInv /\ ClientInv /\ seq \in Nat
  BY Zenon DEF SafeInv, ServerInv
<1>a. /\ rx \in [Client -> Seq(Item)]
      /\ DOMAIN bridge = Client /\ \A c \in Client : Sound(bridge[c], seq) /\ Bridge(bridge[c])
  BY Zenon, <1>s DEF QueueInv, ClientInv, Sound
<1>g. \A s \in 0..seq : docAt'[s + 1] = docAt[s + 1]
  BY Zenon, HistoryGrows
<1>b. ASSUME NEW c \in Client PROVE Exact(bridge[c], docAt) /\ Exact(bridge[c], docAt')
  BY Zenon, <1>a, <1>g, <1>s, ExactStays DEF FollowInv
<1>c. ASSUME NEW c \in Client, NEW k, bridge' = [bridge EXCEPT ![c] = k], Exact(k, docAt), docAt' = docAt
      PROVE  FollowInv'
  <2>1. \A x \in Client : bridge'[x] = IF x = c THEN k ELSE bridge[x]
    BY Zenon, <1>a, <1>c
  <2> QED
    BY Zenon, <2>1, <1>b, <1>c DEF FollowInv
<1>d. ASSUME bridge' = bridge PROVE FollowInv'
  BY Zenon, <1>b, <1>d DEF FollowInv
(* Fields that say nothing of the document. *)
<1>e. ASSUME NEW c \in Client, NEW k, bridge' = [bridge EXCEPT ![c] = k], docAt' = docAt,
             k.buf = bridge[c].buf, k.since = bridge[c].since, k.pending = bridge[c].pending,
             k.last = bridge[c].last, k.doc = bridge[c].doc
      PROVE  FollowInv'
  <2>1. Exact(k, docAt)
    BY Zenon, <1>b, <1>e DEF Exact, Plain, Follows
  <2> QED
    BY Zenon, <2>1, <1>c, <1>e
<1>1. ASSUME NEW c \in Client, NEW cmd \in Cmd, SendCommand(c, cmd) PROVE FollowInv'
  <2> DEFINE b == bridge[c]
             k == [OnCommand(b, cmd) EXCEPT !.pending = Append(@, cmd), !.since = "edited"]
  <2>1. bridge' = [bridge EXCEPT ![c] = k] /\ docAt' = docAt
    BY Zenon, <1>1 DEF SendCommand, server
  <2>2. Shaped(b)
    BY Zenon, <1>a DEF Bridge
  <2> HIDE DEF b
  <2>3. k.buf = b.buf /\ k.since = "edited"
    BY Zenon, <2>2 DEF OnCommand, Shaped, Fields
  <2> HIDE DEF k
  <2>4. Exact(k, docAt)
    BY Zenon, <2>3, <1>b DEF Exact, b
  <2> QED
    BY Zenon, <2>1, <2>4, <1>c
<1>2. ASSUME NEW c \in Client, Edit(c) PROVE FollowInv'
  <2>1. Present(bridge[c].doc) \subseteq Dataset
    BY Zenon, <1>a DEF Bridge, Doc, Present
  <2> QED
    BY Zenon, <1>1, <1>2, <2>1, CommandsTyped DEF Edit
<1>3. ASSUME NEW c \in Client, ReceivePushed(c) \/ ReceiveSnapshot(c) PROVE FollowInv'
  <2>1. ASSUME NEW q \in Seq(Snap), q # <<>>,
               \A i \in 1..Len(q) : q[i].seq <= seq /\ q[i].doc = docAt[q[i].seq + 1]
        PROVE  Head(q) \in Snap /\ Head(q).seq <= seq /\ Head(q).doc = docAt[Head(q).seq + 1]
    <3>1. Head(q) \in Snap /\ Head(q) = q[1] /\ 1 \in 1..Len(q)
      BY Zenon, <2>1, TailIs
    <3> QED
      BY Zenon, <2>1, <3>1
  <2>2. /\ pushed[c] \in Seq(Snap)
        /\ \A i \in 1..Len(pushed[c]) : pushed[c][i].seq <= seq /\ pushed[c][i].doc = docAt[pushed[c][i].seq + 1]
    BY Zenon, <1>s DEF QueueInv, HistInv
  <2>3. /\ unicast[c] \in Seq(Snap)
        /\ \A i \in 1..Len(unicast[c]) : unicast[c][i].seq <= seq /\ unicast[c][i].doc = docAt[unicast[c][i].seq + 1]
    BY Zenon, <1>s DEF QueueInv, HistInv
  <2>4. PICK snap \in Snap : /\ snap.seq <= seq /\ snap.doc = docAt[snap.seq + 1]
                             /\ bridge' = [bridge EXCEPT ![c] = AdoptSnapshot(@, snap)]
    BY Zenon, <1>3, <2>1, <2>2, <2>3 DEF ReceivePushed, ReceiveSnapshot
  <2>5. docAt' = docAt
    BY Zenon, <1>3 DEF ReceivePushed, ReceiveSnapshot, server
  <2> DEFINE k == AdoptSnapshot(bridge[c], snap)
  <2>6. Exact(k, docAt)
    BY Zenon, <2>4, <1>a, <1>b, <1>s, AdoptExact
  <2>7. bridge' = [bridge EXCEPT ![c] = k]
    BY Zenon, <2>4
  <2> HIDE DEF k
  <2> QED
    BY Zenon, <2>5, <2>6, <2>7, <1>c
<1>4. ASSUME NEW c \in Client, ReceiveSequenced(c) PROVE FollowInv'
  <2> DEFINE m == Head(rx[c])
             own == m.sender = c
             b == Acked(bridge[c], own)
             e == [seq |-> m.seq, cmd |-> IF own THEN Ack ELSE m.cmd]
             k == HandleSequenced(b, e)
  <2>1. bridge' = [bridge EXCEPT ![c] = k] /\ rx[c] # <<>> /\ docAt' = docAt
    BY Zenon, <1>4 DEF ReceiveSequenced, Acked, server
  <2>2. m \in Item /\ m.seq <= seq /\ Right(docAt, m)
    BY <2>1, <1>s, TailIs DEF QueueInv, HistInv
  <2>3. own \in BOOLEAN /\ e.seq = m.seq /\ (own => e.cmd = Ack) /\ (~own => e.cmd = m.cmd)
    BY Zenon
  <2>o. own => bridge[c].since # "nothing"
    <3>1. SUFFICES ASSUME own PROVE bridge[c].pending # <<>>
      BY Zenon, <1>b DEF Exact
    <3>2. m \in Own(c)
      BY Zenon, <2>2, <3>1 DEF Own
    <3>3. Count(rx[c], Own(c)) = Count(Tail(rx[c]), Own(c)) + 1
      BY Zenon, <2>1, <3>2, <1>a, CountTail
    <3>4. Tail(rx[c]) \in Seq(Item) /\ inbound[c] \in Seq(Cmd \union {Request})
      BY Zenon, <2>1, <1>a, <1>s, TailIs DEF ServerInv
    <3>5. Count(Tail(rx[c]), Own(c)) \in Nat /\ Count(inbound[c], Cmd) \in Nat
      BY Zenon, <3>4, CountIs
    <3>6. Held(c) \in Nat /\ Count(inbound[c], Cmd) + Held(c) + Count(rx[c], Own(c)) <= Len(bridge[c].pending)
      BY Zenon DEF OwnInv, Owed, Held
    <3>7. Len(bridge[c].pending) # 0
      <4>1. Len(bridge[c].pending) \in Nat
        BY <1>a DEF Bridge
      <4> QED
        BY <4>1, <3>3, <3>5, <3>6
    <3> QED
      BY <3>7
  <2>a. own \/ b = bridge[c]
    BY Zenon DEF Acked
  <2>c. m.cmd \in Cmd
    BY Zenon, <2>2 DEF Item
  <2> HIDE DEF m, own
  <2>4. e \in Entry /\ e.seq <= seq
    BY Zenon, <2>2, <2>3, EntryOf
  <2>5. Sound(b, seq) /\ Keeps(b, bridge[c], {"pending"})
    BY Zenon, <2>3, <1>a, <1>s, AckedFrame
  <2> HIDE DEF b, e
  <2>6. b.buf = bridge[c].buf /\ b.since = bridge[c].since
    BY Zenon, <2>5 DEF Keeps, Fields
  <2>7. /\ From(k, b, e)
        /\ Keeps(k, b, {"last", "doc", "mirror", "buf", "grace", "retry"})
    BY Zenon, <2>4, <2>5, <1>s, HandleFrame
  <2>8. ~own => e.cmd # Ack /\ Right(docAt, e)
    <3>1. ~own => e.cmd # Ack
      BY Zenon, <2>3, <2>c, AckIsNoCommand
    <3> QED
      BY Zenon, <3>1, <2>2, <2>3 DEF Right
  <2>9. ASSUME bridge[c].since = "nothing" PROVE Follows(k, docAt) /\ k.pending = <<>> /\ Plain(k, docAt)
    <3>1. ~own /\ b = bridge[c] /\ e.cmd # Ack /\ Right(docAt, e)
      BY Zenon, <2>9, <2>o, <2>a, <2>8
    <3>2. b.pending = <<>> /\ Plain(b, docAt) /\ Follows(b, docAt)
      BY Zenon, <2>9, <3>1, <1>b DEF Exact
    <3>3. Follows(k, docAt)
      BY Zenon, <3>1, <3>2, <2>4, <2>5, <1>s, HandleExact
    <3> HIDE DEF k
    <3>4. k.pending = <<>>
      BY Zenon, <3>2, <2>7 DEF Keeps, Fields
    <3>5. Plain(k, docAt)
      BY Zenon, <3>1, <3>2, <2>7 DEF Plain, From
    <3> QED
      BY Zenon, <3>3, <3>4, <3>5
  <2> HIDE DEF k
  <2>10. k.since = bridge[c].since
    BY Zenon, <2>6, <2>7 DEF Keeps, Fields
  <2>11. \A i \in 1..Len(k.buf) : k.buf[i].cmd # Ack => Right(docAt, k.buf[i])
    <3>1. \A i \in 1..Len(b.buf) : b.buf[i].cmd # Ack => Right(docAt, b.buf[i])
      BY Zenon, <2>6, <1>b DEF Exact
    <3>2. e.cmd # Ack => Right(docAt, e)
      BY Zenon, <2>3, <2>8
    <3> QED
      BY Zenon, <3>1, <3>2, <2>7 DEF From
  <2>12. Exact(k, docAt)
    BY Zenon, <2>9, <2>10, <2>11 DEF Exact
  <2> QED
    BY Zenon, <2>1, <2>12, <1>c
<1>5. ASSUME NEW c \in Client, NEW b, Keeps(b, bridge[c], {"grace", "retry", "recent"}),
             RequestResync(c, b), docAt' = docAt
      PROVE  FollowInv'
  <2> DEFINE k == IF Requests(b) THEN Requested(b) ELSE b
  <2>1. bridge' = [bridge EXCEPT ![c] = k]
    BY Zenon, <1>5 DEF RequestResync
  <2>2. Keeps(k, b, {"inFlight", "recent", "retry"})
    BY Zenon, <1>5 DEF Requested, Keeps, Shaped, Fields
  <2> HIDE DEF k
  <2>3. /\ k.buf = bridge[c].buf /\ k.since = bridge[c].since /\ k.pending = bridge[c].pending
        /\ k.last = bridge[c].last /\ k.doc = bridge[c].doc
    BY Zenon, <1>5, <2>2 DEF Keeps, Fields
  <2> QED
    BY Zenon, <2>1, <2>3, <1>5, <1>e
<1>6. ASSUME NEW c \in Client, Timer(c) PROVE FollowInv'
  <2> DEFINE g == [bridge[c] EXCEPT !.grace = FALSE]
             h == [bridge[c] EXCEPT !.retry = FALSE, !.recent = FALSE]
  <2>0. Shaped(bridge[c])
    BY Zenon, <1>a DEF Bridge
  <2>1. Keeps(g, bridge[c], {"grace", "retry", "recent"})
    BY Zenon, <2>0 DEF Keeps, Shaped, Fields
  <2>2. Keeps(h, bridge[c], {"grace", "retry", "recent"})
    BY Zenon, <2>0 DEF Keeps, Shaped, Fields
  <2>3. docAt' = docAt /\ (RequestResync(c, g) \/ RequestResync(c, h))
    BY Zenon, <1>6 DEF Timer, GraceExpires, RetryExpires, server
  <2> HIDE DEF g, h
  <2> QED
    BY Zenon, <2>1, <2>2, <2>3, <1>5
<1>7. ASSUME NEW c \in Client, RequestAges(c) \/ Join(c) PROVE FollowInv'
  <2> DEFINE g == [bridge[c] EXCEPT !.recent = FALSE]
             h == [bridge[c] EXCEPT !.on = TRUE]
  <2>0. Shaped(bridge[c])
    BY Zenon, <1>a DEF Bridge
  <2>1. Keeps(g, bridge[c], {"recent"}) /\ Keeps(h, bridge[c], {"on"})
    BY Zenon, <2>0 DEF Keeps, Shaped, Fields
  <2>2. /\ bridge' = [bridge EXCEPT ![c] = g] \/ bridge' = [bridge EXCEPT ![c] = h]
        /\ docAt' = docAt
    BY Zenon, <1>7 DEF RequestAges, Join, server
  <2> HIDE DEF g, h
  <2>3. ASSUME NEW k, k = g \/ k = h
        PROVE  /\ k.buf = bridge[c].buf /\ k.since = bridge[c].since /\ k.pending = bridge[c].pending
               /\ k.last = bridge[c].last /\ k.doc = bridge[c].doc
    BY Zenon, <2>1, <2>3 DEF Keeps, Fields
  <2> QED
    BY Zenon, <2>2, <2>3, <1>e
<1>8. ASSUME NEW c \in Client, Disconnect(c) PROVE FollowInv'
  <2>1. bridge' = [bridge EXCEPT ![c] = Disconnected] /\ docAt' = docAt
    BY Zenon, <1>8 DEF Disconnect, server
  <2>2. Disconnected.buf = <<>> /\ Disconnected.pending = <<>> /\ Disconnected.last = NoSeq /\ Len(<<>>) = 0
    BY Zenon DEF Disconnected
  <2>3. Exact(Disconnected, docAt)
    BY <2>2 DEF Exact, Plain, Follows
  <2> QED
    BY Zenon, <2>1, <2>3, <1>c
<1>9. ASSUME NEW c \in Client, Serve(c) \/ PushSnapshot(c) \/ PersistFailed(c) \/ ThrottleExpires(c)
      PROVE  FollowInv'
  BY Zenon, <1>9, <1>d
     DEF Serve, TakeCommand, Persisted, TakeRequest, PushSnapshot, PersistFailed, ThrottleExpires
<1>10. CASE UNCHANGED vars
  BY Zenon, <1>10, <1>d DEF vars
<1> QED
  BY Zenon, <1>2, <1>3, <1>4, <1>6, <1>7, <1>8, <1>9, <1>10 DEF Next, Deliver

LEMMA ExactInit == Init => HistInv /\ OwnInv /\ FollowInv
<1> SUFFICES ASSUME Init PROVE HistInv /\ OwnInv /\ FollowInv
  BY Zenon
<1>1. ASSUME NEW c \in Client
      PROVE  /\ handler[c] = Idle /\ rx[c] = <<>> /\ unicast[c] = <<>> /\ pushed[c] = <<>>
             /\ inbound[c] = <<>> /\ ~Busy(Idle) /\ Len(<<>>) = 0 /\ <<>> \in Seq(Item)
  BY DEF Init, Busy, Idle
<1>2. HistInv
  BY <1>1 DEF HistInv
<1> DEFINE b == [Disconnected EXCEPT !.on = TRUE, !.last = 0, !.doc = FirstDoc, !.mirror = Restored]
<1>3. /\ b.buf = <<>> /\ b.pending = <<>> /\ b.last = 0 /\ b.doc = FirstDoc
  BY Zenon DEF Disconnected
<1>4. \A c \in Client : bridge[c] = b
  BY Zenon DEF Init
<1> HIDE DEF b
<1>5. docAt[0 + 1] = FirstDoc
  BY DEF Init
<1>6. Exact(b, docAt)
  BY <1>3, <1>5 DEF Exact, Plain, Follows
<1>7. FollowInv
  BY Zenon, <1>4, <1>6 DEF FollowInv
<1>8. OwnInv
  <2>1. ASSUME NEW c \in Client PROVE Owed(c) = 0 /\ Len(bridge[c].pending) = 0 /\ ~Busy(handler[c])
    <3>1. Count(inbound[c], Cmd) = 0 /\ Count(rx[c], Own(c)) = 0
      BY Zenon, <1>1, CountIs
    <3> QED
      BY <3>1, <1>1, <1>3, <1>4 DEF Owed, Held
  <2> QED
    BY <2>1 DEF OwnInv
<1> QED
  BY Zenon, <1>2, <1>7, <1>8

(* FollowersExact, for any number of clients and editors that rename and   *)
(* remove datasets: however broadcasts and snapshots are reordered,        *)
(* dropped, buffered, shed, throttled or lost with a connection, a client  *)
(* with no edits of its own shows the document of its seq.  Dataset opens  *)
(* are left out: one that is rebroadcast carries the seq of another        *)
(* command.                                                                *)
THEOREM FollowersAreExact == ASSUME Opener = {} PROVE Spec => []FollowersExact
<1>1. SafeInv /\ FollowInv => FollowersExact
  <2> SUFFICES ASSUME SafeInv, FollowInv PROVE ObserverExact
    BY Zenon, SafeTyped DEF FollowersExact
  <2> QED
    BY Zenon DEF FollowInv, Exact, Follows, ObserverExact, Tracking, SharedBy
<1>2. Spec => [](SafeInv /\ HistInv /\ OwnInv /\ FollowInv)
  <2>1. Init => SafeInv /\ HistInv /\ OwnInv /\ FollowInv
    BY Zenon, SafeInit, ExactInit
  <2>2. SafeInv /\ HistInv /\ OwnInv /\ FollowInv /\ [Next]_vars
           => (SafeInv /\ HistInv /\ OwnInv /\ FollowInv)'
    BY Zenon, SafeStep, HistStep, OwnStep, FollowStep
  <2> QED
    BY <2>1, <2>2, PTL DEF Spec
<1> QED
  BY <1>1, <1>2, PTL

(* ObserversFollow: such a client is exact, and never goes back. *)
THEOREM ObserversAreFollowing == ASSUME Opener = {} PROVE Spec => ObserversFollow
BY FollowersAreExact, RewindsNever, PTL DEF ObserversFollow

----------------------------------------------------------------------------
(* The one editor.  Replaying what the server already applied is harmless. *)

(* Any account of the steps ends where ApplyAll does. *)
LEMMA StepsEnd ==
    ASSUME NEW dc, NEW cmds, Len(cmds) \in Nat, NEW g, Steps(g, dc, cmds)
    PROVE  ApplyAll(dc, cmds) = g[Len(cmds)]
<1> DEFINE n == Len(cmds)
<1>1. PICK f : Steps(f, dc, cmds) /\ f[n] = ApplyAll(dc, cmds)
  BY Zenon, ApplyAllSteps
<1> DEFINE T == {m \in Nat : m <= n => f[m] = g[m]}
<1>2. n \in Nat /\ f[0] = g[0]
  BY Zenon, <1>1 DEF Steps
<1>3. \A i \in 1..n : f[i] = Apply(f[i - 1], cmds[i]) /\ g[i] = Apply(g[i - 1], cmds[i])
  BY Zenon, <1>1 DEF Steps
<1> HIDE DEF n
<1>4. 0 \in T
  BY Zenon, <1>2
<1>5. ASSUME NEW m \in Nat, m \in T PROVE m + 1 \in T
  <2> SUFFICES ASSUME m + 1 <= n PROVE f[m + 1] = g[m + 1]
    OBVIOUS
  <2>1. m <= n /\ m + 1 \in 1..n /\ (m + 1) - 1 = m
    BY <1>2
  <2> QED
    BY Zenon, <1>3, <1>5, <2>1
<1>6. n \in T
  <2> HIDE DEF T
  <2> QED
    BY Zenon, <1>2, <1>4, <1>5, Induction
<1>7. n <= n
  BY <1>2
<1> QED
  BY Zenon, <1>1, <1>6, <1>7 DEF n

LEMMA ApplyAllAppend ==
    ASSUME NEW dc, NEW T, NEW cmds \in Seq(T), NEW cmd \in T
    PROVE  ApplyAll(dc, Append(cmds, cmd)) = Apply(ApplyAll(dc, cmds), cmd)
<1> DEFINE n == Len(cmds)
           more == Append(cmds, cmd)
<1>1. /\ n \in Nat /\ Len(more) = n + 1 /\ more[n + 1] = cmd
      /\ \A i \in 1..n : more[i] = cmds[i]
  OBVIOUS
<1> HIDE DEF more
<1>2. PICK f : Steps(f, dc, more) /\ f[n + 1] = ApplyAll(dc, more)
  <2>1. Len(more) = n + 1 /\ Len(more) \in Nat
    BY <1>1
  <2> QED
    BY Zenon, <2>1, ApplyAllSteps
<1>3. Steps(f, dc, cmds) /\ f[n + 1] = Apply(f[n], cmd)
  BY <1>1, <1>2 DEF Steps
<1>4. ApplyAll(dc, cmds) = f[n]
  BY Zenon, <1>1, <1>3, StepsEnd
<1> QED
  BY Zenon, <1>2, <1>3, <1>4 DEF more

LEMMA ApplyAllTail ==
    ASSUME NEW dc, NEW T, NEW cmds \in Seq(T), cmds # <<>>
    PROVE  ApplyAll(dc, cmds) = ApplyAll(Apply(dc, Head(cmds)), Tail(cmds))
<1> DEFINE n == Len(Tail(cmds))
           rest == Tail(cmds)
<1>1. /\ n \in Nat /\ Len(cmds) = n + 1 /\ Head(cmds) = cmds[1]
      /\ \A i \in 1..n : rest[i] = cmds[i + 1]
  OBVIOUS
<1> HIDE DEF rest, n
<1>2. PICK f : Steps(f, dc, cmds) /\ f[n + 1] = ApplyAll(dc, cmds)
  <2>1. Len(cmds) = n + 1 /\ Len(cmds) \in Nat
    BY <1>1
  <2> QED
    BY Zenon, <2>1, ApplyAllSteps
<1> DEFINE g == [i \in 0..n |-> f[i + 1]]
<1>3. f[0] = dc /\ \A i \in 1..(n + 1) : f[i] = Apply(f[i - 1], cmds[i])
  BY Zenon, <1>1, <1>2 DEF Steps
<1>4. g[0] = Apply(dc, cmds[1]) /\ g[n] = f[n + 1]
  BY <1>1, <1>3
<1>5. ASSUME NEW i \in 1..n PROVE g[i] = Apply(g[i - 1], rest[i])
  <2>1. /\ i \in 0..n /\ i - 1 \in 0..n /\ (i - 1) + 1 = i /\ i + 1 \in 1..(n + 1)
        /\ (i + 1) - 1 = i
    BY <1>1
  <2>2. g[i] = f[i + 1] /\ g[i - 1] = f[i]
    BY <2>1
  <2> HIDE DEF g
  <2> QED
    BY Zenon, <1>1, <1>3, <2>1, <2>2
<1> HIDE DEF g
<1>6. Len(rest) = n
  BY Zenon DEF n, rest
<1>7. Steps(g, Apply(dc, cmds[1]), rest)
  BY Zenon, <1>4, <1>5, <1>6 DEF Steps
<1>8. ApplyAll(Apply(dc, cmds[1]), rest) = g[n]
  BY Zenon, <1>1, <1>6, <1>7, StepsEnd
<1> QED
  BY Zenon, <1>1, <1>2, <1>4, <1>8 DEF rest

Edits == {cmd \in Cmd : cmd.op \in {"rename", "remove"}}

(* The first k commands of p take the document of h from seq m to m + k,   *)
(* and no rename among them missed its dataset.                            *)
Chain(h, m, p, k) ==
    \A t \in 1..k :
       /\ h[m + t + 1] = Apply(h[m + t], p[t])
       /\ p[t].op = "rename" => h[m + t][p[t].ds] # Gone

(* One command, on one dataset. *)
LEMMA EditAt ==
    ASSUME NEW dc \in Doc, NEW cmd \in Edits, NEW d \in Dataset
    PROVE  /\ Apply(dc, cmd) \in Doc
           /\ d # cmd.ds => Apply(dc, cmd)[d] = dc[d]
           /\ cmd.op = "remove" => Apply(dc, cmd)[cmd.ds] = Gone
           /\ cmd.op = "rename" => Apply(dc, cmd)[cmd.ds] = IF dc[cmd.ds] = Gone THEN Gone ELSE cmd.name
           /\ cmd.op \in {"rename", "remove"} /\ cmd.ds \in Dataset
<1>1. cmd \in Cmd /\ cmd.op \in {"rename", "remove"} /\ cmd.ds \in Dataset
  BY Zenon DEF Edits, Cmd
<1>2. Apply(dc, cmd) \in Doc /\ DOMAIN dc = Dataset
  BY Zenon, <1>1, ApplyTyped DEF Doc
<1>3. CASE cmd.op = "remove"
  <2>1. Apply(dc, cmd) = [dc EXCEPT ![cmd.ds] = Gone]
    BY <1>3 DEF Apply
  <2> QED
    BY <2>1, <1>1, <1>2, <1>3
<1>4. CASE cmd.op = "rename"
  <2>1. Apply(dc, cmd) = [dc EXCEPT ![cmd.ds] = IF dc[cmd.ds] = Gone THEN Gone ELSE cmd.name]
    BY <1>4 DEF Apply
  <2> QED
    BY <2>1, <1>1, <1>2, <1>4
<1> QED
  BY Zenon, <1>1, <1>3, <1>4

(* A command replayed on a later document: each dataset is as it was after *)
(* the command, or still as in the later document.                         *)
LEMMA ReplayOne ==
    ASSUME NEW late \in Doc, NEW from \in Doc, NEW at \in Doc, NEW cmd \in Edits,
           cmd.op = "rename" => from[cmd.ds] # Gone,
           \A d \in Dataset : at[d] = late[d] \/ at[d] = from[d]
    PROVE  \A d \in Dataset : Apply(at, cmd)[d] = late[d] \/ Apply(at, cmd)[d] = Apply(from, cmd)[d]
<1> TAKE d \in Dataset
<1>1. CASE d # cmd.ds
  <2>1. Apply(at, cmd)[d] = at[d] /\ Apply(from, cmd)[d] = from[d]
    BY Zenon, <1>1, EditAt
  <2> QED
    BY Zenon, <2>1
<1>2. CASE d = cmd.ds /\ cmd.op = "remove"
  <2>1. Apply(at, cmd)[d] = Gone /\ Apply(from, cmd)[d] = Gone
    BY Zenon, <1>2, EditAt
  <2> QED
    BY Zenon, <2>1
<1>3. CASE d = cmd.ds /\ cmd.op = "rename"
  <2>1. Apply(from, cmd)[d] = cmd.name /\ Apply(at, cmd)[d] = IF at[d] = Gone THEN Gone ELSE cmd.name
    BY Zenon, <1>3, EditAt
  <2>2. at[d] = Gone => late[d] = Gone
    BY Zenon, <1>3
  <2> QED
    BY Zenon, <2>1, <2>2
<1> QED
  BY Zenon, <1>1, <1>2, <1>3, EditAt

(* Commands the server has applied and the client still holds may be       *)
(* replayed on any document since the first of them.                       *)
LEMMA Replay ==
    ASSUME NEW n \in Nat, NEW h \in Seq(Doc), Len(h) = n + 1,
           NEW p \in Seq(Edits), NEW q \in Seq(Edits), NEW k \in 0..n, Len(p) = k + Len(q),
           Chain(h, n - k, p, k), \A i \in 1..Len(q) : p[k + i] = q[i],
           NEW l \in (n - k)..n
    PROVE  ApplyAll(h[l + 1], p) = ApplyAll(h[n + 1], q)
<1> DEFINE m == n - k
           j == l - m
           H(t) == h[m + t + 1]
<1>1. /\ m \in Nat /\ j \in 0..k /\ k \in Nat /\ Len(p) \in Nat /\ Len(q) \in Nat
      /\ \A t \in 1..Len(p) : p[t] \in Edits
      /\ H(j) = h[l + 1] /\ H(k) = h[n + 1]
      /\ \A t \in 0..k : H(t) \in Doc
  OBVIOUS
<1>2. \A t \in 1..k : H(t) = Apply(H(t - 1), p[t]) /\ (p[t].op = "rename" => H(t - 1)[p[t].ds] # Gone)
  <2>1. \A t \in 1..k : m + (t - 1) + 1 = m + t
    BY <1>1
  <2> QED
    BY Zenon, <2>1 DEF Chain
<1> HIDE DEF m, j, H
<1>3. PICK f : Steps(f, h[l + 1], p) /\ f[Len(p)] = ApplyAll(h[l + 1], p)
  BY Zenon, <1>1, ApplyAllSteps
<1>4. f[0] = H(j) /\ \A t \in 1..Len(p) : f[t] = Apply(f[t - 1], p[t])
  BY Zenon, <1>1, <1>3 DEF Steps
(* Up to the document replayed on. *)
<1> DEFINE Between(t) == f[t] \in Doc /\ \A d \in Dataset : f[t][d] = H(j)[d] \/ f[t][d] = H(t)[d]
           A == {t \in Nat : t <= j => Between(t)}
<1>5. 0 \in A
  BY <1>1, <1>4
<1>6. ASSUME NEW t \in Nat, t \in A PROVE t + 1 \in A
  <2> SUFFICES ASSUME t + 1 <= j PROVE Between(t + 1)
    OBVIOUS
  <2>1. /\ t <= j /\ t + 1 \in 1..k /\ t + 1 \in 1..Len(p) /\ (t + 1) - 1 = t
        /\ t \in 0..k /\ t + 1 \in 0..k /\ j \in 0..k
    BY <1>1
  <2>2. Between(t) /\ H(t) \in Doc /\ H(j) \in Doc /\ p[t + 1] \in Edits
    BY Zenon, <1>1, <1>6, <2>1
  <2>3. /\ f[t + 1] = Apply(f[t], p[t + 1]) /\ H(t + 1) = Apply(H(t), p[t + 1])
        /\ p[t + 1].op = "rename" => H(t)[p[t + 1].ds] # Gone
    BY Zenon, <1>2, <1>4, <2>1
  <2>4. f[t + 1] \in Doc
    BY Zenon, <2>2, <2>3, ApplyTyped DEF Edits
  <2>5. \A d \in Dataset : Apply(f[t], p[t + 1])[d] = H(j)[d]
                           \/ Apply(f[t], p[t + 1])[d] = Apply(H(t), p[t + 1])[d]
    BY ZenonT(60), <2>2, <2>3, ReplayOne
  <2> QED
    BY Zenon, <2>3, <2>4, <2>5
<1>7. j \in A /\ j \in Nat /\ j <= j
  <2>1. j \in Nat /\ j <= j
    BY <1>1
  <2> HIDE DEF A
  <2> QED
    BY Zenon, <2>1, <1>5, <1>6, Induction
<1>8. f[j] = H(j)
  <2>1. f[j] \in Doc /\ H(j) \in Doc /\ \A d \in Dataset : f[j][d] = H(j)[d]
    BY Zenon, <1>1, <1>7
  <2> QED
    BY <2>1 DEF Doc
<1> HIDE DEF A
(* From there to the server's. *)
<1> DEFINE B == {t \in Nat : j + t <= k => f[j + t] = H(j + t)}
<1>9. 0 \in B
  <2>1. j + 0 = j
    BY <1>7
  <2> QED
    BY <2>1, <1>8
<1>10. ASSUME NEW t \in Nat, t \in B PROVE t + 1 \in B
  <2> SUFFICES ASSUME j + (t + 1) <= k PROVE f[j + (t + 1)] = H(j + (t + 1))
    OBVIOUS
  <2>1. /\ j + t <= k /\ (j + (t + 1)) - 1 = j + t
        /\ j + (t + 1) \in 1..k /\ j + (t + 1) \in 1..Len(p)
    BY <1>1, <1>7
  <2> QED
    BY ZenonT(60), <1>2, <1>4, <1>10, <2>1
<1>11. k - j \in B /\ j + (k - j) = k /\ k <= k
  <2>1. k - j \in Nat /\ j + (k - j) = k /\ k <= k
    BY <1>1
  <2> HIDE DEF B
  <2> QED
    BY Zenon, <2>1, <1>9, <1>10, Induction
<1>12. f[k] = h[n + 1]
  BY Zenon, <1>1, <1>11
<1> HIDE DEF B
(* And the commands it has not seen. *)
<1> DEFINE g == [i \in 0..Len(q) |-> f[k + i]]
<1>13. g[0] = h[n + 1] /\ g[Len(q)] = f[Len(p)]
  BY <1>1, <1>12
<1>14. ASSUME NEW i \in 1..Len(q) PROVE g[i] = Apply(g[i - 1], q[i])
  <2>1. /\ i \in 0..Len(q) /\ i - 1 \in 0..Len(q) /\ k + i \in 1..Len(p)
        /\ k + (i - 1) = (k + i) - 1
    BY <1>1
  <2>2. g[i] = f[k + i] /\ g[i - 1] = f[(k + i) - 1]
    BY <2>1
  <2> HIDE DEF g
  <2> QED
    BY Zenon, <1>4, <2>1, <2>2
<1> HIDE DEF g
<1>15. Steps(g, h[n + 1], q)
  BY Zenon, <1>13, <1>14 DEF Steps
<1>16. ApplyAll(h[n + 1], q) = g[Len(q)]
  BY ZenonT(60), <1>1, <1>15, StepsEnd
<1> QED
  BY Zenon, <1>3, <1>13, <1>16

(* What edits leave in the document was there before them, and none of     *)
(* them removed it.                                                        *)
LEMMA StillThere ==
    ASSUME NEW dc \in Doc, NEW q \in Seq(Edits), NEW d \in Dataset, ApplyAll(dc, q)[d] # Gone
    PROVE  dc[d] # Gone /\ \A i \in 1..Len(q) : ~(q[i].op = "remove" /\ q[i].ds = d)
<1> DEFINE n == Len(q)
<1>1. n \in Nat /\ \A i \in 1..n : q[i] \in Edits
  OBVIOUS
<1>2. PICK f : Steps(f, dc, q) /\ f[n] = ApplyAll(dc, q)
  BY Zenon, <1>1, ApplyAllSteps
<1>3. f[0] = dc /\ \A i \in 1..n : f[i] = Apply(f[i - 1], q[i])
  BY Zenon, <1>2 DEF Steps
<1> HIDE DEF n
<1> DEFINE There(m) == /\ f[m] \in Doc
                       /\ f[m][d] # Gone =>
                            dc[d] # Gone /\ \A i \in 1..m : ~(q[i].op = "remove" /\ q[i].ds = d)
           T == {m \in Nat : m <= n => There(m)}
<1>4. 0 \in T
  BY <1>3
<1>5. ASSUME NEW m \in Nat, m \in T PROVE m + 1 \in T
  <2> SUFFICES ASSUME m + 1 <= n PROVE There(m + 1)
    OBVIOUS
  <2>1. /\ m <= n /\ m + 1 \in 1..n /\ (m + 1) - 1 = m
        /\ \A i \in 1..(m + 1) : i \in 1..m \/ i = m + 1
    BY <1>1
  <2>2. There(m) /\ q[m + 1] \in Edits /\ f[m + 1] = Apply(f[m], q[m + 1])
    BY Zenon, <1>1, <1>3, <1>5, <2>1
  <2>3. f[m + 1] \in Doc
    BY Zenon, <2>2, EditAt
  <2>4. ASSUME f[m + 1][d] # Gone
        PROVE  f[m][d] # Gone /\ ~(q[m + 1].op = "remove" /\ q[m + 1].ds = d)
    <3>1. CASE d # q[m + 1].ds
      <4>1. Apply(f[m], q[m + 1])[d] = f[m][d]
        BY Zenon, <2>2, <3>1, EditAt
      <4> QED
        BY Zenon, <2>2, <2>4, <3>1, <4>1
    <3>2. CASE d = q[m + 1].ds
      <4>1. \A at \in Doc, cmd \in Edits :
               Apply(at, cmd)[cmd.ds] # Gone => cmd.op # "remove" /\ at[cmd.ds] # Gone
        BY Zenon, EditAt
      <4>2. f[m] \in Doc /\ q[m + 1] \in Edits /\ f[m + 1] = Apply(f[m], q[m + 1])
        BY Zenon, <2>2
      <4>3. Apply(f[m], q[m + 1])[q[m + 1].ds] # Gone
        BY Zenon, <2>4, <3>2, <4>2
      <4>4. q[m + 1].op # "remove" /\ f[m][q[m + 1].ds] # Gone
        BY Zenon, <4>1, <4>2, <4>3
      <4> QED
        BY Zenon, <3>2, <4>4
    <3> QED
      BY Zenon, <3>1, <3>2
  <2> QED
    BY ZenonT(60), <2>1, <2>2, <2>3, <2>4
<1>6. n \in T
  <2> HIDE DEF T
  <2> QED
    BY Zenon, <1>1, <1>4, <1>5, Induction
<1>7. n <= n
  BY <1>1
<1> QED
  BY Zenon, <1>2, <1>6, <1>7 DEF n

(* The one editor: n, dc and h are the server's seq, document and history, *)
(* hd its handler, in and q what travels to and from it, psh a snapshot    *)
(* pushed to it, b its bridge.                                             *)

(* The acks still to come. *)
Owing(hd, q) == (IF Busy(hd) THEN 1 ELSE 0) + Len(q)

(* They are of the last commands, in order. *)
Acks(c, n, hd, q, b) ==
    /\ Owing(hd, q) <= n
    /\ Busy(hd) => hd.seq = n /\ hd.sender = IF b.on THEN c ELSE Server
    /\ \A i \in 1..Len(q) : q[i].sender = c /\ q[i].seq = n - Owing(hd, q) + i

(* None is missing before them, but for what a snapshot makes up for. *)
Caught(n, hd, q, lag, psh, b) ==
    /\ ~lag => \A i \in 1..Len(psh) : psh[i].seq >= n - Owing(hd, q)
    /\ b.last # NoSeq /\ ~lag /\ psh = <<>> => b.last >= n - Owing(hd, q)

(* A bridge that tracks nothing has nothing under way. *)
Fresh(n, hd, in, q, lag, psh, b) ==
    /\ ~b.on => b.last = NoSeq /\ psh = <<>>
    /\ b.last = NoSeq =>
          /\ b.pending = <<>> /\ in = <<>> /\ q = <<>> /\ ~lag
          /\ b.on => ~Busy(hd) /\ Len(psh) = 1 /\ psh[1].seq = n

(* The pending commands are the last k the server has applied, not before  *)
(* the one after b.last, and those on their way to it; the editor shows    *)
(* what the server will.                                                   *)
Applied(in, b) == Len(b.pending) - Len(in)
Ahead(dc, n, h, hd, in, q, b) ==
    b.last # NoSeq =>
        /\ b.pending \in Seq(Edits)
        /\ Applied(in, b) >= Owing(hd, q) /\ Applied(in, b) <= n
        /\ n - Applied(in, b) <= b.last
        /\ Chain(h, n - Applied(in, b), b.pending, Applied(in, b))
        /\ \A i \in 1..Len(in) : b.pending[Applied(in, b) + i] = in[i]
        /\ b.doc = ApplyAll(dc, in)

(* No rename on its way will miss its dataset. *)
Valid(dc, in) ==
    \A i \in 1..Len(in) : in[i].op = "rename" =>
       /\ dc[in[i].ds] # Gone
       /\ \A j \in 1..(i - 1) : ~(in[j].op = "remove" /\ in[j].ds = in[i].ds)

Mine(c, dc, n, h, hd, in, q, lag, uni, psh, b) ==
    /\ in \in Seq(Edits) /\ uni = <<>> /\ b.buf = <<>>
    /\ Acks(c, n, hd, q, b) /\ Caught(n, hd, q, lag, psh, b) /\ Fresh(n, hd, in, q, lag, psh, b)
    /\ Ahead(dc, n, h, hd, in, q, b) /\ Valid(dc, in)

Typed(dc, n, h, hd, q, psh, b) ==
    /\ n \in Nat /\ dc \in Doc /\ h \in Seq(Doc) /\ Len(h) = n + 1 /\ h[n + 1] = dc
    /\ hd \in Handling /\ q \in Seq(Item) /\ psh \in Seq(Snap) /\ Sound(b, n)

LEMMA TypedIs ==
    ASSUME NEW dc, NEW n, NEW h, NEW hd, NEW q, NEW psh, NEW b, Typed(dc, n, h, hd, q, psh, b)
    PROVE  /\ n \in Nat /\ Len(q) \in Nat /\ Owing(hd, q) \in Nat /\ Len(b.pending) \in Nat
           /\ b.last \in Nat \union {-1} /\ b.last <= n /\ b.pending \in Seq(Cmd)
           /\ b.on \in BOOLEAN /\ Bridge(b)
<1>1. Bridge(b) /\ Within(b, n) /\ q \in Seq(Item) /\ n \in Nat
  BY Zenon DEF Typed, Sound
<1>2. Len(q) \in Nat
  BY <1>1
<1>3. b.pending \in Seq(Cmd) /\ b.last \in Nat \union {-1} /\ b.on \in BOOLEAN
  BY Zenon, <1>1 DEF Bridge, NoSeq
<1>4. Len(b.pending) \in Nat
  BY <1>3
<1>5. Owing(hd, q) \in Nat
  BY <1>2 DEF Owing
<1> QED
  BY Zenon, <1>1, <1>2, <1>3, <1>4, <1>5 DEF Within

(* Only these fields count. *)
LEMMA MineKeeps ==
    ASSUME NEW c, NEW dc, NEW n, NEW h, NEW hd, NEW in, NEW q, NEW lag, NEW uni, NEW psh,
           NEW b, Mine(c, dc, n, h, hd, in, q, lag, uni, psh, b),
           NEW k, Keeps(k, b, {"inFlight", "recent", "grace", "retry"})
    PROVE  Mine(c, dc, n, h, hd, in, q, lag, uni, psh, k)
<1>1. /\ k.on = b.on /\ k.last = b.last /\ k.buf = b.buf /\ k.pending = b.pending
      /\ k.doc = b.doc
  BY Zenon DEF Keeps, Fields
<1>2. Acks(c, n, hd, q, k) /\ Caught(n, hd, q, lag, psh, k) /\ Fresh(n, hd, in, q, lag, psh, k)
  BY Zenon, <1>1 DEF Mine, Acks, Caught, Fresh
<1>3. Ahead(dc, n, h, hd, in, q, k)
  <2>1. Applied(in, k) = Applied(in, b)
    BY Zenon, <1>1 DEF Applied
  <2> QED
    BY Zenon, <1>1, <2>1 DEF Mine, Ahead
<1> QED
  BY Zenon, <1>1, <1>2, <1>3 DEF Mine

LEMMA MineSends ==
    ASSUME NEW c, NEW dc, NEW n, NEW h, NEW hd, NEW in, NEW q, NEW lag, NEW uni, NEW psh,
           NEW b, Mine(c, dc, n, h, hd, in, q, lag, uni, psh, b),
           Typed(dc, n, h, hd, q, psh, b),
           NEW cmd \in Edits, b.last # NoSeq, b.doc[cmd.ds] # Gone,
           NEW k, Keeps(k, b, {"doc", "pending", "since"}),
           k.doc = Apply(b.doc, cmd), k.pending = Append(b.pending, cmd)
    PROVE  Mine(c, dc, n, h, hd, Append(in, cmd), q, lag, uni, psh, k)
<1> DEFINE to == Append(in, cmd)
<1>1. k.on = b.on /\ k.last = b.last /\ k.buf = b.buf
  BY Zenon DEF Keeps, Fields
<1>2. /\ in \in Seq(Edits) /\ uni = <<>> /\ b.buf = <<>> /\ b.on
      /\ Acks(c, n, hd, q, b) /\ Caught(n, hd, q, lag, psh, b)
      /\ Ahead(dc, n, h, hd, in, q, b) /\ Valid(dc, in) /\ dc \in Doc
  BY ZenonT(60) DEF Mine, Fresh, Typed
<1>3. /\ to \in Seq(Edits) /\ Len(in) \in Nat /\ Len(to) = Len(in) + 1 /\ to[Len(in) + 1] = cmd
      /\ \A i \in 1..Len(in) : to[i] = in[i]
  BY <1>2
<1> HIDE DEF to
<1>i. \A i \in 1..Len(to) : i \in 1..Len(in) \/ i = Len(in) + 1
  <2>1. Len(in) \in Nat /\ Len(to) = Len(in) + 1
    BY Zenon, <1>3
  <2> QED
    BY <2>1
<1>4. Acks(c, n, hd, q, k) /\ Caught(n, hd, q, lag, psh, k) /\ Fresh(n, hd, to, q, lag, psh, k)
  BY Zenon, <1>1, <1>2 DEF Acks, Caught, Fresh
<1>5. Ahead(dc, n, h, hd, to, q, k)
  <2> DEFINE a == Applied(in, b)
             p == b.pending
  <2>1. /\ p \in Seq(Edits) /\ a >= Owing(hd, q) /\ a <= n /\ n - a <= b.last
        /\ Chain(h, n - a, p, a) /\ b.doc = ApplyAll(dc, in)
        /\ \A i \in 1..Len(in) : p[a + i] = in[i]
    BY ZenonT(60), <1>2 DEF Ahead
  <2>2. /\ Len(p) \in Nat /\ a = Len(p) - Len(in) /\ Owing(hd, q) \in Nat /\ n \in Nat
    BY TypedIs DEF Applied
  <2>3. /\ k.pending \in Seq(Edits) /\ Len(k.pending) = Len(p) + 1 /\ k.pending[Len(p) + 1] = cmd
        /\ \A i \in 1..Len(p) : k.pending[i] = p[i]
    BY <2>1
  <2>4. Applied(to, k) = a /\ a \in 0..Len(p)
    BY <2>1, <2>2, <2>3, <1>3 DEF Applied
  <2> HIDE DEF a, p
  <2>5. Chain(h, n - a, k.pending, a)
    <3>1. \A t \in 1..a : t \in 1..Len(p)
      BY <2>2, <2>4
    <3> QED
      BY ZenonT(60), <3>1, <2>1, <2>3 DEF Chain
  <2>6. ASSUME NEW i \in 1..Len(to) PROVE k.pending[a + i] = to[i]
    <3>1. CASE i \in 1..Len(in)
      <4>1. a + i \in 1..Len(p)
        BY <3>1, <2>2, <2>4, <1>3
      <4> QED
        BY ZenonT(60), <3>1, <4>1, <2>1, <2>3, <1>3
    <3>2. CASE i = Len(in) + 1
      <4>1. a + i = Len(p) + 1
        BY <3>2, <2>2, <1>3
      <4> QED
        BY ZenonT(60), <3>2, <4>1, <2>3, <1>3
    <3> QED
      BY Zenon, <3>1, <3>2, <1>i
  <2>7. k.doc = ApplyAll(dc, to)
    <3>1. in \in Seq(Edits) /\ cmd \in Edits
      BY Zenon, <1>2
    <3>2. ApplyAll(dc, Append(in, cmd)) = Apply(ApplyAll(dc, in), cmd)
      BY ZenonT(60), <3>1, ApplyAllAppend
    <3>3. k.doc = Apply(ApplyAll(dc, in), cmd)
      BY Zenon, <2>1
    <3> QED
      BY Zenon, <3>2, <3>3 DEF to
  <2> QED
    BY Zenon, <2>1, <2>3, <2>4, <2>5, <2>6, <2>7, <1>1 DEF Ahead
<1>6. Valid(dc, to)
  <2>1. ApplyAll(dc, in)[cmd.ds] # Gone /\ cmd.ds \in Dataset
    BY Zenon, <1>2 DEF Ahead, Edits, Cmd
  <2>2. dc[cmd.ds] # Gone /\ \A i \in 1..Len(in) : ~(in[i].op = "remove" /\ in[i].ds = cmd.ds)
    BY Zenon, <1>2, <2>1, StillThere
  <2> SUFFICES ASSUME NEW i \in 1..Len(to), to[i].op = "rename"
               PROVE  /\ dc[to[i].ds] # Gone
                      /\ \A j \in 1..(i - 1) : ~(to[j].op = "remove" /\ to[j].ds = to[i].ds)
    BY Zenon DEF Valid
  <2>3. \A j \in 1..(i - 1) : j \in 1..Len(in)
    BY <1>3
  <2>4. CASE i \in 1..Len(in)
    <3>1. /\ dc[in[i].ds] # Gone
          /\ \A j \in 1..(i - 1) : ~(in[j].op = "remove" /\ in[j].ds = in[i].ds)
      BY Zenon, <2>4, <1>2, <1>3 DEF Valid
    <3> QED
      BY Zenon, <3>1, <2>3, <2>4, <1>3
  <2>5. CASE i = Len(in) + 1
    BY Zenon, <2>2, <2>3, <2>5, <1>3
  <2> QED
    BY Zenon, <2>4, <2>5, <1>i
<1> QED
  BY Zenon, <1>1, <1>2, <1>3, <1>4, <1>5, <1>6 DEF Mine, to

LEMMA MineTaken ==
    ASSUME Gone \notin Name,
           NEW c, NEW dc, NEW n, NEW h, NEW hd, NEW in, NEW q, NEW lag, NEW uni, NEW psh,
           NEW b, Mine(c, dc, n, h, hd, in, q, lag, uni, psh, b),
           Typed(dc, n, h, hd, q, psh, b), ~Busy(hd), in # <<>>
    PROVE  LET cmd == Head(in)
               now == [stage |-> "persisting", seq |-> n + 1, cmd |-> cmd, sender |-> c]
           IN  /\ cmd.op = "rename" => dc[cmd.ds] # Gone
               /\ Mine(c, Apply(dc, cmd), n + 1, Append(h, Apply(dc, cmd)), now, Tail(in), q,
                       lag, uni, psh, b)
<1> DEFINE cmd == Head(in)
           rest == Tail(in)
           now == [stage |-> "persisting", seq |-> n + 1, cmd |-> cmd, sender |-> c]
           dd == Apply(dc, cmd)
           g == Append(h, dd)
           a == Applied(in, b)
<1>1. /\ in \in Seq(Edits) /\ uni = <<>> /\ b.buf = <<>>
      /\ Acks(c, n, hd, q, b) /\ Caught(n, hd, q, lag, psh, b) /\ Fresh(n, hd, in, q, lag, psh, b)
      /\ Ahead(dc, n, h, hd, in, q, b) /\ Valid(dc, in) /\ dc \in Doc /\ h \in Seq(Doc)
      /\ Len(h) = n + 1 /\ h[n + 1] = dc
  BY Zenon DEF Mine, Typed
<1>2. /\ cmd \in Edits /\ cmd = in[1] /\ 1 \in 1..Len(in) /\ rest \in Seq(Edits) /\ Len(in) \in Nat
      /\ Len(rest) = Len(in) - 1
      /\ \A i \in 1..Len(rest) : rest[i] = in[i + 1] /\ i + 1 \in 1..Len(in)
  BY Zenon, <1>1, TailIs
<1>3. b.last # NoSeq /\ b.on
  BY Zenon, <1>1 DEF Fresh
<1>4. Busy(now) /\ now.seq = n + 1 /\ now.sender = c
  BY Zenon DEF Busy
<1>5. /\ n \in Nat /\ Len(q) \in Nat /\ Owing(hd, q) \in Nat /\ Len(b.pending) \in Nat
      /\ a = Len(b.pending) - Len(in)
  BY Zenon, TypedIs DEF Applied
<1>6. Owing(now, q) = Owing(hd, q) + 1 /\ Owing(hd, q) = Len(q)
  BY <1>4, <1>5 DEF Owing
<1>7. cmd.op = "rename" => dc[cmd.ds] # Gone
  BY ZenonT(60), <1>1, <1>2 DEF Valid
<1>8. dd \in Doc /\ g \in Seq(Doc) /\ g[n + 2] = dd /\ \A i \in 1..(n + 1) : g[i] = h[i]
  <2>1. dd \in Doc
    BY ZenonT(60), <1>1, <1>2, ApplyTyped DEF Edits
  <2> HIDE DEF dd
  <2> QED
    BY <2>1, <1>1, <1>5
<1> HIDE DEF cmd, rest, now, g
<1>9. Acks(c, n + 1, now, q, b)
  BY <1>1, <1>3, <1>4, <1>5, <1>6 DEF Acks
<1>10. Caught(n + 1, now, q, lag, psh, b)
  <2>1. (n + 1) - Owing(now, q) = n - Owing(hd, q)
    BY <1>5, <1>6
  <2> QED
    BY Zenon, <2>1, <1>1 DEF Caught
<1>11. Fresh(n + 1, now, rest, q, lag, psh, b)
  BY Zenon, <1>3 DEF Fresh
<1>12. Ahead(dd, n + 1, g, now, rest, q, b)
  <2>1. /\ b.pending \in Seq(Edits) /\ a >= Owing(hd, q) /\ a <= n /\ n - a <= b.last
        /\ Chain(h, n - a, b.pending, a) /\ b.doc = ApplyAll(dc, in)
        /\ \A i \in 1..Len(in) : b.pending[a + i] = in[i]
    BY ZenonT(60), <1>1, <1>3 DEF Ahead
  <2>2. Applied(rest, b) = a + 1 /\ a \in Nat /\ (n + 1) - (a + 1) = n - a /\ n - a \in Nat
    BY <2>1, <1>2, <1>5 DEF Applied
  <2>3. a + 1 >= Owing(now, q) /\ a + 1 <= n + 1 /\ (n + 1) - (a + 1) <= b.last
    <3>1. a \in Nat /\ n \in Nat /\ a <= n /\ Owing(hd, q) \in Nat /\ a >= Owing(hd, q)
      BY Zenon, <2>1, <2>2, <1>5
    <3>2. a + 1 >= Owing(now, q) /\ a + 1 <= n + 1
      <4> HIDE DEF a
      <4> QED
        BY <3>1, <1>6
    <3> QED
      BY Zenon, <2>1, <2>2, <3>2
  <2> HIDE DEF a, dd
  <2>n. a \in Nat /\ n \in Nat /\ a <= n
    BY ZenonT(60), <2>1, <2>2, <1>5
  <2>4. ASSUME NEW t \in 1..(a + 1)
        PROVE  /\ g[(n - a) + t + 1] = Apply(g[(n - a) + t], b.pending[t])
               /\ b.pending[t].op = "rename" => g[(n - a) + t][b.pending[t].ds] # Gone
    <3>1. CASE t \in 1..a
      <4>1. (n - a) + t + 1 \in 1..(n + 1) /\ (n - a) + t \in 1..(n + 1)
        BY <3>1, <2>n
      <4> QED
        BY Zenon, <3>1, <4>1, <2>1, <1>8 DEF Chain
    <3>2. CASE t = a + 1
      <4>1. (n - a) + t + 1 = n + 2 /\ (n - a) + t = n + 1 /\ n + 1 \in 1..(n + 1)
        BY <3>2, <2>n
      <4>2. b.pending[t] = cmd /\ g[n + 1] = dc
        BY Zenon, <3>2, <4>1, <2>1, <1>1, <1>2, <1>8
      <4> QED
        BY Zenon, <4>1, <4>2, <1>7, <1>8 DEF dd
    <3> QED
      BY <3>1, <3>2, <2>n
  <2>5. Chain(g, n - a, b.pending, a + 1)
    BY Zenon, <2>4 DEF Chain
  <2>6. ASSUME NEW i \in 1..Len(rest) PROVE b.pending[(a + 1) + i] = rest[i]
    <3>1. (a + 1) + i = a + (i + 1)
      BY <2>n
    <3> QED
      BY Zenon, <3>1, <2>1, <1>2
  <2>7. b.doc = ApplyAll(dd, rest)
    BY Zenon, <2>1, <1>1, ApplyAllTail DEF dd, cmd, rest
  <2>8. Chain(g, (n + 1) - (a + 1), b.pending, a + 1)
    BY Zenon, <2>2, <2>5
  <2> QED
    BY Zenon, <2>1, <2>2, <2>3, <2>6, <2>7, <2>8 DEF Ahead
<1>13. Valid(dd, rest)
  <2> SUFFICES ASSUME NEW i \in 1..Len(rest), rest[i].op = "rename"
               PROVE  /\ dd[rest[i].ds] # Gone
                      /\ \A j \in 1..(i - 1) : ~(rest[j].op = "remove" /\ rest[j].ds = rest[i].ds)
    BY Zenon DEF Valid
  <2>1. /\ i + 1 \in 1..Len(in) /\ rest[i] = in[i + 1] /\ (i + 1) - 1 = i /\ 1 \in 1..i
        /\ \A j \in 1..(i - 1) : j \in 1..Len(rest) /\ j + 1 \in 1..i
    BY <1>2
  <2>2. /\ dc[rest[i].ds] # Gone
        /\ \A j \in 1..i : ~(in[j].op = "remove" /\ in[j].ds = rest[i].ds)
    BY Zenon, <2>1, <1>1 DEF Valid
  <2>3. \A j \in 1..(i - 1) : ~(rest[j].op = "remove" /\ rest[j].ds = rest[i].ds)
    BY Zenon, <2>1, <2>2, <1>2
  <2>4. dd[rest[i].ds] # Gone
    <3>1. rest[i].ds \in Dataset /\ cmd.op \in {"rename", "remove"}
      <4>1. rest[i] \in Edits /\ cmd \in Edits
        BY <1>2
      <4> QED
        BY Zenon, <4>1 DEF Edits, Cmd
    <3>2. CASE rest[i].ds # cmd.ds
      <4>1. dd[rest[i].ds] = dc[rest[i].ds]
        BY ZenonT(60), <3>1, <3>2, <1>1, <1>2, EditAt DEF dd
      <4> QED
        BY Zenon, <4>1, <2>2
    <3>3. CASE rest[i].ds = cmd.ds
      <4>1. cmd.op = "rename"
        BY Zenon, <3>1, <3>3, <2>1, <2>2, <1>2
      <4>2. dd[cmd.ds] = cmd.name
        BY Zenon, <4>1, <1>1, <1>2, <1>7, <3>1, <3>3, EditAt DEF dd
      <4>3. cmd.name \in Given
        BY Zenon, <4>1, <1>2 DEF Edits, Cmd
      <4>4. Gone \notin Given
        BY DEF Given, Gone, Original
      <4> QED
        BY Zenon, <3>3, <4>2, <4>3, <4>4
    <3> QED
      BY Zenon, <3>2, <3>3
  <2> QED
    BY Zenon, <2>3, <2>4
<1> QED
  BY Zenon, <1>1, <1>2, <1>7, <1>9, <1>10, <1>11, <1>12, <1>13 DEF Mine, cmd, rest, now, g

(* What the broadcast of its last command does to the editor's receiver:   *)
(* it gets the ack, and loses the oldest one if it is full.                *)
Told(hd, q, lag, r, lost) ==
    \E item \in Item, full \in BOOLEAN :
        /\ item.seq = hd.seq /\ item.sender = hd.sender /\ (full => q # <<>>)
        /\ r = Append(IF full THEN Tail(q) ELSE q, item) /\ lost = (lag \/ full)

LEMMA MineTold ==
    ASSUME NEW c, NEW dc, NEW n, NEW h, NEW hd, NEW in, NEW q, NEW lag, NEW uni, NEW psh,
           NEW b, Mine(c, dc, n, h, hd, in, q, lag, uni, psh, b),
           Typed(dc, n, h, hd, q, psh, b), Busy(hd), b.on,
           NEW r, NEW lost, Told(hd, q, lag, r, lost)
    PROVE  Mine(c, dc, n, h, Idle, in, r, lost, uni, psh, b)
<1>0. PICK item \in Item, full \in BOOLEAN :
        /\ item.seq = hd.seq /\ item.sender = hd.sender /\ (full => q # <<>>)
        /\ r = Append(IF full THEN Tail(q) ELSE q, item) /\ lost = (lag \/ full)
  BY Zenon DEF Told
<1> DEFINE kept == IF full THEN Tail(q) ELSE q
<1>r. r = Append(kept, item) /\ (lost <=> lag \/ full) /\ (full => q # <<>>)
  BY Zenon, <1>0
<1>1. /\ in \in Seq(Edits) /\ uni = <<>> /\ b.buf = <<>> /\ Valid(dc, in)
      /\ Acks(c, n, hd, q, b) /\ Caught(n, hd, q, lag, psh, b) /\ Fresh(n, hd, in, q, lag, psh, b)
      /\ Ahead(dc, n, h, hd, in, q, b) /\ q \in Seq(Item)
  BY Zenon DEF Mine, Typed
<1>2. b.last # NoSeq
  BY Zenon, <1>1 DEF Fresh
<1>3. n \in Nat /\ Len(q) \in Nat /\ ~Busy(Idle) /\ Len(b.pending) \in Nat
  BY ZenonT(60), TypedIs DEF Busy, Idle
<1>4. item.seq = n /\ item.sender = c /\ Owing(hd, q) = Len(q) + 1 /\ Len(q) + 1 <= n
  BY <1>0, <1>1, <1>3 DEF Acks, Owing
<1>5. /\ kept \in Seq(Item) /\ Len(kept) \in Nat /\ Len(kept) = IF full THEN Len(q) - 1 ELSE Len(q)
      /\ \A i \in 1..Len(kept) : kept[i].sender = c /\ kept[i].seq = n - (Len(kept) + 1) + i
  <2>1. \A i \in 1..Len(q) : q[i].sender = c /\ q[i].seq = n - (Len(q) + 1) + i
    BY Zenon, <1>1, <1>4 DEF Acks
  <2>2. CASE ~full
    <3>1. kept = q
      BY Zenon, <2>2
    <3> HIDE DEF kept
    <3> QED
      BY Zenon, <3>1, <2>1, <2>2, <1>1, <1>3
  <2>3. CASE full
    <3>1. /\ kept \in Seq(Item) /\ Len(kept) = Len(q) - 1 /\ Len(kept) \in Nat
          /\ \A i \in 1..Len(kept) : kept[i] = q[i + 1] /\ i + 1 \in 1..Len(q)
      BY <2>3, <1>1, <1>r
    <3> HIDE DEF kept
    <3>2. ASSUME NEW i \in 1..Len(kept)
          PROVE  kept[i].sender = c /\ kept[i].seq = n - (Len(kept) + 1) + i
      <4>1. n - (Len(q) + 1) + (i + 1) = n - (Len(kept) + 1) + i
        BY <3>1, <1>3
      <4> QED
        BY ZenonT(60), <4>1, <3>1, <2>1
    <3> QED
      BY ZenonT(60), <3>1, <3>2, <2>3
  <2> QED
    BY Zenon, <2>2, <2>3
<1> HIDE DEF kept
<1>6. /\ Len(r) = Len(kept) + 1 /\ r[Len(kept) + 1] = item /\ Len(r) \in Nat
      /\ \A i \in 1..Len(kept) : r[i] = kept[i]
      /\ \A i \in 1..(Len(kept) + 1) : i \in 1..Len(kept) \/ i = Len(kept) + 1
  BY <1>5, <1>r
<1>7. Owing(Idle, r) = Len(kept) + 1
  BY <1>3, <1>5, <1>6 DEF Owing
<1>n. n \in Nat /\ Len(kept) \in Nat /\ Len(q) \in Nat /\ Len(kept) <= Len(q) /\ Len(q) + 1 <= n
  <2>1. /\ n \in Nat /\ Len(kept) \in Nat /\ Len(q) \in Nat /\ Len(q) + 1 <= n
        /\ Len(kept) = Len(q) \/ Len(kept) = Len(q) - 1
    BY Zenon, <1>3, <1>4, <1>5
  <2> QED
    BY <2>1
<1>8. Acks(c, n, Idle, r, b)
  <2>1. Len(kept) + 1 <= n /\ n - (Len(kept) + 1) + (Len(kept) + 1) = n
    BY <1>n
  <2>2. ASSUME NEW i \in 1..Len(r)
        PROVE  r[i].sender = c /\ r[i].seq = n - (Len(kept) + 1) + i
    <3>1. i \in 1..Len(kept) \/ i = Len(kept) + 1
      BY Zenon, <1>6
    <3>2. CASE i \in 1..Len(kept)
      BY Zenon, <3>2, <1>5, <1>6
    <3>3. CASE i = Len(kept) + 1
      BY Zenon, <3>3, <2>1, <1>4, <1>6
    <3> QED
      BY Zenon, <3>1, <3>2, <3>3
  <2> QED
    BY Zenon, <2>1, <2>2, <1>3, <1>7 DEF Acks
<1>9. Caught(n, Idle, r, lost, psh, b)
  <2>1. ~full => Owing(Idle, r) = Owing(hd, q)
    BY Zenon, <1>4, <1>5, <1>7
  <2> QED
    BY Zenon, <2>1, <1>1, <1>r DEF Caught
<1>10. Fresh(n, Idle, in, r, lost, psh, b)
  BY Zenon, <1>2 DEF Fresh
<1>11. Ahead(dc, n, h, Idle, in, r, b)
  <2>1. Applied(in, b) >= Owing(hd, q) /\ Applied(in, b) \in Int
    <3>1. Applied(in, b) >= Owing(hd, q) /\ in \in Seq(Edits)
      BY Zenon, <1>1, <1>2 DEF Ahead
    <3>2. Len(in) \in Nat
      BY <3>1
    <3> QED
      BY <3>1, <3>2, <1>3 DEF Applied
  <2>2. Applied(in, b) >= Owing(Idle, r)
    <3>1. Owing(hd, q) = Len(q) + 1 /\ Owing(Idle, r) = Len(kept) + 1
      BY Zenon, <1>4, <1>7
    <3> QED
      BY <2>1, <3>1, <1>n
  <2> QED
    BY Zenon, <2>2, <1>1, <1>2 DEF Ahead
<1> QED
  BY Zenon, <1>1, <1>8, <1>9, <1>10, <1>11 DEF Mine

(* A command broadcast after its editor left. *)
LEMMA MineAway ==
    ASSUME NEW c, NEW dc, NEW n, NEW h, NEW hd, NEW in, NEW q, NEW lag, NEW uni, NEW psh,
           NEW b, Mine(c, dc, n, h, hd, in, q, lag, uni, psh, b),
           Typed(dc, n, h, hd, q, psh, b), ~b.on
    PROVE  Mine(c, dc, n, h, Idle, in, q, lag, uni, psh, b)
<1>1. /\ in \in Seq(Edits) /\ uni = <<>> /\ b.buf = <<>> /\ Valid(dc, in)
      /\ b.last = NoSeq /\ psh = <<>> /\ b.pending = <<>> /\ in = <<>> /\ q = <<>> /\ ~lag
  BY Zenon DEF Mine, Fresh
<1>2. Owing(Idle, q) = 0 /\ ~Busy(Idle) /\ Len(q) = 0 /\ Len(psh) = 0 /\ n \in Nat
  BY <1>1, TypedIs DEF Owing, Busy, Idle
<1>3. Acks(c, n, Idle, q, b) /\ Caught(n, Idle, q, lag, psh, b)
  BY <1>1, <1>2 DEF Acks, Caught
<1>4. Fresh(n, Idle, in, q, lag, psh, b) /\ Ahead(dc, n, h, Idle, in, q, b)
  BY Zenon, <1>1 DEF Fresh, Ahead
<1> QED
  BY Zenon, <1>1, <1>3, <1>4 DEF Mine

LEMMA MinePushed ==
    ASSUME NEW c, NEW dc, NEW n, NEW h, NEW hd, NEW in, NEW q, NEW uni, NEW psh,
           NEW b, Mine(c, dc, n, h, hd, in, q, TRUE, uni, psh, b),
           Typed(dc, n, h, hd, q, psh, b), NEW snap, snap.seq = n
    PROVE  Mine(c, dc, n, h, hd, in, q, FALSE, uni, <<snap>>, b)
<1>1. b.last # NoSeq /\ b.on
  BY Zenon DEF Mine, Fresh
<1>2. Len(<<snap>>) = 1 /\ <<snap>>[1] = snap /\ <<snap>> # <<>>
  OBVIOUS
<1>3. n \in Nat /\ Owing(hd, q) \in Nat
  BY Zenon, TypedIs
<1>4. n >= n - Owing(hd, q) /\ \A i \in 1..1 : i = 1
  BY <1>3
<1>5. Caught(n, hd, q, FALSE, <<snap>>, b)
  BY Zenon, <1>2, <1>4 DEF Caught
<1>6. Fresh(n, hd, in, q, FALSE, <<snap>>, b)
  BY Zenon, <1>1 DEF Fresh
<1> QED
  BY Zenon, <1>5, <1>6 DEF Mine

(* With nothing buffered there is nothing to drain. *)
LEMMA AdoptPlain ==
    ASSUME NEW b, Bridge(b), b.buf = <<>>, NEW snap
    PROVE  LET k == AdoptSnapshot(b, snap) IN
           /\ k.on = b.on /\ k.pending = b.pending /\ k.buf = <<>>
           /\ Outdated(b, snap) => k.last = b.last /\ k.doc = b.doc
           /\ ~Outdated(b, snap) => k.last = snap.seq /\ k.doc = ApplyAll(snap.doc, b.pending)
<1> DEFINE settled == ClearTimers([b EXCEPT !.inFlight = FALSE])
           adopted == [settled EXCEPT !.last = snap.seq, !.doc = snap.doc,
                                      !.mirror = Present(snap.doc), !.since = Since(b)]
           start == IF Outdated(b, snap) THEN settled ELSE ReplayPending(adopted)
           k == AdoptSnapshot(b, snap)
<1>1. k = Drain(start)
  BY Zenon DEF AdoptSnapshot
<1>2. Keeps(settled, b, {"inFlight", "grace", "retry"})
  BY Zenon DEF ClearTimers, Bridge, Keeps, Shaped, Fields
<1> HIDE DEF settled
<1>3. /\ Keeps(adopted, settled, {"last", "doc", "mirror", "since"})
      /\ adopted.last = snap.seq /\ adopted.doc = snap.doc
  BY Zenon, <1>2 DEF Keeps, Shaped, Fields
<1> HIDE DEF adopted
<1>4. /\ Keeps(ReplayPending(adopted), adopted, {"doc", "mirror"})
      /\ ReplayPending(adopted).doc = ApplyAll(adopted.doc, adopted.pending)
  BY Zenon, <1>3 DEF ReplayPending, Keeps, Shaped, Fields
<1>5. /\ settled.on = b.on /\ settled.pending = b.pending /\ settled.buf = b.buf
      /\ settled.last = b.last /\ settled.doc = b.doc
      /\ adopted.on = b.on /\ adopted.pending = b.pending /\ adopted.buf = b.buf
  BY Zenon, <1>2, <1>3 DEF Keeps, Fields
<1>6. /\ ReplayPending(adopted).on = b.on /\ ReplayPending(adopted).pending = b.pending
      /\ ReplayPending(adopted).buf = b.buf /\ ReplayPending(adopted).last = snap.seq
  BY Zenon, <1>3, <1>4, <1>5 DEF Keeps, Fields
<1>7. /\ start.on = b.on /\ start.pending = b.pending /\ start.buf = <<>>
      /\ Outdated(b, snap) => start.last = b.last /\ start.doc = b.doc
      /\ ~Outdated(b, snap) => start.last = snap.seq /\ start.doc = ApplyAll(snap.doc, b.pending)
  BY Zenon, <1>3, <1>4, <1>5, <1>6
<1> HIDE DEF start
<1>8. Drain(start) = start
  BY <1>7 DEF Drain
<1> QED
  BY Zenon, <1>1, <1>7, <1>8

LEMMA MineAdopts ==
    ASSUME NEW c, NEW dc, NEW n, NEW h, NEW hd, NEW in, NEW q, NEW lag, NEW uni, NEW psh,
           NEW b, Mine(c, dc, n, h, hd, in, q, lag, uni, psh, b),
           Typed(dc, n, h, hd, q, psh, b), psh # <<>>,
           Head(psh).seq <= n, Head(psh).doc = h[Head(psh).seq + 1]
    PROVE  Mine(c, dc, n, h, hd, in, q, lag, uni, <<>>, AdoptSnapshot(b, Head(psh)))
<1> DEFINE snap == Head(psh)
           k == AdoptSnapshot(b, snap)
<1>1. /\ in \in Seq(Edits) /\ uni = <<>> /\ b.buf = <<>> /\ Valid(dc, in)
      /\ Acks(c, n, hd, q, b) /\ Caught(n, hd, q, lag, psh, b) /\ Fresh(n, hd, in, q, lag, psh, b)
      /\ Ahead(dc, n, h, hd, in, q, b) /\ psh \in Seq(Snap)
      /\ h \in Seq(Doc) /\ Len(h) = n + 1 /\ h[n + 1] = dc
  BY Zenon DEF Mine, Typed
<1>2. snap \in Snap /\ snap = psh[1] /\ 1 \in 1..Len(psh)
  BY Zenon, <1>1, TailIs
<1>3. /\ n \in Nat /\ Owing(hd, q) \in Nat /\ b.last \in Nat \union {-1} /\ b.last <= n
      /\ Bridge(b) /\ snap.seq \in Nat /\ snap.seq <= n /\ Len(b.pending) \in Nat /\ Len(in) \in Nat
  <2>1. in \in Seq(Edits)
    BY Zenon, <1>1
  <2>2. Len(in) \in Nat
    BY <2>1
  <2> QED
    BY Zenon, <1>2, <2>2, TypedIs DEF Snap
<1>4. /\ k.on = b.on /\ k.pending = b.pending /\ k.buf = <<>>
      /\ Outdated(b, snap) => k.last = b.last /\ k.doc = b.doc
      /\ ~Outdated(b, snap) => k.last = snap.seq /\ k.doc = ApplyAll(snap.doc, b.pending)
  BY Zenon, <1>1, <1>3, AdoptPlain
<1>d. snap.doc = h[snap.seq + 1]
  OBVIOUS
<1> HIDE DEF snap, k
<1>5. k.last >= snap.seq /\ k.last >= b.last /\ k.last \in Nat /\ k.last # NoSeq
  <2>1. /\ b.last \in Nat \union {-1} /\ snap.seq \in Nat
        /\ snap.seq < b.last => k.last = b.last
        /\ ~(snap.seq < b.last) => k.last = snap.seq
    BY Zenon, <1>3, <1>4 DEF Outdated
  <2> QED
    BY <2>1 DEF NoSeq
<1>6. b.on
  BY Zenon, <1>1 DEF Fresh
<1>7. Acks(c, n, hd, q, k)
  BY Zenon, <1>1, <1>4 DEF Acks
<1>8. Caught(n, hd, q, lag, <<>>, k)
  <2>1. ~lag => snap.seq >= n - Owing(hd, q)
    BY Zenon, <1>1, <1>2 DEF Caught
  <2>2. ~lag => k.last >= n - Owing(hd, q)
    BY <2>1, <1>3, <1>5
  <2> QED
    BY <2>2 DEF Caught
<1>9. Fresh(n, hd, in, q, lag, <<>>, k)
  BY Zenon, <1>4, <1>5, <1>6 DEF Fresh
<1>10. Applied(in, k) = Applied(in, b)
  BY Zenon, <1>4 DEF Applied
<1>11. Ahead(dc, n, h, hd, in, q, k)
  <2>1. CASE b.last = NoSeq
    <3>1. b.pending = <<>> /\ in = <<>> /\ q = <<>> /\ ~Busy(hd) /\ snap.seq = n
      BY ZenonT(60), <2>1, <1>1, <1>2, <1>6 DEF Fresh
    <3>2. Applied(in, k) = 0 /\ Owing(hd, q) = 0 /\ ~Outdated(b, snap)
      BY <3>1, <2>1, <1>3, <1>10 DEF Applied, Owing, Outdated, NoSeq
    <3>3. k.doc = ApplyAll(dc, in)
      BY ZenonT(60), <3>1, <3>2, <1>1, <1>4, <1>d
    <3>4. /\ Chain(h, n - 0, k.pending, 0) /\ k.pending \in Seq(Edits)
          /\ \A i \in 1..Len(in) : k.pending[0 + i] = in[i]
      BY <3>1, <1>4 DEF Chain
    <3>5. k.last = n /\ 0 >= 0 /\ 0 <= n /\ n - 0 <= n
      BY <3>1, <3>2, <1>3, <1>4
    <3> QED
      BY Zenon, <3>2, <3>3, <3>4, <3>5 DEF Ahead
  <2>2. CASE b.last # NoSeq
    <3> DEFINE a == Applied(in, b)
    <3>1. /\ b.pending \in Seq(Edits) /\ a >= Owing(hd, q) /\ a <= n /\ n - a <= b.last
          /\ Chain(h, n - a, b.pending, a) /\ b.doc = ApplyAll(dc, in)
          /\ \A i \in 1..Len(in) : b.pending[a + i] = in[i]
      BY ZenonT(60), <2>2, <1>1 DEF Ahead
    <3>2. a = Len(b.pending) - Len(in) /\ a \in Int
      BY <1>3 DEF Applied
    <3> HIDE DEF a
    <3>3. a \in 0..n /\ Len(b.pending) = a + Len(in) /\ n - a <= k.last
      BY <3>1, <3>2, <1>3, <1>5
    <3>4. k.doc = ApplyAll(dc, in)
      <4>1. CASE Outdated(b, snap)
        BY Zenon, <4>1, <3>1, <1>4
      <4>2. CASE ~Outdated(b, snap)
        <5>1. snap.seq \in (n - a)..n
          BY <4>2, <3>1, <3>3, <1>3, <1>4
        <5>2. ApplyAll(h[snap.seq + 1], b.pending) = ApplyAll(h[n + 1], in)
          BY ZenonT(60), <5>1, <3>1, <3>3, <1>1, <1>3, Replay
        <5> QED
          BY ZenonT(60), <4>2, <5>2, <1>1, <1>4, <1>d
      <4> QED
        BY Zenon, <4>1, <4>2
    <3> QED
      BY Zenon, <3>1, <3>3, <3>4, <1>4, <1>10 DEF Ahead, a
  <2> QED
    BY Zenon, <2>1, <2>2
<1> QED
  BY Zenon, <1>1, <1>4, <1>7, <1>8, <1>9, <1>11 DEF Mine, k, snap

LEMMA AckPlain ==
    ASSUME NEW b, Bridge(b), b.buf = <<>>, b.pending # <<>>, NEW s \in Nat, s <= b.last + 1
    PROVE  LET k == HandleSequenced(Acked(b, TRUE), [seq |-> s, cmd |-> Ack]) IN
           /\ k.on = b.on /\ k.pending = Tail(b.pending) /\ k.buf = <<>> /\ k.doc = b.doc
           /\ k.last = IF s <= b.last THEN b.last ELSE s
<1> DEFINE a == Acked(b, TRUE)
           e == [seq |-> s, cmd |-> Ack]
           k == HandleSequenced(a, e)
<1>1. Keeps(a, b, {"pending"}) /\ a.pending = Tail(b.pending)
  BY Zenon DEF Acked, Bridge, Keeps, Shaped, Fields
<1>2. e.seq = s /\ e.cmd = Ack /\ Ack.op = "ack" /\ Ack.op # "open"
  BY DEF Ack
<1>3. b.last \in Int
  BY DEF Bridge, NoSeq
<1> HIDE DEF a, e
<1>4. a.on = b.on /\ a.buf = <<>> /\ a.doc = b.doc /\ a.last = b.last
  BY Zenon, <1>1 DEF Keeps, Fields
<1>5. CASE s <= b.last
  <2>1. k = DeliverStale(a, e)
    BY <1>2, <1>3, <1>4, <1>5 DEF HandleSequenced
  <2>2. k = a
    BY Zenon, <2>1, <1>2 DEF DeliverStale
  <2> QED
    BY Zenon, <2>2, <1>1, <1>4, <1>5 DEF a, e
<1>6. CASE ~(s <= b.last)
  <2>1. s = b.last + 1
    BY <1>3, <1>6
  <2> DEFINE d == DeliverNext(a, e)
  <2>2. k = Drain(d)
    BY <1>2, <1>4, <1>6, <2>1 DEF HandleSequenced
  <2>3. d = [a EXCEPT !.last = s]
    BY Zenon, <1>2 DEF DeliverNext
  <2> HIDE DEF d
  <2>4. Keeps(d, a, {"last"}) /\ d.last = s
    BY Zenon, <2>3, <1>1 DEF Keeps, Shaped, Fields
  <2>5. d.on = b.on /\ d.pending = Tail(b.pending) /\ d.buf = <<>> /\ d.doc = b.doc
    BY Zenon, <2>4, <1>1, <1>4 DEF Keeps, Fields
  <2>6. Drain(d) = d
    BY <2>5 DEF Drain
  <2> QED
    BY Zenon, <2>2, <2>4, <2>5, <2>6, <1>6 DEF a, e
<1> QED
  BY Zenon, <1>5, <1>6

LEMMA MineAcked ==
    ASSUME NEW c, NEW dc, NEW n, NEW h, NEW hd, NEW in, NEW q, NEW uni,
           NEW b, Mine(c, dc, n, h, hd, in, q, FALSE, uni, <<>>, b),
           Typed(dc, n, h, hd, q, <<>>, b), q # <<>>
    PROVE  /\ Head(q).sender = c
           /\ Mine(c, dc, n, h, hd, in, Tail(q), FALSE, uni, <<>>,
                   HandleSequenced(Acked(b, TRUE), [seq |-> Head(q).seq, cmd |-> Ack]))
<1> DEFINE s == Head(q).seq
           rest == Tail(q)
           k == HandleSequenced(Acked(b, TRUE), [seq |-> s, cmd |-> Ack])
           a == Applied(in, b)
           p == b.pending
           o == Owing(hd, q)
<1>1. /\ in \in Seq(Edits) /\ uni = <<>> /\ b.buf = <<>> /\ Valid(dc, in)
      /\ Acks(c, n, hd, q, b) /\ Caught(n, hd, q, FALSE, <<>>, b)
      /\ Fresh(n, hd, in, q, FALSE, <<>>, b)
      /\ Ahead(dc, n, h, hd, in, q, b) /\ q \in Seq(Item)
  BY Zenon DEF Mine, Typed
<1>2. /\ Head(q) = q[1] /\ 1 \in 1..Len(q) /\ Len(rest) = Len(q) - 1 /\ rest \in Seq(Item)
      /\ \A i \in 1..Len(rest) : rest[i] = q[i + 1] /\ i + 1 \in 1..Len(q)
  BY Zenon, <1>1, TailIs
<1>3. b.last # NoSeq /\ b.on
  BY Zenon, <1>1 DEF Fresh
<1>4. /\ n \in Nat /\ Len(q) \in Nat /\ o \in Nat /\ Len(p) \in Nat /\ b.last \in Nat
      /\ b.last <= n /\ Bridge(b)
  BY <1>3, TypedIs DEF NoSeq
<1>5. /\ p \in Seq(Edits) /\ a >= o /\ a <= n /\ n - a <= b.last
      /\ Chain(h, n - a, p, a) /\ b.doc = ApplyAll(dc, in)
      /\ \A i \in 1..Len(in) : p[a + i] = in[i]
  BY Zenon, <1>1, <1>3 DEF Ahead
<1>6. a = Len(p) - Len(in) /\ Len(in) \in Nat
  <2>1. Len(in) \in Nat
    BY <1>1
  <2> QED
    BY ZenonT(60), <2>1 DEF Applied
<1>7. Owing(hd, rest) = o - 1 /\ o >= 1 /\ Owing(hd, rest) \in Nat
  <2>1. Len(q) \in Nat /\ Len(rest) = Len(q) - 1 /\ Len(q) >= 1
    BY <1>2, <1>4
  <2> HIDE DEF rest
  <2> QED
    BY <2>1 DEF Owing
<1>8. s = n - o + 1 /\ Head(q).sender = c /\ o <= n /\ b.last >= n - o
  BY ZenonT(60), <1>1, <1>2, <1>3 DEF Acks, Caught
<1> HIDE DEF s, rest, a, p, o
<1>9. s \in Nat /\ s <= b.last + 1 /\ a >= 1 /\ a \in Nat /\ Len(p) >= 1
  BY <1>4, <1>5, <1>6, <1>7, <1>8
<1>10. b.pending # <<>>
  BY <1>9 DEF p
<1>11. /\ k.on = b.on /\ k.pending = Tail(b.pending) /\ k.buf = <<>> /\ k.doc = b.doc
       /\ k.last = IF s <= b.last THEN b.last ELSE s
  BY Zenon, <1>1, <1>4, <1>9, <1>10, AckPlain
<1> HIDE DEF k
<1>12. k.last >= s /\ k.last >= b.last /\ k.last \in Nat /\ k.last # NoSeq
  BY <1>4, <1>9, <1>11 DEF NoSeq
<1>13. Acks(c, n, hd, rest, k)
  <2>1. Owing(hd, rest) <= n
    BY <1>4, <1>7, <1>8
  <2>2. ASSUME NEW i \in 1..Len(rest)
        PROVE  rest[i].sender = c /\ rest[i].seq = n - Owing(hd, rest) + i
    <3>1. q[i + 1].sender = c /\ q[i + 1].seq = n - o + (i + 1) /\ rest[i] = q[i + 1]
      BY Zenon, <1>1, <1>2 DEF Acks, o
    <3>2. n - o + (i + 1) = n - Owing(hd, rest) + i
      BY <1>4, <1>7
    <3> QED
      BY Zenon, <3>1, <3>2
  <2> QED
    BY Zenon, <2>1, <2>2, <1>1, <1>11 DEF Acks
<1>14. Caught(n, hd, rest, FALSE, <<>>, k)
  <2>1. k.last >= n - Owing(hd, rest)
    BY <1>4, <1>7, <1>8, <1>12
  <2> QED
    BY <2>1 DEF Caught
<1>15. Fresh(n, hd, in, rest, FALSE, <<>>, k)
  BY Zenon, <1>3, <1>11, <1>12 DEF Fresh
<1>16. Ahead(dc, n, h, hd, in, rest, k)
  <2>1. /\ Tail(p) \in Seq(Edits) /\ Len(Tail(p)) = Len(p) - 1
        /\ \A i \in 1..(Len(p) - 1) : Tail(p)[i] = p[i + 1]
    BY <1>5, <1>9
  <2>2. k.pending = Tail(p) /\ Applied(in, k) = Len(Tail(p)) - Len(in)
    BY ZenonT(60), <1>11 DEF p, Applied
  <2>3. Applied(in, k) = a - 1
    BY <2>1, <2>2, <1>4, <1>6
  <2>4. a - 1 >= Owing(hd, rest) /\ a - 1 <= n /\ n - (a - 1) <= k.last
    <3>1. a \in Nat /\ n \in Nat /\ o \in Nat /\ a >= o /\ a <= n /\ k.last \in Nat
      BY Zenon, <1>4, <1>5, <1>9, <1>12
    <3> QED
      BY <3>1, <1>7, <1>8, <1>12
  <2>5. ASSUME NEW t \in 1..(a - 1)
        PROVE  /\ h[(n - (a - 1)) + t + 1] = Apply(h[(n - (a - 1)) + t], Tail(p)[t])
               /\ Tail(p)[t].op = "rename" => h[(n - (a - 1)) + t][Tail(p)[t].ds] # Gone
    <3>1. /\ t + 1 \in 1..a /\ t \in 1..(Len(p) - 1)
          /\ (n - (a - 1)) + t + 1 = (n - a) + (t + 1) + 1 /\ (n - (a - 1)) + t = (n - a) + (t + 1)
      BY <1>4, <1>6, <1>9
    <3> QED
      BY ZenonT(60), <3>1, <2>1, <1>5 DEF Chain
  <2>6. Chain(h, n - (a - 1), Tail(p), a - 1)
    BY Zenon, <2>5 DEF Chain
  <2>7. ASSUME NEW i \in 1..Len(in) PROVE Tail(p)[(a - 1) + i] = in[i]
    <3>1. (a - 1) + i \in 1..(Len(p) - 1) /\ ((a - 1) + i) + 1 = a + i
      BY <1>4, <1>6, <1>9
    <3> QED
      BY Zenon, <3>1, <2>1, <1>5
  <2> QED
    BY Zenon, <2>1, <2>2, <2>3, <2>4, <2>6, <2>7, <1>5, <1>11 DEF Ahead
<1> QED
  BY Zenon, <1>1, <1>8, <1>11, <1>13, <1>14, <1>15, <1>16 DEF Mine, k, s, rest

LEMMA MineGone ==
    ASSUME NEW c, NEW dc, NEW n, NEW h, NEW hd, NEW in, NEW q, NEW lag, NEW uni, NEW psh,
           NEW b, Mine(c, dc, n, h, hd, in, q, lag, uni, psh, b), Typed(dc, n, h, hd, q, psh, b)
    PROVE  Mine(c, dc, n, h, IF hd = Idle THEN Idle ELSE [hd EXCEPT !.sender = Server],
                <<>>, <<>>, FALSE, <<>>, <<>>, Disconnected)
<1> DEFINE hh == IF hd = Idle THEN Idle ELSE [hd EXCEPT !.sender = Server]
<1>1. hd \in Handling /\ n \in Nat /\ Len(q) \in Nat /\ Acks(c, n, hd, q, b)
  BY Zenon, TypedIs DEF Mine, Typed
<1>2. /\ Busy(hh) <=> Busy(hd)
      /\ Busy(hd) => hh.seq = hd.seq /\ hh.sender = Server
  BY <1>1 DEF Handling, Busy, Idle
<1> HIDE DEF hh
<1>3. /\ Disconnected.on = FALSE /\ Disconnected.last = NoSeq /\ Disconnected.buf = <<>>
      /\ Disconnected.pending = <<>>
  BY Zenon DEF Disconnected
<1>4. Owing(hh, <<>>) <= n
  <2>1. Owing(hd, q) <= n
    BY ZenonT(60), <1>1 DEF Acks
  <2> QED
    BY <2>1, <1>1, <1>2 DEF Owing
<1>5. Acks(c, n, hh, <<>>, Disconnected)
  BY <1>1, <1>2, <1>3, <1>4 DEF Acks
<1>6. /\ Caught(n, hh, <<>>, FALSE, <<>>, Disconnected)
      /\ Valid(dc, <<>>) /\ <<>> \in Seq(Edits)
  BY <1>3 DEF Caught, Valid
<1>7. Fresh(n, hh, <<>>, <<>>, FALSE, <<>>, Disconnected) /\ Ahead(dc, n, h, hh, <<>>, <<>>, Disconnected)
  BY Zenon, <1>3 DEF Fresh, Ahead
<1> QED
  BY Zenon, <1>3, <1>5, <1>6, <1>7 DEF Mine, hh

LEMMA MineJoins ==
    ASSUME NEW c, NEW dc, NEW n, NEW h, NEW in, NEW q, NEW lag, NEW uni, NEW psh,
           NEW b, Mine(c, dc, n, h, Idle, in, q, lag, uni, psh, b),
           Typed(dc, n, h, Idle, q, psh, b), ~b.on,
           NEW k, Keeps(k, b, {"on"}), k.on = TRUE, NEW snap, snap.seq = n
    PROVE  Mine(c, dc, n, h, Idle, in, q, lag, uni, <<snap>>, k)
<1>1. /\ in \in Seq(Edits) /\ uni = <<>> /\ b.buf = <<>> /\ Valid(dc, in)
      /\ b.last = NoSeq /\ b.pending = <<>> /\ in = <<>> /\ q = <<>> /\ ~lag
  BY Zenon DEF Mine, Fresh
<1>2. k.buf = b.buf /\ k.last = b.last /\ k.pending = b.pending
  BY ZenonT(60) DEF Keeps, Fields
<1>3. /\ Owing(Idle, q) = 0 /\ ~Busy(Idle) /\ Len(q) = 0 /\ n \in Nat
      /\ Len(<<snap>>) = 1 /\ <<snap>>[1] = snap /\ <<snap>> # <<>>
  BY <1>1, TypedIs DEF Owing, Busy, Idle
<1>4. Acks(c, n, Idle, q, k)
  BY <1>3 DEF Acks
<1>5. Caught(n, Idle, q, lag, <<snap>>, k)
  <2>1. n >= n - 0 /\ \A i \in 1..1 : i = 1
    BY <1>3
  <2> QED
    BY Zenon, <2>1, <1>3 DEF Caught
<1>6. Fresh(n, Idle, in, q, lag, <<snap>>, k) /\ Ahead(dc, n, h, Idle, in, q, k)
  BY Zenon, <1>1, <1>2, <1>3 DEF Fresh, Ahead
<1> QED
  BY Zenon, <1>1, <1>2, <1>4, <1>5, <1>6 DEF Mine

----------------------------------------------------------------------------
Quiet(x) == ~Busy(handler[x]) /\ inbound[x] \in Seq({Request})

EditorInv(c) ==
    /\ \A x \in Client \ {c} : Quiet(x)
    /\ Mine(c, doc, seq, docAt, handler[c], inbound[c], rx[c], lagged[c], unicast[c], pushed[c],
            bridge[c])

LEMMA EditorStep ==
    ASSUME Opener = {}, Gone \notin Name, NEW c \in Client, Editor = {c},
           SafeInv, HistInv, EditorInv(c), [Next]_vars, failures \in Nat, failures' = 0
    PROVE  EditorInv(c)'
<1>s. ServerInv /\ QueueInv /\ ClientInv
  BY Zenon DEF SafeInv
<1>a. /\ handler \in [Client -> Handling] /\ rx \in [Client -> Seq(Item)]
      /\ lagged \in [Client -> BOOLEAN] /\ unicast \in [Client -> Seq(Snap)]
      /\ pushed \in [Client -> Seq(Snap)]
      /\ inbound \in [Client -> Seq(Cmd \union {Request})]
      /\ DOMAIN bridge = Client /\ \A x \in Client : Sound(bridge[x], seq) /\ Bridge(bridge[x])
      /\ ~Busy(Idle) /\ seq \in Nat
  BY Zenon, <1>s DEF ServerInv, QueueInv, ClientInv, Sound, Busy, Idle
<1>q. \A x \in Client \ {c} : Quiet(x)
  BY Zenon DEF EditorInv
<1> DEFINE MineNow == Mine(c, doc, seq, docAt, handler[c], inbound[c], rx[c], lagged[c], unicast[c],
                           pushed[c], bridge[c])
<1>m. MineNow
  BY Zenon DEF EditorInv
<1>t. Typed(doc, seq, docAt, handler[c], rx[c], pushed[c], bridge[c])
  BY Zenon, <1>a, <1>s DEF Typed, ServerInv
<1>v. ASSUME NEW x \in Client \ {c}, inbound[x] # <<>>
      PROVE  Head(inbound[x]) = Request /\ Tail(inbound[x]) \in Seq({Request})
  <2>1. inbound[x] \in Seq({Request})
    BY Zenon, <1>q DEF Quiet
  <2>2. Head(inbound[x]) \in {Request} /\ Tail(inbound[x]) \in Seq({Request})
    BY Zenon, <2>1, <1>v, TailIs
  <2> QED
    BY Zenon, <2>2
(* Nothing of c's changes. *)
<1>b. ASSUME UNCHANGED <<doc, seq, docAt>>,
             /\ handler'[c] = handler[c] /\ inbound'[c] = inbound[c] /\ rx'[c] = rx[c]
             /\ lagged'[c] = lagged[c] /\ unicast'[c] = unicast[c] /\ pushed'[c] = pushed[c]
             /\ bridge'[c] = bridge[c],
             \A x \in Client \ {c} : Quiet(x)'
      PROVE  EditorInv(c)'
  BY Zenon, <1>b, <1>m DEF EditorInv
(* Nothing of the others' changes. *)
<1>c. ASSUME \A x \in Client \ {c} : handler'[x] = handler[x] /\ inbound'[x] = inbound[x]
      PROVE  \A x \in Client \ {c} : Quiet(x)'
  BY Zenon, <1>c, <1>q DEF Quiet
<1>1. ASSUME NEW x \in Client, Edit(x) PROVE EditorInv(c)'
  <2>1. PICK cmd \in Edits : SendCommand(x, cmd) /\ bridge[x].doc[cmd.ds] # Gone
    <3>1. PICK d \in Present(bridge[x].doc) :
             SendCommand(x, Removed(d)) \/ \E n \in Name : SendCommand(x, Renamed(d, n))
      BY Zenon, <1>1 DEF Edit
    <3>2. d \in Dataset /\ bridge[x].doc[d] # Gone
      BY Zenon, <1>a DEF Bridge, Doc, Present
    <3>3. Removed(d) \in Edits /\ Removed(d).ds = d
      BY Zenon, <3>2, CommandsTyped DEF Edits, Removed
    <3>4. \A n \in Name : Renamed(d, n) \in Edits /\ Renamed(d, n).ds = d
      BY Zenon, <3>2, CommandsTyped DEF Edits, Renamed
    <3> QED
      BY ZenonT(60), <3>1, <3>2, <3>3, <3>4
  <2>2. x = c
    BY Zenon, <2>1 DEF SendCommand
  <2> DEFINE b == bridge[c]
             k == [OnCommand(b, cmd) EXCEPT !.pending = Append(@, cmd), !.since = "edited"]
  <2>3. /\ bridge' = [bridge EXCEPT ![c] = k] /\ inbound' = [inbound EXCEPT ![c] = Append(@, cmd)]
        /\ b.last # NoSeq /\ b.doc[cmd.ds] # Gone
        /\ UNCHANGED <<doc, seq, docAt, handler, rx, lagged, unicast, pushed>>
    BY Zenon, <2>1, <2>2 DEF SendCommand, server, queues
  <2>4. Bridge(b)
    BY Zenon, <1>a
  <2>5. /\ Keeps(k, b, {"doc", "pending", "since"})
        /\ k.doc = Apply(b.doc, cmd) /\ k.pending = Append(b.pending, cmd)
    <3> HIDE DEF b
    <3> QED
      BY Zenon, <2>4 DEF OnCommand, Bridge, Keeps, Shaped, Fields
  <2> HIDE DEF k
  <2>6. Mine(c, doc, seq, docAt, handler[c], Append(inbound[c], cmd), rx[c], lagged[c], unicast[c],
             pushed[c], k)
    BY Zenon, <1>m, <1>t, <2>1, <2>3, <2>5, MineSends
  <2>7. /\ bridge'[c] = k /\ inbound'[c] = Append(inbound[c], cmd)
        /\ \A y \in Client \ {c} : inbound'[y] = inbound[y]
    BY Zenon, <2>3, <1>a
  <2> QED
    BY Zenon, <2>3, <2>6, <2>7, <1>c DEF EditorInv
<1>2. ASSUME NEW x \in Client, TakeCommand(x) PROVE EditorInv(c)'
  <2>1. x = c
    <3>1. inbound[x] # <<>> /\ Head(inbound[x]).op \in {"rename", "remove"}
      BY Zenon, <1>2 DEF TakeCommand
    <3>2. Request.op = "request"
      BY Zenon DEF Request
    <3> QED
      BY Zenon, <3>1, <3>2, <1>v
  <2> DEFINE cmd == Head(inbound[c])
             now == [stage |-> "persisting", seq |-> seq + 1, cmd |-> cmd, sender |-> c]
  <2>2. handler[c] = Idle /\ inbound[c] # <<>> /\ inbound' = [inbound EXCEPT ![c] = Tail(@)]
    BY Zenon, <1>2, <2>1 DEF TakeCommand
  <2>3. /\ cmd.op = "rename" => doc[cmd.ds] # Gone
        /\ Mine(c, Apply(doc, cmd), seq + 1, Append(docAt, Apply(doc, cmd)), now, Tail(inbound[c]),
                rx[c], lagged[c], unicast[c], pushed[c], bridge[c])
    BY Zenon, <1>m, <1>t, <1>a, <2>2, MineTaken
  <2>4. /\ doc' = Apply(doc, cmd) /\ seq' = seq + 1 /\ docAt' = Append(docAt, Apply(doc, cmd))
        /\ handler' = [handler EXCEPT ![c] = now]
        /\ UNCHANGED <<rx, lagged, unicast, pushed, bridge>>
    BY Zenon, <1>2, <2>1, <2>3 DEF TakeCommand, SessionApply, queues
  <2> HIDE DEF cmd, now
  <2>5. /\ handler'[c] = now /\ inbound'[c] = Tail(inbound[c])
        /\ \A y \in Client \ {c} : inbound'[y] = inbound[y] /\ handler'[y] = handler[y]
    BY Zenon, <2>2, <2>4, <1>a
  <2> QED
    BY Zenon, <2>3, <2>4, <2>5, <1>c DEF EditorInv
<1>3. ASSUME NEW x \in Client, Persisted(x) PROVE EditorInv(c)'
  <2>1. Busy(handler[x])
    BY Zenon, <1>3 DEF Persisted, Busy
  <2>2. x = c
    BY Zenon, <2>1, <1>q DEF Quiet
  <2> DEFINE item == [seq |-> handler[c].seq, cmd |-> handler[c].cmd, sender |-> handler[c].sender]
             full == Len(rx[c]) = Capacity
  <2>3. /\ handler' = [handler EXCEPT ![c] = Idle]
        /\ UNCHANGED <<doc, seq, docAt, inbound, unicast, pushed, bridge>>
        /\ rx'[c] = IF c \notin Subscribed THEN rx[c]
                    ELSE Append(IF full THEN Tail(rx[c]) ELSE rx[c], item)
        /\ lagged'[c] = (lagged[c] \/ (c \in Subscribed /\ full))
    BY Zenon, <1>3, <2>2 DEF Persisted, Broadcast, server
  <2>4. item \in Item /\ item.seq = handler[c].seq /\ item.sender = handler[c].sender
    BY Zenon, <2>1, <2>2, <1>a, BusyIs DEF Item
  <2>5. full \in BOOLEAN /\ (full => rx[c] # <<>>)
    BY Zenon, SyncAssumption
  <2>6. handler'[c] = Idle /\ \A y \in Client \ {c} : handler'[y] = handler[y]
    BY Zenon, <2>3, <1>a
  <2>7. c \in Subscribed <=> bridge[c].on
    BY Zenon DEF Subscribed
  <2>8. lagged[c] \in BOOLEAN
    BY Zenon, <1>a
  <2> HIDE DEF item, full
  <2>9. CASE bridge[c].on
    <3>1. lagged'[c] = (lagged[c] \/ full) /\ rx'[c] = Append(IF full THEN Tail(rx[c]) ELSE rx[c], item)
      BY Zenon, <2>3, <2>7, <2>9
    <3>2. Mine(c, doc, seq, docAt, Idle, inbound[c], rx'[c], lagged'[c], unicast[c], pushed[c], bridge[c])
      <4>1. Busy(handler[c]) /\ MineNow
        BY Zenon, <2>1, <2>2, <1>m
      <4>2. Typed(doc, seq, docAt, handler[c], rx[c], pushed[c], bridge[c])
        BY Zenon, <1>t
      <4>3. Told(handler[c], rx[c], lagged[c], rx'[c], lagged'[c])
        BY Zenon, <2>4, <2>5, <3>1 DEF Told
      <4> QED
        BY Zenon, <4>1, <4>2, <4>3, <2>9, MineTold
    <3> QED
      BY Zenon, <2>3, <2>6, <3>2, <1>c DEF EditorInv
  <2>10. CASE ~bridge[c].on
    <3>1. Mine(c, doc, seq, docAt, Idle, inbound[c], rx[c], lagged[c], unicast[c], pushed[c], bridge[c])
      BY Zenon, <2>10, <1>m, <1>t, MineAway
    <3>2. lagged'[c] = lagged[c] /\ rx'[c] = rx[c]
      BY Zenon, <2>3, <2>7, <2>8, <2>10
    <3> QED
      BY Zenon, <2>3, <2>6, <3>1, <3>2, <1>c DEF EditorInv
  <2> QED
    BY Zenon, <2>9, <2>10
<1>4. ASSUME NEW x \in Client, PersistFailed(x) PROVE FALSE
  <2>1. failures' = failures + 1
    BY Zenon, <1>4 DEF PersistFailed
  <2> QED
    BY <2>1
<1>5. ASSUME NEW x \in Client, TakeRequest(x) PROVE EditorInv(c)'
  <2>1. /\ inbound[x] # <<>> /\ Head(inbound[x]).op = "request"
        /\ inbound' = [inbound EXCEPT ![x] = Tail(@)]
        /\ unicast' = unicast \/ unicast' = [unicast EXCEPT ![x] = Append(@, Snapshot)]
        /\ UNCHANGED <<doc, seq, docAt, handler, rx, lagged, pushed, bridge>>
    BY Zenon, <1>5 DEF TakeRequest, server
  <2>2. x # c
    <3>1. inbound[c] \in Seq(Edits)
      BY Zenon, <1>m DEF Mine
    <3>2. inbound[c] # <<>> => Head(inbound[c]).op \in {"rename", "remove"}
      <4>1. inbound[c] # <<>> => Head(inbound[c]) \in Edits
        BY Zenon, <3>1, TailIs
      <4> QED
        BY Zenon, <4>1 DEF Edits
    <3> QED
      BY Zenon, <2>1, <3>2
  <2>3. /\ inbound'[c] = inbound[c] /\ unicast'[c] = unicast[c] /\ inbound'[x] = Tail(inbound[x])
        /\ \A y \in Client \ {x} : inbound'[y] = inbound[y]
    BY Zenon, <2>1, <2>2, <1>a
  <2>4. \A y \in Client \ {c} : Quiet(y)'
    BY Zenon, <2>1, <2>2, <2>3, <1>q, <1>v DEF Quiet
  <2> QED
    BY Zenon, <2>1, <2>3, <2>4, <1>b
<1>6. ASSUME NEW x \in Client, PushSnapshot(x) PROVE EditorInv(c)'
  <2>1. /\ lagged[x] /\ pushed' = [pushed EXCEPT ![x] = <<Snapshot>>]
        /\ lagged' = [lagged EXCEPT ![x] = FALSE]
        /\ UNCHANGED <<doc, seq, docAt, handler, inbound, rx, unicast, bridge>>
    BY Zenon, <1>6 DEF PushSnapshot, server
  <2>2. CASE x = c
    <3>1. lagged[c] = TRUE /\ Snapshot.seq = seq
      BY Zenon, <2>1, <2>2, <1>a DEF Snapshot
    <3>2. Mine(c, doc, seq, docAt, handler[c], inbound[c], rx[c], TRUE, unicast[c], pushed[c], bridge[c])
      BY Zenon, <3>1, <1>m
    <3>3. Mine(c, doc, seq, docAt, handler[c], inbound[c], rx[c], FALSE, unicast[c], <<Snapshot>>, bridge[c])
      BY Zenon, <3>1, <3>2, <1>t, MinePushed
    <3>4. pushed'[c] = <<Snapshot>> /\ lagged'[c] = FALSE
      BY Zenon, <2>1, <2>2, <1>a
    <3> QED
      BY Zenon, <2>1, <3>3, <3>4, <1>c DEF EditorInv
  <2>3. CASE x # c
    <3>1. pushed'[c] = pushed[c] /\ lagged'[c] = lagged[c]
      BY Zenon, <2>1, <2>3, <1>a
    <3> QED
      BY Zenon, <2>1, <3>1, <1>b, <1>c
  <2> QED
    BY Zenon, <2>2, <2>3
<1>7. ASSUME NEW x \in Client, ReceivePushed(x) PROVE EditorInv(c)'
  <2>1. /\ pushed[x] # <<>> /\ pushed' = [pushed EXCEPT ![x] = <<>>]
        /\ bridge' = [bridge EXCEPT ![x] = AdoptSnapshot(@, Head(pushed[x]))]
        /\ UNCHANGED <<doc, seq, docAt, handler, inbound, rx, lagged, unicast>>
    BY Zenon, <1>7 DEF ReceivePushed, server
  <2>2. CASE x = c
    <3>1. Head(pushed[c]) = pushed[c][1] /\ 1 \in 1..Len(pushed[c])
      BY Zenon, <2>1, <2>2, <1>a, TailIs
    <3>2. Head(pushed[c]).seq <= seq /\ Head(pushed[c]).doc = docAt[Head(pushed[c]).seq + 1]
      <4>1. pushed[c][1].seq <= seq
        BY Zenon, <3>1, <1>s DEF QueueInv
      <4>2. pushed[c][1].doc = docAt[pushed[c][1].seq + 1]
        BY Zenon, <3>1 DEF HistInv
      <4> QED
        BY Zenon, <3>1, <4>1, <4>2
    <3>3. Mine(c, doc, seq, docAt, handler[c], inbound[c], rx[c], lagged[c], unicast[c], <<>>,
               AdoptSnapshot(bridge[c], Head(pushed[c])))
      BY Zenon, <2>1, <2>2, <3>2, <1>m, <1>t, MineAdopts
    <3>4. pushed'[c] = <<>> /\ bridge'[c] = AdoptSnapshot(bridge[c], Head(pushed[c]))
      BY Zenon, <2>1, <2>2, <1>a
    <3> QED
      BY Zenon, <2>1, <3>3, <3>4, <1>c DEF EditorInv
  <2>3. CASE x # c
    <3>1. pushed'[c] = pushed[c] /\ bridge'[c] = bridge[c]
      BY Zenon, <2>1, <2>3, <1>a
    <3> QED
      BY Zenon, <2>1, <3>1, <1>b, <1>c
  <2> QED
    BY Zenon, <2>2, <2>3
<1>8. ASSUME NEW x \in Client, ReceiveSnapshot(x) PROVE EditorInv(c)'
  <2>1. /\ unicast[x] # <<>> /\ unicast' = [unicast EXCEPT ![x] = Tail(@)]
        /\ bridge' = [bridge EXCEPT ![x] = AdoptSnapshot(@, Head(unicast[x]))]
        /\ UNCHANGED <<doc, seq, docAt, handler, inbound, rx, lagged, pushed>>
    BY Zenon, <1>8 DEF ReceiveSnapshot, server
  <2>2. x # c
    BY Zenon, <2>1, <1>m DEF Mine
  <2>3. unicast'[c] = unicast[c] /\ bridge'[c] = bridge[c]
    BY Zenon, <2>1, <2>2, <1>a
  <2> QED
    BY Zenon, <2>1, <2>3, <1>b, <1>c
<1>9. ASSUME NEW x \in Client, ReceiveSequenced(x) PROVE EditorInv(c)'
  <2> DEFINE m == Head(rx[x])
             own == m.sender = x
             b == Acked(bridge[x], own)
             e == [seq |-> m.seq, cmd |-> IF own THEN Ack ELSE m.cmd]
  <2>1. /\ pushed[x] = <<>> /\ ~lagged[x] /\ rx[x] # <<>> /\ rx' = [rx EXCEPT ![x] = Tail(@)]
        /\ bridge' = [bridge EXCEPT ![x] = HandleSequenced(b, e)]
        /\ UNCHANGED <<doc, seq, docAt, handler, inbound, lagged, unicast, pushed>>
    BY Zenon, <1>9 DEF ReceiveSequenced, Acked, server
  <2>2. CASE x = c
    <3> DEFINE k == HandleSequenced(Acked(bridge[c], TRUE), [seq |-> Head(rx[c]).seq, cmd |-> Ack])
    <3>1. lagged[c] = FALSE /\ pushed[c] = <<>>
      BY Zenon, <2>1, <2>2, <1>a
    <3>2. /\ Mine(c, doc, seq, docAt, handler[c], inbound[c], rx[c], FALSE, unicast[c], <<>>, bridge[c])
          /\ Typed(doc, seq, docAt, handler[c], rx[c], <<>>, bridge[c])
      BY Zenon, <3>1, <1>m, <1>t
    <3>3. /\ Head(rx[c]).sender = c
          /\ Mine(c, doc, seq, docAt, handler[c], inbound[c], Tail(rx[c]), FALSE, unicast[c], <<>>, k)
      BY Zenon, <2>1, <2>2, <3>2, MineAcked
    <3>4. own = TRUE
      BY Zenon, <2>2, <3>3
    <3>5. rx'[c] = Tail(rx[c]) /\ bridge'[c] = k
      BY Zenon, <2>1, <2>2, <3>4, <1>a
    <3> HIDE DEF k
    <3> QED
      BY Zenon, <2>1, <3>1, <3>3, <3>5, <1>c DEF EditorInv
  <2>3. CASE x # c
    <3>1. rx'[c] = rx[c] /\ bridge'[c] = bridge[c]
      BY Zenon, <2>1, <2>3, <1>a
    <3> QED
      BY Zenon, <2>1, <3>1, <1>b, <1>c
  <2> QED
    BY Zenon, <2>2, <2>3
(* A timer asks for nothing of a bridge that has buffered nothing. *)
<1>d. ASSUME NEW k, bridge' = [bridge EXCEPT ![c] = k],
             Keeps(k, bridge[c], {"inFlight", "recent", "grace", "retry"}),
             UNCHANGED <<doc, seq, docAt, handler, inbound, rx, lagged, unicast, pushed>>
      PROVE  EditorInv(c)'
  <2>1. Mine(c, doc, seq, docAt, handler[c], inbound[c], rx[c], lagged[c], unicast[c], pushed[c], k)
    BY Zenon, <1>d, <1>m, MineKeeps
  <2>2. bridge'[c] = k
    BY Zenon, <1>d, <1>a
  <2> QED
    BY Zenon, <2>1, <2>2, <1>d, <1>c DEF EditorInv
<1>10. ASSUME NEW x \in Client, Timer(x) PROVE EditorInv(c)'
  <2> DEFINE g == [bridge[x] EXCEPT !.grace = FALSE]
             f == [bridge[x] EXCEPT !.retry = FALSE, !.recent = FALSE]
  <2>1. /\ Keeps(g, bridge[x], {"inFlight", "recent", "grace", "retry"})
        /\ Keeps(f, bridge[x], {"inFlight", "recent", "grace", "retry"})
    BY ZenonT(40), <1>a DEF Bridge, Keeps, Shaped, Fields
  <2>2. PICK b : /\ RequestResync(x, b) /\ Keeps(b, bridge[x], {"inFlight", "recent", "grace", "retry"})
                 /\ UNCHANGED <<doc, seq, docAt, handler, rx, lagged, unicast, pushed>>
    <3> HIDE DEF g, f
    <3>1. /\ RequestResync(x, g) \/ RequestResync(x, f)
          /\ UNCHANGED <<doc, seq, docAt, handler, rx, lagged, unicast, pushed>>
      BY Zenon, <1>10 DEF Timer, GraceExpires, RetryExpires, server, queues, g, f
    <3> QED
      BY Zenon, <3>1, <2>1
  <2>3. CASE x = c
    <3>1. b.buf = <<>>
      BY Zenon, <2>2, <2>3, <1>m DEF Mine, Keeps, Fields
    <3>2. bridge' = [bridge EXCEPT ![c] = b] /\ inbound' = inbound
      BY Zenon, <2>2, <2>3, <3>1 DEF RequestResync, Requests
    <3> QED
      BY Zenon, <2>2, <2>3, <3>2, <1>d
  <2>4. CASE x # c
    <3>1. \E k : bridge' = [bridge EXCEPT ![x] = k]
      BY Zenon, <2>2 DEF RequestResync
    <3>2. inbound' = inbound \/ inbound' = [inbound EXCEPT ![x] = Append(@, Request)]
      BY Zenon, <2>2 DEF RequestResync
    <3>3. bridge'[c] = bridge[c] /\ inbound'[c] = inbound[c]
      BY Zenon, <3>1, <3>2, <2>4, <1>a
    <3>4. Append(inbound[x], Request) \in Seq({Request})
      <4>1. inbound[x] \in Seq({Request})
        BY Zenon, <2>4, <1>q DEF Quiet
      <4> QED
        BY <4>1
    <3>5. /\ inbound'[x] \in {inbound[x], Append(inbound[x], Request)}
          /\ \A y \in Client \ {x} : inbound'[y] = inbound[y]
      BY Zenon, <3>2, <1>a
    <3>6. \A y \in Client \ {c} : Quiet(y)'
      BY Zenon, <3>4, <3>5, <2>2, <1>q DEF Quiet
    <3> QED
      BY Zenon, <2>2, <3>3, <3>6, <1>b
  <2> QED
    BY Zenon, <2>3, <2>4
<1>11. ASSUME NEW x \in Client, ThrottleExpires(x) \/ UNCHANGED vars PROVE EditorInv(c)'
  <2>1. UNCHANGED <<doc, seq, docAt, handler, inbound, rx, lagged, unicast, pushed, bridge>>
    BY Zenon, <1>11 DEF ThrottleExpires, vars, server, queues
  <2> QED
    BY Zenon, <2>1, <1>b, <1>c
<1>12. ASSUME NEW x \in Client, RequestAges(x) PROVE EditorInv(c)'
  <2> DEFINE k == [bridge[x] EXCEPT !.recent = FALSE]
  <2>1. /\ bridge' = [bridge EXCEPT ![x] = k]
        /\ UNCHANGED <<doc, seq, docAt, handler, inbound, rx, lagged, unicast, pushed>>
    BY Zenon, <1>12 DEF RequestAges, server, queues
  <2>2. Keeps(k, bridge[x], {"inFlight", "recent", "grace", "retry"})
    BY Zenon, <1>a DEF Bridge, Keeps, Shaped, Fields
  <2> HIDE DEF k
  <2>3. CASE x = c
    BY Zenon, <2>1, <2>2, <2>3, <1>d
  <2>4. CASE x # c
    <3>1. bridge'[c] = bridge[c]
      BY Zenon, <2>1, <2>4, <1>a
    <3> QED
      BY Zenon, <2>1, <3>1, <1>b, <1>c
  <2> QED
    BY Zenon, <2>3, <2>4
<1>13. ASSUME NEW x \in Client, Disconnect(x) PROVE EditorInv(c)'
  <2> DEFINE hh == IF handler[x] = Idle THEN Idle ELSE [handler[x] EXCEPT !.sender = Server]
  <2>1. /\ bridge' = [bridge EXCEPT ![x] = Disconnected] /\ handler' = [handler EXCEPT ![x] = hh]
        /\ inbound' = [inbound EXCEPT ![x] = <<>>] /\ rx' = [rx EXCEPT ![x] = <<>>]
        /\ lagged' = [lagged EXCEPT ![x] = FALSE] /\ unicast' = [unicast EXCEPT ![x] = <<>>]
        /\ pushed' = [pushed EXCEPT ![x] = <<>>] /\ UNCHANGED <<doc, seq, docAt>>
    BY Zenon, <1>13 DEF Disconnect, server
  <2>2. CASE x = c
    <3>1. Mine(c, doc, seq, docAt, hh, <<>>, <<>>, FALSE, <<>>, <<>>, Disconnected)
      BY Zenon, <2>2, <1>m, <1>t, MineGone
    <3> HIDE DEF hh
    <3>2. /\ bridge'[c] = Disconnected /\ handler'[c] = hh /\ inbound'[c] = <<>> /\ rx'[c] = <<>>
          /\ lagged'[c] = FALSE /\ unicast'[c] = <<>> /\ pushed'[c] = <<>>
          /\ \A y \in Client \ {c} : handler'[y] = handler[y] /\ inbound'[y] = inbound[y]
      BY Zenon, <2>1, <2>2, <1>a
    <3> QED
      BY Zenon, <2>1, <3>1, <3>2, <1>c DEF EditorInv
  <2>3. CASE x # c
    <3>1. hh = Idle
      BY Zenon, <2>3, <1>q, <1>a, BusyIs DEF Quiet
    <3> HIDE DEF hh
    <3>2. /\ bridge'[c] = bridge[c] /\ handler'[c] = handler[c] /\ inbound'[c] = inbound[c]
          /\ rx'[c] = rx[c] /\ lagged'[c] = lagged[c] /\ unicast'[c] = unicast[c]
          /\ pushed'[c] = pushed[c] /\ handler'[x] = Idle /\ inbound'[x] = <<>>
          /\ \A y \in Client \ {x} : handler'[y] = handler[y] /\ inbound'[y] = inbound[y]
      BY Zenon, <2>1, <2>3, <3>1, <1>a
    <3>3. <<>> \in Seq({Request})
      OBVIOUS
    <3>4. \A y \in Client \ {c} : Quiet(y)'
      BY Zenon, <3>2, <3>3, <1>q, <1>a DEF Quiet
    <3> QED
      BY Zenon, <2>1, <3>2, <3>4, <1>b
  <2> QED
    BY Zenon, <2>2, <2>3
<1>14. ASSUME NEW x \in Client, Join(x) PROVE EditorInv(c)'
  <2> DEFINE k == [bridge[x] EXCEPT !.on = TRUE]
  <2>1. /\ ~bridge[x].on /\ handler[x] = Idle /\ bridge' = [bridge EXCEPT ![x] = k]
        /\ pushed' = [pushed EXCEPT ![x] = <<Snapshot>>]
        /\ UNCHANGED <<doc, seq, docAt, handler, inbound, rx, lagged, unicast>>
    BY Zenon, <1>14 DEF Join, server
  <2>2. Keeps(k, bridge[x], {"on"}) /\ k.on = TRUE
    <3>1. Shaped(bridge[x])
      BY Zenon, <1>a DEF Bridge
    <3> QED
      BY Zenon, <3>1 DEF Keeps, Shaped, Fields
  <2> HIDE DEF k
  <2>3. CASE x = c
    <3>1. Snapshot.seq = seq
      BY Zenon DEF Snapshot
    <3>2. /\ Mine(c, doc, seq, docAt, Idle, inbound[c], rx[c], lagged[c], unicast[c], pushed[c], bridge[c])
          /\ Typed(doc, seq, docAt, Idle, rx[c], pushed[c], bridge[c])
      BY Zenon, <2>1, <2>3, <1>m, <1>t
    <3>3. Mine(c, doc, seq, docAt, Idle, inbound[c], rx[c], lagged[c], unicast[c], <<Snapshot>>, k)
      BY Zenon, <2>1, <2>2, <2>3, <3>1, <3>2, MineJoins
    <3>4. bridge'[c] = k /\ pushed'[c] = <<Snapshot>> /\ handler'[c] = Idle
      BY Zenon, <2>1, <2>3, <1>a
    <3> QED
      BY Zenon, <2>1, <3>3, <3>4, <1>c DEF EditorInv
  <2>4. CASE x # c
    <3>1. bridge'[c] = bridge[c] /\ pushed'[c] = pushed[c]
      BY Zenon, <2>1, <2>4, <1>a
    <3> QED
      BY Zenon, <2>1, <3>1, <1>b, <1>c
  <2> QED
    BY Zenon, <2>3, <2>4
<1> QED
  BY Zenon, <1>1, <1>2, <1>3, <1>4, <1>5, <1>6, <1>7, <1>8, <1>9, <1>10, <1>11, <1>12,
     <1>13, <1>14
     DEF Next, Serve, Deliver

LEMMA EditorInit == ASSUME NEW c \in Client PROVE Init => EditorInv(c)
<1> SUFFICES ASSUME Init PROVE EditorInv(c)
  BY Zenon
<1> DEFINE b == bridge[c]
<1>1. /\ doc = FirstDoc /\ seq = 0 /\ docAt = <<FirstDoc>> /\ handler[c] = Idle
      /\ inbound[c] = <<>> /\ rx[c] = <<>> /\ lagged[c] = FALSE /\ unicast[c] = <<>>
      /\ pushed[c] = <<>>
      /\ b = [Disconnected EXCEPT !.on = TRUE, !.last = 0, !.doc = FirstDoc, !.mirror = Restored]
  BY Zenon DEF Init
<1>2. b.on = TRUE /\ b.last = 0 /\ b.doc = FirstDoc /\ b.buf = <<>> /\ b.pending = <<>>
  BY Zenon, <1>1 DEF Disconnected
<1> HIDE DEF b
<1>3. ~Busy(Idle) /\ b.last # NoSeq
  BY <1>2 DEF Busy, Idle, NoSeq
<1>4. Owing(Idle, <<>>) = 0 /\ Applied(<<>>, b) = 0
  BY <1>2, <1>3 DEF Owing, Applied
<1>5. Acks(c, 0, Idle, <<>>, b) /\ Caught(0, Idle, <<>>, FALSE, <<>>, b)
  BY <1>2, <1>3, <1>4 DEF Acks, Caught
<1>6. Fresh(0, Idle, <<>>, <<>>, FALSE, <<>>, b)
  BY Zenon, <1>2, <1>3 DEF Fresh
<1>7. Ahead(doc, 0, docAt, Idle, <<>>, <<>>, b)
  <2>1. FirstDoc \in Doc
    BY Zenon DEF FirstDoc, Doc, Label, Given
  <2>2. <<>> \in Seq(Cmd) /\ <<>> \in Seq(Edits)
    OBVIOUS
  <2>3. ApplyAll(FirstDoc, <<>>) = FirstDoc
    BY Zenon, <2>1, <2>2, ApplyAllTyped
  <2>4. Chain(docAt, 0 - 0, <<>>, 0) /\ \A i \in 1..Len(<<>>) : b.pending[0 + i] = <<>>[i]
    BY DEF Chain
  <2>5. 0 >= 0 /\ 0 <= 0 /\ 0 - 0 <= 0
    OBVIOUS
  <2> QED
    BY Zenon, <2>2, <2>3, <2>4, <2>5, <1>1, <1>2, <1>4 DEF Ahead
<1>8. Valid(doc, <<>>) /\ <<>> \in Seq(Edits) /\ <<>> \in Seq({Request})
  BY DEF Valid
<1>9. Mine(c, doc, 0, docAt, Idle, <<>>, <<>>, FALSE, <<>>, <<>>, b)
  BY Zenon, <1>2, <1>5, <1>6, <1>7, <1>8 DEF Mine
<1>10. \A x \in Client : Quiet(x)
  BY Zenon, <1>3, <1>8 DEF Quiet, Init
<1> QED
  BY Zenon, <1>1, <1>9, <1>10 DEF EditorInv, b

LEMMA EditorShows ==
    ASSUME SafeInv, NEW c \in Client, EditorInv(c), Tracking(c)
    PROVE  bridge[c].doc = ApplyAll(SharedBy(c), bridge[c].pending)
<1> DEFINE b == bridge[c]
           in == inbound[c]
           a == Applied(in, b)
<1>1. /\ in \in Seq(Edits) /\ Ahead(doc, seq, docAt, handler[c], in, rx[c], b)
      /\ b.last # NoSeq
  BY Zenon DEF EditorInv, Mine, Tracking
<1>2. Typed(doc, seq, docAt, handler[c], rx[c], pushed[c], b)
  BY Zenon DEF Typed, SafeInv, ServerInv, QueueInv, ClientInv
<1>3. /\ seq \in Nat /\ Owing(handler[c], rx[c]) \in Nat /\ Len(b.pending) \in Nat
      /\ b.last \in Nat \union {-1} /\ b.last <= seq
  BY Zenon, <1>2, TypedIs
<1>4. docAt \in Seq(Doc) /\ Len(docAt) = seq + 1 /\ docAt[seq + 1] = doc
  BY Zenon DEF SafeInv, ServerInv
<1>5. /\ b.pending \in Seq(Edits) /\ a >= Owing(handler[c], rx[c]) /\ a <= seq
      /\ seq - a <= b.last /\ Chain(docAt, seq - a, b.pending, a) /\ b.doc = ApplyAll(doc, in)
      /\ \A i \in 1..Len(in) : b.pending[a + i] = in[i]
  BY Zenon, <1>1 DEF Ahead
<1>6. a = Len(b.pending) - Len(in) /\ Len(in) \in Nat
  BY <1>1 DEF Applied
<1> HIDE DEF a, b, in
<1>7. a \in 0..seq /\ Len(b.pending) = a + Len(in) /\ b.last \in (seq - a)..seq
  <2>1. a \in Int /\ Len(b.pending) = a + Len(in)
    BY <1>3, <1>6
  <2> QED
    BY <2>1, <1>3, <1>5
<1>8. ApplyAll(docAt[b.last + 1], b.pending) = ApplyAll(docAt[seq + 1], in)
  BY ZenonT(60), <1>1, <1>3, <1>4, <1>5, <1>7, Replay
<1> QED
  BY Zenon, <1>4, <1>5, <1>8 DEF SharedBy, b

SoloInv == failures \in Nat /\ \A c \in Client : Editor = {c} /\ failures = 0 => EditorInv(c)

LEMMA SoloStep ==
    ASSUME Opener = {}, Gone \notin Name
    PROVE  SafeInv /\ HistInv /\ SoloInv /\ [Next]_vars => SoloInv'
<1> SUFFICES ASSUME SafeInv, HistInv, SoloInv, [Next]_vars PROVE SoloInv'
  BY Zenon
<1>1. failures \in Nat
  BY Zenon DEF SoloInv
<1>2. failures' = failures \/ failures' = failures + 1
  BY ZenonT(60) DEF Next, Edit, SendCommand, Serve, TakeCommand, Persisted, TakeRequest, Deliver,
     PushSnapshot, ReceivePushed, ReceiveSnapshot, ReceiveSequenced, Timer, GraceExpires,
     RetryExpires, PersistFailed, ThrottleExpires, RequestAges, Disconnect, Join, bounds, vars
<1>3. failures' \in Nat /\ (failures' = 0 => failures = 0)
  BY <1>1, <1>2
<1>4. ASSUME NEW c \in Client, Editor = {c}, failures' = 0 PROVE EditorInv(c)'
  <2>1. EditorInv(c)
    BY Zenon, <1>3, <1>4 DEF SoloInv
  <2> QED
    BY Zenon, <2>1, <1>1, <1>4, EditorStep
<1> QED
  BY Zenon, <1>3, <1>4 DEF SoloInv

(* SoleEditorExact: with one editor, whatever its receiver loses, however  *)
(* often it reconnects, and whichever pushed snapshots overtake its acks,  *)
(* its copy is the shared document with its unacked commands on top.       *)
THEOREM SoleEditorIsExact ==
    ASSUME Opener = {}, Gone \notin Name PROVE Spec => []SoleEditorExact
<1>1. SafeInv /\ SoloInv => SoleEditorExact
  BY Zenon, EditorShows DEF SoloInv, SoleEditorExact
<1>2. Init => SafeInv /\ HistInv /\ SoloInv
  <2>1. Init => failures \in Nat
    BY DEF Init
  <2> QED
    BY Zenon, <2>1, SafeInit, ExactInit, EditorInit DEF SoloInv
<1>3. SafeInv /\ HistInv /\ SoloInv /\ [Next]_vars => (SafeInv /\ HistInv /\ SoloInv)'
  BY Zenon, SafeStep, HistStep, SoloStep
<1> QED
  BY <1>1, <1>2, <1>3, PTL DEF Spec

=============================================================================
