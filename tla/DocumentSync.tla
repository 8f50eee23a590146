---------------------------- MODULE DocumentSync ----------------------------
(***************************************************************************)
(* The shared document of one live session: the sequence the server gives  *)
(* to document commands (lucida-server/src/session.rs, handler.rs,         *)
(* dataset_open.rs) and the copy each browser keeps of it                  *)
(* (lucida-web/src/bridge.ts).                                             *)
(*                                                                         *)
(* The document is abstracted to the display name of each dataset, Gone    *)
(* for one that is not in it: opening, renaming and removing are the three *)
(* shapes of a document command the bridge tells apart.  A dataset was     *)
(* there from the start or is named by the run of open_dataset that made   *)
(* it; all but those of Other are openings of one source.                  *)
(*                                                                         *)
(* The server applies under the session's lock, then persists, then        *)
(* broadcasts, so broadcasts of different handlers can leave in any order. *)
(* A receiver that falls behind loses the oldest messages and is pushed a  *)
(* snapshot.  Requested snapshots travel in a queue of their own.          *)
(***************************************************************************)
EXTENDS Integers, Sequences, FiniteSets, Functions

CONSTANTS
    Client,        \* the connections
    Editor,        \* those that issue document commands
    Opener,        \* runs of open_dataset on one source
    Reopener,      \* those that begin when the source is already open
    Restored,      \* datasets in the document from the start
    Other,         \* those of another source
    Resynced,      \* clients whose last request was served just before
    Name,          \* names a rename may give
    Capacity,      \* of the broadcast channel, per receiver
    MaxPending,    \* MAX_PENDING_SEQUENCED
    MaxEdits,      \* bound: document commands issued in all
    MaxFailures,   \* bound: persistence failures
    MaxDrops,      \* bound: connections lost
    MaxAnswers,    \* bound: snapshots requested by one client and undelivered
    Throttle       \* whether REQUEST_SNAPSHOT_MIN_INTERVAL may eat a request

Server == "server"   \* u64::MAX as the sender: no client matches

ASSUME SyncAssumption ==
    /\ Editor \subseteq Client /\ Server \notin Client
    /\ Reopener \subseteq Opener
    /\ Other \subseteq Restored /\ Restored \intersect Opener = {}
    /\ Resynced \subseteq Client
    /\ Capacity \in Nat \ {0} /\ MaxPending \in Nat \ {0}
    /\ {MaxEdits, MaxFailures, MaxDrops, MaxAnswers} \subseteq Nat
    /\ Throttle \in BOOLEAN

VARIABLES
    doc,        \* Session::document
    seq,        \* Session::seq
    docAt,      \* history: docAt[s + 1] is the document after command s
    bound,      \* Session::server_bindings: the datasets with a binding
    handler,    \* the command each connection's inbound loop is handling
    open,       \* where each run of open_dataset is
    inbound,    \* per connection: frames on their way to the server
    rx,         \* per connection: its receiver of the broadcast channel
    lagged,     \*   and whether it overflowed
    unicast,    \* per connection: the unicast queue (snapshots only)
    pushed,     \* per connection: a snapshot ahead of everything else
    throttled,  \* per connection: a request now would be eaten
    bridge,     \* per connection: the state of its Bridge, with its scene's
                \* document; since: what it has done since the snapshot
    edits, failures, drops   \* what has been used of the bounds

server == <<doc, seq, docAt, bound>>
queues == <<rx, lagged, unicast, pushed>>
bounds == <<edits, failures, drops>>
vars == <<server, handler, open, inbound, queues, throttled, bridge, bounds>>

Gone == "gone"
Original == "original"
NoSeq == -1
Idle == [stage |-> "idle"]

Opened(d, n) == [op |-> "open", ds |-> d, name |-> n]
Renamed(d, n) == [op |-> "rename", ds |-> d, name |-> n]
Removed(d) == [op |-> "remove", ds |-> d]
Ack == [op |-> "ack"]
Request == [op |-> "request"]

(* DocumentState: register_dataset, rename_dataset (an unknown id is a     *)
(* no-op) and remove_dataset.                                              *)
Apply(dc, cmd) ==
    CASE cmd.op = "open" -> [dc EXCEPT ![cmd.ds] = cmd.name]
      [] cmd.op = "rename" -> [dc EXCEPT ![cmd.ds] = IF @ = Gone THEN Gone ELSE cmd.name]
      [] cmd.op = "remove" -> [dc EXCEPT ![cmd.ds] = Gone]

(* Commands applied one after another. *)
ApplyAll(dc, cmds) ==
    LET after[i \in 0..Len(cmds)] == IF i = 0 THEN dc ELSE Apply(after[i - 1], cmds[i])
    IN  after[Len(cmds)]

Present(dc) == {d \in DOMAIN dc : dc[d] # Gone}

Dataset == Opener \union Restored

FirstDoc == [d \in Dataset |-> IF d \in Restored THEN Original ELSE Gone]

(* Bridge at construction and after ws.onclose. *)
Disconnected ==
    [on |-> FALSE, last |-> NoSeq, inFlight |-> FALSE, recent |-> FALSE,
     grace |-> FALSE, retry |-> FALSE, buf |-> <<>>, mirror |-> {}, pending |-> <<>>,
     doc |-> [d \in Dataset |-> Gone], since |-> "nothing"]

(* Every client has joined and adopted the first snapshot. *)
Init ==
    /\ doc = FirstDoc
    /\ seq = 0
    /\ docAt = <<FirstDoc>>
    /\ bound = Restored
    /\ handler = [c \in Client |-> Idle]
    /\ open = [o \in Opener |-> Idle]
    /\ inbound = [c \in Client |-> <<>>]
    /\ rx = [c \in Client |-> <<>>]
    /\ lagged = [c \in Client |-> FALSE]
    /\ unicast = [c \in Client |-> <<>>]
    /\ pushed = [c \in Client |-> <<>>]
    /\ throttled = [c \in Client |-> Throttle /\ c \in Resynced]
    /\ bridge = [c \in Client |-> [Disconnected EXCEPT !.on = TRUE, !.last = 0,
                                     !.doc = FirstDoc, !.mirror = Restored]]
    /\ edits = 0 /\ failures = 0 /\ drops = 0

----------------------------------------------------------------------------
(* Session::apply, under the session's lock. *)
SessionApply(cmd) ==
    /\ doc' = Apply(doc, cmd)
    /\ seq' = seq + 1
    /\ docAt' = Append(docAt, Apply(doc, cmd))

(* Session::snapshot *)
Snapshot == [seq |-> seq, doc |-> doc]

Subscribed == {c \in Client : bridge[c].on}

(* broadcast::Sender::send: every receiver gets the item; a full one loses *)
(* its oldest.                                                             *)
Broadcast(s, cmd, sender) ==
    LET item == [seq |-> s, cmd |-> cmd, sender |-> sender]
        Full(c) == Len(rx[c]) = Capacity
    IN  /\ rx' = [c \in Client |->
                    IF c \notin Subscribed THEN rx[c]
                    ELSE Append(IF Full(c) THEN Tail(rx[c]) ELSE rx[c], item)]
        /\ lagged' = [c \in Client |-> lagged[c] \/ (c \in Subscribed /\ Full(c))]

(* The inbound loop takes a command off the socket: rename_dataset and     *)
(* apply_document_command apply it under the lock; a rename of a dataset   *)
(* that is not there is rejected.                                          *)
TakeCommand(c) ==
    LET cmd == Head(inbound[c])
        rejected == cmd.op = "rename" /\ doc[cmd.ds] = Gone
    IN  /\ handler[c] = Idle
        /\ inbound[c] # <<>>
        /\ cmd.op \in {"rename", "remove"}
        /\ inbound' = [inbound EXCEPT ![c] = Tail(@)]
        /\ IF rejected THEN UNCHANGED <<doc, seq, docAt, handler>>
           ELSE /\ SessionApply(cmd)
                /\ handler' = [handler EXCEPT ![c] =
                                 [stage |-> "persisting", seq |-> seq + 1, cmd |-> cmd, sender |-> c]]
        /\ UNCHANGED <<bound, open, queues, throttled, bridge, bounds>>

(* The document was persisted: broadcast_applied_command. *)
Persisted(c) ==
    /\ handler[c].stage = "persisting"
    /\ Broadcast(handler[c].seq, handler[c].cmd, handler[c].sender)
    /\ handler' = [handler EXCEPT ![c] = Idle]
    /\ UNCHANGED <<server, open, inbound, unicast, pushed, throttled, bridge, bounds>>

(* CommandApplyError::PersistFailed: applied in memory, never broadcast. *)
PersistFailed(c) ==
    /\ handler[c].stage = "persisting"
    /\ failures < MaxFailures
    /\ failures' = failures + 1
    /\ handler' = [handler EXCEPT ![c] = Idle]
    /\ UNCHANGED <<server, open, inbound, queues, throttled, bridge, edits, drops>>

(* ClientMessage::RequestSnapshot *)
TakeRequest(c) ==
    /\ handler[c] = Idle
    /\ inbound[c] # <<>>
    /\ Head(inbound[c]).op = "request"
    /\ inbound' = [inbound EXCEPT ![c] = Tail(@)]
    /\ IF throttled[c] THEN UNCHANGED <<throttled, unicast>>
       ELSE /\ throttled' = [throttled EXCEPT ![c] = Throttle]
            /\ unicast' = [unicast EXCEPT ![c] = Append(@, Snapshot)]
    /\ UNCHANGED <<server, handler, open, rx, lagged, pushed, bridge, bounds>>

(* REQUEST_SNAPSHOT_MIN_INTERVAL has passed since a request was served. *)
ThrottleExpires(c) ==
    /\ throttled[c]
    /\ throttled' = [throttled EXCEPT ![c] = FALSE]
    /\ UNCHANGED <<server, handler, open, inbound, queues, bridge, bounds>>

----------------------------------------------------------------------------
(* find_loaded_binding *)
Loaded == (bound \intersect Present(doc)) \ Other

(* open_dataset, the reuse check under the lock. *)
CheckLoaded(o) ==
    LET d == CHOOSE d \in Loaded : TRUE
    IN  /\ open[o] = Idle
        /\ o \in Reopener => Loaded # {}
        /\ open' = [open EXCEPT ![o] =
                      IF Loaded = {} THEN [stage |-> "importing"]
                      ELSE [stage |-> "rebroadcasting", seq |-> seq, cmd |-> Opened(d, doc[d])]]
        /\ UNCHANGED <<server, handler, inbound, queues, throttled, bridge, bounds>>

(* Another open completed during the import. *)
LostRaceUnchecked == FALSE  \* a mutant
LostRace == Loaded # {}

(* open_dataset after the import, under the lock: another open completed   *)
(* first and its binding's own DatasetOpened is rebroadcast, or this one   *)
(* is applied.                                                             *)
ApplyOpen(o) ==
    LET d == CHOOSE d \in Loaded : TRUE
    IN  /\ open[o].stage = "importing"
        /\ IF LostRace
           THEN /\ open' = [open EXCEPT ![o] =
                             [stage |-> "rebroadcasting", seq |-> seq, cmd |-> Opened(d, Original)]]
                /\ UNCHANGED server
           ELSE /\ SessionApply(Opened(o, Original))
                /\ bound' = bound \union {o}
                /\ open' = [open EXCEPT ![o] =
                             [stage |-> "persisting", seq |-> seq + 1, cmd |-> Opened(o, Original)]]
        /\ UNCHANGED <<handler, inbound, queues, throttled, bridge, bounds>>

(* The DatasetOpened, new or of the existing binding, goes to everyone. *)
AnnounceOpen(o) ==
    /\ open[o].stage \in {"persisting", "rebroadcasting"}
    /\ Broadcast(open[o].seq, open[o].cmd, Server)
    /\ open' = [open EXCEPT ![o] = [stage |-> "done"]]
    /\ UNCHANGED <<server, handler, inbound, unicast, pushed, throttled, bridge, bounds>>

OpenPersistFailed(o) ==
    /\ open[o].stage = "persisting"
    /\ failures < MaxFailures
    /\ failures' = failures + 1
    /\ open' = [open EXCEPT ![o] = [stage |-> "done"]]
    /\ UNCHANGED <<server, handler, inbound, queues, throttled, bridge, edits, drops>>

----------------------------------------------------------------------------
(* The Bridge, as functions of its state b.                                *)

(* handlers.onCommand: the scene applies the command. *)
OnCommand(b, cmd) == [b EXCEPT !.doc = Apply(@, cmd)]

(* Mutant: removals do not reach the mirror. *)
NoteDeliveredOpens(mirror, cmd) ==
    IF cmd.op = "open" THEN mirror \union {cmd.ds} ELSE mirror

NoteDeliveredMembership(mirror, cmd) ==
    CASE cmd.op = "open" -> mirror \union {cmd.ds}
      [] cmd.op = "remove" -> mirror \ {cmd.ds}
      [] OTHER -> mirror

NoteAll(mirror, cmds) ==
    LET after[i \in 0..Len(cmds)] ==
            IF i = 0 THEN mirror ELSE NoteDeliveredMembership(after[i - 1], cmds[i])
    IN  after[Len(cmds)]

DeliverStale(b, e) ==
    IF e.cmd.op = "open" /\ e.cmd.ds \in b.mirror THEN OnCommand(b, e.cmd) ELSE b

(* The next seq: advance, and apply unless it is an ack. *)
DeliverNext(b, e) ==
    LET at == [b EXCEPT !.last = e.seq]
    IN  IF e.cmd = Ack THEN at
        ELSE [OnCommand(at, e.cmd) EXCEPT !.mirror = NoteDeliveredMembership(@, e.cmd)]

(* Mutant: the buffer is cut one entry late. *)
ShedLate(all) == IF Len(all) > MaxPending + 1 THEN Tail(all) ELSE all

(* Beyond MAX_PENDING_SEQUENCED the lowest seq goes. *)
Shed(all) == IF Len(all) > MaxPending THEN Tail(all) ELSE all

(* Where e goes in a sorted buffer, after the entries of its own seq. *)
PlaceOf(buf, e) ==
    CHOOSE i \in 1..(Len(buf) + 1) : \A j \in DOMAIN buf : j < i <=> buf[j].seq <= e.seq

WithEntryAt(buf, i, e) == SubSeq(buf, 1, i - 1) \o <<e>> \o SubSeq(buf, i, Len(buf))

(* bufferSequenced.  Kept sorted (stably), where the code sorts before it  *)
(* sheds or drains.                                                        *)
BufferSequenced(b, e) == [b EXCEPT !.buf = Shed(WithEntryAt(@, PlaceOf(@, e), e))]

ScheduleResync(b) ==
    IF b.grace \/ (b.inFlight /\ b.recent) THEN b ELSE [b EXCEPT !.grace = TRUE]

ClearTimers(b) == [b EXCEPT !.grace = FALSE, !.retry = FALSE]

(* Mutant: the drain does not stop at a hole. *)
DrainNextOverHole(k, e) ==
    IF e.seq <= k.last THEN DeliverStale(k, e) ELSE DeliverNext(k, e)

(* One turn of the drain's loop: what is not delivered stays buffered. *)
DrainNext(k, e) ==
    CASE k.buf = <<>> /\ e.seq <= k.last -> DeliverStale(k, e)
      [] k.buf = <<>> /\ e.seq = k.last + 1 -> DeliverNext(k, e)
      [] OTHER -> [k EXCEPT !.buf = Append(@, e)]

(* The states of the loop: [i] after the first i of the buffer. *)
Draining(b) ==
    LET after[i \in 0..Len(b.buf)] ==
            IF i = 0 THEN [b EXCEPT !.buf = <<>>] ELSE DrainNext(after[i - 1], b.buf[i])
    IN  after

(* drainPendingSequenced *)
Drain(b) ==
    LET drained == Draining(b)[Len(b.buf)]
    IN  CASE b.buf = <<>> -> b
          [] b.buf # <<>> /\ drained.buf = <<>> -> ClearTimers(drained)
          [] OTHER -> ScheduleResync(drained)

HandleSequenced(b, e) ==
    CASE e.seq <= b.last -> DeliverStale(b, e)
      [] e.seq = b.last + 1 -> Drain(DeliverNext(b, e))
      [] OTHER -> ScheduleResync(BufferSequenced(b, e))

(* History: the client has edits on top of a snapshot it adopts now, or    *)
(* acks of edits that the snapshot is too old to hold.                     *)
Since(b) ==
    CASE b.pending # <<>> -> "edited"
      [] b.pending = <<>> /\ (\E i \in DOMAIN b.buf : b.buf[i].cmd = Ack) -> "acked"
      [] OTHER -> "nothing"

(* Tracking is already past the snapshot. *)
OutdatedNever(b, snap) == FALSE  \* a mutant
Outdated(b, snap) == snap.seq < b.last

(* The unacked local commands again, on the document just adopted. *)
ReplayPendingNone(b) == b  \* a mutant
ReplayPending(b) ==
    [b EXCEPT !.doc = ApplyAll(@, b.pending),
              !.mirror = NoteAll(@, b.pending)]

(* A snapshot: skipped when tracking is past it, adopted otherwise with    *)
(* the unacked local commands replayed on it.                              *)
AdoptSnapshot(b, snap) ==
    LET settled == ClearTimers([b EXCEPT !.inFlight = FALSE])
        adopted == [settled EXCEPT !.last = snap.seq, !.doc = snap.doc,
                                   !.mirror = Present(snap.doc), !.since = Since(b)]
    IN  Drain(IF Outdated(b, snap) THEN settled ELSE ReplayPending(adopted))

(* requestResync, and whether a request goes out. *)
Requests(b) == b.buf # <<>> /\ ~(b.inFlight /\ b.recent)

RequestedOnce(b) == [b EXCEPT !.inFlight = TRUE, !.recent = TRUE]  \* a mutant
Requested(b) == [b EXCEPT !.inFlight = TRUE, !.recent = TRUE, !.retry = TRUE]

RequestResync(c, b) ==
    /\ bridge' = [bridge EXCEPT ![c] = IF Requests(b) THEN Requested(b) ELSE b]
    /\ inbound' = IF Requests(b)
                  THEN [inbound EXCEPT ![c] = Append(@, Request)] ELSE inbound

----------------------------------------------------------------------------
(* sendCommand, with the optimistic apply it is paired with. *)
SendCommand(c, cmd) ==
    /\ c \in Editor
    /\ bridge[c].on /\ bridge[c].last # NoSeq
    /\ edits < MaxEdits
    /\ edits' = edits + 1
    /\ bridge' = [bridge EXCEPT ![c] = [OnCommand(bridge[c], cmd) EXCEPT
                    !.pending = Append(@, cmd), !.since = "edited"]]
    /\ inbound' = [inbound EXCEPT ![c] = Append(@, cmd)]
    /\ UNCHANGED <<server, handler, open, queues, throttled, failures, drops>>

(* The outbound loop's recv finds that messages were lost: a snapshot is   *)
(* taken under the lock and goes out before anything still queued.         *)
PushSnapshot(c) ==
    /\ lagged[c] /\ pushed[c] = <<>>
    /\ pushed' = [pushed EXCEPT ![c] = <<Snapshot>>]
    /\ lagged' = [lagged EXCEPT ![c] = FALSE]
    /\ UNCHANGED <<server, handler, open, inbound, rx, unicast, throttled, bridge, bounds>>

ReceivePushed(c) ==
    /\ pushed[c] # <<>>
    /\ pushed' = [pushed EXCEPT ![c] = <<>>]
    /\ bridge' = [bridge EXCEPT ![c] = AdoptSnapshot(@, Head(pushed[c]))]
    /\ UNCHANGED <<server, handler, open, inbound, rx, lagged, unicast, throttled, bounds>>

ReceiveSnapshot(c) ==
    /\ pushed[c] = <<>>
    /\ unicast[c] # <<>>
    /\ unicast' = [unicast EXCEPT ![c] = Tail(@)]
    /\ bridge' = [bridge EXCEPT ![c] = AdoptSnapshot(@, Head(unicast[c]))]
    /\ UNCHANGED <<server, handler, open, inbound, rx, lagged, pushed, throttled, bounds>>

(* A sequenced message; to its sender it is an ack, which retires the      *)
(* oldest pending command.                                                 *)
ReceiveSequenced(c) ==
    LET m == Head(rx[c])
        own == m.sender = c
        b == bridge[c]
    IN  /\ pushed[c] = <<>> /\ ~lagged[c]
        /\ rx[c] # <<>>
        /\ rx' = [rx EXCEPT ![c] = Tail(@)]
        /\ bridge' = [bridge EXCEPT ![c] =
                        HandleSequenced(
                            IF own /\ b.pending # <<>> THEN [b EXCEPT !.pending = Tail(@)] ELSE b,
                            [seq |-> m.seq, cmd |-> IF own THEN Ack ELSE m.cmd])]
        /\ UNCHANGED <<server, handler, open, inbound, lagged, unicast, pushed, throttled, bounds>>

(* RESYNC_GRACE_MS after a hole was noticed. *)
GraceExpires(c) ==
    /\ bridge[c].grace
    /\ RequestResync(c, [bridge[c] EXCEPT !.grace = FALSE])
    /\ UNCHANGED <<server, handler, open, queues, throttled, bounds>>

(* RESYNC_RETRY_MS after a request: longer than the server's throttle and  *)
(* than a frame takes to be read.  MaxAnswers bounds the snapshots still   *)
(* on their way.                                                           *)
RetryExpires(c) ==
    /\ bridge[c].retry
    /\ ~throttled[c]
    /\ Request \notin Range(inbound[c]) /\ Len(unicast[c]) < MaxAnswers
    /\ RequestResync(c, [bridge[c] EXCEPT !.retry = FALSE, !.recent = FALSE])
    /\ UNCHANGED <<server, handler, open, queues, throttled, bounds>>

(* The same interval passes while no timer is armed for it. *)
RequestAges(c) ==
    /\ bridge[c].recent /\ ~bridge[c].retry
    /\ bridge' = [bridge EXCEPT ![c].recent = FALSE]
    /\ UNCHANGED <<server, handler, open, inbound, queues, throttled, bounds>>

(* ws.onclose: per-connection state goes on both sides. *)
Disconnect(c) ==
    /\ bridge[c].on
    /\ drops < MaxDrops
    /\ drops' = drops + 1
    /\ bridge' = [bridge EXCEPT ![c] = Disconnected]
    /\ handler' = [handler EXCEPT ![c] = IF @ = Idle THEN Idle ELSE [@ EXCEPT !.sender = Server]]
    /\ inbound' = [inbound EXCEPT ![c] = <<>>]
    /\ rx' = [rx EXCEPT ![c] = <<>>]
    /\ lagged' = [lagged EXCEPT ![c] = FALSE]
    /\ unicast' = [unicast EXCEPT ![c] = <<>>]
    /\ pushed' = [pushed EXCEPT ![c] = <<>>]
    /\ throttled' = [throttled EXCEPT ![c] = FALSE]
    /\ UNCHANGED <<server, open, edits, failures>>

(* handle_client_inner: subscribe and snapshot under one lock; the         *)
(* snapshot is the first message.                                          *)
Join(c) ==
    /\ ~bridge[c].on
    /\ handler[c] = Idle
    /\ bridge' = [bridge EXCEPT ![c].on = TRUE]
    /\ pushed' = [pushed EXCEPT ![c] = <<Snapshot>>]
    /\ UNCHANGED <<server, handler, open, inbound, rx, lagged, unicast, throttled, bounds>>

----------------------------------------------------------------------------
(* A user renames or removes a dataset they see. *)
Edit(c) ==
    \E d \in Present(bridge[c].doc) :
        SendCommand(c, Removed(d)) \/ \E n \in Name : SendCommand(c, Renamed(d, n))

Serve(c) == TakeCommand(c) \/ Persisted(c) \/ TakeRequest(c)

Deliver(c) == PushSnapshot(c) \/ ReceivePushed(c) \/ ReceiveSnapshot(c) \/ ReceiveSequenced(c)

Timer(c) == GraceExpires(c) \/ RetryExpires(c)

Opening(o) == CheckLoaded(o) \/ ApplyOpen(o) \/ AnnounceOpen(o)

Next ==
    \/ \E c \in Client :
          \/ Edit(c) \/ Serve(c) \/ Deliver(c) \/ Timer(c)
          \/ PersistFailed(c) \/ ThrottleExpires(c) \/ RequestAges(c)
          \/ Disconnect(c) \/ Join(c)
    \/ \E o \in Opener : Opening(o) \/ OpenPersistFailed(o)

Spec == Init /\ [][Next]_vars

(* Handlers run, sockets deliver from each queue, timers expire, and a     *)
(* closed bridge reconnects.  Nobody has to edit.                          *)
Fairness ==
    /\ \A c \in Client :
          /\ WF_vars(Serve(c)) /\ WF_vars(Timer(c))
          /\ WF_vars(ThrottleExpires(c)) /\ WF_vars(Join(c))
          /\ WF_vars(PushSnapshot(c) \/ ReceivePushed(c))
          /\ SF_vars(ReceiveSnapshot(c)) /\ SF_vars(ReceiveSequenced(c))
    /\ \A o \in Opener : WF_vars(AnnounceOpen(o))

FairSpec == Spec /\ Fairness

----------------------------------------------------------------------------
Tracking(c) == bridge[c].on /\ bridge[c].last # NoSeq

(* The document the server had after the last command c has applied. *)
SharedBy(c) == docAt[bridge[c].last + 1]

(* Every variable has its type, a bridge never tracks a seq the server has *)
(* not given out, and its buffer holds only what lies beyond a hole.       *)
TypeOK ==
    /\ seq \in Nat /\ Len(docAt) = seq + 1 /\ docAt[seq + 1] = doc
    /\ bound \subseteq Dataset
    /\ \A c \in Client :
          /\ bridge[c].last \in NoSeq..seq
          /\ Len(rx[c]) <= Capacity
          /\ Len(bridge[c].buf) <= MaxPending
          /\ \A i \in DOMAIN bridge[c].buf : bridge[c].buf[i].seq > bridge[c].last + 1

(* A client that has edited nothing since its last snapshot sees exactly   *)
(* the document the server had at some seq, whatever was reordered,        *)
(* dropped, buffered, shed, re-requested, never broadcast or skipped.      *)
ObserverExact ==
    \A c \in Client : Tracking(c) /\ bridge[c].since = "nothing" => bridge[c].doc = SharedBy(c)

(* ... or at least its datasets. *)
ObserverMembership ==
    \A c \in Client : Tracking(c) /\ bridge[c].since = "nothing" =>
        Present(bridge[c].doc) = Present(SharedBy(c))

(* Opens of one source that race, or follow each other, share one dataset. *)
OneDatasetPerSource == Cardinality(Loaded) <= 1

(* The membership mirror of such a client names the datasets of its        *)
(* document, so the gate on late dataset_opened messages is right.         *)
ObserverMirror ==
    \A c \in Client : Tracking(c) /\ bridge[c].since = "nothing" =>
        bridge[c].mirror = Present(bridge[c].doc)

(* Opens of one source share one dataset, and the mirror that gates late   *)
(* dataset_opened messages names what a following client shows             *)
(* (dataset_open.rs open_dataset, bridge.ts noteDeliveredMembership).      *)
OpensAgree == OneDatasetPerSource /\ ObserverMirror

(* A connection never goes back to an older document, though snapshots and *)
(* broadcasts travel in different queues.                                  *)
NeverRewinds ==
    [][\A c \in Client : Tracking(c) /\ Tracking(c)' => bridge'[c].last >= bridge[c].last]_vars

(* Every client that follows, in whatever order messages came, shows       *)
(* exactly the document at its seq (bridge.ts handleMessage).              *)
FollowersExact == TypeOK /\ ObserverExact

(* A client that follows shows the document at its seq and never an        *)
(* earlier one, in whatever order messages came (bridge.ts).               *)
ObserversFollow == []FollowersExact /\ NeverRewinds

(* With a single editor whose commands are all persisted, its own copy is  *)
(* the shared document with its unacked commands on top: no snapshot       *)
(* erases an edit in flight, and no ack or replay applies one twice.  A    *)
(* command that failed to persist is never acked, and the next ack retires *)
(* it in place of its own (bridge.ts, pendingLocalCommands).               *)
SoleEditorExact ==
    \A c \in Client : Editor = {c} /\ failures = 0 /\ Tracking(c) =>
        bridge[c].doc = ApplyAll(SharedBy(c), bridge[c].pending)

(* A buffered hole is watched: a timer is armed for it or an answer to a   *)
(* request is on its way, so that recovery "never waits on further inbound *)
(* traffic" (bridge.ts, resyncRetryTimer).                                 *)
HoleWatched ==
    \A c \in Client : bridge[c].buf # <<>> =>
        \/ bridge[c].grace \/ bridge[c].retry
        \/ unicast[c] # <<>> \/ pushed[c] # <<>> \/ lagged[c]
        \/ Request \in Range(inbound[c])

(* A command that was broadcast reaches every client that stays connected, *)
(* directly, from the buffer or in a snapshot.                             *)
BroadcastsArrive ==
    \A c \in Client : \A s \in 1..(MaxEdits + Cardinality(Opener)) :
        (\E i \in DOMAIN rx[c] : rx[c][i].seq = s) \/ (Tracking(c) /\ bridge[c].buf # <<>> /\ s <= bridge[c].buf[1].seq)
            ~> bridge[c].last >= s \/ ~bridge[c].on

(* Pending commands are replayed because the snapshot's "full-replace      *)
(* would erase" their effect (bridge.ts, PendingLocalCommand): a client    *)
(* with nothing pending when it adopted a snapshot has what it names.      *)
AckedEditKept ==
    \A c \in Client : Tracking(c) /\ bridge[c].since = "acked" /\ bridge[c].buf = <<>> =>
        bridge[c].doc = SharedBy(c)

(* The reuse path's comment (dataset_open.rs 282-288): what a rebroadcast  *)
(* carries is the document's manifest, lest it "clobber a since-applied    *)
(* rename".                                                                *)
RebroadcastIsCurrent ==
    \A o \in Opener : open[o].stage = "rebroadcasting" =>
        open[o].cmd.name = docAt[open[o].seq + 1][open[o].cmd.ds]

(* The stale gate's comment (bridge.ts 865-867): a late rebroadcast must   *)
(* not "resurrect a deleted dataset with dead bindings".                   *)
NoResurrection ==
    \A c \in Client : Tracking(c) /\ bridge[c].pending = <<>> =>
        Present(bridge[c].doc) \subseteq Present(SharedBy(c))

============================================================================
