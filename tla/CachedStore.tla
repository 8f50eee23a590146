---------------------------- MODULE CachedStore ----------------------------
(***************************************************************************)
(* The read path in front of one object store                              *)
(* (src/lucida-store/src/cache.rs): the memory-bounded LRU, the single     *)
(* flight that lets concurrent misses of one key share a backend read, the *)
(* merge that lets one permit carry a run of contiguous range reads, and   *)
(* the memo of optional objects found absent.                              *)
(*                                                                         *)
(* A task is one call into the store.  A step is one critical section (the *)
(* LRU's lock, the flights' lock, the memo's lock) or one await that       *)
(* completes; a task can be cancelled at its awaits, and only there.  The  *)
(* permits are two counted pools: the limiter's queueing discipline is the *)
(* subject of SourceReadLimiter, which implements such a pool.             *)
(***************************************************************************)
EXTENDS Naturals, Sequences, FiniteSets, FiniteSetsExt, Functions

CONSTANTS
    Key,           \* ReadKeys: [path, range], a range being <<start, end>>
    Unbounded,     \* or one of these: the whole object, a suffix
    Task,
    KeyOf,         \* the key each call reads
    ClassOf,       \* its ReadClass, or "probe" for probe_exists
    Size,          \* length of the bytes of each key
    MaxBytes,      \* LruState::max_bytes
    ChunkPermits,  \* cap of the source limiter
    MetaPermits,   \* cap of the metadata semaphore
    FlightId,      \* ids to draw fresh ones from
    BackendError   \* variants of object_store::Error the backend may answer

Class == {"chunk", "meta", "optional", "probe"}

ErrorVariant == {"NotFound", "PermissionDenied", "Unauthenticated", "Generic"}

(* What the constants of an instance satisfy. *)
StoreAssumption ==
    /\ \A k \in Key : k.range \in Unbounded \/ k.range \in {r \in Nat \X Nat : r[1] < r[2]}
    /\ KeyOf \in [Task -> Key]
    /\ ClassOf \in [Task -> Class]
    /\ Size \in [Key -> Nat]
    /\ MaxBytes \in Nat
    /\ ChunkPermits \in Nat \ {0} /\ MetaPermits \in Nat \ {0}
    /\ IsFiniteSet(Task)
    /\ FlightId \subseteq Nat \ {0}
    /\ BackendError \subseteq ErrorVariant

VARIABLES
    pc,          \* where each task is
    result,      \* what its call returned
    flight,      \* the FlightId of the LeaderGuard it holds, 0 for none
    queuedAt,    \* LeaderGuard::queued_at is Some
    group,       \* LeaderGuard::keys, in the order its request carries them
    answer,      \* that request's outcome, per key
    sub,         \* the channel it subscribed to, 0 for none
    reads,       \* Flights::reads: the keys in flight
    queue,       \* Flights::queued_ranges, per object
    chan,        \* what was sent on the channel made with each FlightId
    lru,         \* LruState::lru, least recently used first
    absent,      \* the memo of absent objects
    chunkFree,   \* permits left in each pool
    metaFree,
    said         \* history: the objects the backend said do not exist

flights == <<reads, queue, chan>>
guards == <<flight, queuedAt, group, answer>>
pools == <<chunkFree, metaFree>>
vars == <<pc, result, guards, sub, flights, lru, absent, pools, said>>

Nothing == [tag |-> "none"]
Ok(bytes) == [tag |-> "ok", val |-> bytes]
Err(e) == [tag |-> "error", kind |-> e]
Abandoned == [tag |-> "abandoned"]
Absent == [tag |-> "absent"]
Answer(b) == [tag |-> IF b THEN "exists" ELSE "missing"]

NotInFlight == [tx |-> 0, owner |-> 0]

Path == {k.path : k \in Key}

Init ==
    /\ pc = [t \in Task |-> "idle"]
    /\ result = [t \in Task |-> Nothing]
    /\ flight = [t \in Task |-> 0]
    /\ queuedAt = [t \in Task |-> FALSE]
    /\ sub = [t \in Task |-> 0]
    /\ group = [t \in Task |-> <<>>]
    /\ answer = [t \in Task |-> <<>>]
    /\ reads = [k \in Key |-> NotInFlight]
    /\ queue = [p \in Path |-> <<>>]
    /\ chan = [f \in FlightId |-> Nothing]
    /\ lru = <<>>
    /\ absent = {}
    /\ chunkFree = ChunkPermits
    /\ metaFree = MetaPermits
    /\ said = {}

----------------------------------------------------------------------------
(* The LRU: a sequence of [key, bytes]; lru's get moves an entry to the    *)
(* most recent end.                                                        *)
Resident(l, k) == \E i \in DOMAIN l : l[i].key = k

RankOf(l, k) == CHOOSE i \in DOMAIN l : l[i].key = k

EntryOf(l, k) == l[RankOf(l, k)]

WithoutRank(l, i) == SubSeq(l, 1, i - 1) \o SubSeq(l, i + 1, Len(l))

Touch(l, k) == Append(WithoutRank(l, RankOf(l, k)), EntryOf(l, k))

(* LruState::current_bytes *)
Bytes(l) ==
    LET upTo[i \in 0..Len(l)] == IF i = 0 THEN 0 ELSE upTo[i - 1] + Size[l[i].key]
    IN  upTo[Len(l)]

EvictedAtMostOne(l, k) == IF l # <<>> /\ Bytes(l) + Size[k] > MaxBytes THEN 1 ELSE 0

(* The oldest entries that LruState::insert evicts: as few as make room,   *)
(* or all of them when nothing does.                                       *)
Evicted(l, k) ==
    Min({n \in 0..Len(l) :
            n = Len(l) \/ Bytes(SubSeq(l, n + 1, Len(l))) + Size[k] <= MaxBytes})

(* LruState::insert.  A key that became resident meanwhile keeps what it   *)
(* has.                                                                    *)
Insert(l, k, bytes) ==
    IF Resident(l, k) THEN Touch(l, k)
    ELSE Append(SubSeq(l, Evicted(l, k) + 1, Len(l)), [key |-> k, bytes |-> bytes])

FilingFirst(l, ks, slices) ==
    LET after[i \in 0..Len(ks)] == IF i = 0 THEN l ELSE Insert(after[i - 1], ks[i], slices[1])
    IN  after

(* Every member of a request, in its order, filed under its own key: the   *)
(* LRU after each.                                                         *)
Filing(l, ks, slices) ==
    LET after[i \in 0..Len(ks)] == IF i = 0 THEN l ELSE Insert(after[i - 1], ks[i], slices[i])
    IN  after

----------------------------------------------------------------------------
RebuiltNotFound(e) == "NotFound"

(* SharedError::capture and into_object_store_error: what a follower is    *)
(* handed of a leader's error.                                             *)
Rebuilt(e) ==
    CASE e = "NotFound" -> "NotFound"
      [] e \in {"PermissionDenied", "Unauthenticated"} -> "PermissionDenied"
      [] OTHER -> "Generic"

Shared(r) == IF r.tag = "error" THEN Err(Rebuilt(r.kind)) ELSE r

Goto(t, label) == pc' = [pc EXCEPT ![t] = label]

(* get_bytes_as returns r: an optional read still has to note an absence. *)
Return(t, r) ==
    /\ result' = [result EXCEPT ![t] = r]
    /\ Goto(t, IF ClassOf[t] = "optional" /\ r = Err("NotFound") THEN "noting" ELSE "done")

(* LeaderGuard::disarm, and what a finished guard leaves. *)
DropGuard(t) ==
    /\ flight' = [flight EXCEPT ![t] = 0]
    /\ queuedAt' = [queuedAt EXCEPT ![t] = FALSE]
    /\ group' = [group EXCEPT ![t] = <<>>]
    /\ answer' = [answer EXCEPT ![t] = <<>>]

Unsubscribe(t) == sub' = [sub EXCEPT ![t] = 0]

(* A channel keeps what was sent as long as it has a receiver. *)
Heard(sent) == [f \in FlightId |-> IF \E u \in Task : sub'[u] = f THEN sent[f] ELSE Nothing]

InUse(f) ==
    \/ \E t \in Task : f \in {flight[t], sub[t]}
    \/ \E k \in Key : f \in {reads[k].tx, reads[k].owner}

Mergeable(t) == ClassOf[t] = "chunk" /\ KeyOf[t].range \notin Unbounded

----------------------------------------------------------------------------
(* get_optional_metadata: remembered absence answers without a read. *)
CheckAbsent(t) ==
    /\ pc[t] = "idle"
    /\ ClassOf[t] = "optional"
    /\ IF KeyOf[t].path \in absent
       THEN result' = [result EXCEPT ![t] = Absent] /\ Goto(t, "done")
       ELSE result' = result /\ Goto(t, "lookup")
    /\ UNCHANGED <<guards, sub, flights, lru, absent, pools, said>>

(* get_optional_metadata and probe_exists: a not-found is remembered. *)
NoteAbsent(t) ==
    /\ pc[t] = "noting"
    /\ absent' = absent \union {KeyOf[t].path}
    /\ result' = [result EXCEPT ![t] =
                     IF ClassOf[t] = "probe" THEN Answer(FALSE) ELSE Absent]
    /\ Goto(t, "done")
    /\ UNCHANGED <<guards, sub, flights, lru, pools, said>>

(* The top of the loop of get_bytes_as: a resident key is a hit. *)
Lookup(t) ==
    /\ \/ pc[t] = "lookup"
       \/ pc[t] = "idle" /\ ClassOf[t] \in {"chunk", "meta"}
    /\ IF Resident(lru, KeyOf[t])
       THEN /\ Return(t, Ok(EntryOf(lru, KeyOf[t]).bytes))
            /\ lru' = Touch(lru, KeyOf[t])
       ELSE Goto(t, "placing") /\ UNCHANGED <<result, lru>>
    /\ UNCHANGED <<guards, sub, flights, absent, pools, said>>

(* Flights::place, the key is in flight: subscribe to its channel. *)
Follow(t) ==
    /\ pc[t] = "placing"
    /\ reads[KeyOf[t]] # NotInFlight
    /\ sub' = [sub EXCEPT ![t] = reads[KeyOf[t]].tx]
    /\ Goto(t, "following")
    /\ UNCHANGED <<result, guards, flights, lru, absent, pools, said>>

(* Flights::place, nobody reads the key: register it under a new guard,    *)
(* and queue it by object when a neighbour may carry it.                   *)
Lead(t) ==
    LET k == KeyOf[t]
        id == CHOOSE f \in FlightId : ~InUse(f)
    IN  /\ pc[t] = "placing"
        /\ reads[k] = NotInFlight
        /\ \E f \in FlightId : ~InUse(f)      \* bound: an id is left
        /\ reads' = [reads EXCEPT ![k] = [tx |-> id, owner |-> id]]
        /\ queue' = IF Mergeable(t)
                    THEN [queue EXCEPT ![k.path] = Append(@, [key |-> k, owner |-> id])]
                    ELSE queue
        /\ flight' = [flight EXCEPT ![t] = id]
        /\ queuedAt' = [queuedAt EXCEPT ![t] = Mergeable(t)]
        /\ sub' = [sub EXCEPT ![t] = id]
        /\ group' = [group EXCEPT ![t] = <<k>>]
        /\ Goto(t, IF Mergeable(t) THEN "queueing" ELSE "leading")
        /\ UNCHANGED <<result, answer, chan, lru, absent, pools, said>>

----------------------------------------------------------------------------
(* SourceReadLimiter::acquire, or the metadata semaphore's, grants t a     *)
(* permit.  A range read still has to claim its group; any other read goes *)
(* straight to the backend.                                                *)
TakePermit(t) ==
    IF ClassOf[t] = "chunk"
    THEN chunkFree > 0 /\ chunkFree' = chunkFree - 1 /\ metaFree' = metaFree
    ELSE metaFree > 0 /\ metaFree' = metaFree - 1 /\ chunkFree' = chunkFree

ReturnPermit(t) ==
    IF ClassOf[t] = "chunk"
    THEN chunkFree' = chunkFree + 1 /\ metaFree' = metaFree
    ELSE metaFree' = metaFree + 1 /\ chunkFree' = chunkFree

Acquired(t) ==
    /\ pc[t] \in {"queueing", "leading", "probeQueued"}
    /\ TakePermit(t)
    /\ Goto(t, CASE pc[t] = "queueing" -> "admitted"
                 [] pc[t] = "leading" -> "requesting"
                 [] pc[t] = "probeQueued" -> "heading")
    /\ UNCHANGED <<result, guards, sub, flights, lru, absent, said>>

(* The ranges queued on an object, in the order of their first byte. *)
Start(q, i) == q[i].key.range[1]
End(q, i) == q[i].key.range[2]

PlaceOf(q, e) ==
    CHOOSE i \in 1..(Len(q) + 1) : \A j \in DOMAIN q : j < i <=> Start(q, j) <= e.key.range[1]

InsertedAt(q, i, e) == SubSeq(q, 1, i - 1) \o <<e>> \o SubSeq(q, i, Len(q))

Sorted(q) ==
    LET upTo[i \in 0..Len(q)] ==
            IF i = 0 THEN <<>> ELSE InsertedAt(upTo[i - 1], PlaceOf(upTo[i - 1], q[i]), q[i])
    IN  upTo[Len(q)]

TouchesOverlapping(q, i) == \E j \in 1..(i - 1) : Start(q, i) < End(q, j)

(* In a sorted queue, rank i runs on from, or into, what lies before it. *)
Touches(q, i) == \E j \in 1..(i - 1) : Start(q, i) <= End(q, j)

(* The two scans of claim_group: back from own to the last gap, and on to  *)
(* the next one.                                                           *)
FirstCarried(q, own) == Max({1} \union {i \in 2..own : ~Touches(q, i)})
LastCarried(q, own) ==
    Max({i \in own..Len(q) : \A j \in (own + 1)..i : Touches(q, j)})

OwnRanks(q, id) == {i \in DOMAIN q : q[i].owner = id}

(* The retain of claim_group and dequeue. *)
Retained(q, id) ==
    LET upTo[i \in 0..Len(q)] == IF i = 0 THEN <<>>
                                 ELSE IF q[i].owner = id THEN upTo[i - 1]
                                 ELSE Append(upTo[i - 1], q[i])
    IN  upTo[Len(q)]

(* Flights::claim_group when the range of t is still queued: its group     *)
(* leaves the queue and its entries become the guard's.                    *)
ClaimGroup(t) ==
    LET p == KeyOf[t].path
        q == Sorted(queue[p])
        own == Min(OwnRanks(q, flight[t]))
        carried == SubSeq(q, FirstCarried(q, own), LastCarried(q, own))
        ks == {carried[i].key : i \in DOMAIN carried}
        claimed == [i \in DOMAIN q |->
                       IF i \in FirstCarried(q, own)..LastCarried(q, own)
                       THEN [key |-> q[i].key, owner |-> flight[t]] ELSE q[i]]
    IN  /\ pc[t] = "admitted"
        /\ OwnRanks(queue[p], flight[t]) # {}
        /\ reads' = [k \in Key |->
                        IF k \in ks THEN [tx |-> reads[k].tx, owner |-> flight[t]] ELSE reads[k]]
        /\ queue' = [queue EXCEPT ![p] = Retained(claimed, flight[t])]
        /\ queuedAt' = [queuedAt EXCEPT ![t] = FALSE]
        /\ group' = [group EXCEPT ![t] = [i \in DOMAIN carried |-> carried[i].key]]
        /\ Goto(t, "requesting")
        /\ UNCHANGED <<result, flight, sub, answer, chan, lru, absent, pools, said>>

AlreadyCarriedHolding(t) ==
    /\ pc[t] = "admitted"
    /\ OwnRanks(queue[KeyOf[t].path], flight[t]) = {}
    /\ Goto(t, "carried")
    /\ UNCHANGED <<result, guards, sub, flights, lru, absent, pools, said>>

(* lead_range_read, a neighbour claimed the range between the grant and    *)
(* this claim: give the permit back and wait for its delivery.             *)
AlreadyCarried(t) ==
    LET p == KeyOf[t].path
    IN  /\ pc[t] = "admitted"
        /\ OwnRanks(queue[p], flight[t]) = {}
        /\ queue' = [queue EXCEPT ![p] = Sorted(@)]
        /\ ReturnPermit(t)
        /\ DropGuard(t)
        /\ Goto(t, "carried")
        /\ UNCHANGED <<result, sub, reads, chan, lru, absent, said>>

(* The backend answers the request of t: a slice per range, in the order   *)
(* of the ranges, or an error for all of them.  The permit is dropped.     *)
Respond(t, r) ==
    /\ pc[t] = "requesting"
    /\ answer' = [answer EXCEPT ![t] =
                    [i \in DOMAIN group[t] |-> IF r = "ok" THEN Ok(group[t][i]) ELSE Err(r)]]
    /\ said' = IF r = "NotFound" THEN said \union {KeyOf[t].path} ELSE said
    /\ ReturnPermit(t)
    /\ Goto(t, "fetched")
    /\ UNCHANGED <<result, flight, queuedAt, sub, group, flights, lru, absent>>

(* Under the LRU's lock: every slice becomes resident under its own key,   *)
(* and what each key then holds is its outcome.  An error files nothing.   *)
File(t) ==
    LET ok == answer[t][1].tag = "ok"
        bytes == [i \in DOMAIN group[t] |-> answer[t][i].val]
        after == Filing(lru, group[t], bytes)
    IN  /\ pc[t] = "fetched"
        /\ lru' = IF ok THEN after[Len(group[t])] ELSE lru
        /\ answer' = IF ok
                     THEN [answer EXCEPT ![t] = [i \in DOMAIN group[t] |->
                                                   Ok(EntryOf(after[i], group[t][i]).bytes)]]
                     ELSE answer
        /\ Goto(t, "publishing")
        /\ UNCHANGED <<result, flight, queuedAt, sub, group, flights, absent, pools, said>>

(* The keys whose entry the guard still owns (take_owned). *)
OwnedFirstOnly(t) == {k \in {KeyOf[t]} : reads[k].owner = flight[t]}

OwnedUnchecked(t) == Range(group[t])

Owned(t) == {k \in Range(group[t]) : reads[k].owner = flight[t]}

(* Flights::dequeue, when the guard has a queued range. *)
DequeuedNever(t) == queue

Dequeued(t) ==
    IF queuedAt[t]
    THEN [queue EXCEPT ![KeyOf[t].path] = Retained(@, flight[t])]
    ELSE queue

(* LeaderGuard::complete, then the leader's own return: every key the      *)
(* guard still owns leaves the table and its channel gets the outcome.     *)
Publish(t) ==
    LET At(k) == CHOOSE i \in DOMAIN group[t] : group[t][i] = k
        Sent(f) == {k \in Owned(t) : reads[k].tx = f}
    IN  /\ pc[t] = "publishing"
        /\ Unsubscribe(t)
        /\ chan' = Heard([f \in FlightId |->
                             IF Sent(f) # {}
                             THEN Shared(answer[t][At(CHOOSE k \in Sent(f) : TRUE)])
                             ELSE chan[f]])
        /\ reads' = [k \in Key |-> IF k \in Owned(t) THEN NotInFlight ELSE reads[k]]
        /\ DropGuard(t)
        /\ Return(t, answer[t][At(KeyOf[t])])
        /\ UNCHANGED <<queue, lru, absent, pools, said>>

(* A delivery arrives, to a follower or to a leader a neighbour carried:   *)
(* an outcome is returned, an abandonment starts the call again.  A        *)
(* leader still queueing drops its guard and its place in the limiter.     *)
Delivered(t) ==
    LET d == chan[sub[t]]
    IN  /\ pc[t] \in {"following", "carried", "queueing"}
        /\ d # Nothing
        /\ DropGuard(t)
        /\ Unsubscribe(t)
        /\ chan' = Heard(chan)
        /\ IF d = Abandoned THEN Goto(t, "lookup") /\ result' = result
                            ELSE Return(t, d)
        /\ UNCHANGED <<reads, queue, lru, absent, pools, said>>

(* LeaderGuard::drop before completion: the entries still its own are      *)
(* abandoned and its range leaves the queue.                               *)
Abandon(t) ==
    /\ Unsubscribe(t)
    /\ chan' = Heard([f \in FlightId |->
                         IF \E k \in Owned(t) : reads[k].tx = f THEN Abandoned ELSE chan[f]])
    /\ reads' = [k \in Key |-> IF k \in Owned(t) THEN NotInFlight ELSE reads[k]]
    /\ queue' = Dequeued(t)
    /\ DropGuard(t)

(* The future is dropped at one of its awaits. *)
Cancel(t) ==
    /\ pc[t] \in {"following", "carried", "queueing", "leading", "requesting",
                  "probeQueued", "heading"}
    /\ Abandon(t)
    /\ IF pc[t] \in {"requesting", "heading"} THEN ReturnPermit(t) ELSE UNCHANGED pools
    /\ Goto(t, "cancelled")
    /\ UNCHANGED <<result, lru, absent, said>>

----------------------------------------------------------------------------
(* probe_exists: the memo and the LRU answer first. *)
Probe(t) ==
    /\ pc[t] = "idle"
    /\ ClassOf[t] = "probe"
    /\ IF KeyOf[t].path \in absent
       THEN result' = [result EXCEPT ![t] = Answer(FALSE)] /\ Goto(t, "done")
       ELSE result' = result /\ Goto(t, "probeLookup")
    /\ UNCHANGED <<guards, sub, flights, lru, absent, pools, said>>

ProbeResident(t) ==
    /\ pc[t] = "probeLookup"
    /\ IF Resident(lru, KeyOf[t])
       THEN /\ result' = [result EXCEPT ![t] = Answer(TRUE)]
            /\ lru' = Touch(lru, KeyOf[t])
            /\ Goto(t, "done")
       ELSE Goto(t, "probeQueued") /\ UNCHANGED <<result, lru>>
    /\ UNCHANGED <<guards, sub, flights, absent, pools, said>>

(* The HEAD is answered; absence is noted next. *)
HeadAnswered(t, r) ==
    /\ pc[t] = "heading"
    /\ ReturnPermit(t)
    /\ result' = [result EXCEPT ![t] = IF r = "ok" THEN Answer(TRUE) ELSE Err(r)]
    /\ said' = IF r = "NotFound" THEN said \union {KeyOf[t].path} ELSE said
    /\ Goto(t, IF r = "NotFound" THEN "noting" ELSE "done")
    /\ UNCHANGED <<guards, sub, flights, lru, absent>>

----------------------------------------------------------------------------
(* The steps of one call other than the backend's answers and cancellation. *)
Progress(t) ==
    \/ CheckAbsent(t)
    \/ NoteAbsent(t)
    \/ Lookup(t)
    \/ Follow(t)
    \/ Lead(t)
    \/ Acquired(t)
    \/ ClaimGroup(t)
    \/ AlreadyCarried(t)
    \/ File(t)
    \/ Publish(t)
    \/ Delivered(t)
    \/ Probe(t)
    \/ ProbeResident(t)

Answered(t) ==
    \E r \in {"ok"} \union BackendError : Respond(t, r) \/ HeadAnswered(t, r)

Next == \E t \in Task : Progress(t) \/ Answered(t) \/ Cancel(t)

(* A call that can take a step is scheduled, the backend answers or times  *)
(* out, and the permit pools serve whoever waits (EveryWaiterServed of     *)
(* SourceReadLimiter; tokio's semaphore is FIFO).  Nobody is forced to     *)
(* cancel.                                                                 *)
Fairness == \A t \in Task : WF_vars(Progress(t)) /\ WF_vars(Answered(t))

Spec == Init /\ [][Next]_vars

FairSpec == Spec /\ Fairness

----------------------------------------------------------------------------
Leading == {t \in Task : flight[t] # 0}

Done == {"done", "cancelled"}

(* Every variable has the type of the code's field, and a guard exists     *)
(* exactly between registration and completion, abandonment or disarming.  *)
TypeOK ==
    /\ \A t \in Task :
          /\ pc[t] \in {"idle", "lookup", "placing", "following", "queueing", "admitted",
                        "carried", "leading", "requesting", "fetched", "publishing",
                        "noting", "probeLookup", "probeQueued", "heading"} \union Done
          /\ flight[t] \in {0} \union FlightId /\ sub[t] \in {0} \union FlightId
          /\ Range(group[t]) \subseteq Key
          /\ t \in Leading <=> pc[t] \in {"queueing", "admitted", "leading",
                                         "requesting", "fetched", "publishing"}
    /\ \A k \in Key : reads[k] = NotInFlight \/ {reads[k].tx, reads[k].owner} \subseteq FlightId
    /\ \A e \in Range(lru) : e.key \in Key
    /\ absent \subseteq Path
    /\ chunkFree \in 0..ChunkPermits /\ metaFree \in 0..MetaPermits

(* Whoever's request made the round trip, a caller is handed the bytes of  *)
(* exactly the key it asked for, and the LRU files no bytes under another  *)
(* key: followers, carried ranges and slices are never mixed up.           *)
ExactBytes ==
    /\ \A t \in Task : result[t].tag = "ok" => result[t].val = KeyOf[t]
    /\ \A e \in Range(lru) : e.bytes = e.key

(* No permanent wedge (LeaderGuard's doc): a task waiting on a channel     *)
(* that has not delivered waits on an entry of the table, and the guard    *)
(* that answers for that entry is on a live leader's stack.                *)
NoWedge ==
    \A t \in Task :
        pc[t] \in {"following", "carried", "queueing", "admitted"} /\ chan[sub[t]] = Nothing =>
            /\ reads[KeyOf[t]].tx = sub[t]
            /\ \E u \in Leading : flight[u] = reads[KeyOf[t]].owner

(* A queued range is registered in flight under the same owner, whose      *)
(* guard is live, and is queued once: the expect in claim_group never      *)
(* fires, and no queued range outlives its reader.                         *)
QueuedIsInFlight ==
    \A p \in Path : \A i \in DOMAIN queue[p] :
        /\ reads[queue[p][i].key].owner = queue[p][i].owner
        /\ \E u \in Leading : flight[u] = queue[p][i].owner /\ queuedAt[u]
        /\ \A j \in DOMAIN queue[p] : queue[p][i].key = queue[p][j].key => i = j

(* The single flight: no two requests outstanding at the backend carry the *)
(* same key, whatever was merged, carried, abandoned or retried.           *)
OneRequestPerKey ==
    \A t, u \in Task :
        t # u /\ pc[t] = "requesting" /\ pc[u] = "requesting" =>
            Range(group[t]) \intersect Range(group[u]) = {}

(* A permit is out exactly for each request at the backend and each range  *)
(* read about to claim its group; cancellation, carrying and errors give   *)
(* theirs back.                                                            *)
PermitsBalance ==
    LET Out(cs) == Cardinality({t \in Task : ClassOf[t] \in cs
                                  /\ pc[t] \in {"admitted", "requesting", "heading"}})
    IN  /\ chunkFree + Out({"chunk"}) = ChunkPermits
        /\ metaFree + Out({"meta", "optional", "probe"}) = MetaPermits

(* The LRU holds a key once and stays within its budget, except that one   *)
(* object larger than the whole budget is kept alone.                      *)
BudgetKept ==
    /\ \A i, j \in DOMAIN lru : lru[i].key = lru[j].key => i = j
    /\ Bytes(lru) <= MaxBytes \/ Len(lru) = 1

(* An object is remembered, and reported, as absent only if the backend    *)
(* said so: neither another failure nor the error a follower is handed in  *)
(* its leader's place makes it look absent.                                *)
AbsenceIsReal ==
    /\ absent \subseteq said
    /\ \A t \in Task : result[t] \in {Absent, Answer(FALSE)} => KeyOf[t].path \in said

(* A request carries its leader's own range and, with it, exactly the      *)
(* queued ranges reachable over touching ranges: it never spans a gap and  *)
(* never leaves a touching neighbour to a request of its own.              *)
Adjacent(a, b) == a.range[1] <= b.range[2] /\ b.range[1] <= a.range[2]

CarriesTheRun(t) ==
    LET ks == Range(group'[t])
        waiting == {queue[KeyOf[t].path][i].key : i \in DOMAIN queue[KeyOf[t].path]}
    IN  /\ KeyOf[t] \in ks /\ ks \subseteq waiting
        /\ \A a \in ks : \A b \in waiting \ ks : ~Adjacent(a, b)
        /\ \A part \in SUBSET ks :
              part # {} /\ part # ks => \E a \in part, b \in ks \ part : Adjacent(a, b)

MergesTheRun ==
    [][\A t \in Task : pc[t] = "admitted" /\ pc'[t] = "requesting" => CarriesTheRun(t)]_vars

(* The table of reads, the queues, the requests at the backend, the        *)
(* permits and the LRU agree, and a request carries exactly its run        *)
(* (LeaderGuard, claim_group, LruState).                                   *)
StoreIsSound ==
    /\ [](/\ TypeOK /\ NoWedge /\ QueuedIsInFlight
          /\ OneRequestPerKey /\ PermitsBalance /\ BudgetKept)
    /\ MergesTheRun

(* Every call that is not cancelled returns: no lost wakeup, no retry that *)
(* goes round forever, no read stranded in a dead leader's queue.          *)
EveryCallReturns ==
    \A t \in Task : pc[t] # "idle" ~> pc[t] \in Done

(* LruState::insert's doc (lines 1515-1517): it evicts "to stay within     *)
(* budget".                                                                *)
WithinBudget == Bytes(lru) <= MaxBytes

============================================================================
