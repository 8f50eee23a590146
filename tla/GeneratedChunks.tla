-------------------------- MODULE GeneratedChunks --------------------------
(***************************************************************************)
(* The generated coarse levels of a dataset (lucida-server generated.rs):  *)
(* the scheduler that decides which chunk a worker builds next, the        *)
(* derived cache that holds readiness and bytes in memory and on disk, the *)
(* publication of readiness to the session and to the viewers, and the     *)
(* recovery of readiness when the dataset is opened again.                 *)
(*                                                                         *)
(* A chunk is a work key; its plan is the level it belongs to, and each    *)
(* plan has one directory on disk.  Pixel bytes are abstracted to their    *)
(* presence.  File times are abstracted too: the budget sweep removes      *)
(* directories in an order the model leaves open.  An interest whose ttl   *)
(* has passed counts for nothing in the code, so expiry removes it.        *)
(***************************************************************************)
EXTENDS Integers, Sequences, FiniteSets, SequencesExt, FiniteSetsExt, Functions

CONSTANTS
    Plan,              \* generated levels, one cache directory each
    KeysOf,            \* KeysOf[p]: the chunk keys of plan p in (t, c) order
    Viewer,            \* the connected clients
    Requester,         \* the viewers that also ask for chunks one at a time
    Worker,            \* the worker tasks 1..n that may be started
    Closer,            \* the task that shuts the service down
    Away, Unasked,        \* a viewer not connected; a requester not being served
    Interests,         \* the interest lists a viewer may send
    KeyCap,            \* per_client_key_cap
    ChunkSize,         \* the size of a chunk file; a directory's metadata is 1
    Scenarios          \* the configurations and bounds a behaviour may have

Key == UNION {Range(KeysOf[p]) : p \in Plan}
PlanOf(k) == CHOOSE p \in Plan : k \in Range(KeysOf[p])

Lane == {"Visible", "Predicted", "Background"}
rank(lane) == CASE lane = "Visible" -> 0 [] lane = "Predicted" -> 1 [] OTHER -> 2
Item == [key : Key, lane : Lane]

\* concurrency, background_chunk_limit and disk_budget_bytes as configured; who
\* connects, whether the service is shut down, and bounds on interest messages,
\* chunk requests, errors and restarts.
Scenario == [concurrency : Nat \ {0}, fill : Nat, budget : Nat,
             viewers : SUBSET Viewer, closes : BOOLEAN,
             hints : Nat, requests : Nat, faults : Nat, restarts : Nat]

ASSUME ConfigAssumption ==
    /\ KeyCap \in Nat /\ ChunkSize \in Nat
    /\ Requester \subseteq Viewer
    /\ \A s \in Scenarios : s \in Scenario
    /\ \A list \in Interests : list \in Seq(Item)

\* "None": the availability map has no entry for the key.
Status == {"None", "Unavailable", "FailedTransient", "FailedPermanent", "Ready"}
Nothing == [k \in Key |-> "None"]
Failed == {"FailedTransient", "FailedPermanent"}

VARIABLES
    scenario,         \* the configuration and bounds of this behaviour
    interests,        \* per viewer, the list in force (<<>> when none is)
    queued, queuedKeys, running, completedKeys, shutdown,
    pc, item, delta, pending, result,   \* per worker: where it is, its item,
                      \* the readiness update it publishes, the index files
                      \* it has still to write, and the outcome
    woken,            \* workers whose Notified future has been resolved
    chunks, bytes, identified,   \* DerivedChunkState
    disk,             \* directories, chunk files, readiness indexes
    session,          \* Session.generated_availability
    seen,             \* what each joined viewer has been told
    opening,          \* registration steps the opening task has still to do
    fill,             \* keys the background fill has still to enqueue
    asking,           \* the chunk request each requester is being served
    hints, requests, faults, restarts,
    overtaken,        \* keys an interest was dropped for because the worker
                      \* running them had already decided to cancel
    evicted           \* keys the budget sweep removed in this process

scheduler == <<interests, queued, queuedKeys, running, completedKeys, shutdown>>
worker == <<pc, item, delta, pending, result>>
memory == <<chunks, bytes, identified>>
published == <<session, seen>>
chunkBounds == <<hints, requests, faults, restarts>>
chunkVars == <<scenario, scheduler, worker, woken, memory, disk, published,
               opening, fill, asking, chunkBounds, overtaken, evicted>>

Task == Worker \cup {Closer}
Crew == {w \in Worker : w <= scenario.concurrency}

-----------------------------------------------------------------------------
(* The derived cache on disk.                                              *)

total(d, ps) == FoldSet(LAMBDA p, n :
    n + 1 + ChunkSize * Cardinality({k \in d.files : PlanOf(k) = p}), 0, ps)

\* Mutant: the chunk files outlive their directory's entry.
withoutManifest(d, ps) == [d EXCEPT !.dirs = @ \ ps]

without(d, ps) ==
    [dirs |-> d.dirs \ ps,
     files |-> {k \in d.files : PlanOf(k) \notin ps},
     index |-> [p \in Plan |-> IF p \in ps THEN Nothing ELSE d.index[p]]]

\* Whole directories go until the rest fits: the last one removed was still
\* needed.  The directory just written is not spared.
enforce_budget(d) ==
    {without(d, ps) : ps \in {ps \in SUBSET d.dirs :
        /\ total(d, d.dirs \ ps) <= scenario.budget
        /\ ps # {} => \E p \in ps : total(d, (d.dirs \ ps) \cup {p}) > scenario.budget}}

put_manifest(d, p) == enforce_budget([d EXCEPT !.dirs = @ \cup {p}])
\* Mutant: no sweep after the write.
putUnswept(d, k) == {[d EXCEPT !.dirs = @ \cup {PlanOf(k)}, !.files = @ \cup {k}]}

put(d, k) == enforce_budget([d EXCEPT !.dirs = @ \cup {PlanOf(k)},
                                      !.files = @ \cup {k}])
\* Mutant: an index that exists is not replaced.
put_indexOnce(d, p, st) ==
    enforce_budget([d EXCEPT !.dirs = @ \cup {p},
                             !.index[p] = IF @ = Nothing THEN st ELSE @])

put_index(d, p, st) == enforce_budget([d EXCEPT !.dirs = @ \cup {p},
                                                !.index[p] = st])

chunks_for_identity(p, st) ==
    [k \in Key |-> IF PlanOf(k) = p THEN st[k] ELSE "None"]

\* Mutant: the index is believed without its files.
recover_readinessBlindly(d, p) ==
    [k \in Key |-> IF PlanOf(k) # p THEN "None"
                   ELSE IF d.index[p][k] # "None" THEN d.index[p][k]
                   ELSE IF k \in d.files THEN "Ready" ELSE "None"]

\* An index entry other than Ready is believed; Ready is believed only with
\* a chunk file behind it; a file the index does not name is found by the scan.
recover_readiness(d, p) ==
    [k \in Key |-> IF PlanOf(k) # p THEN "None"
                   ELSE IF d.index[p][k] \notin {"None", "Ready"} THEN d.index[p][k]
                   ELSE IF k \in d.files THEN "Ready" ELSE "None"]

\* apply_delta: entries the delta does not name keep their status.
merged(st, dl) == [k \in Key |-> IF dl[k] = "None" THEN st[k] ELSE dl[k]]

\* The files a sweep took while the process believed them ready.
Swept(d) == {k \in disk.files : k \notin d.files}

-----------------------------------------------------------------------------
(* The scheduler's locked helpers, on the pair of queue and key map.       *)

Queue == [items |-> queued, keys |-> queuedKeys]

\* Mutant: a raised lane is noted but the queued item keeps its own.
enqueue_work_lockedHalf(q, k, lane) ==
    IF k \in completedKeys \cup running THEN q
    ELSE IF k \notin DOMAIN q.keys
    THEN [items |-> Append(q.items, [key |-> k, lane |-> lane]),
          keys |-> [j \in DOMAIN q.keys \cup {k} |-> IF j = k THEN lane ELSE q.keys[j]]]
    ELSE [q EXCEPT !.keys[k] = lane]

enqueue_work_locked(q, k, lane) ==
    IF k \in completedKeys \cup running THEN q
    ELSE IF k \notin DOMAIN q.keys
    THEN [items |-> Append(q.items, [key |-> k, lane |-> lane]),
          keys |-> [j \in DOMAIN q.keys \cup {k} |-> IF j = k THEN lane ELSE q.keys[j]]]
    ELSE IF rank(lane) < rank(q.keys[k])
    THEN [items |-> [i \in DOMAIN q.items |-> IF q.items[i].key = k
                        THEN [q.items[i] EXCEPT !.lane = lane] ELSE q.items[i]],
          keys |-> [q.keys EXCEPT ![k] = lane]]
    ELSE q

Admitted(list) == SubSeq(list, 1, Min({KeyCap, Len(list)}))
enqueue_interest_locked(q, list) ==
    FoldLeft(LAMBDA acc, it : enqueue_work_locked(acc, it.key, it.lane), q, Admitted(list))

\* Mutant: predicted keys do not count as wanted.
wanted_visible_keys(ints) ==
    UNION {{it.key : it \in {x \in Range(ints[c]) : x.lane = "Visible"}} : c \in Viewer}

wanted_work_keys(ints) == UNION {{it.key : it \in Range(ints[c])} : c \in Viewer}

prune_stale_queued(q, ints) ==
    LET kept == SelectSeq(q.items, LAMBDA it : \/ it.lane = "Background"
                                               \/ it.key \in wanted_work_keys(ints))
    IN  [items |-> kept,
         keys |-> [k \in {it.key : it \in Range(kept)} |-> q.keys[k]]]

SetQueue(q) == queued' = q.items /\ queuedKeys' = q.keys
\* Mutant: the future is created only when the worker starts to wait.
notify_parked == woken' = {w \in Worker : pc[w] = "parked"}

notify_waiters == woken' = Worker

\* The workers that will give up their item whatever happens next.
GivingUp == {w \in Crew : pc[w] = "cancel" \/ (pc[w] = "finish" /\ result[w] = "Canceled")}
MarkOvertaken(ks) ==
    overtaken' = (overtaken \ (ks \ running)) \cup (ks \cap {item[w].key : w \in GivingUp})

-----------------------------------------------------------------------------
(* Opening the dataset: every plan is registered in turn, then the binding *)
(* goes live, the workers start and the background fill begins.            *)

PlanOrder == SetToSeq(Plan)
Registration == FlattenSeq([i \in DOMAIN PlanOrder |->
    <<<<"manifest", PlanOrder[i]>>, <<"recover", PlanOrder[i]>>, <<"index", PlanOrder[i]>>>>])

NoItem == [key |-> "NoKey", lane |-> "Background"]

\* Every variable a process starts with, but for what is on disk.
Start == [
    interests |-> [c \in Viewer |-> <<>>],
    queuedKeys |-> [k \in {} |-> "Visible"],
    pc |-> [w \in Task |-> "off"],
    item |-> [w \in Task |-> NoItem],
    delta |-> [w \in Task |-> Nothing],
    pending |-> [w \in Task |-> {}],
    result |-> [w \in Task |-> "none"],
    seen |-> [c \in Viewer |-> Away],
    asking |-> [c \in Requester |-> Unasked]]

ChunksInit ==
    /\ scenario \in Scenarios
    /\ interests = Start.interests /\ queued = <<>> /\ queuedKeys = Start.queuedKeys
    /\ running = {} /\ completedKeys = {} /\ shutdown = FALSE
    /\ pc = Start.pc /\ item = Start.item /\ delta = Start.delta
    /\ pending = Start.pending /\ result = Start.result /\ woken = {}
    /\ chunks = Nothing /\ bytes = {} /\ identified = {}
    /\ disk = [dirs |-> {}, files |-> {}, index |-> [p \in Plan |-> Nothing]]
    /\ session = Nothing /\ seen = Start.seen
    /\ opening = Registration /\ fill = <<>> /\ asking = Start.asking
    /\ hints = 0 /\ requests = 0 /\ faults = 0 /\ restarts = 0
    /\ overtaken = {} /\ evicted = {}

\* The process ends at any point and the dataset is opened again: only the
\* files are left.
Restart ==
    /\ restarts < scenario.restarts /\ restarts' = restarts + 1
    /\ interests' = Start.interests /\ queued' = <<>> /\ queuedKeys' = Start.queuedKeys
    /\ running' = {} /\ completedKeys' = {} /\ shutdown' = FALSE
    /\ pc' = Start.pc /\ item' = Start.item /\ delta' = Start.delta
    /\ pending' = Start.pending /\ result' = Start.result /\ woken' = {}
    /\ chunks' = Nothing /\ bytes' = {} /\ identified' = {}
    /\ session' = Nothing /\ seen' = Start.seen
    /\ opening' = Registration /\ fill' = <<>> /\ asking' = Start.asking
    /\ overtaken' = {} /\ evicted' = {}
    /\ UNCHANGED <<scenario, disk, hints, requests, faults>>

\* disk.put_manifest
RegisterManifest ==
    /\ opening # <<>> /\ Head(opening)[1] = "manifest"
    /\ disk' \in put_manifest(disk, Head(opening)[2])
    /\ opening' = Tail(opening)
    /\ UNCHANGED <<scenario, scheduler, worker, woken, memory, published, fill,
                   asking, chunkBounds, overtaken, evicted>>

\* disk.recover_readiness, level_identities.insert, and apply_delta in memory.
RegisterRecover ==
    /\ opening # <<>> /\ Head(opening)[1] = "recover"
    /\ LET p == Head(opening)[2] IN
       /\ chunks' = merged(chunks, recover_readiness(disk, p))
       /\ identified' = identified \cup {p}
    /\ opening' = Tail(opening)
    /\ UNCHANGED <<scenario, scheduler, worker, woken, bytes, disk, published, fill,
                   asking, chunkBounds, overtaken, evicted>>

\* apply_delta writes the index, when the delta named a chunk at all, after it
\* has released the lock.
RegisterIndex ==
    /\ opening # <<>> /\ Head(opening)[1] = "index"
    /\ LET p == Head(opening)[2]
           st == chunks_for_identity(p, chunks)
       IN  disk' \in IF st = Nothing THEN {disk} ELSE put_index(disk, p, st)
    /\ evicted' = evicted \cup {k \in Swept(disk') : chunks[k] = "Ready"}
    /\ opening' = Tail(opening)
    /\ UNCHANGED <<scenario, scheduler, worker, woken, memory, published, fill,
                   asking, chunkBounds, overtaken>>

\* A disk error before the plan is identified leaves the level advertised with
\* no directory of its own (upsert_level); an index error is only logged.
RegisterFails ==
    /\ opening # <<>> /\ faults < scenario.faults /\ faults' = faults + 1
    /\ LET skip == CASE Head(opening)[1] = "manifest" -> 3
                     [] Head(opening)[1] = "recover" -> 2
                     [] OTHER -> 1
       IN  opening' = SubSeq(opening, skip + 1, Len(opening))
    /\ UNCHANGED <<scenario, scheduler, worker, woken, memory, disk, published, fill,
                   asking, hints, requests, restarts, overtaken, evicted>>

\* enqueue_background_fill: reaching the limit ends only the plan at hand, so
\* every later plan still admits one key.
FillList(order) ==
    FoldLeft(LAMBDA acc, p : acc \o
        SubSeq(KeysOf[p], 1, Min({Len(KeysOf[p]), Max({1, scenario.fill - Len(acc)})})),
        <<>>, order)

\* The session lock: the recovered readiness and the binding appear together.
Bind ==
    /\ opening = <<>> /\ \A w \in Worker : pc[w] = "off"
    /\ session' = merged(session, chunks)
    /\ pc' = [w \in Task |-> IF w \in Crew THEN "loop" ELSE "off"]
    /\ \E order \in SetToSeqs(Plan) :
          fill' = IF scenario.fill = 0 THEN <<>> ELSE FillList(order)
    /\ UNCHANGED <<scenario, scheduler, item, delta, pending, result, woken, memory,
                   disk, seen, opening, asking, chunkBounds, overtaken, evicted>>

Bound == \E w \in Worker : pc[w] # "off"

EnqueueFill ==
    /\ fill # <<>> /\ fill' = Tail(fill)
    /\ IF shutdown THEN UNCHANGED <<queued, queuedKeys, woken>>
       ELSE /\ SetQueue(enqueue_work_locked(Queue, Head(fill), "Background"))
            /\ notify_waiters
    /\ UNCHANGED <<scenario, interests, running, completedKeys, shutdown, worker, memory,
                   disk, published, opening, asking, chunkBounds, overtaken, evicted>>

-----------------------------------------------------------------------------
(* Viewers.                                                                *)

\* Mutant: the snapshot a joiner gets has no availability.
JoinBlank(c) ==
    /\ Bound /\ seen[c] = Away /\ c \in scenario.viewers
    /\ seen' = [seen EXCEPT ![c] = Nothing]
    /\ UNCHANGED <<scenario, scheduler, worker, woken, memory, disk, session, opening,
                   fill, asking, chunkBounds, overtaken, evicted>>

JoinViewer(c) ==
    /\ Bound /\ seen[c] = Away /\ c \in scenario.viewers
    /\ seen' = [seen EXCEPT ![c] = session]
    /\ UNCHANGED <<scenario, scheduler, worker, woken, memory, disk, session, opening,
                   fill, asking, chunkBounds, overtaken, evicted>>

apply_viewer_interest(c, list) ==
    /\ Bound /\ seen[c] # Away /\ hints < scenario.hints /\ hints' = hints + 1
    /\ IF shutdown THEN UNCHANGED <<interests, queued, queuedKeys, woken, overtaken>>
       ELSE /\ LET ints == [interests EXCEPT ![c] = list] IN
               /\ interests' = ints
               /\ SetQueue(prune_stale_queued(enqueue_interest_locked(Queue, list), ints))
            /\ MarkOvertaken({it.key : it \in Range(Admitted(list))})
            /\ notify_waiters
    /\ UNCHANGED <<scenario, running, completedKeys, shutdown, worker, memory, disk,
                   published, opening, fill, asking, requests, faults, restarts, evicted>>

\* The connection ends: its interest goes and the queue is pruned.
remove_client_interest(c) ==
    /\ Bound /\ seen[c] # Away
    /\ seen' = [seen EXCEPT ![c] = Away]
    /\ IF shutdown THEN UNCHANGED <<interests, queued, queuedKeys, woken>>
       ELSE /\ LET ints == [interests EXCEPT ![c] = <<>>] IN
               interests' = ints /\ SetQueue(prune_stale_queued(Queue, ints))
            /\ notify_waiters
    /\ UNCHANGED <<scenario, running, completedKeys, shutdown, worker, memory, disk,
                   session, opening, fill, asking, chunkBounds, overtaken, evicted>>

\* The ttl passes; the queue is pruned when the scheduler next looks.
Expire(c) ==
    /\ interests[c] # <<>>
    /\ interests' = [interests EXCEPT ![c] = <<>>]
    /\ UNCHANGED <<scenario, queued, queuedKeys, running, completedKeys, shutdown, worker,
                   woken, memory, disk, published, opening, fill, asking, chunkBounds,
                   overtaken, evicted>>

\* enqueue_chunk_request, on behalf of the task serving a chunk request.
enqueue_chunk_request(c, k) ==
    /\ Bound /\ seen[c] # Away /\ asking[c] = Unasked
    /\ requests < scenario.requests /\ requests' = requests + 1
    /\ asking' = [asking EXCEPT ![c] = [key |-> k, step |-> "lookup"]]
    /\ IF shutdown THEN UNCHANGED <<queued, queuedKeys, woken, overtaken>>
       ELSE /\ SetQueue(enqueue_work_locked(Queue, k, "Visible"))
            /\ MarkOvertaken({k})
            /\ notify_waiters
    /\ UNCHANGED <<scenario, interests, running, completedKeys, shutdown, worker, memory,
                   disk, published, opening, fill, hints, faults, restarts, evicted>>

\* lookup under the cache lock: only a Ready entry without bytes, on a level
\* with a directory, goes on to the disk.
Lookup(c) ==
    /\ asking[c] # Unasked /\ asking[c].step = "lookup"
    /\ LET k == asking[c].key IN
       asking' = [asking EXCEPT ![c] =
           IF chunks[k] = "Ready" /\ k \notin bytes /\ PlanOf(k) \in identified
           THEN [key |-> k, step |-> "disk"] ELSE Unasked]
    /\ UNCHANGED <<scenario, scheduler, worker, woken, memory, disk, published, opening,
                   fill, chunkBounds, overtaken, evicted>>

seed_ready_chunk(k) ==
    /\ chunks' = [chunks EXCEPT ![k] = "Ready"]
    /\ bytes' = bytes \cup {k}

\* The lock has been released: the file is read, and what was read is seeded
\* under the lock taken again.
LookupDisk(c) ==
    /\ asking[c] # Unasked /\ asking[c].step = "disk"
    /\ asking' = [asking EXCEPT ![c] =
           IF @.key \in disk.files THEN [@ EXCEPT !.step = "seed"] ELSE Unasked]
    /\ UNCHANGED <<scenario, scheduler, worker, woken, memory, disk, published, opening,
                   fill, chunkBounds, overtaken, evicted>>

LookupSeed(c) ==
    /\ asking[c] # Unasked /\ asking[c].step = "seed"
    /\ asking' = [asking EXCEPT ![c] = Unasked]
    /\ seed_ready_chunk(asking[c].key)
    /\ UNCHANGED <<scenario, scheduler, worker, woken, identified, disk, published,
                   opening, fill, chunkBounds, overtaken, evicted>>

-----------------------------------------------------------------------------
(* A worker task.                                                          *)

At(w, here, next) == pc[w] = here /\ pc' = [pc EXCEPT ![w] = next]
Fault == faults < scenario.faults /\ faults' = faults + 1
environment == <<scenario, opening, fill, asking, hints, requests, restarts, overtaken>>

\* let notified = notify.notified(): a notification from here on is not lost.
Arm(w) ==
    /\ At(w, "loop", "pop")
    /\ woken' = woken \ {w}
    /\ UNCHANGED <<environment, scheduler, item, delta, pending, result, memory, disk,
                   published, faults, evicted>>

\* The first item of the best lane.  An active item outranks every background
\* one, so background_trickle_when_active cannot change the choice; a queued
\* key is never a completed one, so the retry of the inner loop is not needed.
best(items) ==
    CHOOSE i \in DOMAIN items : \A j \in DOMAIN items :
        \/ rank(items[i].lane) < rank(items[j].lane)
        \/ rank(items[i].lane) = rank(items[j].lane) /\ i <= j

pop_next_work_item(w) ==
    /\ pc[w] = "pop"
    /\ LET q == prune_stale_queued(Queue, interests)
           it == q.items[best(q.items)]
       IN  IF shutdown
           THEN pc' = [pc EXCEPT ![w] = "stop"] /\ UNCHANGED <<queued, queuedKeys, running, item>>
           ELSE IF q.items = <<>>
           THEN pc' = [pc EXCEPT ![w] = "stop"] /\ SetQueue(q) /\ UNCHANGED <<running, item>>
           ELSE /\ pc' = [pc EXCEPT ![w] = "early"]
                /\ SetQueue([items |-> RemoveAt(q.items, best(q.items)),
                             keys |-> [k \in DOMAIN q.keys \ {it.key} |-> q.keys[k]]])
                /\ running' = running \cup {it.key}
                /\ item' = [item EXCEPT ![w] = it]
    /\ UNCHANGED <<environment, interests, completedKeys, shutdown, delta, pending, result,
                   woken, memory, disk, published, faults, evicted>>

\* is_shutdown ends the task; otherwise it waits on the future it armed.
Rest(w) ==
    /\ At(w, "stop", IF shutdown THEN "stopped" ELSE "parked")
    /\ UNCHANGED <<environment, scheduler, item, delta, pending, result, woken, memory, disk,
                   published, faults, evicted>>

Wake(w) ==
    /\ w \in woken /\ At(w, "parked", "loop")
    /\ UNCHANGED <<environment, scheduler, item, delta, pending, result, woken, memory, disk,
                   published, faults, evicted>>

should_cancel(it) ==
    \/ shutdown
    \/ it.lane # "Background" /\ it.key \notin wanted_work_keys(interests)

EarlyCheck(w) ==
    /\ At(w, "early", IF should_cancel(item[w]) THEN "cancel" ELSE "entry")
    /\ UNCHANGED <<environment, scheduler, item, delta, pending, result, woken, memory, disk,
                   published, faults, evicted>>

Release(w) ==
    /\ running' = running \ {item[w].key}
    /\ item' = [item EXCEPT ![w] = NoItem]
    /\ delta' = [delta EXCEPT ![w] = Nothing]
    /\ result' = [result EXCEPT ![w] = "none"]

mark_canceled(w) ==
    /\ At(w, "cancel", "loop")
    /\ Release(w)
    /\ UNCHANGED <<environment, interests, queued, queuedKeys, completedKeys, shutdown,
                   pending, woken, memory, disk, published, faults, evicted>>

\* should_cancel on entry, before the source is read and before the file is put.
AfterCheck == [entry |-> "load", before |-> "build", after |-> "put"]
Check(w) ==
    /\ pc[w] \in DOMAIN AfterCheck
    /\ LET stop == should_cancel(item[w]) IN
       /\ pc' = [pc EXCEPT ![w] = IF stop THEN "finish" ELSE AfterCheck[@]]
       /\ result' = [result EXCEPT ![w] = IF stop THEN "Canceled" ELSE @]
    /\ UNCHANGED <<environment, scheduler, item, delta, pending, woken, memory, disk,
                   published, faults, evicted>>

\* load_ready_chunk; a read error is logged and the chunk is built again.
Load(w) ==
    /\ pc[w] = "load"
    /\ \/ /\ item[w].key \in disk.files
          /\ pc' = [pc EXCEPT ![w] = "seed"]
          /\ result' = [result EXCEPT ![w] = "CacheReused"]
          /\ UNCHANGED faults
       \/ /\ item[w].key \notin disk.files
          /\ pc' = [pc EXCEPT ![w] = "before"]
          /\ UNCHANGED <<result, faults>>
       \/ /\ item[w].key \in disk.files /\ Fault
          /\ pc' = [pc EXCEPT ![w] = "before"]
          /\ UNCHANGED result
    /\ UNCHANGED <<environment, scheduler, item, delta, pending, woken, memory, disk,
                   published, evicted>>

Only(k, status) == [Nothing EXCEPT ![k] = status]

Fails(w, status) ==
    /\ Fault
    /\ pc' = [pc EXCEPT ![w] = "apply"]
    /\ delta' = [delta EXCEPT ![w] = Only(item[w].key, status)]
    /\ result' = [result EXCEPT ![w] = "Failed"]

\* generate_chunk_with_fallback: a fetch error is transient, any other permanent.
Build(w) ==
    /\ pc[w] = "build"
    /\ \/ At(w, "build", "after") /\ UNCHANGED <<delta, result, faults>>
       \/ \E status \in Failed : Fails(w, status)
    /\ UNCHANGED <<environment, scheduler, item, pending, woken, memory, disk, published,
                   evicted>>

\* disk.put: the rename may have happened when the sweep after it fails.
Put(w) ==
    /\ pc[w] = "put"
    /\ LET k == item[w].key IN
       \/ /\ At(w, "put", "seed")
          /\ disk' \in put(disk, k)
          /\ evicted' = (evicted \cup Swept(disk') \cup {k}) \ disk'.files
          /\ result' = [result EXCEPT ![w] = "Put"]
          /\ UNCHANGED <<delta, faults>>
       \/ /\ Fails(w, "FailedTransient")
          /\ disk' \in {disk, [disk EXCEPT !.dirs = @ \cup {PlanOf(k)}, !.files = @ \cup {k}]}
          /\ UNCHANGED evicted
    /\ UNCHANGED <<environment, scheduler, item, pending, woken, memory, published>>

Seed(w) ==
    /\ At(w, "seed", "apply")
    /\ seed_ready_chunk(item[w].key)
    /\ delta' = [delta EXCEPT ![w] = Only(item[w].key, "Ready")]
    /\ UNCHANGED <<environment, scheduler, item, pending, result, woken, identified, disk,
                   published, faults, evicted>>

Indexes(ps, st) == {[plan |-> p, st |-> chunks_for_identity(p, st)] : p \in ps}

\* apply_delta under the cache lock: an entry that is not Ready loses its
\* bytes, and what each index file will hold is computed now.
ApplyDelta(w) ==
    /\ At(w, "apply", "index")
    /\ chunks' = merged(chunks, delta[w])
    /\ bytes' = {k \in bytes : chunks'[k] = "Ready"}
    /\ pending' = [pending EXCEPT ![w] =
           Indexes({p \in identified : chunks_for_identity(p, delta[w]) # Nothing}, chunks')]
    /\ UNCHANGED <<environment, scheduler, item, delta, result, woken, identified, disk,
                   published, faults, evicted>>

\* The lock has been released: one index file at a time, errors only logged.
WriteIndex(w) ==
    /\ pc[w] = "index"
    /\ \E e \in pending[w] :
       /\ pending' = [pending EXCEPT ![w] = @ \ {e}]
       /\ \/ disk' \in put_index(disk, e.plan, e.st) /\ UNCHANGED faults
          \/ Fault /\ UNCHANGED disk
    /\ evicted' = evicted \cup Swept(disk')
    /\ UNCHANGED <<environment, scheduler, pc, item, delta, result, woken, memory, published>>

PublishSession(w) ==
    /\ w # Closer /\ pending[w] = {} /\ At(w, "index", "tell")
    /\ session' = merged(session, delta[w])
    /\ UNCHANGED <<environment, scheduler, item, delta, pending, result, woken, memory, disk,
                   seen, faults, evicted>>

\* tx.send reaches every viewer subscribed at this moment.
Tell(w) ==
    /\ At(w, "tell", IF result[w] = "Put" THEN "withdraw" ELSE "finish")
    /\ seen' = [c \in Viewer |-> IF seen[c] = Away THEN Away ELSE merged(seen[c], delta[w])]
    /\ UNCHANGED <<environment, scheduler, item, delta, pending, result, woken, memory, disk,
                   session, faults, evicted>>

missing_ready_delta ==
    [k \in Key |-> IF chunks[k] = "Ready" /\ PlanOf(k) \in identified /\ k \notin disk.files
                   THEN "Unavailable" ELSE "None"]

\* After a build the chunks whose files the sweep took are withdrawn.
Withdraw(w) ==
    /\ At(w, "withdraw", IF missing_ready_delta = Nothing THEN "finish" ELSE "apply")
    /\ delta' = [delta EXCEPT ![w] = missing_ready_delta]
    /\ result' = [result EXCEPT ![w] = "Ready"]
    /\ UNCHANGED <<environment, scheduler, item, pending, woken, memory, disk, published,
                   faults, evicted>>

\* Mutant: a failed item counts as completed.
CompletedEven(r) == r # "Canceled"

Completed(r) == r \in {"Ready", "CacheReused"}

Finish(w) ==
    /\ At(w, "finish", "loop")
    /\ Release(w)
    /\ completedKeys' = completedKeys \cup
           (IF Completed(result[w]) THEN {item[w].key} ELSE {})
    /\ UNCHANGED <<environment, interests, queued, queuedKeys, shutdown, pending, woken,
                   memory, disk, published, faults, evicted>>

-----------------------------------------------------------------------------
(* Shutdown.                                                               *)

Shutdown ==
    /\ scenario.closes /\ Bound /\ At(Closer, "off", "persist")
    /\ shutdown' = TRUE
    /\ interests' = [c \in Viewer |-> <<>>]
    /\ SetQueue([items |-> <<>>, keys |-> [k \in {} |-> "Visible"]])
    /\ UNCHANGED <<environment, running, completedKeys, item, delta, pending, result, woken,
                   memory, disk, published, faults, evicted>>

persist_readiness_indexes ==
    /\ At(Closer, "persist", "index")
    /\ pending' = [pending EXCEPT ![Closer] = Indexes(identified, chunks)]
    /\ UNCHANGED <<environment, scheduler, item, delta, result, woken, memory, disk,
                   published, faults, evicted>>

ShutdownNotify ==
    /\ pending[Closer] = {} /\ At(Closer, "index", "stopped")
    /\ notify_waiters
    /\ UNCHANGED <<environment, scheduler, item, delta, pending, result, memory, disk,
                   published, faults, evicted>>

WorkerStep(w) ==
    \/ Arm(w) \/ pop_next_work_item(w) \/ Rest(w) \/ Wake(w) \/ EarlyCheck(w)
    \/ mark_canceled(w) \/ Check(w) \/ Load(w) \/ Build(w) \/ Put(w) \/ Seed(w)
    \/ ApplyDelta(w) \/ WriteIndex(w) \/ PublishSession(w) \/ Tell(w) \/ Withdraw(w)
    \/ Finish(w)
Registering == RegisterManifest \/ RegisterRecover \/ RegisterIndex \/ RegisterFails
Closing == persist_readiness_indexes \/ WriteIndex(Closer) \/ ShutdownNotify
Serving(c) == Lookup(c) \/ LookupDisk(c) \/ LookupSeed(c)

ChunksNext ==
    \/ Registering \/ Bind \/ EnqueueFill \/ Shutdown \/ Closing \/ Restart
    \/ \E w \in Crew : WorkerStep(w)
    \/ \E c \in Viewer :
          \/ JoinViewer(c) \/ remove_client_interest(c) \/ Expire(c)
          \/ \E list \in Interests : apply_viewer_interest(c, list)
    \/ \E c \in Requester :
          \/ Serving(c)
          \/ \E k \in Key : enqueue_chunk_request(c, k)

\* Spawned tasks are polled until they finish; viewers, faults, shutdown and
\* restart are the environment's.
ChunksFairness ==
    /\ WF_chunkVars(Registering) /\ WF_chunkVars(Bind) /\ WF_chunkVars(EnqueueFill) /\ WF_chunkVars(Closing)
    /\ \A w \in Worker : WF_chunkVars(w \in Crew /\ WorkerStep(w))
    /\ \A c \in Requester : WF_chunkVars(Serving(c))

ChunksSpec == ChunksInit /\ [][ChunksNext]_chunkVars
ChunksFairSpec == ChunksSpec /\ ChunksFairness

-----------------------------------------------------------------------------
(* Properties.                                                             *)

Resting == {"off", "loop", "pop", "stop", "parked", "stopped"}
Busy(w) == w \in Crew /\ pc[w] \notin Resting
Quiet == opening = <<>> /\ Bound /\ \A w \in Task : pc[w] \in Resting

\* The state has its type.
ChunksTypeOK ==
    /\ scenario \in Scenarios /\ shutdown \in BOOLEAN
    /\ \A c \in Viewer : interests[c] \in Interests \cup {<<>>}
    /\ Range(queued) \subseteq Item /\ DOMAIN queuedKeys \subseteq Key
    /\ running \cup completedKeys \cup bytes \cup overtaken \cup evicted \subseteq Key
    /\ chunks \in [Key -> Status] /\ session \in [Key -> Status]
    /\ \A c \in Viewer : seen[c] = Away \/ seen[c] \in [Key -> Status]
    /\ disk.dirs \subseteq Plan /\ {PlanOf(k) : k \in disk.files} \subseteq disk.dirs
    /\ \A w \in Worker : Busy(w) => item[w] \in Item

\* Whatever viewers, requests, the fill and the workers do to the scheduler in
\* whatever order, its four collections tell one story: queued_keys mirrors
\* the queue lane for lane, no key is queued twice, a key is queued, running
\* or completed but never two of these, running is what workers hold, and no
\* two workers hold the same chunk.
SchedulerIsCoherent ==
    /\ DOMAIN queuedKeys = {it.key : it \in Range(queued)}
    /\ Cardinality(DOMAIN queuedKeys) = Len(queued)
    /\ \A it \in Range(queued) : queuedKeys[it.key] = it.lane
    /\ DOMAIN queuedKeys \cap (running \cup completedKeys) = {}
    /\ running \cap completedKeys = {}
    /\ running = {item[w].key : w \in {v \in Worker : Busy(v)}}
    /\ Cardinality(running) = Cardinality({w \in Worker : Busy(w)})

\* A chunk a viewer's interest in force admitted is not forgotten: it is
\* queued, being worked on, done or known to have failed.  The one exception
\* is an interest that arrived while the worker running the key had already
\* decided to cancel it: running swallows the interest.
WantedIsScheduled ==
    Bound /\ ~shutdown => \A c \in Viewer : \A it \in Range(Admitted(interests[c])) :
        \/ it.key \in DOMAIN queuedKeys \cup running \cup completedKeys \cup overtaken
        \/ chunks[it.key] \in Failed

\* No wakeup is lost between a pop that found nothing and the wait: work that
\* a pop would return always has a worker on its way to it.
WorkHasAWorker ==
    Bound /\ ~shutdown /\ prune_stale_queued(Queue, interests).items # <<>> =>
        \E w \in Crew : pc[w] # "parked" \/ w \in woken

\* lookup can answer Ready with bytes.
Servable(k) ==
    chunks[k] = "Ready" /\ (k \in bytes \/ (k \in disk.files /\ PlanOf(k) \in identified))

\* A completed key is never built again, so its chunk had better be there: it
\* can be served unless the budget sweep took its file.
CompletedIsServable ==
    \A k \in completedKeys \ evicted : Servable(k)

\* A chunk the session calls Ready, when no update is on its way, can be
\* served unless its file was swept.
ReadyIsServable ==
    Quiet => \A k \in Key \ evicted : session[k] = "Ready" => Servable(k)

\* With one worker, no joiner or listener is left behind the session once the
\* update in hand has been told: the session is updated before the broadcast.
ViewersFollowTheSession ==
    scenario.concurrency = 1 /\ (\A w \in Crew : pc[w] # "tell") =>
        \A c \in Viewer : seen[c] # Away => seen[c] = session

\* What this process serves from a file the next one finds: recovery from the
\* index and the scan would call it Ready.  One worker writes the indexes in
\* order; a second, or a shutdown beside a running build, may write last what
\* it read first.
SurvivesRestart ==
    Quiet /\ faults = 0 /\ scenario.concurrency = 1 /\ ~shutdown => \A k \in disk.files :
        chunks[k] = "Ready" /\ PlanOf(k) \in identified =>
            recover_readiness(disk, PlanOf(k))[k] = "Ready"

\* Every write ends in a sweep, so the cache stays within its budget unless
\* an error interrupted one.
DiskWithinBudget == faults = 0 => total(disk, disk.dirs) <= scenario.budget

\* The scheduler's collections agree with each other and with the workers, and
\* work that can be done has a worker on its way (enqueue_work_locked,
\* next_work_item).
SchedulerIsSound == ChunksTypeOK /\ SchedulerIsCoherent /\ WorkHasAWorker

\* What is called completed or ready can be served, within the disk budget
\* (lookup, put).
PromisesAreServable == CompletedIsServable /\ ReadyIsServable /\ DiskWithinBudget

Pursued(k) ==
    /\ Bound /\ ~shutdown
    /\ \E c \in Viewer : \E it \in Range(Admitted(interests[c])) : it.key = k

\* A viewer's interest ends in an answer: as long as the interest is kept the
\* session comes to say Ready or failed for the chunk, whatever else is queued
\* before it.  An interest swallowed by a cancelled run, and a chunk swept away
\* after it was completed, are the ways the code gives up on one.
WantedIsSettled ==
    \A k \in Key : Pursued(k) ~>
        (~Pursued(k) \/ session[k] \in Failed \cup {"Ready"} \/ k \in overtaken \cup evicted)

=============================================================================
