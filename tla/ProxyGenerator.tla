--------------------------- MODULE ProxyGenerator ---------------------------
(***************************************************************************)
(* Proxy volumes on demand (lucida-server proxy/generator.rs over          *)
(* proxy/cache.rs): ProxyGenerator::request checks the disk cache, joins a *)
(* generation of the same spec that is in flight or leads one itself,      *)
(* generates under a semaphore, writes the cache and broadcasts.           *)
(*                                                                         *)
(* A cache file is absent, stale (written for other source content, or by  *)
(* another algorithm version: get treats it as a miss) or fresh.           *)
(***************************************************************************)
EXTENDS Integers, FiniteSets

CONSTANTS
    Caller,        \* calls of request
    Kind,          \* proxy specs (ProxySpec)
    Permits,       \* concurrency
    NoLeader,
    MaxFaults,     \* bound: read, source, generation and write errors
    MaxPanics      \* bound: panics inside generate_one

\* Finitely many calls, told apart from the absence of a leader.
ProxyAssumption ==
    IsFiniteSet(Caller) /\ NoLeader \notin Caller /\ Kind # {} /\ Permits \in Nat

VARIABLES
    file,          \* per spec: "absent", "stale" or "fresh"
    inFlight,      \* per spec: the caller whose sender is in the map
    doing, want,   \* per caller: where it is and the spec it asked for
    leader,        \* per caller: whose broadcast it is subscribed to
    sent,          \* per caller: what it will broadcast, or "nothing"
    inbox,         \* per caller: what was sent on the channel it subscribed to
    returned,      \* per caller: what request returned, or "nothing"
    faults, panics

proxyVars == <<file, inFlight, doing, want, leader, sent, inbox, returned, faults, panics>>

ProxyInit ==
    /\ file \in [Kind -> {"absent", "stale", "fresh"}]
    /\ inFlight = [s \in Kind |-> NoLeader]
    /\ doing = [c \in Caller |-> "idle"]
    /\ want = [c \in Caller |-> CHOOSE s \in Kind : TRUE]
    /\ leader = [c \in Caller |-> NoLeader]
    /\ sent = [c \in Caller |-> "nothing"]
    /\ inbox = [c \in Caller |-> "nothing"]
    /\ returned = [c \in Caller |-> "nothing"]
    /\ faults = 0 /\ panics = 0

At(c, here, next) == doing[c] = here /\ doing' = [doing EXCEPT ![c] = next]
Returns(c, what) ==
    /\ doing' = [doing EXCEPT ![c] = "done"]
    /\ returned' = [returned EXCEPT ![c] = what]
Fault == faults < MaxFaults /\ faults' = faults + 1

Ask(c, s) ==
    /\ At(c, "idle", "check")
    /\ want' = [want EXCEPT ![c] = s]
    /\ UNCHANGED <<inbox, file, inFlight, leader, sent, returned, faults, panics>>

\* Mutant: any readable file is taken.
get_any(s) == file[s] # "absent"

\* ProxyCache::get: the header must match the content asked for.
get(s) == file[s] = "fresh"

\* A read error is logged and generation proceeds.
CheckCache(c) ==
    /\ doing[c] = "check"
    /\ \/ get(want[c]) /\ Returns(c, file[want[c]]) /\ UNCHANGED faults
       \/ ~get(want[c]) /\ At(c, "check", "join") /\ UNCHANGED <<returned, faults>>
       \/ get(want[c]) /\ Fault /\ At(c, "check", "join") /\ UNCHANGED returned
    /\ UNCHANGED <<inbox, file, inFlight, want, leader, sent, panics>>

\* Mutant: looking and inserting under two locks.
may_leadAnyway(s) == TRUE

\* Under the map's lock: no sender for the spec.
may_lead(s) == inFlight[s] = NoLeader

LeadSpec(c) ==
    /\ may_lead(want[c]) /\ At(c, "join", "acquire")
    /\ inFlight' = [inFlight EXCEPT ![want[c]] = c]
    /\ UNCHANGED <<inbox, file, want, leader, sent, returned, faults, panics>>

FollowSpec(c) ==
    /\ inFlight[want[c]] # NoLeader /\ At(c, "join", "follow")
    /\ leader' = [leader EXCEPT ![c] = inFlight[want[c]]]
    /\ UNCHANGED <<inbox, file, inFlight, want, sent, returned, faults, panics>>

Generating == {"source", "compute", "put"}

Acquire(c) ==
    /\ Cardinality({d \in Caller : doing[d] \in Generating}) < Permits
    /\ At(c, "acquire", "source")
    /\ UNCHANGED <<inbox, file, inFlight, want, leader, sent, returned, faults, panics>>

\* build_server_proxy_source and generate_proxy: an error goes to the callers.
Generate(c) ==
    /\ doing[c] \in {"source", "compute"}
    /\ \/ /\ doing' = [doing EXCEPT ![c] = IF @ = "source" THEN "compute" ELSE "put"]
          /\ UNCHANGED <<sent, faults>>
       \/ /\ Fault
          /\ doing' = [doing EXCEPT ![c] = "send"]
          /\ sent' = [sent EXCEPT ![c] = "error"]
    /\ UNCHANGED <<inbox, file, inFlight, want, leader, returned, panics>>

\* ProxyCache::put renames a complete file into place; an error is logged.
PutCache(c) ==
    /\ At(c, "put", "send")
    /\ \/ file' = [file EXCEPT ![want[c]] = "fresh"] /\ UNCHANGED faults
       \/ Fault /\ UNCHANGED file
    /\ sent' = [sent EXCEPT ![c] = "fresh"]
    /\ UNCHANGED <<inbox, inFlight, want, leader, returned, panics>>

\* Mutant: the entry stays behind.
after_sendKept(s) == inFlight[s]

after_send(s) == NoLeader

\* The permit is back; removal and broadcast happen under one lock.
Broadcast(c) ==
    /\ doing[c] = "send" /\ Returns(c, sent[c])
    /\ inFlight' = [inFlight EXCEPT ![want[c]] = after_send(want[c])]
    /\ inbox' = [d \in Caller |->
                   IF doing[d] = "follow" /\ leader[d] = c THEN sent[c] ELSE inbox[d]]
    /\ UNCHANGED <<file, want, leader, sent, faults, panics>>

\* rx.recv sees what is sent after the subscription.  The sender stays in the
\* map until it sends, so the receiver never sees a closed channel.
Receive(c) ==
    /\ doing[c] = "follow" /\ inbox[c] # "nothing"
    /\ Returns(c, inbox[c])
    /\ UNCHANGED <<inbox, file, inFlight, want, leader, sent, faults, panics>>

\* A panic inside generate_one: the permit is dropped, the map keeps the sender.
\* One inside generate_proxy is caught with its blocking task and is an error.
Panic(c) ==
    /\ doing[c] \in {"source", "put"} /\ panics < MaxPanics /\ panics' = panics + 1
    /\ doing' = [doing EXCEPT ![c] = "dead"]
    /\ UNCHANGED <<inbox, file, inFlight, want, leader, sent, returned, faults>>

Step(c) ==
    \/ CheckCache(c) \/ LeadSpec(c) \/ FollowSpec(c) \/ Acquire(c) \/ Generate(c) \/ PutCache(c)
    \/ Broadcast(c) \/ Receive(c)

ProxyNext == \E c \in Caller : Step(c) \/ Panic(c) \/ \E s \in Kind : Ask(c, s)

\* Callers are polled tasks.  Each makes one request, so that none of them can
\* be kept from a permit for ever.
ProxyFairness == \A c \in Caller : WF_proxyVars(Step(c))
ProxySpec == ProxyInit /\ [][ProxyNext]_proxyVars
ProxyFairSpec == ProxySpec /\ ProxyFairness

-----------------------------------------------------------------------------
(* Properties.                                                             *)

\* One generation of a spec at a time, however its requests interleave with
\* the cache check, and never more generations than permits.
OneGeneration ==
    /\ \A c, d \in Caller : doing[c] \in Generating /\ doing[d] \in Generating /\ c # d =>
           want[c] # want[d]
    /\ Cardinality({c \in Caller : doing[c] \in Generating}) <= Permits

\* What request returns was made for the content the caller asked about, or
\* is an error: a stale file is never served.
FreshOrError == \A c \in Caller : returned[c] \in {"nothing", "fresh", "error"}

\* A proxy is generated by one caller at a time and within the permits, and a
\* stale file is never served (ProxyGenerator::request, ProxyCache::get).
ProxiesAreSound == OneGeneration /\ FreshOrError

\* Every request returns, unless the caller leading its spec died.
Orphaned(s) == inFlight[s] # NoLeader /\ doing[inFlight[s]] = "dead"
RequestReturns ==
    \A c \in Caller : doing[c] = "check" ~> (doing[c] \in {"done", "dead"} \/ Orphaned(want[c]))
=============================================================================
