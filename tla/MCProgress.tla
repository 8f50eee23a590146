----------------------------- MODULE MCProgress -----------------------------
(***************************************************************************)
(* What the server owes in the end, one part in each behaviour: a read     *)
(* through the cached store, a chunk to be generated, and a proxy.  The    *)
(* parts share no state; those that are not at work stay as they begin,    *)
(* and fairness is asked of the part at work only.                         *)
(***************************************************************************)
EXTENDS MCGeneratedChunks, ReadWorkloads

CONSTANTS
    MaxBytes, FlightId,
    Caller, Kind, Permits

VARIABLES
    part,       \* the part at work
    calls, returns, flight, queuedAt, group, reply, sub, reads, queue, chan, lru, absent,
    chunkFree, metaFree, said,
    file, inFlight, doing, want, leader, sent, inbox, returned, failures, panics

storeVars == <<calls, returns, flight, queuedAt, group, reply, sub, reads, queue, chan, lru,
               absent, chunkFree, metaFree, said>>
proxyVars == <<file, inFlight, doing, want, leader, sent, inbox, returned, failures, panics>>
allVars == <<part, chunkVars, storeVars, proxyVars>>

Store == INSTANCE CachedStore WITH
    Key <- LiveKeys, Task <- LiveTasks, KeyOf <- LiveKeyOf, ClassOf <- LiveClassOf,
    Size <- LiveSize, Unbounded <- {whole}, ChunkPermits <- 1, MetaPermits <- 1,
    BackendError <- {"Generic"}, pc <- calls, result <- returns, answer <- reply

ASSUME WorkloadIsAStore == Store!StoreAssumption

Proxy == INSTANCE ProxyGenerator WITH
    NoLeader <- 0, MaxFaults <- 1, MaxPanics <- 1, faults <- failures

ProgressInit ==
    /\ part \in {"generated", "store", "proxy"}
    /\ ChunksInit /\ (part # "generated" => scenario = CHOOSE s \in Scenarios : TRUE)
    /\ Store!Init
    /\ Proxy!ProxyInit /\ (part # "proxy" => file = [s \in Kind |-> "absent"])

InGenerated == part = "generated" /\ UNCHANGED <<part, storeVars, proxyVars>>
InStore == part = "store" /\ UNCHANGED <<part, chunkVars, proxyVars>>
InProxy == part = "proxy" /\ UNCHANGED <<part, chunkVars, storeVars>>

ProgressNext ==
    \/ InGenerated /\ ChunksNext
    \/ InStore /\ Store!Next
    \/ InProxy /\ Proxy!ProxyNext

\* The fairness of each part's module.
ProgressFairness ==
    /\ WF_allVars(InGenerated /\ Registering) /\ WF_allVars(InGenerated /\ Bind)
    /\ WF_allVars(InGenerated /\ EnqueueFill)
    /\ \A w \in Worker : WF_allVars(InGenerated /\ w \in Crew /\ WorkerStep(w))
    /\ \A t \in LiveTasks : /\ WF_allVars(InStore /\ Store!Progress(t))
                            /\ WF_allVars(InStore /\ Store!Answered(t))
    /\ \A c \in Caller : WF_allVars(InProxy /\ Proxy!Step(c))

ProgressSpec ==
    /\ ProgressInit
    /\ [][ProgressNext]_allVars
    /\ ProgressFairness

-----------------------------------------------------------------------------
(* Properties of the instanced parts.  The generated chunks keep their own. *)

\* Every call of the cached store that is not cancelled returns: no lost
\* wakeup, no read stranded in a dead leader's queue (LeaderGuard).
EveryCallReturns == Store!EveryCallReturns

\* Every request for a proxy returns, unless the caller leading its spec died
\* (ProxyGenerator::request).
RequestReturns == Proxy!RequestReturns
=============================================================================
