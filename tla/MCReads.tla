------------------------------- MODULE MCReads -------------------------------
(***************************************************************************)
(* The parts of the server that turn a source into bytes for a viewer, one *)
(* of them in each behaviour: the cached store under a pan and under an    *)
(* open, the proxy generator, and the import of a dataset with the reads   *)
(* of its chunks.  The parts do not share state; those that are not at     *)
(* work stay as they begin.                                                *)
(***************************************************************************)
EXTENDS CachedStore, ProxyGenerator, ReadWorkloads, ImportSources

CONSTANTS
    Reader, MinSkipped, MaxExpansions, MaxLabels, MaxColors    \* of the import

VARIABLES
    part,       \* the part at work
    source, bound, indexes, read, served, failures, phase, slots, represent, passed, stored,
    declared, origins, probed, wanted, built, labels, warnings

importVars == <<source, bound, indexes, read, served, failures, phase, slots, represent, passed,
                stored, declared, origins, probed, wanted, built, labels, warnings>>
allVars == <<part, vars, proxyVars, importVars>>

Import == INSTANCE CollectionImport WITH
    Sources <- MCSources, Objects <- MCObjects, answer <- served, faults <- failures

ASSUME WorkloadIsAStore == StoreAssumption
ASSUME CallsAreACrowd == ProxyAssumption

\* A pan meets one kind of failure, an open all of them.
PanNext ==
    \E t \in PanTasks : Progress(t) \/ Cancel(t) \/ \E r \in {"ok", "Generic"} : Respond(t, r)
OpenNext == \E t \in OpenTasks : Progress(t) \/ Answered(t) \/ Cancel(t)

ReadsInit ==
    /\ part \in {"pan", "open", "proxy", "import"}
    /\ Init
    /\ ProxyInit /\ (part # "proxy" => file = [s \in Kind |-> "absent"])
    /\ IF part = "import" THEN Import!Init
       ELSE Import!Opened(CHOOSE dataset \in MCSources : TRUE, "off")

ReadsNext ==
    \/ part = "pan" /\ PanNext /\ UNCHANGED <<part, proxyVars, importVars>>
    \/ part = "open" /\ OpenNext /\ UNCHANGED <<part, proxyVars, importVars>>
    \/ part = "proxy" /\ ProxyNext /\ UNCHANGED <<part, vars, importVars>>
    \/ part = "import" /\ Import!Next /\ UNCHANGED <<part, vars, proxyVars>>

ReadsSpec == ReadsInit /\ [][ReadsNext]_allVars

-----------------------------------------------------------------------------
(* Properties of the import.  The store and the proxies keep their own.    *)

\* Whatever the layout of the store, a request that is served a chunk is
\* served the voxels its key names: nothing from another place, no padding
\* past a regridded tile, fill exactly where nothing was written, and no
\* chunk at all when the store failed (read_chunk, ShardIndexCache, copy).
ServedIsSource == part = "import" => Import!ServedIsSource

\* What an import says of the source is so: it refuses what it cannot slice
\* and nothing else, accuses no finished level, and a tile it does not bind
\* at its own geometry is named in a warning (import_collection).
ImportIsHonest == part = "import" => Import!ImportIsHonest

\* Sampled label discovery loses nothing in silence: what it skips nothing
\* pointed at or is reported, its allowance goes to reads, and what is kept
\* does not depend on the order of arrival (import_collection, build_label).
LabelsAreAccounted == part = "import" => Import!LabelsAreAccounted
=============================================================================
