--------------------------- MODULE LiveWorkspaces ---------------------------
(***************************************************************************)
(* The life of one workspace in the server's memory                        *)
(* (lucida-server/src/workspace/manager.rs): connections load it from the  *)
(* store on first use, edit it and persist it, an idle sweep evicts it,    *)
(* archiving revokes it, and the process may restart.                      *)
(*                                                                         *)
(* live is the registry's entry for the workspace.  Each load builds an    *)
(* instance of its own (LiveWorkspace); an instance may outlive its place  *)
(* in the registry as long as a connection holds it.  The document is the  *)
(* set of the edits in it.  Every await is a step: what was read before    *)
(* one may have changed after it.                                          *)
(***************************************************************************)
EXTENDS Integers, FiniteSets, FiniteSetsExt

CONSTANTS
    Conn,          \* the connections (workspace_ws)
    Instance,      \* names for LiveWorkspaces, reused once dropped
    MaxEdits,      \* bound: document commands in all
    MaxFailures,   \* bound: persistence failures
    MaxArchives,   \* bound: times the workspace is archived
    MaxCrashes     \* bound: restarts of the process

ASSUME LiveAssumption ==
    /\ IsFiniteSet(Conn) /\ Instance \subseteq Nat
    /\ {MaxEdits, MaxFailures, MaxArchives, MaxCrashes} \subseteq Nat

VARIABLES
    stored,    \* the workspace's row: document, seq and whether archived
    live,      \* WorkspaceManager::live at this workspace
    session,   \* per instance: its session, empty_since and background_cancelled
    conn,      \* where each connection is
    sweep,     \* the instance the idle sweep is about to remove, or None
    revoking,  \* archive_workspace is between the store and the registry
    acked,     \* history: edits broadcast, and acked to their author
    edits, failures, archives, crashes   \* what has been used of the bounds

bounds == <<edits, failures, archives, crashes>>
vars == <<stored, live, session, conn, sweep, revoking, acked, bounds>>

None == -1
Blank == [doc |-> {}, seq |-> 0, clients |-> {}, empty |-> "since", cancelled |-> FALSE]
Out == [stage |-> "out"]

(* The instances a connection, or anybody, still holds (Arc<LiveWorkspace>). *)
HeldByConn == {conn[c].at : c \in {k \in Conn : "at" \in DOMAIN conn[k]}}

Held == {live, sweep} \union HeldByConn

Free == Instance \ Held

Init ==
    /\ stored = [doc |-> {}, seq |-> 0, archived |-> FALSE]
    /\ live = None
    /\ session = [l \in Instance |-> Blank]
    /\ conn = [c \in Conn |-> Out]
    /\ sweep = None
    /\ revoking = FALSE
    /\ acked = {}
    /\ edits = 0 /\ failures = 0 /\ archives = 0 /\ crashes = 0

Goto(c, where) == conn' = [conn EXCEPT ![c] = where]

----------------------------------------------------------------------------
(* live_workspace: get_workspace_for, then the registry, then the store,   *)
(* then the bindings, then the registry again.                             *)

(* get_workspace_for: an archived workspace is refused. *)
Authorize(c) ==
    /\ conn[c] = Out
    /\ ~stored.archived
    /\ Goto(c, [stage |-> "authorized"])
    /\ UNCHANGED <<stored, live, session, sweep, revoking, acked, bounds>>

(* The registry is asked under its lock. *)
LookUp(c) ==
    /\ conn[c].stage = "authorized"
    /\ Goto(c, IF live # None THEN [stage |-> "upgrading", at |-> live] ELSE [stage |-> "loading"])
    /\ UNCHANGED <<stored, live, session, sweep, revoking, acked, bounds>>

(* Mutant: the stored document is not read. *)
RestoredBlank == Blank

(* LiveWorkspace::new on the session of the stored document and seq *)
Restored == [Blank EXCEPT !.doc = stored.doc, !.seq = stored.seq]

(* get_workspace, of an archived one too. *)
Load(c) ==
    /\ conn[c].stage = "loading"
    /\ Free # {}
    /\ session' = [session EXCEPT ![Min(Free)] = Restored]
    /\ Goto(c, [stage |-> "restoring", at |-> Min(Free)])
    /\ UNCHANGED <<stored, live, sweep, revoking, acked, bounds>>

(* restore_workspace_bindings is done: the registry's entry is replaced. *)
Register(c) ==
    /\ conn[c].stage = "restoring"
    /\ live' = conn[c].at
    /\ Goto(c, [stage |-> "upgrading", at |-> conn[c].at])
    /\ UNCHANGED <<stored, session, sweep, revoking, acked, bounds>>

(* A store error, or an upgrade that never completes. *)
OpenFails(c) ==
    /\ conn[c].stage \in {"authorized", "loading", "restoring", "upgrading"}
    /\ Goto(c, Out)
    /\ UNCHANGED <<stored, live, session, sweep, revoking, acked, bounds>>

(* handle_workspace_client: add_client.  empty_since is left alone. *)
Join(c) ==
    /\ conn[c].stage = "upgrading"
    /\ session' = [session EXCEPT ![conn[c].at].clients = @ \union {c}]
    /\ Goto(c, [conn[c] EXCEPT !.stage = "joined"])
    /\ UNCHANGED <<stored, live, sweep, revoking, acked, bounds>>

(* Mutant: the client list keeps who has gone. *)
WithoutNobody(s, c) == s

(* Session::remove_client *)
Without(s, c) == [s EXCEPT !.clients = @ \ {c}]

(* The socket closes. *)
Leave(c) ==
    /\ conn[c].stage = "joined"
    /\ session' = [session EXCEPT ![conn[c].at] = Without(@, c)]
    /\ Goto(c, Out)
    /\ UNCHANGED <<stored, live, sweep, revoking, acked, bounds>>

----------------------------------------------------------------------------
(* apply_document_command: gate, apply, persist, each an await apart.      *)

(* require_editor: no role on an archived workspace. *)
Gate(c) ==
    /\ conn[c].stage = "joined"
    /\ edits < MaxEdits
    /\ ~stored.archived
    /\ edits' = edits + 1
    /\ Goto(c, [stage |-> "gated", at |-> conn[c].at, edit |-> edits + 1])
    /\ UNCHANGED <<stored, live, session, sweep, revoking, acked, failures, archives, crashes>>

(* Session::apply under the lock; the document is cloned for the store. *)
ApplyCommand(c) ==
    LET l == conn[c].at
        new == [session[l] EXCEPT !.doc = @ \union {conn[c].edit}, !.seq = @ + 1]
    IN  /\ conn[c].stage = "gated"
        /\ session' = [session EXCEPT ![l] = new]
        /\ Goto(c, [stage |-> "persisting", at |-> l, edit |-> conn[c].edit,
                    doc |-> new.doc, seq |-> new.seq])
        /\ UNCHANGED <<stored, live, sweep, revoking, acked, bounds>>

(* Mutant: the document is read again after the lock was released. *)
WrittenLate(c) == [doc |-> session[conn[c].at].doc, seq |-> conn[c].seq]

(* What PERSIST_DOCUMENT writes: the clone and its seq, whatever the row   *)
(* holds by now.                                                           *)
Written(c) == [doc |-> conn[c].doc, seq |-> conn[c].seq]

(* persist_applied_command, then the broadcast. *)
Persist(c) ==
    /\ conn[c].stage = "persisting"
    /\ stored' = [stored EXCEPT !.doc = Written(c).doc, !.seq = Written(c).seq]
    /\ acked' = acked \union {conn[c].edit}
    /\ Goto(c, [stage |-> "joined", at |-> conn[c].at])
    /\ UNCHANGED <<live, session, sweep, revoking, bounds>>

(* PersistFailed: applied in memory, not broadcast. *)
PersistFails(c) ==
    /\ conn[c].stage = "persisting"
    /\ failures < MaxFailures
    /\ failures' = failures + 1
    /\ Goto(c, [stage |-> "joined", at |-> conn[c].at])
    /\ UNCHANGED <<stored, live, session, sweep, revoking, acked, edits, archives, crashes>>

----------------------------------------------------------------------------
(* idle_ttl has passed since empty_since. *)
IdleTtlPasses(l) ==
    /\ l = live
    /\ session[l].empty = "since"
    /\ session' = [session EXCEPT ![l].empty = "expired"]
    /\ UNCHANGED <<stored, live, conn, sweep, revoking, acked, bounds>>

(* Mutant: empty_since is never set again. *)
ObservedUnset(s) == [s EXCEPT !.empty = IF s.clients # {} THEN "unset" ELSE @]

(* empty_since after the sweep has looked: None with clients, otherwise    *)
(* set unless it was.                                                      *)
Observed(s) ==
    [s EXCEPT !.empty = CASE s.clients # {} -> "unset"
                          [] s.clients = {} /\ @ = "unset" -> "since"
                          [] OTHER -> @]

(* evict_idle_workspaces, up to the decision. *)
SweepLooks ==
    LET s == session[live]
    IN  /\ sweep = None
        /\ live # None
        /\ session' = [session EXCEPT ![live] = Observed(s)]
        /\ sweep' = IF s.clients = {} /\ s.empty = "expired" THEN live ELSE None
        /\ UNCHANGED <<stored, live, conn, revoking, acked, bounds>>

(* Mutant: the entry is removed by its key alone. *)
SameEntryByKey == live # None

(* Arc::ptr_eq with the registry's entry *)
SameEntry == live = sweep

(* The removal, of the same instance only, and                             *)
(* shutdown_live_workspace_background.                                     *)
SweepRemoves ==
    /\ sweep # None
    /\ sweep' = None
    /\ IF SameEntry
       THEN /\ live' = None
            /\ session' = [session EXCEPT ![live].cancelled = TRUE]
       ELSE UNCHANGED <<live, session>>
    /\ UNCHANGED <<stored, conn, revoking, acked, bounds>>

(* archive_workspace writes the row ... *)
Archive ==
    /\ ~stored.archived /\ ~revoking
    /\ archives < MaxArchives
    /\ archives' = archives + 1
    /\ stored' = [stored EXCEPT !.archived = TRUE]
    /\ revoking' = TRUE
    /\ UNCHANGED <<live, session, conn, sweep, acked, edits, failures, crashes>>

(* Mutant: the registry keeps the entry it cancels. *)
RevokedKept == live

(* The registry without this workspace. *)
Revoked == None

(* ... then notify_workspace_archived takes the entry out and cancels its  *)
(* background work.                                                        *)
Revoke ==
    /\ revoking
    /\ revoking' = FALSE
    /\ live' = Revoked
    /\ session' = IF live = None THEN session ELSE [session EXCEPT ![live].cancelled = TRUE]
    /\ UNCHANGED <<stored, conn, sweep, acked, bounds>>

(* restore_workspace *)
Unarchive ==
    /\ stored.archived
    /\ stored' = [stored EXCEPT !.archived = FALSE]
    /\ UNCHANGED <<live, session, conn, sweep, revoking, acked, bounds>>

(* The process stops and starts again: only the store remains. *)
Crash ==
    /\ crashes < MaxCrashes
    /\ crashes' = crashes + 1
    /\ live' = None
    /\ session' = [l \in Instance |-> Blank]
    /\ conn' = [c \in Conn |-> Out]
    /\ sweep' = None
    /\ revoking' = FALSE
    /\ UNCHANGED <<stored, acked, edits, failures, archives>>

----------------------------------------------------------------------------
Opening(c) == Authorize(c) \/ LookUp(c) \/ Load(c) \/ Register(c) \/ OpenFails(c) \/ Join(c)

Editing(c) == Gate(c) \/ ApplyCommand(c) \/ Persist(c) \/ PersistFails(c)

Sweeping == SweepLooks \/ SweepRemoves

Next ==
    \/ \E c \in Conn : Opening(c) \/ Editing(c) \/ Leave(c)
    \/ \E l \in Instance : IdleTtlPasses(l)
    \/ Sweeping
    \/ Archive \/ Revoke \/ Unarchive
    \/ Crash

Spec == Init /\ [][Next]_vars

(* The sweep runs on a ticker and time passes.  No connection has to act.  *)
Fairness == WF_vars(Sweeping) /\ \A l \in Instance : WF_vars(IdleTtlPasses(l))

FairSpec == Spec /\ Fairness

----------------------------------------------------------------------------
(* The stages of a connection that has joined. *)
Inside == {"joined", "gated", "persisting"}

(* The sweep takes the registry's entry in this step. *)
EvictedNow ==
    live # None /\ live' = None /\ UNCHANGED <<revoking, crashes>>

(* Every variable has its type, and the clients of an instance are the     *)
(* connections that joined it.                                             *)
TypeOK ==
    /\ stored \in [doc : SUBSET (1..MaxEdits), seq : 0..MaxEdits, archived : BOOLEAN]
    /\ live \in Instance \union {None} /\ sweep \in Instance \union {None}
    /\ session \in [Instance -> [doc : SUBSET (1..MaxEdits), seq : 0..MaxEdits,
                                 clients : SUBSET Conn, empty : {"unset", "since", "expired"},
                                 cancelled : BOOLEAN]]
    /\ DOMAIN conn = Conn
    /\ \A l \in Instance \intersect Held :
          session[l].clients = {c \in Conn : conn[c].stage \in Inside /\ conn[c].at = l}
    /\ revoking \in BOOLEAN /\ acked \subseteq 1..MaxEdits

(* "The document and its sequence number, written together" (sql.rs): the  *)
(* row's seq counts exactly the commands in its document, whatever order   *)
(* the writes of racing handlers and instances land in, so a session       *)
(* restored from it numbers its commands from the right place.             *)
SeqCountsDocument == stored.seq = Cardinality(stored.doc)

(* The registry never hands out an instance whose background work has been *)
(* shut down.                                                              *)
RegistryIsAlive == live # None => ~session[live].cancelled

(* The sweep evicts only an instance that has itself been seen empty for   *)
(* the TTL: one registered since the sweep looked stays.                   *)
FreshIsKept == [][EvictedNow => session[live].empty = "expired"]_vars

(* The registry and its sweep: an entry is alive, its clients are the      *)
(* connections that joined it, and only one seen empty for the TTL is      *)
(* evicted (evict_idle_workspaces, notify_workspace_archived).             *)
RegistryIsSound == []TypeOK /\ []RegistryIsAlive /\ FreshIsKept

(* A command that was broadcast is in the persisted document, so it        *)
(* survives eviction, reopening and a restart.                             *)
AckedIsDurable == acked \subseteq stored.doc

(* A workspace that stays empty leaves memory. *)
IdleIsEvicted ==
    \A l \in Instance : live = l ~> live # l \/ session[l].clients # {}

(* Test active_live_workspace_is_not_idle_evicted: "assert_eq!(evicted,    *)
(* 0)" while a client is connected.                                        *)
ActiveIsNotEvicted ==
    [][EvictedNow => session[live].clients = {}]_vars

(* workspace/mod.rs: "A workspace is the durable collaboration/document    *)
(* boundary": the connections of a workspace share one session.            *)
OneSession ==
    \A c, d \in Conn : conn[c].stage = "joined" /\ conn[d].stage = "joined" => conn[c].at = conn[d].at

(* Test archiving_revokes_live_workspace_and_denies_new_mutations: after   *)
(* the archive the registry does not contain the workspace.                *)
ArchivedIsNotLive == stored.archived /\ ~revoking => live = None

============================================================================
