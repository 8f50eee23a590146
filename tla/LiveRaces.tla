----------------------------- MODULE LiveRaces -----------------------------
(***************************************************************************)
(* Which interleavings of LiveWorkspaces can lose an acknowledged edit.  A *)
(* history variable records, beside the steps of the server, whether one   *)
(* of the two races has happened that the code does not exclude.           *)
(***************************************************************************)
EXTENDS LiveWorkspaces

VARIABLE raced

raceVars == <<vars, raced>>

(* Two instances of the workspace are in use: the registry handed out a    *)
(* second one while a connection still held the first.                     *)
Forked ==
    Cardinality(({live} \union HeldByConn) \ {None}) > 1

(* Two commands are between their apply and their write. *)
Crowded ==
    \E c, d \in Conn : c # d /\ conn[c].stage = "persisting" /\ conn[d].stage = "persisting"

RaceInit == Init /\ raced = FALSE

RaceNext == Next /\ raced' = (raced \/ (Forked \/ Crowded)')

RaceSpec == RaceInit /\ [][RaceNext]_raceVars /\ Fairness

(* As long as the workspace had one instance at a time and its writes did  *)
(* not overlap, every command that was broadcast is in the persisted       *)
(* document: it survives eviction, archiving, failed writes, reopening and *)
(* a restart (apply_document_command, live_workspace).                     *)
AckedUnlessRaced == ~raced => AckedIsDurable

(* What the row holds: a document with the seq that belongs to it, and     *)
(* every acknowledged command unless a race lost it (PERSIST_DOCUMENT).    *)
StoredIsRight == SeqCountsDocument /\ AckedUnlessRaced

============================================================================
