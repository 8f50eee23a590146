----------------------------- MODULE Governance -----------------------------
(***************************************************************************)
(* Who may do what in one workspace: members and their roles, saved views  *)
(* with their review queue, and the default view                           *)
(* (lucida-server/src/workspace/manager.rs over the SQL store).            *)
(*                                                                         *)
(* A request is gated on the caller's role, then checks what it reads from *)
(* the store, then writes.  Each is a database call of its own, so the     *)
(* requests of several people interleave between them.                     *)
(***************************************************************************)
EXTENDS Integers, FiniteSets

CONSTANTS
    Person,    \* the principals
    Founder,   \* who created the workspace
    View,      \* ids of saved views
    Request    \* requests the server handles at a time

VARIABLES
    role,          \* workspace_members: the role of each person, or "none"
    view,          \* workspace_saved_views: per id, its author and visibility
    defaultView,   \* workspaces.default_saved_view_id
    task           \* where each request is

vars == <<role, view, defaultView, task>>

Role == {"none", "viewer", "editor", "owner"}
Visibility == {"personal", "proposed", "shared"}
NoView == "none"
Idle == [stage |-> "idle"]

Nobody == "nobody"
Unborn == [by |-> Nobody, visibility |-> "unborn"]
Gone == [by |-> Nobody, visibility |-> "gone"]

(* People and views are told apart from their absence. *)
ASSUME GovernanceAssumption ==
    /\ Founder \in Person /\ IsFiniteSet(Person)
    /\ Nobody \notin Person /\ NoView \notin View

Exists(v) == view[v].by # Nobody

(* create_workspace: its creator is the owner. *)
Init ==
    /\ role = [p \in Person |-> IF p = Founder THEN "owner" ELSE "none"]
    /\ view = [v \in View |-> Unborn]
    /\ defaultView = NoView
    /\ task = [r \in Request |-> Idle]

CanView(p) == role[p] # "none"
CanEdit(p) == role[p] \in {"editor", "owner"}
CanOwn(p) == role[p] = "owner"

(* The operations.  Taking a member out is giving them no role. *)
Op ==
    [kind : {"member"}, who : Person, to : Role]
        \union [kind : {"create", "rescope"}, at : View, to : Visibility]
        \union [kind : {"delete", "approve", "reject"}, at : View]
        \union [kind : {"default"}, at : View \union {NoView}]

(* require_owner, require_editor or require_viewer, before anything is read. *)
Gate(p, op) ==
    CASE op.kind = "member" -> CanOwn(p)
      [] op.kind = "create" -> IF op.to = "shared" THEN CanEdit(p) ELSE CanView(p)
      [] op.kind \in {"delete", "rescope"} -> CanView(p)
      [] op.kind \in {"approve", "reject", "default"} -> CanEdit(p)

----------------------------------------------------------------------------
Owners == {p \in Person : role[p] = "owner"}

(* Mutant: off by one. *)
OwnerRetainedLoosely(who, to) == role[who] = "owner" /\ to # "owner" => Cardinality(Owners) > 0

(* ensure_owner_retained *)
OwnerRetained(who, to) == role[who] = "owner" /\ to # "owner" => Cardinality(Owners) > 1

(* ensure_saved_view_readable *)
Readable(p, v) == view[v].visibility = "shared" \/ view[v].by = p

(* Mutant: the allow-list lets a proposal be shared. *)
TransitionAllowedToShared(from, to) == from = to \/ "personal" \in {from, to} \/ to = "shared"

(* saved_view_transition_allowed *)
TransitionAllowed(from, to) == from = to \/ "personal" \in {from, to}

(* ensure_saved_view_mutable *)
Mutable(p, v) == Exists(v) /\ Readable(p, v) /\ (view[v].visibility = "shared" => CanEdit(p))

(* ensure_saved_view_rescopable *)
Rescopable(p, v, to) ==
    /\ Exists(v)
    /\ view[v].by = p
    /\ TransitionAllowed(view[v].visibility, to)
    /\ to = "shared" => CanEdit(p)

(* ensure_proposal_reviewable *)
Reviewable(v) == Exists(v) /\ view[v].visibility = "proposed"

(* What the request checks between its gate and its write. *)
Check(p, op) ==
    CASE op.kind = "member" -> OwnerRetained(op.who, op.to)
      [] op.kind = "create" -> view[op.at] = Unborn
      [] op.kind = "delete" -> Mutable(p, op.at)
      [] op.kind = "rescope" -> Rescopable(p, op.at, op.to)
      [] op.kind = "approve" -> Reviewable(op.at) /\ view[op.at].by # p
      [] op.kind = "reject" -> Reviewable(op.at)
      [] op.kind = "default" -> op.at # NoView => Exists(op.at) /\ view[op.at].visibility = "shared"

----------------------------------------------------------------------------
(* Mutant: written even if the row is gone. *)
SetVisibilityBlindly(v, to) == view' = [view EXCEPT ![v].visibility = to]

(* SET_SAVED_VIEW_VISIBILITY: whatever the row holds by now. *)
SetVisibility(v, to) ==
    view' = [view EXCEPT ![v] = IF Exists(v) THEN [@ EXCEPT !.visibility = to] ELSE @]

(* Mutant: the default keeps pointing at a deleted view. *)
DefaultWithoutKept(v) == defaultView

(* ON DELETE SET NULL *)
DefaultWithout(v) == IF defaultView = v THEN NoView ELSE defaultView

(* The statement each operation runs. *)
Write(p, op) ==
    CASE op.kind = "member" ->
            role' = [role EXCEPT ![op.who] = op.to] /\ UNCHANGED <<view, defaultView>>
      [] op.kind = "create" ->
            /\ view' = [view EXCEPT ![op.at] =
                           IF @ = Unborn THEN [by |-> p, visibility |-> op.to] ELSE @]
            /\ UNCHANGED <<role, defaultView>>
      [] op.kind = "delete" ->
            /\ view' = [view EXCEPT ![op.at] = Gone]
            /\ defaultView' = DefaultWithout(op.at)
            /\ UNCHANGED role
      [] op.kind = "rescope" -> SetVisibility(op.at, op.to) /\ UNCHANGED <<role, defaultView>>
      [] op.kind = "approve" -> SetVisibility(op.at, "shared") /\ UNCHANGED <<role, defaultView>>
      [] op.kind = "reject" -> SetVisibility(op.at, "personal") /\ UNCHANGED <<role, defaultView>>
      [] op.kind = "default" ->
            \* the foreign key refuses a view that is gone
            /\ defaultView' = IF op.at = NoView THEN NoView
                              ELSE IF Exists(op.at) THEN op.at ELSE defaultView
            /\ UNCHANGED <<role, view>>

(* A request arrives and passes its gate. *)
Authorize(r, p, op) ==
    /\ task[r] = Idle
    /\ Gate(p, op)
    /\ task' = [task EXCEPT ![r] = [stage |-> "authorized", by |-> p, op |-> op]]
    /\ UNCHANGED <<role, view, defaultView>>

(* It reads the store: go on, or answer with an error. *)
Decide(r) ==
    /\ task[r].stage = "authorized"
    /\ task' = [task EXCEPT ![r] = IF Check(@.by, @.op) THEN [@ EXCEPT !.stage = "decided"] ELSE Idle]
    /\ UNCHANGED <<role, view, defaultView>>

(* It writes and answers. *)
Commit(r) ==
    /\ task[r].stage = "decided"
    /\ Write(task[r].by, task[r].op)
    /\ task' = [task EXCEPT ![r] = Idle]

(* admin_upsert_owner: an administrator makes somebody an owner. *)
AdminUpsertOwner(p) ==
    /\ role' = [role EXCEPT ![p] = "owner"]
    /\ UNCHANGED <<view, defaultView, task>>

Next ==
    \/ \E r \in Request :
          \/ \E p \in Person, op \in Op : Authorize(r, p, op)
          \/ Decide(r)
          \/ Commit(r)
    \/ \E p \in Person : AdminUpsertOwner(p)

Spec == Init /\ [][Next]_vars

----------------------------------------------------------------------------
(* Every variable has its type. *)
TypeOK ==
    /\ role \in [Person -> Role]
    /\ view \in [View -> {Unborn, Gone} \union [by : Person, visibility : Visibility]]
    /\ defaultView \in View \union {NoView}
    /\ task \in [Request -> {Idle} \union
          [stage : {"authorized", "decided"}, by : Person, op : Op]]

(* ensure_owner_retained: "workspace must retain at least one owner".      *)
HasOwner == Owners # {}

(* The default names a view that exists, though requests that set it and   *)
(* requests that delete views interleave.                                  *)
DefaultExists == defaultView # NoView => Exists(defaultView)

(* set_default_saved_view: "A workspace-wide default must be shared".      *)
DefaultIsShared == defaultView # NoView => view[defaultView].visibility = "shared"

============================================================================
