-------------------------- MODULE GovernanceRaces --------------------------
(***************************************************************************)
(* What the checks of Governance guarantee as long as requests about the   *)
(* same thing do not overlap.  History variables record, beside the steps  *)
(* of the server, which did.                                               *)
(***************************************************************************)
EXTENDS Governance

VARIABLES
    memberRace,   \* two requests about members were in flight at once
    viewRace      \* the views that two requests were about at once

raceVars == <<vars, memberRace, viewRace>>

About(r, kinds) == task[r] # Idle /\ task[r].op.kind \in kinds

ViewRequests == {"create", "rescope", "delete", "approve", "reject"}

MembersRace == \E r, s \in Request : r # s /\ About(r, {"member"}) /\ About(s, {"member"})

ViewsRacing ==
    {v \in View : \E r, s \in Request :
        /\ r # s
        /\ About(r, ViewRequests) /\ task[r].op.at = v
        /\ About(s, ViewRequests) /\ task[s].op.at = v}

RaceInit == Init /\ memberRace = FALSE /\ viewRace = {}

RaceNext ==
    /\ Next
    /\ memberRace' = (memberRace \/ MembersRace')
    /\ viewRace' = viewRace \union ViewsRacing'

RaceSpec == RaceInit /\ [][RaceNext]_raceVars

(* "Workspace must retain at least one owner" (ensure_owner_retained): it  *)
(* does while changes of membership come one at a time, whatever else      *)
(* interleaves with them.                                                  *)
OwnedUnlessRaced == ~memberRace => HasOwner

(* Roles and views stay consistent: typed, owned, and with a default that  *)
(* exists (ensure_owner_retained, delete_saved_view).                      *)
WorkspaceIsSound == TypeOK /\ OwnedUnlessRaced /\ DefaultExists

(* "The review queue exists so a second party signs off": while requests   *)
(* about a view come one at a time, a personal view is only shared by its  *)
(* author and a proposed one only by somebody else                         *)
(* (set_saved_view_visibility, approve_saved_view).                        *)
SharedRightly ==
    [][\A v \in View \ viewRace : \A r \in Request :
          /\ view[v].visibility \in {"personal", "proposed"}
          /\ view'[v].visibility = "shared"
          /\ task[r] # Idle /\ task'[r] = Idle
          => (task[r].by = view[v].by <=> view[v].visibility = "personal")]_raceVars

============================================================================
