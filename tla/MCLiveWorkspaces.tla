-------------------------- MODULE MCLiveWorkspaces --------------------------
(* Small instances of LiveWorkspaces. *)
EXTENDS LiveRaces

CONSTANTS alice, bob

============================================================================
