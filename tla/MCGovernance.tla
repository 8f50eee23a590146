---------------------------- MODULE MCGovernance ----------------------------
(* Small instances of Governance. *)
EXTENDS GovernanceRaces, TLC

CONSTANTS ada, ben, v1, r1, r2

(* Requests are alike. *)
Alike == Permutations(Request)

============================================================================
