--------------------------- MODULE MCDocumentSync ---------------------------
(* Small sessions of DocumentSync. *)
EXTENDS DocumentSync, TLC

CONSTANTS alice, bob, carol, first, second, shown, beside

(* The two editors do the same things, to datasets nobody opens again. *)
Alike == Permutations({alice, bob}) \union Permutations({shown, beside})

============================================================================
