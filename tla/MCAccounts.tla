----------------------------- MODULE MCAccounts -----------------------------
(***************************************************************************)
(* Who a person is to the server and what they may do in a workspace, one  *)
(* of the two in each behaviour: a small instance of Governance under its  *)
(* races, and browsers and a CLI that sign in and out (CliLogin).  The two *)
(* share no state; the one that is not at work stays as it begins.         *)
(***************************************************************************)
EXTENDS GovernanceRaces, CliLogin, TLC

CONSTANTS ada, ben, v1, r1, r2

VARIABLE part       \* the part at work

accountVars == <<part, raceVars, allVars>>

(* Requests are alike. *)
Alike == Permutations(Request)

MCBrowserOf == [t \in Tab |-> IF t = "t3" THEN "home" ELSE "desk"]
MCDomain == [a \in Account |-> "lab"]

\* The tabs in use, how often each thing may happen, and the last tick: a
\* redirect delivered twice while the other tab logs out; use over time with
\* a failure; and a CLI login with a failure, and with two approvers.
Bounds(tabs, starts, requests, logouts, duplicates, failures, logins, time) ==
    [tabs |-> tabs, starts |-> starts, requests |-> requests, logouts |-> logouts,
     duplicates |-> duplicates, faults |-> failures, logins |-> logins, time |-> time]
MCScenarios ==
    {Bounds({"t1", "t2"}, 2, 1, 1, 1, 0, 0, 1), Bounds({"t1", "t2"}, 1, 2, 1, 0, 1, 0, 2),
     Bounds({"t1"}, 1, 0, 0, 0, 1, 1, 2), Bounds({"t1", "t3"}, 2, 0, 0, 0, 0, 1, 2)}

ASSUME LoginsAreBounded == CliAssumption

AccountsInit ==
    /\ part \in {"governance", "login"}
    /\ RaceInit
    /\ CliInit /\ (part # "login" => left = CHOOSE s \in Scenarios : TRUE)

\* A governed workspace can always be asked for more; people may stop.
AccountsNext ==
    \/ part = "governance" /\ RaceNext /\ UNCHANGED <<part, allVars>>
    \/ part = "login" /\ CliNext /\ UNCHANGED <<part, raceVars>>
    \/ part = "login" /\ UNCHANGED accountVars

AccountsSpec == AccountsInit /\ [][AccountsNext]_accountVars
=============================================================================
