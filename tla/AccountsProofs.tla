--------------------------- MODULE AccountsProofs ---------------------------
(***************************************************************************)
(* What the server knows of people: roles and saved views, for every finite*)
(* set of people and every set of views and of requests in flight          *)
(* (WorkspaceIsSound, SharedRightly); and signing in and out in any number *)
(* of browsers and tabs beside any number of CLI logins (SessionsAreSound, *)
(* ApprovalsMatchTokens).                                                  *)
(***************************************************************************)
EXTENDS GovernanceRaces, CliLogin, FiniteSetTheorems, TLAPS

-----------------------------------------------------------------------------
(* Roles and saved views.                                                  *)

(* The kinds of operation, each with what it is about. *)
MemberOp == [kind : {"member"}, who : Person, to : Role]
ScopeOp == [kind : {"create", "rescope"}, at : View, to : Visibility]
ReviewOp == [kind : {"delete", "approve", "reject"}, at : View]
DefaultOp == [kind : {"default"}, at : View \union {NoView}]

(* A request that has been checked and not written yet. *)
Decided(r) == task[r] # Idle /\ task[r].stage = "decided"

(* While changes of membership do not overlap, the owner a checked change  *)
(* leaves in place is still there when it is written.                      *)
OwnerStays ==
    ~memberRace =>
        /\ HasOwner
        /\ \A r \in Request : Decided(r) /\ task[r].op.kind = "member" =>
              task[r].op.to = "owner" \/ \E p \in Owners : p # task[r].op.who

(* While requests about a view do not overlap, what a checked request saw  *)
(* of the view is still so when it is written.                             *)
ViewStays ==
    \A r \in Request : Decided(r) /\ task[r].op.kind \in {"rescope", "approve"}
                       /\ task[r].op.at \notin viewRace =>
        LET v == view[task[r].op.at]
        IN  IF task[r].op.kind = "approve"
            THEN v.visibility = "proposed" /\ v.by # task[r].by
            ELSE v.by = task[r].by /\ TransitionAllowed(v.visibility, task[r].op.to)

(* The history variables hold the races of this state. *)
RacesNoted == (MembersRace => memberRace) /\ ViewsRacing \subseteq viewRace

RolesInv ==
    /\ TypeOK /\ DefaultExists
    /\ memberRace \in BOOLEAN /\ RacesNoted
    /\ OwnerStays /\ ViewStays

----------------------------------------------------------------------------
(* A task is idle or carries an operation of one of the four kinds. *)
LEMMA TaskShape ==
    ASSUME TypeOK, NEW r \in Request, task[r] # Idle
    PROVE  /\ task[r].stage \in {"authorized", "decided"} /\ task[r].by \in Person
           /\ task[r] = [stage |-> task[r].stage, by |-> task[r].by, op |-> task[r].op]
           /\ \/ task[r].op \in MemberOp \/ task[r].op \in ScopeOp
              \/ task[r].op \in ReviewOp \/ task[r].op \in DefaultOp
BY Zenon DEF TypeOK, Op, MemberOp, ScopeOp, ReviewOp, DefaultOp

(* The initial states. *)
LEMMA InitHolds == RaceInit => RolesInv
<1> SUFFICES ASSUME RaceInit PROVE RolesInv
  BY Zenon
<1> USE DEF RaceInit, Init
<1>1. TypeOK
  BY Zenon, GovernanceAssumption DEF TypeOK, Role
<1>2. DefaultExists
  BY Zenon DEF DefaultExists
<1>3. RacesNoted
  BY Zenon DEF RacesNoted, MembersRace, ViewsRacing, About
<1>4. OwnerStays
  BY Zenon, GovernanceAssumption DEF OwnerStays, HasOwner, Owners, Decided
<1>5. ViewStays
  BY Zenon DEF ViewStays, Decided
<1> QED
  BY Zenon, <1>1, <1>2, <1>3, <1>4, <1>5 DEF RolesInv

(* What a request may write, by its kind. *)
LEMMA WriteCases ==
    ASSUME TypeOK, NEW p, NEW op \in Op, Write(p, op)
    PROVE  \/ /\ op \in MemberOp /\ role' = [role EXCEPT ![op.who] = op.to]
              /\ view' = view /\ defaultView' = defaultView
           \/ /\ op \in ScopeOp /\ op.kind = "create"
              /\ view' = [view EXCEPT ![op.at] =
                             IF @ = Unborn THEN [by |-> p, visibility |-> op.to] ELSE @]
              /\ role' = role /\ defaultView' = defaultView
           \/ /\ op \in ReviewOp /\ op.kind = "delete"
              /\ view' = [view EXCEPT ![op.at] = Gone]
              /\ defaultView' = DefaultWithout(op.at) /\ role' = role
           \/ /\ op \in ScopeOp /\ op.kind = "rescope"
              /\ SetVisibility(op.at, op.to) /\ role' = role /\ defaultView' = defaultView
           \/ /\ op \in ReviewOp /\ op.kind = "approve"
              /\ SetVisibility(op.at, "shared") /\ role' = role /\ defaultView' = defaultView
           \/ /\ op \in ReviewOp /\ op.kind = "reject"
              /\ SetVisibility(op.at, "personal") /\ role' = role /\ defaultView' = defaultView
           \/ /\ op \in DefaultOp
              /\ defaultView' = IF op.at = NoView THEN NoView
                                ELSE IF Exists(op.at) THEN op.at ELSE defaultView
              /\ role' = role /\ view' = view
BY ZenonT(40) DEF Op, Write, MemberOp, ScopeOp, ReviewOp, DefaultOp

(* Writing keeps the types, and keeps the default on a view that exists. *)
LEMMA CommitTyped ==
    ASSUME TypeOK, DefaultExists, NEW r \in Request, Commit(r)
    PROVE  TypeOK' /\ DefaultExists'
<1> DEFINE p == task[r].by
           op == task[r].op
<1>1. task[r] # Idle /\ p \in Person /\ op \in Op /\ Write(p, op)
  BY DEF TypeOK, Commit, Idle
<1>2. task' \in [Request -> {Idle} \union
          [stage : {"authorized", "decided"}, by : Person, op : Op]]
  BY Zenon DEF TypeOK, Commit
<1> HIDE DEF p, op
<1>3. role' \in [Person -> Role]
  BY Zenon, <1>1, WriteCases DEF TypeOK, MemberOp
<1>4. /\ view' \in [View -> {Unborn, Gone} \union [by : Person, visibility : Visibility]]
      /\ defaultView' \in View \union {NoView}
      /\ DefaultExists'
  <2> USE <1>1, GovernanceAssumption
      DEF TypeOK, DefaultExists, Exists, Gone, Unborn, Visibility
  <2>1. CASE op \in MemberOp /\ view' = view /\ defaultView' = defaultView
    BY Zenon, <2>1
  <2>2. CASE /\ op \in ScopeOp /\ defaultView' = defaultView
             /\ view' = [view EXCEPT ![op.at] =
                            IF @ = Unborn THEN [by |-> p, visibility |-> op.to] ELSE @]
    BY Zenon, <2>2 DEF ScopeOp
  <2>3. CASE /\ op \in ReviewOp /\ view' = [view EXCEPT ![op.at] = Gone]
             /\ defaultView' = DefaultWithout(op.at)
    BY Zenon, <2>3 DEF ReviewOp, DefaultWithout
  <2>4. CASE op \in ScopeOp /\ SetVisibility(op.at, op.to) /\ defaultView' = defaultView
    BY <2>4 DEF ScopeOp, SetVisibility
  <2>5. CASE /\ op \in ReviewOp /\ defaultView' = defaultView
             /\ SetVisibility(op.at, "shared") \/ SetVisibility(op.at, "personal")
    BY <2>5 DEF ReviewOp, SetVisibility
  <2>6. CASE /\ op \in DefaultOp /\ view' = view
             /\ defaultView' = IF op.at = NoView THEN NoView
                               ELSE IF Exists(op.at) THEN op.at ELSE defaultView
    BY Zenon, <2>6 DEF DefaultOp
  <2> QED
    BY Zenon, <2>1, <2>2, <2>3, <2>4, <2>5, <2>6, WriteCases
<1> QED
  BY Zenon, <1>2, <1>3, <1>4 DEF TypeOK

(* Every step keeps the types and the default. *)
LEMMA TypeStep == ASSUME TypeOK, DefaultExists, [Next]_vars PROVE TypeOK' /\ DefaultExists'
<1>1. ASSUME NEW r \in Request, NEW p \in Person, NEW op \in Op, Authorize(r, p, op)
      PROVE  TypeOK' /\ DefaultExists'
  BY Zenon, <1>1 DEF TypeOK, DefaultExists, Exists, Authorize
<1>2. ASSUME NEW r \in Request, Decide(r) PROVE TypeOK' /\ DefaultExists'
  BY <1>2 DEF TypeOK, DefaultExists, Exists, Decide, Idle
<1>3. ASSUME NEW p \in Person, AdminUpsertOwner(p) PROVE TypeOK' /\ DefaultExists'
  BY Zenon, <1>3 DEF TypeOK, DefaultExists, Exists, AdminUpsertOwner, Role
<1>4. CASE UNCHANGED vars
  BY Zenon, <1>4 DEF TypeOK, DefaultExists, Exists, vars
<1> QED
  BY Zenon, <1>1, <1>2, <1>3, <1>4, CommitTyped DEF Next

(* Two people, one of them an owner. *)
LEMMA AnotherOwner ==
    ASSUME Cardinality(Owners) > 1, NEW who
    PROVE  \E p \in Owners : p # who
<1> SUFFICES ASSUME \A p \in Owners : p = who PROVE FALSE
  BY Zenon
<1>1. Owners \subseteq {who}
  BY Zenon
<1>2. IsFiniteSet({who}) /\ Cardinality({who}) = 1
  BY Zenon, FS_Singleton
<1>3. Cardinality(Owners) <= 1
  BY Zenon, <1>1, <1>2, FS_Subset
<1>4. IsFiniteSet(Owners) /\ Cardinality(Owners) \in Nat
  BY Zenon, <1>1, <1>2, FS_Subset, FS_CardinalityType
<1> QED
  BY <1>3, <1>4

(* Every step keeps an owner, as long as membership changes do not overlap. *)
LEMMA OwnerStep ==
    ASSUME RolesInv, RaceNext
    PROVE  OwnerStays'
<1> SUFFICES ASSUME ~memberRace' PROVE OwnerStays'
  BY Zenon DEF OwnerStays
<1>1. ~memberRace /\ ~MembersRace'
  BY Zenon DEF RaceNext, RolesInv
<1>2. /\ HasOwner
      /\ \A r \in Request : Decided(r) /\ task[r].op.kind = "member" =>
            task[r].op.to = "owner" \/ \E p \in Owners : p # task[r].op.who
  BY Zenon, <1>1 DEF RolesInv, OwnerStays
<1>3. ~MembersRace
  BY Zenon, <1>1 DEF RolesInv, RacesNoted
<1>4. ASSUME NEW r \in Request, NEW p \in Person, NEW op \in Op, Authorize(r, p, op)
      PROVE  OwnerStays'
  BY Zenon, <1>2, <1>4
     DEF OwnerStays, HasOwner, Owners, Decided, Authorize, RolesInv, TypeOK, Idle
<1>5. ASSUME NEW r \in Request, Decide(r) PROVE OwnerStays'
  <2>1. role' = role /\ Owners' = Owners
    BY Zenon, <1>5 DEF Decide, Owners
  <2>2. ASSUME NEW q \in Request, Decided(q)', task'[q].op.kind = "member"
        PROVE  task'[q].op.to = "owner" \/ \E p \in Owners : p # task'[q].op.who
    <3>1. CASE q # r
      <4>1. task'[q] = task[q]
        BY Zenon, <1>5, <3>1 DEF Decide, RolesInv, TypeOK
      <4> QED
        BY Zenon, <1>2, <2>2, <4>1 DEF Decided
    <3>2. CASE q = r
      <4>1. task[q] # Idle /\ Check(task[q].by, task[q].op) /\ task'[q].op = task[q].op
        BY <1>5, <2>2, <3>2 DEF Decide, RolesInv, TypeOK, Decided, Idle
      <4>2. OwnerRetained(task[q].op.who, task[q].op.to)
        BY Zenon, <4>1, <2>2 DEF Check
      <4> QED
        BY <1>2, <4>1, <4>2, AnotherOwner DEF OwnerRetained, HasOwner, Owners
    <3> QED
      BY Zenon, <3>1, <3>2
  <2> QED
    BY Zenon, <1>2, <2>1, <2>2 DEF OwnerStays, HasOwner
<1>6. ASSUME NEW r \in Request, Commit(r) PROVE OwnerStays'
  <2> DEFINE op == task[r].op
  <2>1. task[r] # Idle /\ op \in Op /\ Write(task[r].by, op) /\ Decided(r)
    BY <1>6 DEF Commit, RolesInv, TypeOK, Idle, Decided
  <2>2. \A q \in Request : Decided(q)' => q # r /\ task'[q] = task[q] /\ Decided(q)
    BY Zenon, <1>6 DEF Commit, RolesInv, TypeOK, Idle, Decided
  <2>3. CASE op \in MemberOp /\ role' = [role EXCEPT ![op.who] = op.to]
    <3>1. \A q \in Request : Decided(q)' => task'[q].op.kind # "member"
      BY Zenon, <1>3, <2>1, <2>2, <2>3 DEF MembersRace, About, MemberOp, Decided
    <3>2. Owners' # {}
      BY Zenon, <1>2, <2>1, <2>3 DEF Owners, HasOwner, MemberOp, RolesInv, TypeOK
    <3> QED
      BY Zenon, <3>1, <3>2 DEF OwnerStays, HasOwner
  <2>4. CASE role' = role
    BY Zenon, <1>2, <2>2, <2>4 DEF OwnerStays, HasOwner, Owners
  <2> HIDE DEF op
  <2> QED
    BY Zenon, <2>1, <2>3, <2>4, WriteCases DEF RolesInv
<1>7. ASSUME NEW p \in Person, AdminUpsertOwner(p) PROVE OwnerStays'
  <2>1. task' = task /\ Owners' = Owners \union {p}
    BY Zenon, <1>7 DEF AdminUpsertOwner, Owners, RolesInv, TypeOK
  <2> QED
    BY Zenon, <1>2, <2>1 DEF OwnerStays, HasOwner, Decided
<1> QED
  BY Zenon, <1>4, <1>5, <1>6, <1>7 DEF RaceNext, Next

(* A write that is not about a view leaves it alone. *)
LEMMA OtherViews ==
    ASSUME TypeOK, NEW p, NEW op \in Op, Write(p, op), NEW v \in View,
           op.kind \in ViewRequests => op.at # v
    PROVE  view'[v] = view[v]
BY Zenon, WriteCases DEF ViewRequests, ScopeOp, ReviewOp, SetVisibility, TypeOK

(* Every step keeps what a checked request saw of its view, as long as     *)
(* requests about the view do not overlap.                                 *)
LEMMA ViewStep ==
    ASSUME RolesInv, RaceNext
    PROVE  ViewStays'
<1> DEFINE Holds(q) ==
        LET v == view[task[q].op.at]
        IN  IF task[q].op.kind = "approve"
            THEN v.visibility = "proposed" /\ v.by # task[q].by
            ELSE v.by = task[q].by /\ TransitionAllowed(v.visibility, task[q].op.to)
<1> SUFFICES ASSUME NEW q \in Request, Decided(q)', task'[q].op.kind \in {"rescope", "approve"},
                    task'[q].op.at \notin viewRace'
             PROVE  Holds(q)'
  BY Zenon DEF ViewStays
<1>1. task'[q].op.at \notin viewRace /\ task'[q].op.at \notin ViewsRacing
  BY Zenon DEF RaceNext, RolesInv, RacesNoted
<1>2. CASE task'[q] = task[q] /\ view' = view
  <2>1. Decided(q) /\ Holds(q)
    BY Zenon, <1>1, <1>2 DEF RolesInv, ViewStays, Decided
  <2> QED
    BY Zenon, <1>2, <2>1
<1> HIDE DEF Holds
<1>3. ASSUME NEW r \in Request, NEW p \in Person, NEW op \in Op, Authorize(r, p, op)
      PROVE  Holds(q)'
  <2>1. q # r
    BY Zenon, <1>3 DEF Authorize, Decided, RolesInv, TypeOK
  <2> QED
    BY Zenon, <1>2, <1>3, <2>1 DEF Authorize, RolesInv, TypeOK
<1>4. ASSUME NEW r \in Request, Decide(r) PROVE Holds(q)'
  <2>1. CASE q # r
    BY Zenon, <1>2, <1>4, <2>1 DEF Decide, RolesInv, TypeOK
  <2>2. CASE q = r
    <3>1. /\ task[q] # Idle /\ Check(task[q].by, task[q].op)
          /\ task'[q].op = task[q].op /\ task'[q].by = task[q].by
      BY <1>4, <2>2 DEF Decide, RolesInv, TypeOK, Decided, Idle
    <3>2. view' = view
      BY Zenon, <1>4 DEF Decide
    <3>3. CASE task[q].op.kind = "approve"
      BY Zenon, <3>1, <3>2, <3>3 DEF Check, Reviewable, Holds
    <3>4. CASE task[q].op.kind = "rescope"
      BY Zenon, <3>1, <3>2, <3>4 DEF Check, Rescopable, Holds
    <3> QED
      BY Zenon, <3>1, <3>3, <3>4
  <2> QED
    BY Zenon, <2>1, <2>2
<1>5. ASSUME NEW r \in Request, Commit(r) PROVE Holds(q)'
  <2>1. /\ q # r /\ task'[q] = task[q] /\ Decided(q)
        /\ task[r] # Idle /\ task[r].op \in Op /\ Write(task[r].by, task[r].op)
    BY <1>5 DEF Commit, RolesInv, TypeOK, Idle, Decided
  <2>2. task[q].op.at \in View
    BY Zenon, <2>1, TaskShape DEF RolesInv, Decided, ScopeOp, ReviewOp, MemberOp, DefaultOp
  <2>3. task[r].op.kind \in ViewRequests => task[r].op.at # task[q].op.at
    BY Zenon, <1>1, <2>1, <2>2 DEF ViewsRacing, About, Decided, ViewRequests
  <2>4. view'[task[q].op.at] = view[task[q].op.at]
    BY Zenon, <2>1, <2>2, <2>3, OtherViews DEF RolesInv
  <2>5. Holds(q)
    BY Zenon, <1>1, <2>1 DEF RolesInv, ViewStays, Holds
  <2> QED
    BY Zenon, <2>1, <2>4, <2>5 DEF Holds
<1>6. ASSUME NEW p \in Person, AdminUpsertOwner(p) PROVE Holds(q)'
  BY Zenon, <1>2, <1>6 DEF AdminUpsertOwner
<1> QED
  BY Zenon, <1>3, <1>4, <1>5, <1>6 DEF RaceNext, Next

(* The inductive invariant holds in every reachable state. *)
THEOREM RolesHold == RaceSpec => []RolesInv
<1>1. RaceInit => RolesInv
  BY Zenon, InitHolds
<1>2. RolesInv /\ [RaceNext]_raceVars => RolesInv'
  <2> SUFFICES ASSUME RolesInv, [RaceNext]_raceVars PROVE RolesInv'
    BY Zenon
  <2>1. CASE RaceNext
    <3>1. TypeOK' /\ DefaultExists'
      BY Zenon, <2>1, TypeStep DEF RolesInv, RaceNext
    <3>2. memberRace' \in BOOLEAN /\ RacesNoted'
      BY Zenon, <2>1 DEF RolesInv, RaceNext, RacesNoted, MembersRace
    <3> QED
      BY Zenon, <2>1, <3>1, <3>2, OwnerStep, ViewStep DEF RolesInv
  <2>2. CASE UNCHANGED raceVars
    BY <2>2
       DEF RolesInv, raceVars, vars, TypeOK, DefaultExists, Exists, RacesNoted, MembersRace,
       ViewsRacing, About, OwnerStays, ViewStays, Decided, HasOwner, Owners
  <2> QED
    BY Zenon, <2>1, <2>2
<1> QED
  BY <1>1, <1>2, PTL DEF RaceSpec

(* Whatever requests interleave: types, a default that exists, and an      *)
(* owner unless two changes of membership overlapped                       *)
(* (ensure_owner_retained, set_default_saved_view, delete_saved_view).     *)
THEOREM SoundWorkspace == RaceSpec => []WorkspaceIsSound
<1>1. RolesInv => WorkspaceIsSound
  BY Zenon DEF RolesInv, WorkspaceIsSound, OwnedUnlessRaced, OwnerStays
<1> QED
  BY <1>1, RolesHold, PTL

(* A personal view is shared only by its author and a proposed one only by *)
(* somebody else, unless two requests about it overlapped                  *)
(* (set_saved_view_visibility, approve_saved_view).                        *)
THEOREM SharingIsRight == RaceSpec => SharedRightly
<1> DEFINE Right ==
        \A v \in View \ viewRace : \A r \in Request :
            /\ view[v].visibility \in {"personal", "proposed"}
            /\ view'[v].visibility = "shared"
            /\ task[r] # Idle /\ task'[r] = Idle
            => (task[r].by = view[v].by <=> view[v].visibility = "personal")
<1>1. RolesInv /\ [RaceNext]_raceVars => [Right]_raceVars
  <2> SUFFICES ASSUME RolesInv, RaceNext, NEW v \in View \ viewRace, NEW r \in Request,
                      view[v].visibility \in {"personal", "proposed"},
                      view'[v].visibility = "shared",
                      task[r] # Idle, task'[r] = Idle
               PROVE  task[r].by = view[v].by <=> view[v].visibility = "personal"
    BY Zenon
  <2> DEFINE op == task[r].op
  <2>1. view' # view
    BY Zenon
  <2>2. PICK s \in Request : Commit(s)
    BY Zenon, <2>1 DEF RaceNext, Next, Authorize, Decide, AdminUpsertOwner
  <2>3. s = r
    BY Zenon, <2>2 DEF Commit, RolesInv, TypeOK
  <2>4. Decided(r) /\ op \in Op /\ Write(task[r].by, op)
    BY Zenon, <2>2, <2>3 DEF Commit, Decided, RolesInv, TypeOK
  <2>5. op.kind \in ViewRequests /\ op.at = v
    BY Zenon, <2>4, OtherViews DEF RolesInv
  <2> HIDE DEF op
  <2>6. op.kind \in {"rescope", "approve"}
    <3>1. CASE op.kind = "create"
      <4>1. view'[v] = IF view[v] = Unborn THEN [by |-> task[r].by, visibility |-> op.to]
                       ELSE view[v]
        BY Zenon, <2>4, <2>5, <3>1 DEF Write, RolesInv, TypeOK
      <4> QED
        BY <4>1 DEF Unborn
    <3>2. CASE op.kind = "delete"
      <4>1. view'[v] = Gone
        BY Zenon, <2>4, <2>5, <3>2 DEF Write, RolesInv, TypeOK
      <4> QED
        BY <4>1 DEF Gone
    <3>3. CASE op.kind = "reject"
      <4>1. SetVisibility(v, "personal")
        BY Zenon, <2>4, <2>5, <3>3 DEF Write
      <4> QED
        BY <4>1 DEF SetVisibility, RolesInv, TypeOK, Unborn, Gone
    <3> QED
      BY Zenon, <2>5, <3>1, <3>2, <3>3 DEF ViewRequests
  <2>7. CASE op.kind = "approve"
    BY Zenon, <2>4, <2>5, <2>7 DEF RolesInv, ViewStays, op
  <2>8. CASE op.kind = "rescope"
    <3>1. view[v].by = task[r].by /\ TransitionAllowed(view[v].visibility, op.to)
      BY Zenon, <2>4, <2>5, <2>8 DEF RolesInv, ViewStays, op
    <3>2. SetVisibility(v, op.to)
      BY Zenon, <2>4, <2>5, <2>8 DEF Write
    <3>3. op.to = "shared"
      BY <3>2 DEF SetVisibility, RolesInv, TypeOK, Unborn, Gone
    <3> QED
      BY Zenon, <3>1, <3>3 DEF TransitionAllowed
  <2> QED
    BY Zenon, <2>6, <2>7, <2>8
<1>2. RaceSpec => [][Right]_raceVars
  BY <1>1, RolesHold, PTL DEF RaceSpec
<1> QED
  BY Zenon, <1>2 DEF SharedRightly

-----------------------------------------------------------------------------
(* Signing in and out, and the CLI.                                        *)

Bounds == [tabs : SUBSET Tab, starts : Nat, requests : Nat, logouts : Nat,
           duplicates : Nat, faults : Nat, logins : Nat, time : Nat]

Flow == [step : {"idle", "google", "exchange", "mint", "respond", "leaving"},
         state : Nat, chooser : BOOLEAN, account : Account \union {None},
         id : Nat, late : BOOLEAN]

Row == [email : Account \union {None}, last_used : Nat, expires : Nat]

Typed ==
    /\ now \in Nat /\ left \in Bounds
    /\ flow \in [Tab -> Flow]
    /\ marker \in [Browser -> BOOLEAN] /\ signedOut \in [Browser -> BOOLEAN]
    /\ DOMAIN pending \subseteq Nat
    /\ \E n \in Nat : DOMAIN minted = 1..n
    /\ \A i \in DOMAIN minted : minted[i] \in Nat
    /\ DOMAIN sessions \subseteq DOMAIN minted
    /\ \A i \in DOMAIN sessions : sessions[i] \in Row
    /\ DOMAIN used = DOMAIN minted
    /\ \A i \in DOMAIN used : used[i] \in Nat /\ used[i] <= now
    /\ \A e \in touches : e \in [id : DOMAIN minted, at : Nat]

(* The steps between a consumed state token and its session. *)
Serving(t) == flow[t].step \in {"exchange", "mint"}

(* A state token is stored, or being served in one tab, or the origin of   *)
(* one session, or gone; the next start has a token of its own.            *)
TokensInv ==
    /\ IsInjective(minted)
    /\ \A s \in DOMAIN pending : s > left.starts
    /\ \A i \in DOMAIN minted : minted[i] > left.starts /\ minted[i] \notin DOMAIN pending
    /\ \A t \in Tab : flow[t].step = "google" \/ Serving(t) => flow[t].state > left.starts
    /\ \A t \in Tab : Serving(t) =>
          /\ flow[t].state \notin DOMAIN pending
          /\ \A i \in DOMAIN minted : minted[i] # flow[t].state
          /\ \A u \in Tab : Serving(u) /\ flow[u].state = flow[t].state => u = t

(* A row has the time of the last use, or its bump is still to run. *)
UseInv ==
    /\ ended \subseteq DOMAIN minted /\ DOMAIN sessions \intersect ended = {}
    /\ \A e \in touches : e.at <= used[e.id]
    /\ \A i \in DOMAIN sessions \ reordered :
          sessions[i].last_used = used[i] \/ [id |-> i, at |-> used[i]] \in touches

(* Signing in after a logout goes through the chooser from the start. *)
ReturnInv ==
    /\ \A b \in Browser : signedOut[b] => marker[b]
    /\ \A t \in Tab : flow[t].step \in {"google", "exchange", "mint", "respond"}
                      /\ signedOut[BrowserOf[t]] => flow[t].chooser \/ flow[t].late

(* What an approval under way will write is what the token has. *)
Approval == [step : {"none", "create", "mark"}, login : Login \union {None},
             by : Account \union {None}, id : Tab \union {None}]

ApprovalInv ==
    /\ request \in [Login -> AuthorizationRow \union {None}]
    /\ token \in [Login -> TokenRow \union {None}]
    /\ approving \in [Tab -> Approval]
    /\ \A l \in Login : token[l] # None => request[l] # None
    /\ \A t \in Tab : approving[t].step # "none" =>
          /\ approving[t].login \in Login /\ approving[t].id \in Tab
          /\ request[approving[t].login] # None
    /\ \A t \in Tab : approving[t].step = "mark" =>
          LET k == token[approving[t].login]
          IN  k # None /\ k.id = approving[t].id /\ k.email = approving[t].by
    /\ ApprovalNamesItsToken /\ TokensAreAnnounced

SignInInv == Typed /\ TokensInv /\ UseInv /\ ReturnInv /\ ApprovalInv

----------------------------------------------------------------------------
(* Spending leaves the other bounds, and its own a number. *)
LEMMA SpendKeeps ==
    ASSUME left \in Bounds, NEW w \in {"requests", "logouts", "duplicates", "faults", "logins"},
           Spend(w)
    PROVE  left' \in Bounds /\ left'.starts = left.starts /\ left'.tabs = left.tabs
BY DEF Spend, Bounds

LEMMA SpendStart ==
    ASSUME left \in Bounds, Spend("starts")
    PROVE  left' \in Bounds /\ left.starts > 0 /\ left'.starts = left.starts - 1
BY DEF Spend, Bounds

LEMMA RestrictIs ==
    ASSUME NEW f, NEW S
    PROVE  /\ DOMAIN Restrict(f, S) = S
           /\ \A x \in S : Restrict(f, S)[x] = f[x]
BY Zenon DEF Restrict

(* The id CallbackMint takes is new. *)
LEMMA NextId ==
    ASSUME Typed
    PROVE  /\ Cardinality(DOMAIN minted) \in Nat
           /\ DOMAIN minted = 1..Cardinality(DOMAIN minted)
<1>1. PICK n \in Nat : DOMAIN minted = 1..n
  BY Zenon DEF Typed
<1>2. Cardinality(1..n) = n
  BY FS_Interval
<1> QED
  BY Zenon, <1>1, <1>2

(* extract, in any request: a bump of the session it was made on. *)
LEMMA ExtractKeeps ==
    ASSUME Typed, NEW b \in Browser, extract(b)
    PROVE  /\ DOMAIN used' = DOMAIN used
           /\ cookie[b] \in DOMAIN sessions /\ cookie[b] \in DOMAIN used
           /\ used'[cookie[b]] = now
           /\ \A i \in DOMAIN used : i # cookie[b] => used'[i] = used[i]
           /\ touches' = touches \union {[id |-> cookie[b], at |-> now]}
BY Zenon DEF Typed, extract, bump, Authenticated

----------------------------------------------------------------------------
LEMMA TypedStep == SignInAssumption /\ Typed /\ [CliNext]_allVars => Typed'
<1> SUFFICES ASSUME SignInAssumption, Typed, [CliNext]_allVars PROVE Typed'
  BY Zenon
<1>a. left.tabs \subseteq Tab /\ BrowserOf \in [Tab -> Browser] /\ HardCap \in Nat
  BY Zenon DEF SignInAssumption, Typed, Bounds
<1>b. NoFlow \in Flow
  BY Zenon DEF NoFlow, Flow
<1>c. ASSUME NEW t \in Tab, NEW f \in Flow PROVE [flow EXCEPT ![t] = f] \in [Tab -> Flow]
  BY Zenon DEF Typed
<1>d. ASSUME NEW t \in Tab, NEW s \in {"exchange", "leaving"}, Goto(t, s) PROVE flow' \in [Tab -> Flow]
  <2>1. [flow[t] EXCEPT !.step = s] \in Flow
    BY ZenonT(40) DEF Typed, Flow
  <2> QED
    BY Zenon, <1>c, <1>d, <2>1 DEF Goto
<1>1. ASSUME NEW t \in Tab, auth_start(t) PROVE Typed'
  <2>1. left' \in Bounds /\ left.starts \in Nat
    BY Zenon, <1>1, SpendStart DEF auth_start, Typed, Bounds
  <2>2. DOMAIN pending' \subseteq Nat
    <3>1. pending' = Put(pending, left.starts, now)
      BY Zenon, <1>1 DEF auth_start
    <3>2. DOMAIN pending' = DOMAIN pending \union {left.starts}
      BY Zenon, <3>1 DEF Put
    <3> QED
      BY Zenon, <2>1, <3>2 DEF Typed
  <2>3. marker[BrowserOf[t]] \in BOOLEAN /\ marker' \in [Browser -> BOOLEAN]
    BY Zenon, <1>1, <1>a DEF auth_start, marker_after_start, Typed
  <2>4. [NoFlow EXCEPT !.step = "google", !.state = left.starts, !.chooser = marker[BrowserOf[t]]]
          \in Flow
    BY Zenon, <2>1, <2>3 DEF NoFlow, Flow
  <2>5. flow' \in [Tab -> Flow]
    BY Zenon, <1>1, <2>4, <1>c DEF auth_start
  <2> QED
    BY Zenon, <1>1, <2>1, <2>2, <2>3, <2>5 DEF auth_start, Typed, ghosts
<1>2. ASSUME NEW t \in Tab, BackOut(t) PROVE Typed'
  <2>1. flow' \in [Tab -> Flow]
    BY Zenon, <1>2, <1>b, <1>c DEF BackOut, Leave
  <2> QED
    BY Zenon, <1>2, <2>1 DEF BackOut, Typed, store, jar, ghosts
<1>3. ASSUME NEW t \in Tab, NEW u \in Tab, Duplicate(t, u) PROVE Typed'
  <2>1. flow' \in [Tab -> Flow] /\ left' \in Bounds
    BY Zenon, <1>3, <1>c, SpendKeeps DEF Duplicate, Typed
  <2> QED
    BY Zenon, <1>3, <2>1 DEF Duplicate, Typed, store, jar, ghosts
<1>4. ASSUME NEW t \in Tab, CallbackConsume(t) PROVE Typed'
  <2>1. flow' \in [Tab -> Flow]
    BY <1>4, <1>b, <1>c, <1>d DEF CallbackConsume, Leave
  <2>2. DOMAIN pending' \subseteq Nat
    BY <1>4, RestrictIs DEF CallbackConsume, consume, Typed
  <2> QED
    BY Zenon, <1>4, <2>1, <2>2 DEF CallbackConsume, Typed, jar, ghosts
<1>5. ASSUME NEW t \in Tab, CallbackExchange(t) PROVE Typed'
  <2>1. \A a \in Account : [flow[t] EXCEPT !.step = "mint", !.account = a] \in Flow
    BY Zenon DEF Typed, Flow
  <2>2. flow' \in [Tab -> Flow]
    BY Zenon, <1>5, <2>1, <1>b, <1>c DEF CallbackExchange, Leave
  <2>3. left' \in Bounds
    BY Zenon, <1>5, SpendKeeps DEF CallbackExchange, Fault, Typed
  <2> QED
    BY Zenon, <1>5, <2>2, <2>3 DEF CallbackExchange, Typed, store, jar, ghosts
<1>6. ASSUME NEW t \in Tab, CallbackMint(t) PROVE Typed'
  <2> DEFINE id == Cardinality(DOMAIN minted) + 1
             row == [email |-> flow[t].account, last_used |-> now, expires |-> now + HardCap]
  <2>1. /\ id \in Nat /\ DOMAIN minted = 1..(id - 1) /\ DOMAIN minted \union {id} = 1..id
        /\ flow[t].state \in Nat /\ row \in Row
    <3>1. flow[t] \in Flow /\ now \in Nat
      BY Zenon DEF Typed
    <3> QED
      BY <3>1, <1>a, NextId DEF Flow, Row
  <2>2. CASE /\ sessions' = Put(sessions, id, row) /\ minted' = Put(minted, id, flow[t].state)
             /\ used' = Put(used, id, now) /\ left' = left
             /\ flow' = [flow EXCEPT ![t].step = "respond", ![t].id = id]
    <3> HIDE DEF id, row
    <3>1. flow' \in [Tab -> Flow]
      <4>1. [[flow[t] EXCEPT !.step = "respond"] EXCEPT !.id = id] \in Flow
        BY ZenonT(40), <2>1 DEF Typed, Flow
      <4> QED
        BY Zenon, <2>2, <4>1 DEF Typed
    <3>p. /\ DOMAIN minted' = DOMAIN minted \union {id} /\ minted'[id] = flow[t].state
          /\ \A i \in DOMAIN minted : i # id => minted'[i] = minted[i]
      BY Zenon, <2>2 DEF Put
    <3>q. /\ DOMAIN sessions' = DOMAIN sessions \union {id} /\ sessions'[id] = row
          /\ \A i \in DOMAIN sessions : i # id => sessions'[i] = sessions[i]
      BY Zenon, <2>2 DEF Put
    <3>r. /\ DOMAIN used' = DOMAIN used \union {id} /\ used'[id] = now
          /\ \A i \in DOMAIN used : i # id => used'[i] = used[i]
      BY Zenon, <2>2 DEF Put
    <3>2. DOMAIN minted' = 1..id /\ \A i \in DOMAIN minted' : minted'[i] \in Nat
      BY Zenon, <2>1, <3>p DEF Typed
    <3>3. DOMAIN sessions' \subseteq DOMAIN minted' /\ \A i \in DOMAIN sessions' : sessions'[i] \in Row
      BY Zenon, <2>1, <3>p, <3>q DEF Typed
    <3>4. DOMAIN used' = DOMAIN minted' /\ \A i \in DOMAIN used' : used'[i] \in Nat /\ used'[i] <= now
      BY <2>1, <3>p, <3>r DEF Typed
    <3>5. \A e \in touches : e \in [id : DOMAIN minted', at : Nat]
      BY Zenon, <2>1, <3>2 DEF Typed
    <3> QED
      BY Zenon, <1>6, <2>1, <2>2, <3>1, <3>2, <3>3, <3>4, <3>5 DEF CallbackMint, Typed, jar
  <2>3. CASE Fault /\ Leave(t) /\ UNCHANGED <<sessions, minted, used>>
    <3>1. flow' \in [Tab -> Flow] /\ left' \in Bounds
      BY Zenon, <2>3, <1>b, <1>c, SpendKeeps DEF Leave, Fault, Typed
    <3> QED
      BY Zenon, <1>6, <2>3, <3>1 DEF CallbackMint, Typed, jar
  <2> QED
    BY Zenon, <1>6, <2>2, <2>3 DEF CallbackMint
<1>7. ASSUME NEW t \in Tab, CallbackRespond(t) PROVE Typed'
  <2>1. flow' \in [Tab -> Flow]
    BY Zenon, <1>7, <1>b, <1>c DEF CallbackRespond, Leave
  <2>2. marker' \in [Browser -> BOOLEAN] /\ signedOut' \in [Browser -> BOOLEAN]
    BY Zenon, <1>7, <1>a DEF CallbackRespond, Typed
  <2> QED
    BY Zenon, <1>7, <2>1, <2>2 DEF CallbackRespond, Typed, store
<1>8. ASSUME NEW b \in Browser, extract(b), left' \in Bounds,
             UNCHANGED <<now, store, marker, flow, minted, signedOut>>
      PROVE  Typed'
  <2>0. /\ DOMAIN used' = DOMAIN used
        /\ cookie[b] \in DOMAIN sessions /\ cookie[b] \in DOMAIN used
        /\ used'[cookie[b]] = now
        /\ \A i \in DOMAIN used : i # cookie[b] => used'[i] = used[i]
        /\ touches' = touches \union {[id |-> cookie[b], at |-> now]}
    BY Zenon, <1>8, ExtractKeeps
  <2>1. /\ DOMAIN used' = DOMAIN minted
        /\ \A i \in DOMAIN used' : used'[i] \in Nat /\ used'[i] <= now
    <3>1. /\ DOMAIN used = DOMAIN minted /\ now \in Nat /\ now <= now
          /\ \A i \in DOMAIN used : used[i] \in Nat /\ used[i] <= now
      BY DEF Typed
    <3> QED
      BY Zenon, <2>0, <3>1
  <2>2. [id |-> cookie[b], at |-> now] \in [id : DOMAIN minted, at : Nat]
    BY Zenon, <1>8, <2>0 DEF Typed
  <2>3. \A e \in touches' : e \in [id : DOMAIN minted, at : Nat]
    BY Zenon, <2>0, <2>2 DEF Typed
  <2> QED
    BY Zenon, <1>8, <2>1, <2>3 DEF Typed, store
<1>9. ASSUME NEW t \in Tab, UseSession(t) PROVE Typed'
  BY Zenon, <1>9, <1>8, <1>a, SpendKeeps DEF UseSession, jar, Typed
<1>10. ASSUME NEW e \in touches, Touch(e) PROVE Typed'
  <2>1. left' \in Bounds
    BY Zenon, <1>10, SpendKeeps DEF Touch, Fault, Typed
  <2>2. DOMAIN sessions' = DOMAIN sessions /\ \A i \in DOMAIN sessions' : sessions'[i] \in Row
    <3>1. e.at \in Nat
      BY Zenon DEF Typed
    <3>2. \A r \in Row : [r EXCEPT !.last_used = e.at] \in Row
      BY Zenon, <3>1 DEF Row
    <3> QED
      BY Zenon, <1>10, <3>2 DEF Touch, touch_last_used, Typed
  <2>3. \A x \in touches' : x \in touches
    BY Zenon, <1>10 DEF Touch
  <2> QED
    BY Zenon, <1>10, <2>1, <2>2, <2>3 DEF Touch, Typed, jar
<1>11. ASSUME NEW t \in Tab, LogoutDelete(t) PROVE Typed'
  <2>1. flow' \in [Tab -> Flow] /\ left' \in Bounds
    BY Zenon, <1>11, <1>d, SpendKeeps DEF LogoutDelete, Fault, Typed
  <2>2. DOMAIN sessions' \subseteq DOMAIN sessions
        /\ \A i \in DOMAIN sessions' : sessions'[i] = sessions[i]
    BY <1>11, RestrictIs DEF LogoutDelete
  <2>3. DOMAIN sessions' \subseteq DOMAIN minted /\ \A i \in DOMAIN sessions' : sessions'[i] \in Row
    BY Zenon, <2>2 DEF Typed
  <2> QED
    BY Zenon, <1>11, <2>1, <2>3 DEF LogoutDelete, Typed, jar
<1>12. ASSUME NEW t \in Tab, LogoutRespond(t) PROVE Typed'
  <2>1. \A u \in Tab : [flow[u] EXCEPT !.late = TRUE] \in Flow
    BY ZenonT(40) DEF Typed, Flow
  <2>2. flow' \in [Tab -> Flow]
    BY Zenon, <1>12, <2>1, <1>b DEF LogoutRespond, Typed
  <2>3. marker' \in [Browser -> BOOLEAN] /\ signedOut' \in [Browser -> BOOLEAN]
    BY Zenon, <1>12, <1>a DEF LogoutRespond, Typed
  <2> QED
    BY Zenon, <1>12, <2>2, <2>3 DEF LogoutRespond, Typed, store
<1>13. ASSUME NEW b \in Browser, MarkerExpires(b) PROVE Typed'
  BY Zenon, <1>13 DEF MarkerExpires, Typed, store
<1>14. CASE sweep_once
  <2>1. left' \in Bounds
    BY Zenon, <1>14, SpendKeeps DEF sweep_once, Fault, Typed
  <2>2. DOMAIN sessions' \subseteq DOMAIN sessions
        /\ \A i \in DOMAIN sessions' : sessions'[i] = sessions[i]
    BY <1>14, RestrictIs DEF sweep_once
  <2>3. DOMAIN sessions' \subseteq DOMAIN minted /\ \A i \in DOMAIN sessions' : sessions'[i] \in Row
    BY Zenon, <2>2 DEF Typed
  <2>4. DOMAIN pending' \subseteq Nat
    BY <1>14, RestrictIs DEF sweep_once, Typed
  <2> QED
    BY Zenon, <1>14, <2>1, <2>3, <2>4 DEF sweep_once, Typed, jar, ghosts
<1>15. CASE Tick
  <2>1. now' \in Nat /\ \A i \in DOMAIN used : used[i] <= now'
    BY <1>15 DEF Tick, Typed
  <2> QED
    BY Zenon, <1>15, <2>1 DEF Tick, Typed, store, jar, ghosts
<1>16. CASE Restart
  <2>1. flow' \in [Tab -> Flow] /\ left' \in Bounds
    BY Zenon, <1>16, <1>b, SpendKeeps DEF Restart, ServerRestart, Fault, Typed
  <2> QED
    BY Zenon, <1>16, <2>1 DEF Restart, ServerRestart, Typed, store, jar
<1>17. ASSUME NEW l \in Login, cli_auth_start(l) PROVE Typed'
  <2>1. left' \in Bounds
    BY Zenon, <1>17, SpendKeeps DEF cli_auth_start, Typed
  <2> QED
    BY Zenon, <1>17, <2>1 DEF cli_auth_start, Typed, store, jar, ghosts
<1>18. ASSUME NEW l \in Login, poll_login(l) PROVE Typed'
  <2>1. left' \in Bounds
    BY Zenon, <1>18, SpendKeeps DEF poll_login, Fault, Typed
  <2> QED
    BY Zenon, <1>18, <2>1 DEF poll_login, Typed, store, jar, ghosts
<1>19. ASSUME NEW l \in Login, CliLogout(l) \/ CliLogoutLocal(l) PROVE Typed'
  BY Zenon, <1>19 DEF CliLogout, CliLogoutLocal, Typed, signInVars, store, jar, ghosts
<1>20. ASSUME NEW t \in Tab, NEW l \in Login, ApproveLoad(t, l) PROVE Typed'
  BY Zenon, <1>20, <1>8, <1>a DEF ApproveLoad, jar, Typed
<1>21. ASSUME NEW t \in Tab, ApproveCreate(t) \/ ApproveMark(t) PROVE Typed'
  <2>1. left' \in Bounds
    BY Zenon, <1>21, SpendKeeps DEF ApproveCreate, ApproveMark, Fault, Typed
  <2> QED
    BY Zenon, <1>21, <2>1 DEF ApproveCreate, ApproveMark, Typed, store, jar, ghosts
<1>22. CASE UNCHANGED allVars
  BY Zenon, <1>22 DEF allVars, signInVars, Typed, store, jar, ghosts
<1> QED
  BY Zenon, <1>1, <1>2, <1>3, <1>4, <1>5, <1>6, <1>7, <1>9, <1>10, <1>11, <1>12, <1>13,
     <1>14, <1>15,
     <1>16, <1>17, <1>18, <1>19, <1>20, <1>21, <1>22, <1>a DEF CliNext, SignInStep

----------------------------------------------------------------------------
(* State tokens: auth_start stores a new one, one CallbackConsume takes    *)
(* it, CallbackMint makes its session, and every other step leaves the     *)
(* three places alone or forgets.                                          *)
LEMMA TokensStep == SignInAssumption /\ Typed /\ Typed' /\ TokensInv /\ [CliNext]_allVars => TokensInv'
<1> SUFFICES ASSUME SignInAssumption, Typed, Typed', TokensInv, [CliNext]_allVars PROVE TokensInv'
  BY Zenon
<1>a. /\ left.tabs \subseteq Tab /\ left \in Bounds /\ left.starts \in Nat
      /\ \A t \in Tab : flow[t] \in Flow /\ flow[t].state \in Nat
      /\ DOMAIN pending \subseteq Nat /\ \A i \in DOMAIN minted : minted[i] \in Nat
  BY Zenon DEF Typed, Bounds, Flow
<1>b. /\ IsInjective(minted)
      /\ \A s \in DOMAIN pending : s > left.starts
      /\ \A i \in DOMAIN minted : minted[i] > left.starts /\ minted[i] \notin DOMAIN pending
      /\ \A t \in Tab : flow[t].step = "google" \/ Serving(t) => flow[t].state > left.starts
      /\ \A t \in Tab : Serving(t) =>
            /\ flow[t].state \notin DOMAIN pending
            /\ \A i \in DOMAIN minted : minted[i] # flow[t].state
            /\ \A u \in Tab : Serving(u) /\ flow[u].state = flow[t].state => u = t
  BY Zenon DEF TokensInv
(* Steps that serve no token they did not serve before. *)
<1>1. ASSUME left'.starts = left.starts, DOMAIN pending' \subseteq DOMAIN pending, minted' = minted,
             \A t \in Tab :
                \/ flow'[t].step \notin {"google", "exchange", "mint"}
                \/ flow'[t].state = flow[t].state
                   /\ (flow'[t].step = "google" => flow[t].step = "google")
                   /\ (Serving(t)' => Serving(t))
      PROVE  TokensInv'
  BY <1>1, <1>b DEF TokensInv, Serving
<1>2. ASSUME NEW t \in Tab, auth_start(t) PROVE TokensInv'
  <2>1. left.starts > 0 /\ left'.starts = left.starts - 1
    BY Zenon, <1>2, <1>a, SpendStart DEF auth_start
  <2>2. DOMAIN pending' = DOMAIN pending \union {left.starts} /\ minted' = minted
    BY Zenon, <1>2 DEF auth_start, Put, ghosts
  <2>3. flow'[t].step = "google" /\ flow'[t].state = left.starts
        /\ \A u \in Tab \ {t} : flow'[u] = flow[u]
    BY Zenon, <1>2 DEF auth_start, Typed, NoFlow
  <2>4. \A n \in Nat : n > left.starts => n > left'.starts /\ n # left.starts
    BY <2>1, <1>a
  <2>5. left.starts > left'.starts
    BY <2>1, <1>a
  <2>6. \A s \in DOMAIN pending' : s > left'.starts
    BY Zenon, <2>2, <2>4, <2>5, <1>a, <1>b
  <2>7. \A i \in DOMAIN minted' : minted'[i] > left'.starts /\ minted'[i] \notin DOMAIN pending'
    BY Zenon, <2>2, <2>4, <1>a, <1>b
  <2>8. \A u \in Tab : flow'[u].step = "google" \/ Serving(u)' => flow'[u].state > left'.starts
    BY Zenon, <2>3, <2>4, <2>5, <1>a, <1>b DEF Serving
  <2>9. \A u \in Tab : Serving(u)' => u # t /\ Serving(u) /\ flow'[u] = flow[u]
    BY Zenon, <2>3 DEF Serving
  <2>10. \A u \in Tab : Serving(u)' => flow'[u].state \notin DOMAIN pending'
    BY Zenon, <2>2, <2>4, <2>9, <1>a, <1>b
  <2>11. \A u \in Tab : Serving(u)' =>
            /\ \A i \in DOMAIN minted' : minted'[i] # flow'[u].state
            /\ \A v \in Tab : Serving(v)' /\ flow'[v].state = flow'[u].state => v = u
    BY Zenon, <2>2, <2>9, <1>b
  <2> QED
    BY Zenon, <2>2, <2>6, <2>7, <2>8, <2>10, <2>11, <1>b DEF TokensInv
<1>3. ASSUME NEW t \in Tab, NEW u \in Tab, Duplicate(t, u) PROVE TokensInv'
  <2>1. /\ left'.starts = left.starts /\ UNCHANGED <<pending, minted>>
        /\ flow[t].step = "google" /\ flow'[u] = flow[t]
        /\ \A v \in Tab \ {u} : flow'[v] = flow[v]
    BY Zenon, <1>3, <1>a, SpendKeeps DEF Duplicate, At, Typed, store, ghosts
  <2>2. \A v \in Tab : Serving(v)' => v # u /\ Serving(v) /\ flow'[v] = flow[v]
    BY Zenon, <2>1 DEF Serving
  <2>3. \A v \in Tab : flow'[v].step = "google" \/ Serving(v)' => flow'[v].state > left'.starts
    BY Zenon, <2>1, <1>b DEF Serving
  <2> QED
    BY Zenon, <2>1, <2>2, <2>3, <1>b DEF TokensInv
<1>4. ASSUME NEW t \in Tab, CallbackConsume(t) PROVE TokensInv'
  <2>1. CASE flow[t].state \in DOMAIN pending
    <3>1. /\ flow[t].step = "google" /\ UNCHANGED <<left, minted>>
          /\ DOMAIN pending' = DOMAIN pending \ {flow[t].state}
          /\ flow'[t].step = "exchange" /\ flow'[t].state = flow[t].state
          /\ \A u \in Tab \ {t} : flow'[u] = flow[u]
      BY <1>4, <2>1, <1>a, RestrictIs
         DEF CallbackConsume, consume, Goto, At, Typed, Flow, ghosts
    <3>2. \A u \in Tab : u # t /\ Serving(u)' => Serving(u) /\ flow'[u] = flow[u]
      BY Zenon, <3>1 DEF Serving
    <3>3. \A u \in Tab : Serving(u) => flow[u].state # flow[t].state
      BY Zenon, <2>1, <1>b
    <3>4. \A u \in Tab : flow'[u].step = "google" \/ Serving(u)' => flow'[u].state > left'.starts
      BY Zenon, <3>1, <1>b DEF Serving
    <3>5. \A u \in Tab : Serving(u)' =>
            /\ flow'[u].state \notin DOMAIN pending'
            /\ \A i \in DOMAIN minted' : minted'[i] # flow'[u].state
      BY <3>1, <3>2, <2>1, <1>b
    <3>6. \A u, v \in Tab : Serving(u)' /\ Serving(v)' /\ flow'[v].state = flow'[u].state => v = u
      BY <3>1, <3>2, <3>3, <1>b
    <3> QED
      BY Zenon, <3>1, <3>4, <3>5, <3>6, <1>b DEF TokensInv
  <2>2. CASE flow[t].state \notin DOMAIN pending
    <3>1. UNCHANGED <<left, pending, minted>> /\ flow'[t].step = "idle"
          /\ \A u \in Tab \ {t} : flow'[u] = flow[u]
      BY <1>4, <2>2 DEF CallbackConsume, Leave, NoFlow, Typed, ghosts
    <3> QED
      BY Zenon, <3>1, <1>1 DEF Serving
  <2> QED
    BY Zenon, <2>1, <2>2
<1>5. ASSUME NEW t \in Tab, CallbackExchange(t) PROVE TokensInv'
  <2>1. left'.starts = left.starts /\ UNCHANGED <<pending, minted>>
    BY Zenon, <1>5, <1>a, SpendKeeps DEF CallbackExchange, Fault, store, ghosts
  <2>2. \A a : [flow[t] EXCEPT !.step = "mint", !.account = a].step = "mint"
              /\ [flow[t] EXCEPT !.step = "mint", !.account = a].state = flow[t].state
    BY Zenon, <1>a DEF Flow
  <2>3. flow[t].step = "exchange" /\ (\A u \in Tab \ {t} : flow'[u] = flow[u])
        /\ (flow'[t].step = "idle" \/ (flow'[t].step = "mint" /\ flow'[t].state = flow[t].state))
    <3>1. flow[t].step = "exchange" /\ NoFlow.step = "idle"
      BY Zenon, <1>5 DEF CallbackExchange, At, NoFlow
    <3>2. ASSUME NEW a \in Account,
                 flow' = [flow EXCEPT ![t] = IF accepted(a)
                            THEN [@ EXCEPT !.step = "mint", !.account = a] ELSE NoFlow]
          PROVE  /\ \A u \in Tab \ {t} : flow'[u] = flow[u]
                 /\ \/ flow'[t].step = "idle"
                    \/ flow'[t].step = "mint" /\ flow'[t].state = flow[t].state
      <4>1. flow'[t] = IF accepted(a) THEN [flow[t] EXCEPT !.step = "mint", !.account = a] ELSE NoFlow
        BY Zenon, <3>2 DEF Typed
      <4> QED
        BY Zenon, <3>2, <4>1, <2>2, <3>1 DEF Typed
    <3>3. CASE Leave(t)
      BY Zenon, <3>1, <3>3 DEF Leave, Typed
    <3> QED
      BY Zenon, <1>5, <3>1, <3>2, <3>3 DEF CallbackExchange
  <2> QED
    BY Zenon, <2>1, <2>3, <1>1 DEF Serving
<1>6. ASSUME NEW t \in Tab, CallbackMint(t) PROVE TokensInv'
  <2> DEFINE id == Cardinality(DOMAIN minted) + 1
  <2>1. id \notin DOMAIN minted /\ flow[t].step = "mint"
    BY <1>6, NextId DEF CallbackMint, At
  <2>2. CASE /\ minted' = Put(minted, id, flow[t].state) /\ left' = left
             /\ flow' = [flow EXCEPT ![t].step = "respond", ![t].id = id]
    <3> HIDE DEF id
    <3>1. /\ DOMAIN minted' = DOMAIN minted \union {id} /\ minted'[id] = flow[t].state
          /\ \A i \in DOMAIN minted : minted'[i] = minted[i]
      BY Zenon, <2>1, <2>2 DEF Put
    <3>2. flow'[t].step = "respond" /\ (\A u \in Tab \ {t} : flow'[u] = flow[u]) /\ pending' = pending
      BY Zenon, <1>6, <2>2, <1>a DEF CallbackMint, Typed, Flow
    <3>3. Serving(t) /\ \A u \in Tab : Serving(u)' => u # t /\ Serving(u) /\ flow'[u] = flow[u]
      BY Zenon, <2>1, <3>2 DEF Serving
    <3>4. IsInjective(minted')
      BY <3>1, <3>3, <1>b DEF IsInjective
    <3>5. \A i \in DOMAIN minted' : minted'[i] > left.starts /\ minted'[i] \notin DOMAIN pending
      BY Zenon, <3>1, <3>3, <1>b
    <3>6. \A u \in Tab : flow'[u].step = "google" \/ Serving(u)' => flow'[u].state > left.starts
      BY Zenon, <3>2, <3>3, <1>b
    <3>7. \A u \in Tab : Serving(u)' =>
            /\ flow'[u].state \notin DOMAIN pending
            /\ \A i \in DOMAIN minted' : minted'[i] # flow'[u].state
      BY Zenon, <3>1, <3>3, <1>b
    <3>8. \A u, v \in Tab : Serving(u)' /\ Serving(v)' /\ flow'[v].state = flow'[u].state => v = u
      BY Zenon, <3>3, <1>b
    <3> QED
      BY Zenon, <2>2, <3>2, <3>4, <3>5, <3>6, <3>7, <3>8, <1>b DEF TokensInv
  <2>3. CASE Fault /\ Leave(t) /\ UNCHANGED <<sessions, minted, used>>
    <3>1. left'.starts = left.starts
      BY Zenon, <2>3, <1>a, SpendKeeps DEF Fault
    <3> QED
      BY Zenon, <1>6, <2>3, <3>1, <1>1 DEF CallbackMint, Leave, NoFlow, Typed, Serving
  <2> QED
    BY Zenon, <1>6, <2>2, <2>3 DEF CallbackMint
<1>7. ASSUME NEW t \in Tab, BackOut(t) \/ CallbackRespond(t) PROVE TokensInv'
  BY <1>7, <1>1 DEF BackOut, CallbackRespond, Leave, NoFlow, Typed, Serving, store, ghosts
<1>8. ASSUME NEW t \in Tab, LogoutDelete(t) PROVE TokensInv'
  <2>1. left'.starts = left.starts
    BY Zenon, <1>8, <1>a, SpendKeeps DEF LogoutDelete, Fault
  <2>2. flow'[t].step = "leaving" /\ \A u \in Tab \ {t} : flow'[u] = flow[u]
    BY Zenon, <1>8, <1>a DEF LogoutDelete, Goto, Typed, Flow
  <2> QED
    BY Zenon, <1>8, <2>1, <2>2, <1>1 DEF LogoutDelete, Serving
<1>9. ASSUME NEW t \in Tab, LogoutRespond(t) PROVE TokensInv'
  <2>1. \A u \in Tab : flow'[u].step = "idle" \/ (flow'[u].step = flow[u].step
                                                  /\ flow'[u].state = flow[u].state)
    BY Zenon, <1>9, <1>a DEF LogoutRespond, NoFlow, Flow
  <2> QED
    BY Zenon, <1>9, <2>1, <1>1 DEF LogoutRespond, Serving, store
<1>10. CASE sweep_once
  <2>1. left'.starts = left.starts
    BY Zenon, <1>10, <1>a, SpendKeeps DEF sweep_once, Fault
  <2>2. DOMAIN pending' \subseteq DOMAIN pending
    BY <1>10, RestrictIs DEF sweep_once
  <2> QED
    BY Zenon, <1>10, <2>1, <2>2, <1>1 DEF sweep_once, Serving, ghosts
<1>11. CASE Restart
  <2>1. left'.starts = left.starts
    BY Zenon, <1>11, <1>a, SpendKeeps DEF Restart, ServerRestart, Fault
  <2>2. \A u \in Tab : flow'[u].step = "idle" \/ flow'[u] = flow[u]
    BY Zenon, <1>11 DEF Restart, ServerRestart, NoFlow
  <2> QED
    BY Zenon, <1>11, <2>1, <2>2, <1>1 DEF Restart, ServerRestart, Serving, store
(* The other steps touch neither tokens nor flows. *)
<1>12. ASSUME left'.starts = left.starts, UNCHANGED <<pending, minted, flow>> PROVE TokensInv'
  BY Zenon, <1>12, <1>1 DEF Serving
<1>13. ASSUME NEW t \in Tab, UseSession(t) PROVE TokensInv'
  BY Zenon, <1>13, <1>12, <1>a, SpendKeeps DEF UseSession, store
<1>14. ASSUME NEW e \in touches, Touch(e) PROVE TokensInv'
  BY Zenon, <1>14, <1>12, <1>a, SpendKeeps DEF Touch, Fault
<1>15. ASSUME NEW b \in Browser, MarkerExpires(b) PROVE TokensInv'
  BY Zenon, <1>15, <1>12 DEF MarkerExpires, store
<1>16. ASSUME NEW l \in Login, cli_auth_start(l) PROVE TokensInv'
  BY Zenon, <1>16, <1>12, <1>a, SpendKeeps DEF cli_auth_start, store, ghosts
<1>17. ASSUME NEW l \in Login, poll_login(l) PROVE TokensInv'
  BY Zenon, <1>17, <1>12, <1>a, SpendKeeps DEF poll_login, Fault, store, ghosts
<1>18. ASSUME NEW l \in Login, CliLogout(l) \/ CliLogoutLocal(l) PROVE TokensInv'
  BY Zenon, <1>18, <1>12 DEF CliLogout, CliLogoutLocal, signInVars, store, ghosts
<1>19. ASSUME NEW t \in Tab, NEW l \in Login, ApproveLoad(t, l) PROVE TokensInv'
  BY Zenon, <1>19, <1>12 DEF ApproveLoad, store
<1>20. ASSUME NEW t \in Tab, ApproveCreate(t) \/ ApproveMark(t) PROVE TokensInv'
  BY Zenon, <1>20, <1>12, <1>a, SpendKeeps
     DEF ApproveCreate, ApproveMark, Fault, store, ghosts
<1>21. CASE Tick \/ UNCHANGED allVars
  BY Zenon, <1>21, <1>12 DEF Tick, allVars, signInVars, store, ghosts
<1> QED
  BY Zenon, <1>2, <1>3, <1>4, <1>5, <1>6, <1>7, <1>8, <1>9, <1>10, <1>11, <1>13, <1>14,
     <1>15, <1>16,
     <1>17, <1>18, <1>19, <1>20, <1>21, <1>a DEF CliNext, SignInStep

----------------------------------------------------------------------------
(* Rows and bumps: a bump that lands either carries the last use, or its   *)
(* row is already noted as overtaken, or the newest bump is still to run.  *)
LEMMA UseStep == SignInAssumption /\ Typed /\ Typed' /\ UseInv /\ [CliNext]_allVars => UseInv'
<1> SUFFICES ASSUME SignInAssumption, Typed, Typed', UseInv, [CliNext]_allVars PROVE UseInv'
  BY Zenon
<1>a. /\ left.tabs \subseteq Tab /\ BrowserOf \in [Tab -> Browser]
      /\ DOMAIN sessions \subseteq DOMAIN minted /\ DOMAIN used = DOMAIN minted /\ now \in Nat
      /\ \A i \in DOMAIN used : used[i] \in Nat /\ used[i] <= now
      /\ \A i \in DOMAIN sessions : sessions[i] \in Row
      /\ \A e \in touches : e \in [id : DOMAIN minted, at : Nat]
  BY Zenon DEF SignInAssumption, Typed, Bounds
<1>b. /\ ended \subseteq DOMAIN minted /\ DOMAIN sessions \intersect ended = {}
      /\ \A e \in touches : e.at <= used[e.id]
      /\ \A i \in DOMAIN sessions \ reordered :
            sessions[i].last_used = used[i] \/ [id |-> i, at |-> used[i]] \in touches
  BY Zenon DEF UseInv
(* Steps that only drop rows. *)
<1>1. ASSUME UNCHANGED <<minted, used, touches, reordered>>,
             DOMAIN sessions' \subseteq DOMAIN sessions,
             \A i \in DOMAIN sessions' : sessions'[i] = sessions[i],
             ended' \subseteq ended \union (DOMAIN sessions \ DOMAIN sessions')
      PROVE  UseInv'
  BY Zenon, <1>1, <1>a, <1>b DEF UseInv
<1>2. ASSUME NEW t \in Tab, LogoutDelete(t) PROVE UseInv'
  BY <1>2, <1>1, RestrictIs DEF LogoutDelete
<1>3. CASE sweep_once
  BY <1>3, <1>1, RestrictIs DEF sweep_once, ghosts
<1>4. ASSUME UNCHANGED <<minted, used, touches, reordered, sessions, ended>> PROVE UseInv'
  BY Zenon, <1>4, <1>1
<1>5. ASSUME NEW t \in Tab, CallbackMint(t) PROVE UseInv'
  <2> DEFINE id == Cardinality(DOMAIN minted) + 1
             row == [email |-> flow[t].account, last_used |-> now, expires |-> now + HardCap]
  <2>1. id \notin DOMAIN minted
    BY NextId
  <2>2. CASE /\ sessions' = Put(sessions, id, row) /\ minted' = Put(minted, id, flow[t].state)
             /\ used' = Put(used, id, now)
    <3>0. row.last_used = now
      BY Zenon
    <3> HIDE DEF id, row
    <3>1. /\ DOMAIN minted' = DOMAIN minted \union {id}
          /\ DOMAIN sessions' = DOMAIN sessions \union {id} /\ sessions'[id] = row
          /\ \A i \in DOMAIN sessions : i # id => sessions'[i] = sessions[i]
          /\ used'[id] = now /\ \A i \in DOMAIN used : i # id => used'[i] = used[i]
      BY Zenon, <2>2 DEF Put
    <3>2. UNCHANGED <<touches, ended, reordered>>
      BY Zenon, <1>5 DEF CallbackMint
    <3>3. \A e \in touches : e.id \in DOMAIN used /\ e.id # id
      BY Zenon, <2>1, <1>a
    <3>4. \A e \in touches' : e.at <= used'[e.id]
      BY Zenon, <3>1, <3>2, <3>3, <1>b
    <3>5. ended' \subseteq DOMAIN minted' /\ DOMAIN sessions' \intersect ended' = {}
      BY Zenon, <2>1, <3>1, <3>2, <1>b
    <3>6. \A i \in DOMAIN sessions' \ reordered' :
            sessions'[i].last_used = used'[i] \/ [id |-> i, at |-> used'[i]] \in touches'
      BY Zenon, <2>1, <3>0, <3>1, <3>2, <1>a, <1>b
    <3> QED
      BY Zenon, <3>4, <3>5, <3>6 DEF UseInv
  <2>3. CASE UNCHANGED <<sessions, minted, used>>
    BY Zenon, <1>5, <2>3, <1>4 DEF CallbackMint
  <2> QED
    BY Zenon, <1>5, <2>2, <2>3 DEF CallbackMint
<1>6. ASSUME NEW b \in Browser, extract(b), UNCHANGED <<sessions, minted, ended, reordered>>
      PROVE  UseInv'
  <2>1. /\ cookie[b] \in DOMAIN used
        /\ used'[cookie[b]] = now
        /\ \A i \in DOMAIN used : i # cookie[b] => used'[i] = used[i]
        /\ touches' = touches \union {[id |-> cookie[b], at |-> now]}
    BY Zenon, <1>6, ExtractKeeps
  <2>2. \A e \in touches' : e.at <= used'[e.id]
    <3> SUFFICES ASSUME NEW e \in touches' PROVE e.at <= used'[e.id]
      BY Zenon
    <3>1. CASE e = [id |-> cookie[b], at |-> now]
      BY <3>1, <2>1, <1>a
    <3>2. CASE e \in touches
      <4>1. e.id \in DOMAIN used /\ e.at \in Nat /\ used[e.id] \in Nat /\ used[e.id] <= now
            /\ e.at <= used[e.id]
        BY Zenon, <3>2, <1>a, <1>b
      <4> QED
        BY <4>1, <2>1, <1>a
    <3> QED
      BY Zenon, <3>1, <3>2, <2>1
  <2>3. \A i \in DOMAIN sessions \ reordered :
          sessions[i].last_used = used'[i] \/ [id |-> i, at |-> used'[i]] \in touches'
    BY Zenon, <2>1, <1>a, <1>b
  <2> QED
    BY Zenon, <1>6, <2>2, <2>3, <1>b DEF UseInv
<1>7. ASSUME NEW t \in Tab, UseSession(t) PROVE UseInv'
  BY Zenon, <1>7, <1>6, <1>a DEF UseSession, store
<1>8. ASSUME NEW t \in Tab, NEW l \in Login, ApproveLoad(t, l) PROVE UseInv'
  BY Zenon, <1>8, <1>6, <1>a DEF ApproveLoad, store
<1>9. ASSUME NEW e \in touches, Touch(e) PROVE UseInv'
  <2>0. /\ touches' = touches \ {e} /\ UNCHANGED <<minted, ended, used>>
        /\ e.at \in Nat /\ e.id \in DOMAIN used /\ used[e.id] \in Nat /\ e.at <= used[e.id]
        /\ e = [id |-> e.id, at |-> e.at]
    BY Zenon, <1>9, <1>a, <1>b DEF Touch
  <2>1. CASE sessions' = sessions /\ reordered' = reordered \union {e.id}
    <3>1. \A i \in DOMAIN sessions \ reordered' : [id |-> i, at |-> used[i]] # e
      BY <2>1, <2>0
    <3> QED
      BY Zenon, <2>0, <2>1, <3>1, <1>a, <1>b DEF UseInv
  <2>2. CASE /\ sessions' = touch_last_used(e.id, e.at)
             /\ reordered' = IF e.id \in DOMAIN sessions /\ e.at < sessions[e.id].last_used
                             THEN reordered \union {e.id} ELSE reordered
    <3>1. DOMAIN sessions' = DOMAIN sessions
          /\ \A i \in DOMAIN sessions : i # e.id => sessions'[i] = sessions[i]
      BY Zenon, <2>2 DEF touch_last_used
    <3>2. e.id \in DOMAIN sessions => sessions'[e.id].last_used = e.at
      BY Zenon, <2>2, <1>a DEF touch_last_used, Row
    <3>3. ASSUME NEW i \in DOMAIN sessions', i \notin reordered'
          PROVE  sessions'[i].last_used = used[i] \/ [id |-> i, at |-> used[i]] \in touches'
      <4>1. i \in DOMAIN sessions \ reordered
        BY Zenon, <2>2, <3>1, <3>3
      <4>2. sessions[i].last_used = used[i] \/ [id |-> i, at |-> used[i]] \in touches
        BY Zenon, <4>1, <1>b
      <4>3. CASE i # e.id
        <5>1. [id |-> i, at |-> used[i]] # e
          BY <4>3, <2>0
        <5> QED
          BY Zenon, <4>1, <4>2, <4>3, <5>1, <2>0, <3>1
      <4>4. CASE i = e.id /\ e.at = used[i]
        BY Zenon, <4>1, <4>4, <3>2
      <4>5. CASE i = e.id /\ e.at # used[i]
        <5>1. sessions[i].last_used \in Nat
          BY Zenon, <4>1, <1>a DEF Row
        <5>2. ~(e.at < sessions[i].last_used)
          BY Zenon, <4>1, <4>5, <2>2, <3>3
        <5>3. sessions[i].last_used # used[i]
          BY <4>5, <5>1, <5>2, <2>0
        <5>4. [id |-> i, at |-> used[i]] # e
          BY <4>5, <2>0
        <5> QED
          BY Zenon, <4>2, <5>3, <5>4, <2>0
      <4> QED
        BY Zenon, <4>3, <4>4, <4>5
    <3> QED
      BY Zenon, <2>0, <3>1, <3>3, <1>b DEF UseInv
  <2> QED
    BY Zenon, <1>9, <2>1, <2>2 DEF Touch
<1>10. CASE Restart
  <2>1. /\ touches' = {} /\ reordered' = reordered \union {e.id : e \in touches}
        /\ UNCHANGED <<sessions, minted, ended, used>>
    BY Zenon, <1>10 DEF Restart, ServerRestart, store
  <2>2. \A i \in DOMAIN sessions \ reordered' : sessions[i].last_used = used[i]
    <3> SUFFICES ASSUME NEW i \in DOMAIN sessions \ reordered' PROVE sessions[i].last_used = used[i]
      BY Zenon
    <3>1. i \notin {e.id : e \in touches} /\ i \in DOMAIN sessions \ reordered
      BY Zenon, <2>1
    <3>2. [id |-> i, at |-> used[i]].id = i
      BY Zenon
    <3>3. [id |-> i, at |-> used[i]] \notin touches
      BY <3>1, <3>2, Zenon
    <3> QED
      BY Zenon, <3>1, <3>3, <1>b
  <2> QED
    BY Zenon, <2>1, <2>2, <1>b DEF UseInv
<1>11. ASSUME NEW t \in Tab, auth_start(t) \/ BackOut(t) \/ CallbackConsume(t) \/ CallbackExchange(t)
                             \/ CallbackRespond(t) \/ LogoutRespond(t)
       PROVE  UseInv'
  BY Zenon, <1>11, <1>4
     DEF auth_start, BackOut, CallbackConsume, CallbackExchange, CallbackRespond,
                     LogoutRespond, store, ghosts
<1>12. ASSUME NEW t \in Tab, NEW u \in Tab, Duplicate(t, u) PROVE UseInv'
  BY Zenon, <1>12, <1>4 DEF Duplicate, store, ghosts
<1>13. ASSUME NEW b \in Browser, MarkerExpires(b) PROVE UseInv'
  BY Zenon, <1>13, <1>4 DEF MarkerExpires, store
<1>14. ASSUME NEW l \in Login, cli_auth_start(l) \/ poll_login(l) \/ CliLogout(l) \/ CliLogoutLocal(l)
       PROVE  UseInv'
  BY Zenon, <1>14, <1>4
     DEF cli_auth_start, poll_login, CliLogout, CliLogoutLocal, signInVars, store, ghosts
<1>15. ASSUME NEW t \in Tab, ApproveCreate(t) \/ ApproveMark(t) PROVE UseInv'
  BY Zenon, <1>15, <1>4 DEF ApproveCreate, ApproveMark, store, ghosts
<1>16. CASE Tick \/ UNCHANGED allVars
  BY Zenon, <1>16, <1>4 DEF Tick, allVars, signInVars, store, ghosts
<1> QED
  BY Zenon, <1>2, <1>3, <1>5, <1>7, <1>8, <1>9, <1>10, <1>11, <1>12, <1>13, <1>14, <1>15,
     <1>16, <1>a
     DEF CliNext, SignInStep

----------------------------------------------------------------------------
(* Coming back: the marker outlives a logout until a sign-in completes or  *)
(* it expires, and every sign-in begun meanwhile asks for the chooser.     *)
LEMMA ReturnStep == SignInAssumption /\ Typed /\ Typed' /\ ReturnInv /\ [CliNext]_allVars => ReturnInv'
<1> SUFFICES ASSUME SignInAssumption, Typed, Typed', ReturnInv, [CliNext]_allVars PROVE ReturnInv'
  BY Zenon
<1> DEFINE Coming == {"google", "exchange", "mint", "respond"}
<1>a. /\ left.tabs \subseteq Tab /\ BrowserOf \in [Tab -> Browser]
      /\ \A t \in Tab : flow[t] \in Flow
      /\ flow \in [Tab -> Flow]
      /\ marker \in [Browser -> BOOLEAN] /\ signedOut \in [Browser -> BOOLEAN]
  BY Zenon DEF SignInAssumption, Typed, Bounds
<1>b. /\ \A b \in Browser : signedOut[b] => marker[b]
      /\ \A t \in Tab : flow[t].step \in Coming /\ signedOut[BrowserOf[t]]
                        => flow[t].chooser \/ flow[t].late
  BY Zenon DEF ReturnInv
(* Steps that leave the marker, and begin no sign-in. *)
<1>1. ASSUME UNCHANGED <<marker, signedOut>>,
             \A t \in Tab : flow'[t].step \in Coming =>
                 flow[t].step \in Coming /\ flow'[t].chooser = flow[t].chooser
                 /\ (flow[t].late => flow'[t].late)
      PROVE  ReturnInv'
  BY Zenon, <1>1, <1>b DEF ReturnInv
<1>2. ASSUME NEW t \in Tab, auth_start(t) PROVE ReturnInv'
  <2>1. /\ signedOut' = signedOut /\ marker' = marker
        /\ flow'[t].chooser = marker[BrowserOf[t]]
        /\ \A u \in Tab \ {t} : flow'[u] = flow[u]
    BY Zenon, <1>2, <1>a DEF auth_start, marker_after_start, NoFlow, ghosts
  <2> QED
    BY Zenon, <2>1, <1>a, <1>b DEF ReturnInv
<1>3. ASSUME NEW t \in Tab, NEW u \in Tab, Duplicate(t, u) PROVE ReturnInv'
  <2>1. /\ UNCHANGED <<signedOut, marker>> /\ flow'[u] = flow[t] /\ BrowserOf[t] = BrowserOf[u]
        /\ \A v \in Tab \ {u} : flow'[v] = flow[v]
    BY Zenon, <1>3, <1>a DEF Duplicate, jar, ghosts
  <2> QED
    BY Zenon, <2>1, <1>b DEF ReturnInv
<1>4. ASSUME NEW t \in Tab, Leave(t), UNCHANGED <<marker, signedOut>> PROVE ReturnInv'
  <2>1. flow'[t].step = "idle" /\ \A u \in Tab \ {t} : flow'[u] = flow[u]
    BY Zenon, <1>4, <1>a DEF Leave, NoFlow
  <2> QED
    BY Zenon, <1>4, <2>1, <1>1
<1>5. ASSUME NEW t \in Tab, NEW s \in {"exchange", "leaving"}, Goto(t, s),
             s = "exchange" => flow[t].step = "google", UNCHANGED <<marker, signedOut>>
      PROVE  ReturnInv'
  <2>1. flow'[t] = [flow[t] EXCEPT !.step = s] /\ \A u \in Tab \ {t} : flow'[u] = flow[u]
    BY Zenon, <1>5, <1>a DEF Goto
  <2>2. flow'[t].step = s /\ flow'[t].chooser = flow[t].chooser /\ flow'[t].late = flow[t].late
    BY Zenon, <2>1, <1>a DEF Flow
  <2> QED
    BY Zenon, <1>5, <2>1, <2>2, <1>1
<1>6. ASSUME NEW t \in Tab, BackOut(t) \/ CallbackConsume(t) PROVE ReturnInv'
  BY Zenon, <1>6, <1>4, <1>5 DEF BackOut, CallbackConsume, At, jar, ghosts
<1>7. ASSUME NEW t \in Tab, LogoutDelete(t) PROVE ReturnInv'
  BY Zenon, <1>7, <1>5 DEF LogoutDelete, jar
<1>8. ASSUME NEW t \in Tab, CallbackExchange(t) PROVE ReturnInv'
  <2>0. UNCHANGED <<marker, signedOut>> /\ flow[t].step = "exchange"
    BY Zenon, <1>8 DEF CallbackExchange, At, jar, ghosts
  <2>1. ASSUME NEW a \in Account,
               flow' = [flow EXCEPT ![t] = IF accepted(a)
                          THEN [@ EXCEPT !.step = "mint", !.account = a] ELSE NoFlow]
        PROVE  ReturnInv'
    <3>1. flow'[t] = IF accepted(a) THEN [flow[t] EXCEPT !.step = "mint", !.account = a] ELSE NoFlow
      BY Zenon, <2>1, <1>a
    <3>2. flow'[t].step # "idle" =>
             flow'[t].chooser = flow[t].chooser /\ flow'[t].late = flow[t].late
      <4>1. NoFlow.step = "idle" /\ flow[t] \in Flow
        BY Zenon, <1>a DEF NoFlow
      <4>2. CASE accepted(a)
        BY Zenon, <3>1, <4>1, <4>2 DEF Flow
      <4> QED
        BY Zenon, <3>1, <4>1, <4>2
    <3>3. \A u \in Tab \ {t} : flow'[u] = flow[u]
      BY Zenon, <2>1, <1>a
    <3> QED
      BY Zenon, <2>0, <3>2, <3>3, <1>1
  <2> QED
    BY Zenon, <1>8, <2>0, <2>1, <1>4 DEF CallbackExchange
<1>9. ASSUME NEW t \in Tab, CallbackMint(t) PROVE ReturnInv'
  <2> DEFINE id == Cardinality(DOMAIN minted) + 1
  <2>0. UNCHANGED <<marker, signedOut>> /\ flow[t].step = "mint"
    BY Zenon, <1>9 DEF CallbackMint, At, jar
  <2>1. CASE flow' = [flow EXCEPT ![t].step = "respond", ![t].id = id]
    <3> HIDE DEF id
    <3>1. flow'[t].chooser = flow[t].chooser /\ flow'[t].late = flow[t].late
          /\ \A u \in Tab \ {t} : flow'[u] = flow[u]
      BY Zenon, <2>1, <1>a DEF Flow
    <3> QED
      BY Zenon, <2>0, <3>1, <1>1
  <2>2. CASE Leave(t)
    BY Zenon, <2>0, <2>2, <1>4
  <2> QED
    BY Zenon, <1>9, <2>1, <2>2 DEF CallbackMint
<1>10. ASSUME NEW t \in Tab, CallbackRespond(t) PROVE ReturnInv'
  <2> DEFINE b == BrowserOf[t]
  <2>1. /\ b \in Browser /\ ~signedOut'[b] /\ flow'[t].step = "idle"
        /\ \A c \in Browser \ {b} : signedOut'[c] = signedOut[c] /\ marker'[c] = marker[c]
        /\ \A u \in Tab \ {t} : flow'[u] = flow[u]
    BY Zenon, <1>10, <1>a DEF CallbackRespond, Leave, NoFlow
  <2> QED
    BY Zenon, <2>1, <1>a, <1>b DEF ReturnInv
<1>11. ASSUME NEW t \in Tab, LogoutRespond(t) PROVE ReturnInv'
  <2> DEFINE b == BrowserOf[t]
  <2>1. /\ b \in Browser /\ marker'[b]
        /\ \A c \in Browser \ {b} : signedOut'[c] = signedOut[c] /\ marker'[c] = marker[c]
    BY Zenon, <1>11, <1>a DEF LogoutRespond
  <2>2. \A u \in Tab : \/ flow'[u].step = "idle"
                       \/ BrowserOf[u] = b /\ flow'[u].late
                       \/ BrowserOf[u] # b /\ flow'[u] = flow[u]
    BY Zenon, <1>11, <1>a DEF LogoutRespond, NoFlow, At, Flow
  <2>3. \A u \in Tab : BrowserOf[u] \in Browser
    BY Zenon, <1>a
  <2> HIDE DEF b
  <2> QED
    BY Zenon, <2>1, <2>2, <2>3, <1>b DEF ReturnInv
<1>12. ASSUME NEW b \in Browser, MarkerExpires(b) PROVE ReturnInv'
  <2>1. /\ ~signedOut'[b] /\ flow' = flow
        /\ \A c \in Browser \ {b} : signedOut'[c] = signedOut[c] /\ marker'[c] = marker[c]
    BY Zenon, <1>12, <1>a DEF MarkerExpires
  <2> QED
    BY Zenon, <2>1, <1>a, <1>b DEF ReturnInv
<1>13. CASE Restart
  <2>1. UNCHANGED <<marker, signedOut>> /\ \A t \in Tab : flow'[t].step = "idle" \/ flow'[t] = flow[t]
    BY Zenon, <1>13 DEF Restart, ServerRestart, NoFlow, jar
  <2> QED
    BY Zenon, <2>1, <1>1
<1>14. ASSUME UNCHANGED <<marker, signedOut, flow>> PROVE ReturnInv'
  BY Zenon, <1>14, <1>1
<1>15. ASSUME NEW t \in Tab, UseSession(t) \/ ApproveCreate(t) \/ ApproveMark(t) PROVE ReturnInv'
  BY Zenon, <1>15, <1>14 DEF UseSession, ApproveCreate, ApproveMark, jar, ghosts
<1>16. ASSUME NEW t \in Tab, NEW l \in Login, ApproveLoad(t, l) PROVE ReturnInv'
  BY Zenon, <1>16, <1>14 DEF ApproveLoad, jar
<1>17. ASSUME NEW e \in touches, Touch(e) PROVE ReturnInv'
  BY Zenon, <1>17, <1>14 DEF Touch, jar
<1>18. ASSUME NEW l \in Login, cli_auth_start(l) \/ poll_login(l) \/ CliLogout(l) \/ CliLogoutLocal(l)
       PROVE  ReturnInv'
  BY Zenon, <1>18, <1>14
     DEF cli_auth_start, poll_login, CliLogout, CliLogoutLocal, signInVars, jar, ghosts
<1>19. CASE sweep_once \/ Tick \/ UNCHANGED allVars
  BY Zenon, <1>19, <1>14 DEF sweep_once, Tick, allVars, signInVars, jar, ghosts
<1> QED
  BY ZenonT(40), <1>2, <1>3, <1>6, <1>7, <1>8, <1>9, <1>10, <1>11, <1>12, <1>13, <1>15, <1>16,
     <1>17, <1>18,
     <1>19, <1>a DEF CliNext, SignInStep

----------------------------------------------------------------------------
(* Approvals: the token is created once, by the approval that goes on to   *)
(* mark the request with it, and is never replaced.                        *)
LEMMA TtlIsNat == CliAssumption => requested_token_ttl \in Nat
<1> SUFFICES ASSUME CliAssumption PROVE requested_token_ttl \in Nat
  BY Zenon
<1>1. \A x, y \in Nat : Max({x, y}) \in Nat /\ Min({x, y}) \in Nat
  <2> TAKE x, y \in Nat
  <2>1. \E z \in {x, y} : \A v \in {x, y} : z >= v
    <3>1. x >= y \/ y >= x
      OBVIOUS
    <3> QED
      BY <3>1
  <2>2. \E z \in {x, y} : \A v \in {x, y} : z =< v
    <3>1. x =< y \/ y =< x
      OBVIOUS
    <3> QED
      BY <3>1
  <2>3. Max({x, y}) \in {x, y}
    BY Zenon, <2>1 DEF Max
  <2>4. Min({x, y}) \in {x, y}
    BY Zenon, <2>2 DEF Min
  <2> QED
    BY Zenon, <2>3, <2>4
<1>2. MinTtl \in Nat /\ AskedTtl \in Nat /\ HardCap \in Nat
  BY Zenon DEF CliAssumption, SignInAssumption
<1>3. Max({HardCap, MinTtl}) \in Nat
  BY Zenon, <1>1, <1>2
<1>4. Min({AskedTtl, Max({HardCap, MinTtl})}) \in Nat
  BY Zenon, <1>1, <1>2, <1>3
<1> QED
  BY Zenon, <1>1, <1>2, <1>4 DEF requested_token_ttl

LEMMA ApprovalStep ==
    CliAssumption /\ Typed /\ ApprovalInv /\ [CliNext]_allVars => ApprovalInv'
<1> SUFFICES ASSUME CliAssumption, Typed, ApprovalInv, [CliNext]_allVars PROVE ApprovalInv'
  BY Zenon
<1> DEFINE Marked(t) == LET k == token[approving[t].login]
                        IN  k # None /\ k.id = approving[t].id /\ k.email = approving[t].by
           Pending(t) == approving[t].step # "none" =>
                            /\ approving[t].login \in Login /\ approving[t].id \in Tab
                            /\ request[approving[t].login] # None
           Named(l) == request[l] # None /\ request[l].approved =>
                         token[l] # None /\ token[l].id = request[l].token_id
                                         /\ token[l].email = request[l].email
           Marking(l) == \E t \in Tab : approving[t].step = "mark" /\ approving[t].login = l
           Announced(l) == token[l] # None => request[l].approved \/ Marking(l)
<1>a. /\ left.tabs \subseteq Tab /\ now \in Nat
      /\ \A i \in DOMAIN sessions : sessions[i].email \in Account \union {None}
  BY Zenon DEF Typed, Bounds, Row
<1>n. /\ None \notin AuthorizationRow /\ None \notin TokenRow
      /\ RequestTtl \in Nat /\ requested_token_ttl \in Nat
  BY Zenon, TtlIsNat DEF CliAssumption
<1>b. /\ request \in [Login -> AuthorizationRow \union {None}]
      /\ token \in [Login -> TokenRow \union {None}]
      /\ approving \in [Tab -> Approval]
      /\ \A l \in Login : token[l] # None => request[l] # None
      /\ \A t \in Tab : Pending(t)
      /\ \A t \in Tab : approving[t].step = "mark" => Marked(t)
      /\ \A l \in Login : Named(l)
      /\ \A l \in Login \ cut : Announced(l)
  BY Zenon DEF ApprovalInv, ApprovalNamesItsToken, TokensAreAnnounced
<1>c. NoApproval \in Approval /\ NoApproval.step = "none"
  BY Zenon DEF Approval, NoApproval
<1>d. ASSUME /\ request' \in [Login -> AuthorizationRow \union {None}]
             /\ token' \in [Login -> TokenRow \union {None}]
             /\ approving' \in [Tab -> Approval]
             /\ \A l \in Login : token'[l] # None => request'[l] # None
             /\ \A t \in Tab : Pending(t)'
             /\ \A t \in Tab : approving'[t].step = "mark" => Marked(t)'
             /\ \A l \in Login : Named(l)'
             /\ \A l \in Login \ cut' : Announced(l)'
      PROVE  ApprovalInv'
  BY Zenon, <1>d
     DEF ApprovalInv, ApprovalNamesItsToken, TokensAreAnnounced, Approval, AuthorizationRow, TokenRow
<1>1. ASSUME UNCHANGED <<request, token, approving, cut>> PROVE ApprovalInv'
  BY Zenon, <1>1, <1>b, <1>d
<1>2. ASSUME NEW l \in Login, cli_auth_start(l) PROVE ApprovalInv'
  <2> DEFINE r == [expires |-> now + RequestTtl, token_expires |-> now + requested_token_ttl,
                   approved |-> FALSE, token_id |-> None, email |-> None]
  <2>1. /\ request[l] = None /\ request' = [request EXCEPT ![l] = r]
        /\ UNCHANGED <<token, approving, cut>>
    BY Zenon, <1>2 DEF cli_auth_start
  <2>2. r \in AuthorizationRow /\ ~r.approved
    BY <1>a, <1>n DEF AuthorizationRow
  <2> HIDE DEF r
  <2>3. /\ request'[l] = r /\ \A k \in Login \ {l} : request'[k] = request[k]
        /\ request' \in [Login -> AuthorizationRow \union {None}]
    BY Zenon, <2>1, <2>2, <1>b
  <2>4. token[l] = None /\ \A t \in Tab : approving[t].step # "none" => approving[t].login # l
    BY Zenon, <2>1, <1>b
  <2>5. \A t \in Tab : Pending(t)'
    BY Zenon, <2>1, <2>3, <2>4, <1>b
  <2>6. \A k \in Login : Named(k)'
    BY Zenon, <2>1, <2>2, <2>3, <1>b
  <2>7. \A k \in Login \ cut' : Announced(k)'
    BY ZenonT(40), <2>1, <2>3, <2>4, <1>b
  <2>8. \A t \in Tab : approving'[t].step = "mark" => Marked(t)'
    BY Zenon, <2>1, <1>b
  <2> HIDE DEF Pending, Named, Announced, Marked
  <2> QED
    BY Zenon, <2>1, <2>3, <2>4, <2>5, <2>6, <2>7, <2>8, <1>b, <1>d
<1>3. ASSUME NEW t \in Tab, NEW l \in Login, ApproveLoad(t, l) PROVE ApprovalInv'
  <2> DEFINE r == [step |-> "create", login |-> l, id |-> t,
                   by |-> sessions[cookie[BrowserOf[t]]].email]
  <2>1. /\ request[l] # None /\ approving[t] = NoApproval /\ approving' = [approving EXCEPT ![t] = r]
        /\ UNCHANGED <<request, token, cut>>
    BY Zenon, <1>3 DEF ApproveLoad
  <2>2. r \in Approval /\ r.step = "create" /\ r.login = l /\ r.id = t
    <3>1. cookie[BrowserOf[t]] \in DOMAIN sessions
      BY Zenon, <1>3 DEF ApproveLoad, extract, Authenticated
    <3> QED
      BY Zenon, <3>1, <1>a DEF Approval
  <2> HIDE DEF r
  <2>3. /\ approving'[t] = r /\ \A u \in Tab \ {t} : approving'[u] = approving[u]
        /\ approving' \in [Tab -> Approval]
    BY Zenon, <2>1, <2>2, <1>b
  <2>4. \A k \in Login : Marking(k) => Marking(k)'
    BY Zenon, <2>1, <2>3, <1>c
  <2>5. \A k \in Login \ cut' : Announced(k)'
    BY Zenon, <2>1, <2>4, <1>b
  <2>6. \A u \in Tab : approving'[u].step = "mark" => Marked(u)'
    BY ZenonT(40), <2>1, <2>2, <2>3, <1>b
  <2>7. \A u \in Tab : Pending(u)'
    BY ZenonT(40), <2>1, <2>2, <2>3, <1>b
  <2>8. \A k \in Login : Named(k)'
    BY Zenon, <2>1, <1>b
  <2> HIDE DEF Pending, Named, Announced, Marked
  <2> QED
    BY Zenon, <2>1, <2>3, <2>5, <2>6, <2>7, <2>8, <1>b, <1>d
<1>4. ASSUME NEW t \in Tab, approving'[t] = NoApproval,
             approving' = [approving EXCEPT ![t] = NoApproval],
             UNCHANGED <<request, token>>, cut \subseteq cut',
             approving[t].step = "mark" => approving[t].login \in cut'
      PROVE  ApprovalInv'
  <2>1. (\A u \in Tab \ {t} : approving'[u] = approving[u]) /\ approving' \in [Tab -> Approval]
    BY Zenon, <1>4, <1>b, <1>c
  <2>2. \A k \in Login \ cut' : Announced(k)'
    <3>1. \A k \in Login \ cut' : Marking(k) => Marking(k)'
      BY Zenon, <1>4, <2>1
    <3> QED
      BY Zenon, <1>4, <3>1, <1>b
  <2>3. \A u \in Tab : (approving'[u].step = "mark" => Marked(u)') /\ Pending(u)'
    BY <1>4, <2>1, <1>b, <1>c
  <2>4. \A k \in Login : Named(k)'
    BY Zenon, <1>4, <1>b
  <2> HIDE DEF Pending, Named, Announced, Marked
  <2> QED
    BY Zenon, <1>4, <2>1, <2>2, <2>3, <2>4, <1>b, <1>d
<1>5. ASSUME NEW t \in Tab, ApproveCreate(t) PROVE ApprovalInv'
  <2>1. approving[t].step = "create" /\ UNCHANGED <<request, cut>>
    BY Zenon, <1>5 DEF ApproveCreate
  <2>2. PICK l \in Login : /\ l = approving[t].login /\ request[l] # None
                          /\ approving[t].id \in Tab
    BY <2>1, <1>b
  <2> DEFINE row == [id |-> approving[t].id, email |-> approving[t].by,
                     expires |-> request[l].token_expires, revoked |-> None]
  <2>3. row \in TokenRow /\ row.id = approving[t].id /\ row.email = approving[t].by
    <3>1. approving[t] \in Approval /\ request[l] \in AuthorizationRow
      BY <2>2, <1>b
    <3> QED
      BY Zenon, <2>2, <3>1 DEF Approval, AuthorizationRow, TokenRow
  <2> HIDE DEF row
  <2>4. CASE token' = token /\ approving' = [approving EXCEPT ![t] = NoApproval]
    BY Zenon, <2>1, <2>4, <1>4, <1>b
  <2>5. CASE /\ token[l] = None /\ token' = [token EXCEPT ![l] = row]
             /\ approving' = [approving EXCEPT ![t] = [@ EXCEPT !.step = "mark"]]
    <3>1. approving'[t] = [approving[t] EXCEPT !.step = "mark"]
          /\ \A u \in Tab \ {t} : approving'[u] = approving[u]
      BY Zenon, <2>5, <1>b
    <3>2. /\ approving'[t].step = "mark" /\ approving'[t].login = l
          /\ approving'[t].id = approving[t].id /\ approving'[t].by = approving[t].by
          /\ approving'[t] \in Approval
      <4>1. approving[t] \in Approval
        BY Zenon, <1>b
      <4> QED
        BY Zenon, <2>2, <3>1, <4>1 DEF Approval
    <3>3. /\ token'[l] = row /\ \A k \in Login \ {l} : token'[k] = token[k]
          /\ token' \in [Login -> TokenRow \union {None}] /\ row # None
      BY Zenon, <2>5, <2>3, <1>b, <1>n
    <3>4. \A u \in Tab : approving'[u].step = "mark" => Marked(u)'
      <4>1. Marked(t)'
        BY Zenon, <2>3, <3>2, <3>3
      <4>2. ASSUME NEW u \in Tab \ {t}, approving'[u].step = "mark" PROVE Marked(u)'
        <5>1. approving'[u] = approving[u] /\ Marked(u) /\ approving[u].login \in Login
          BY Zenon, <4>2, <3>1, <1>b
        <5>2. approving[u].login # l
          BY Zenon, <5>1, <2>5
        <5> QED
          BY Zenon, <5>1, <5>2, <3>3
      <4> QED
        BY Zenon, <4>1, <4>2
    <3>5. \A k \in Login : Named(k)'
      BY Zenon, <2>1, <2>5, <3>3, <1>b
    <3>6. \A k \in Login \ cut' : Announced(k)'
      <4>1. Marking(l)'
        BY Zenon, <3>2
      <4>2. \A k \in Login : Marking(k) => Marking(k)'
        BY Zenon, <2>1, <3>1
      <4> QED
        BY Zenon, <4>1, <4>2, <2>1, <3>3, <1>b
    <3>7. \A u \in Tab : Pending(u)'
      <4>1. Pending(t)'
        BY Zenon, <2>1, <2>2, <3>2
      <4>2. ASSUME NEW u \in Tab \ {t} PROVE Pending(u)'
        BY <2>1, <3>1, <1>b
      <4> QED
        BY Zenon, <4>1, <4>2
    <3>8. \A k \in Login : token'[k] # None => request'[k] # None
      BY <2>1, <2>2, <3>3, <1>b
    <3>9. approving' \in [Tab -> Approval]
      BY Zenon, <2>5, <3>1, <3>2, <1>b
    <3> HIDE DEF Announced, Named, Marked, Pending
    <3> QED
      BY Zenon, <2>1, <3>3, <3>4, <3>5, <3>6, <3>7, <3>8, <3>9, <1>b, <1>d
  <2>6. token[l] = None => [token EXCEPT ![l] = row] # token
    <3> SUFFICES ASSUME token[l] = None PROVE [token EXCEPT ![l] = row][l] # token[l]
      BY Zenon
    <3> QED
      BY Zenon, <2>2, <2>3, <1>b, <1>n
  <2> QED
    BY Zenon, <1>5, <2>2, <2>4, <2>5, <2>6 DEF ApproveCreate, token_create, row
<1>6. ASSUME NEW t \in Tab, ApproveMark(t) PROVE ApprovalInv'
  <2>1. /\ approving[t].step = "mark" /\ token' = token
        /\ approving' = [approving EXCEPT ![t] = NoApproval]
    BY Zenon, <1>6 DEF ApproveMark
  <2>2. PICK l \in Login : l = approving[t].login /\ request[l] # None
    BY Zenon, <2>1, <1>b
  <2> DEFINE new == mark_approved(request[l], approving[t].id, approving[t].by)
  <2>3. CASE cut' = cut \union {l} /\ request' = request
    BY Zenon, <2>1, <2>2, <2>3, <1>4, <1>b
  <2>4. CASE request' = [request EXCEPT ![l] = new] /\ cut' = cut
    <3>1. /\ new \in AuthorizationRow /\ new.approved
          /\ \/ new = request[l]
             \/ new.token_id = approving[t].id /\ new.email = approving[t].by
      <4>1. approving[t] \in Approval /\ request[l] \in AuthorizationRow
        BY <2>2, <1>b
      <4> QED
        BY Zenon, <4>1 DEF mark_approved, AuthorizationRow, Approval
    <3> HIDE DEF new
    <3>2. /\ request'[l] = new /\ \A k \in Login \ {l} : request'[k] = request[k]
          /\ request' \in [Login -> AuthorizationRow \union {None}] /\ new # None
      BY Zenon, <2>4, <3>1, <1>b, <1>n
    <3>3. token[l] # None /\ token[l].id = approving[t].id /\ token[l].email = approving[t].by
      BY Zenon, <2>1, <2>2, <1>b
    <3>4. \A k \in Login : Named(k)'
      BY <2>1, <3>1, <3>2, <3>3, <1>b
    <3>5. /\ approving'[t] = NoApproval /\ approving' \in [Tab -> Approval]
          /\ \A u \in Tab \ {t} : approving'[u] = approving[u]
      BY Zenon, <2>1, <1>b, <1>c
    <3>6. \A k \in Login \ cut' : Announced(k)'
      <4>1. \A k \in Login \ {l} : Marking(k) => Marking(k)'
        BY Zenon, <2>2, <3>5
      <4> QED
        BY Zenon, <4>1, <2>1, <2>4, <3>1, <3>2, <1>b
    <3>7. \A u \in Tab : (approving'[u].step = "mark" => Marked(u)') /\ Pending(u)'
      BY <2>1, <3>2, <3>5, <1>b, <1>c
    <3>8. \A k \in Login : token'[k] # None => request'[k] # None
      BY <2>1, <3>2, <1>b
    <3> HIDE DEF Announced, Named, Marked, Pending
    <3> QED
      BY Zenon, <2>1, <3>2, <3>4, <3>5, <3>6, <3>7, <3>8, <1>b, <1>d
  <2> QED
    BY Zenon, <1>6, <2>2, <2>3, <2>4 DEF ApproveMark
<1>7. ASSUME NEW l \in Login, CliLogout(l) PROVE ApprovalInv'
  <2> DEFINE new == IF usable(l) THEN [token[l] EXCEPT !.revoked = now] ELSE token[l]
  <2>1. token' = [token EXCEPT ![l] = new] /\ UNCHANGED <<request, approving, cut>>
    BY Zenon, <1>7 DEF CliLogout
  <2>2. /\ new \in TokenRow \union {None} /\ (new = None <=> token[l] = None)
        /\ token[l] # None => new.id = token[l].id /\ new.email = token[l].email
    <3>1. token[l] \in TokenRow \union {None}
      BY Zenon, <1>b
    <3>2. CASE usable(l)
      <4>1. token[l] \in TokenRow
        BY Zenon, <3>1, <3>2 DEF usable
      <4>2. [token[l] EXCEPT !.revoked = now] \in TokenRow
        BY Zenon, <4>1, <1>a DEF TokenRow
      <4> QED
        BY Zenon, <3>2, <4>1, <4>2, <1>n DEF TokenRow
    <3> QED
      BY Zenon, <3>1, <3>2
  <2> HIDE DEF new
  <2>3. /\ token'[l] = new /\ \A k \in Login \ {l} : token'[k] = token[k]
        /\ token' \in [Login -> TokenRow \union {None}]
    BY Zenon, <2>1, <2>2, <1>b
  <2>4. ASSUME NEW k \in Login
        PROVE  /\ token'[k] # None => token[k] # None
               /\ token[k] # None => token'[k] # None
               /\ token[k] # None => token'[k].id = token[k].id
               /\ token[k] # None => token'[k].email = token[k].email
    BY Zenon, <2>2, <2>3
  <2>u. UNCHANGED <<request, approving, cut>>
    BY Zenon, <2>1
  <2>5. \A k \in Login : Named(k)'
    BY ZenonT(40), <2>u, <2>4, <1>b
  <2>6. \A k \in Login \ cut' : Announced(k)'
    BY Zenon, <2>u, <2>4, <1>b
  <2>7. \A u \in Tab : Pending(u)'
    BY Zenon, <2>u, <1>b
  <2>8. \A u \in Tab : approving'[u].step = "mark" => Marked(u)'
    BY <2>u, <2>4, <1>b
  <2>9. \A k \in Login : token'[k] # None => request'[k] # None
    BY Zenon, <2>u, <2>4, <1>b
  <2> HIDE DEF Announced, Named, Marked, Pending
  <2> QED
    BY Zenon, <2>u, <2>3, <2>5, <2>6, <2>7, <2>8, <2>9, <1>b, <1>d
<1>8. CASE Restart
  <2>1. /\ UNCHANGED <<request, token>> /\ approving' = [t \in Tab |-> NoApproval]
        /\ cut' = cut \union {approving[t].login : t \in {u \in Tab : approving[u].step = "mark"}}
    BY Zenon, <1>8 DEF Restart
  <2>2. approving' \in [Tab -> Approval] /\ \A t \in Tab : approving'[t] = NoApproval
    BY Zenon, <2>1, <1>c
  <2>3. \A k \in Login \ cut' : k \notin cut /\ ~Marking(k)
    BY Zenon, <2>1
  <2>4. \A k \in Login \ cut' : Announced(k)'
    BY Zenon, <2>1, <2>3, <1>b
  <2>5. \A u \in Tab : (approving'[u].step = "mark" => Marked(u)') /\ Pending(u)'
    BY Zenon, <2>2, <1>c
  <2>6. \A k \in Login : Named(k)'
    BY Zenon, <2>1, <1>b
  <2> HIDE DEF Announced, Named, Marked, Pending
  <2> QED
    BY Zenon, <2>1, <2>2, <2>4, <2>5, <2>6, <1>b, <1>d
<1>9. CASE SignInStep /\ UNCHANGED cliVars
  BY Zenon, <1>9, <1>1 DEF cliVars
<1>10. ASSUME NEW l \in Login, poll_login(l) \/ CliLogoutLocal(l) PROVE ApprovalInv'
  BY Zenon, <1>10, <1>1 DEF poll_login, CliLogoutLocal
<1>11. CASE UNCHANGED allVars
  BY Zenon, <1>11, <1>1 DEF allVars, cliVars
<1> QED
  BY Zenon, <1>2, <1>3, <1>5, <1>6, <1>7, <1>8, <1>9, <1>10, <1>11, <1>a DEF CliNext

(* The initial states. *)
LEMMA CliInitially == CliAssumption /\ CliInit => SignInInv
<1> SUFFICES ASSUME CliAssumption, CliInit PROVE SignInInv
  BY Zenon
<1> USE DEF CliInit, SignInInit
<1>a. DOMAIN minted = {} /\ DOMAIN pending = {} /\ DOMAIN sessions = {} /\ DOMAIN used = {}
  BY Zenon
<1>b. NoFlow \in Flow /\ NoFlow.step = "idle" /\ \A t \in Tab : flow[t] = NoFlow
  BY Zenon DEF NoFlow, Flow
<1>1. Typed
  <2>1. left \in Bounds
    BY Zenon DEF CliAssumption, SignInAssumption, Bounds
  <2>2. flow \in [Tab -> Flow]
    BY Zenon, <1>b
  <2>3. DOMAIN minted = 1..0 /\ 0 \in Nat
    BY <1>a
  <2> QED
    BY Zenon, <2>1, <2>2, <2>3, <1>a DEF Typed
<1>2. TokensInv
  BY Zenon, <1>a, <1>b DEF TokensInv, Serving, IsInjective
<1>3. UseInv
  BY Zenon, <1>a DEF UseInv
<1>4. ReturnInv
  BY Zenon, <1>b DEF ReturnInv
<1>5. ApprovalInv
  <2>1. NoApproval \in Approval /\ NoApproval.step = "none"
    BY Zenon DEF NoApproval, Approval
  <2> QED
    BY Zenon, <2>1 DEF ApprovalInv, ApprovalNamesItsToken, TokensAreAnnounced
<1> QED
  BY Zenon, <1>1, <1>2, <1>3, <1>4, <1>5 DEF SignInInv

(* Every state of the sign-in server beside its CLI logins satisfies the   *)
(* inductive invariant (CliSpec: browsers, callbacks, bumps, logouts,      *)
(* sweeps, restarts, approvals).                                           *)
THEOREM SignInHolds == ASSUME CliAssumption PROVE CliSpec => []SignInInv
<1>1. SignInAssumption
  BY Zenon DEF CliAssumption
<1>2. SignInInv /\ [CliNext]_allVars => SignInInv'
  BY Zenon, <1>1, TypedStep, TokensStep, UseStep, ReturnStep, ApprovalStep DEF SignInInv
<1> QED
  BY <1>2, CliInitially, PTL DEF CliSpec

(* Whatever the tabs, the duplicated redirects, the late bumps and the     *)
(* restarts: a state token makes one session, a logout is final, a row     *)
(* knows its last use, and nobody who logged out returns without the       *)
(* account chooser (auth_callback, logout, touch_last_used, auth_start).   *)
THEOREM SessionsSound == ASSUME CliAssumption PROVE CliSpec => []SessionsAreSound
<1>1. SignInInv => SessionsAreSound
  <2> SUFFICES ASSUME SignInInv PROVE SessionsAreSound
    BY Zenon
  <2>1. UseIsRemembered
    <3> SUFFICES ASSUME NEW i \in DOMAIN sessions \ reordered, \A e \in touches : e.id # i
                 PROVE  sessions[i].last_used = used[i]
      BY Zenon DEF UseIsRemembered
    <3>1. [id |-> i, at |-> used[i]] \notin touches
      BY Zenon
    <3> QED
      BY Zenon, <3>1 DEF SignInInv, UseInv
  <2>2. NoSilentReturn
    BY Zenon DEF SignInInv, ReturnInv, NoSilentReturn, At
  <2> QED
    BY Zenon, <2>1, <2>2
       DEF SignInInv, TokensInv, UseInv, SessionsAreSound, OneSessionPerStart, LogoutIsFinal
<1> QED
  BY <1>1, SignInHolds, PTL

(* However many people approve a CLI login, at once or after one another,  *)
(* and wherever an approval is cut: an approved request names the token    *)
(* that exists and its owner, and a token is announced by its request      *)
(* (cli_auth_approve_submit, `auth logout`).                               *)
THEOREM ApprovalsMatch == ASSUME CliAssumption PROVE CliSpec => []ApprovalsMatchTokens
<1>1. SignInInv => ApprovalsMatchTokens
  BY Zenon DEF SignInInv, ApprovalInv, ApprovalsMatchTokens
<1> QED
  BY <1>1, SignInHolds, PTL
=============================================================================
