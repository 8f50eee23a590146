------------------------ MODULE LiveWorkspacesProofs ------------------------
(***************************************************************************)
(* The registry of live workspaces and the persisted document, for every   *)
(* set of connections, every set of instance names and every bound:        *)
(* RegistryIsSound and StoredIsRight.                                      *)
(***************************************************************************)
EXTENDS LiveRaces, FiniteSetTheorems, WellFoundedInduction, TLAPS

Edits == 1..MaxEdits

(* Where a connection can be, and what it carries there. *)
Unbound == {Out} \union [stage : {"authorized", "loading"}]
Bound == [stage : {"restoring", "upgrading", "joined"}, at : Instance]
Gated == [stage : {"gated"}, at : Instance, edit : Edits]
Persisting == [stage : {"persisting"}, at : Instance, edit : Edits,
               doc : SUBSET Edits, seq : 0..MaxEdits]
Place == Unbound \union Bound \union Gated \union Persisting

Session == [doc : SUBSET Edits, seq : 0..MaxEdits, clients : SUBSET Conn,
            empty : {"unset", "since", "expired"}, cancelled : BOOLEAN]

Typed ==
    /\ stored \in [doc : SUBSET Edits, seq : 0..MaxEdits, archived : BOOLEAN]
    /\ live \in Instance \union {None} /\ sweep \in Instance \union {None}
    /\ session \in [Instance -> Session]
    /\ conn \in [Conn -> Place]
    /\ revoking \in BOOLEAN /\ acked \subseteq Edits
    /\ edits \in 0..MaxEdits
    /\ crashes \in Nat

(* The stages at which a connection holds an instance. *)
Holding == {"restoring", "upgrading", "joined", "gated", "persisting"}

Holds(c) == conn[c].stage \in Holding

(* The clients of an instance in use are the connections that joined it. *)
ClientsMatch ==
    \A l \in Instance \intersect Held :
        session[l].clients = {c \in Conn : conn[c].stage \in Inside /\ conn[c].at = l}

(* An instance still being restored is its connection's alone, and alive. *)
RestoringIsPrivate ==
    \A c \in Conn : conn[c].stage = "restoring" =>
        /\ conn[c].at \notin {live, sweep} /\ ~session[conn[c].at].cancelled
        /\ \A d \in Conn : Holds(d) /\ conn[d].at = conn[c].at => d = c

(* What the sweep has decided on stays idle while it is at it. *)
SweptIsIdle == sweep # None => session[sweep].empty = "expired"

RegistryInv ==
    Typed /\ ClientsMatch /\ RestoringIsPrivate /\ SweptIsIdle /\ RegistryIsAlive

(* Every copy of the document has the seq that counts its commands, and a  *)
(* command that passed its gate is not in any of them yet.                 *)
Counted(copy) == copy.seq = Cardinality(copy.doc)

Unused(e) ==
    /\ e \notin stored.doc
    /\ \A l \in Instance : e \notin session[l].doc
    /\ \A c \in Conn : conn[c].stage = "persisting" => e \notin conn[c].doc

SeqInv ==
    /\ Counted(stored)
    /\ \A l \in Instance : Counted(session[l])
    /\ \A c \in Conn : conn[c].stage = "persisting" => Counted(conn[c])
    /\ \A c \in Conn : conn[c].stage = "gated" => conn[c].edit <= edits /\ Unused(conn[c].edit)
    /\ \A c, d \in Conn : conn[c].stage = "gated" /\ conn[d].stage = "gated"
                          /\ conn[c].edit = conn[d].edit => c = d
    /\ \A e \in Edits : e > edits => Unused(e)

----------------------------------------------------------------------------
(* A nonempty set of numbers has a least one: the name Load takes is free. *)
LEMMA MinIsFree ==
    ASSUME Free # {}
    PROVE  Min(Free) \in Free
<1> DEFINE Less == {ss \in Nat \X Nat : ss[1] < ss[2]}
<1>1. IsWellFoundedOn(Less, Nat)
  BY Zenon, NatLessThanWellFounded DEF OpToRel
<1>2. Free \subseteq Nat
  BY Zenon, LiveAssumption DEF Free
<1> HIDE DEF Less
<1>3. PICK x \in Free : \A y \in Free : <<y, x>> \notin Less
  BY Zenon, <1>1, <1>2, WFMin
<1>4. \A y \in Free : ~(y < x)
  BY Zenon, <1>2, <1>3 DEF Less
<1>5. \A y \in Free : x <= y
  BY <1>2, <1>4
<1> QED
  BY Zenon, <1>5 DEF Min

(* What a connection holds, read off its stage. *)
LEMMA HeldByStage ==
    ASSUME NEW k \in [Conn -> Place]
    PROVE  \A c \in Conn :
               /\ k[c].stage \in Holding <=> "at" \in DOMAIN k[c]
               /\ k[c].stage \in Holding => k[c].at \in Instance
BY DEF Place, Unbound, Bound, Gated, Persisting, Holding, Out

(* The absence of an instance is not one. *)
LEMMA NoneIsNone == None \notin Instance
BY LiveAssumption DEF None

(* The initial states. *)
LEMMA RegistryInit == Init => RegistryInv
<1> SUFFICES ASSUME Init PROVE RegistryInv
  BY Zenon
<1>1. Typed
  <2>1. MaxEdits \in Nat /\ Blank \in Session
    BY LiveAssumption DEF Blank, Session, Edits
  <2>2. stored \in [doc : SUBSET Edits, seq : 0..MaxEdits, archived : BOOLEAN]
    BY <2>1 DEF Init
  <2> QED
    BY Zenon, <2>1, <2>2 DEF Init, Typed, Place, Unbound
<1>2. ClientsMatch /\ RestoringIsPrivate
  BY Zenon, HeldByStage, NoneIsNone, <1>1
     DEF Init, Typed, ClientsMatch, RestoringIsPrivate, Held, HeldByConn, Holding, Out, Inside
<1> QED
  BY Zenon, <1>1, <1>2 DEF Init, RegistryInv, SweptIsIdle, RegistryIsAlive

(* Every step keeps the types. *)
LEMMA TypedStep == RegistryInv /\ SeqInv /\ [Next]_vars => Typed'
<1> SUFFICES ASSUME RegistryInv, SeqInv, [Next]_vars PROVE Typed'
  BY Zenon
<1> USE DEF RegistryInv
<1>a. Typed /\ MaxEdits \in Nat /\ None \notin Instance
  BY Zenon, LiveAssumption, NoneIsNone
<1>b. \A c \in Conn : Holds(c) => conn[c].at \in Instance
  BY Zenon, <1>a, HeldByStage DEF Typed, Holds
<1>c. ASSUME NEW c \in Conn, NEW where \in Place, Goto(c, where)
      PROVE  conn' \in [Conn -> Place]
  BY Zenon, <1>a, <1>c DEF Typed, Goto
<1>d. Blank \in Session
  BY <1>a DEF Blank, Session, Edits
<1>e. ASSUME NEW l \in Instance
      PROVE  [session EXCEPT ![l].cancelled = TRUE] \in [Instance -> Session]
  <2>1. [session[l] EXCEPT !.cancelled = TRUE] \in Session
    BY Zenon, <1>a DEF Typed, Session
  <2> QED
    BY Zenon, <1>a, <2>1 DEF Typed
<1>1. ASSUME NEW c \in Conn, Authorize(c) \/ OpenFails(c) PROVE Typed'
  BY Zenon, <1>1, <1>a, <1>c DEF Authorize, OpenFails, Typed, Place, Unbound, bounds
<1>2. ASSUME NEW c \in Conn, LookUp(c) PROVE Typed'
  BY Zenon, <1>2, <1>a, <1>c DEF LookUp, Typed, Place, Unbound, Bound, bounds
<1>3. ASSUME NEW c \in Conn, Load(c) PROVE Typed'
  <2>1. Min(Free) \in Instance
    BY Zenon, <1>3, MinIsFree DEF Load, Free
  <2>2. Restored \in Session
    BY Zenon, <1>a DEF Restored, Session, Typed, Blank
  <2>3. [stage |-> "restoring", at |-> Min(Free)] \in Place
    BY Zenon, <2>1 DEF Place, Bound
  <2>4. conn' \in [Conn -> Place]
    BY Zenon, <2>3, <1>3, <1>c DEF Load
  <2> QED
    BY Zenon, <1>3, <1>a, <2>1, <2>2, <2>4 DEF Load, Typed, bounds
<1>4. ASSUME NEW c \in Conn, Register(c) PROVE Typed'
  <2>1. conn[c].at \in Instance
    BY Zenon, <1>4, <1>b DEF Register, Holds, Holding
  <2> QED
    BY Zenon, <1>4, <1>a, <1>c, <2>1 DEF Register, Typed, Place, Bound, bounds
<1>5. ASSUME NEW c \in Conn, Join(c) PROVE Typed'
  <2>1. conn[c] \in Bound
    BY <1>5, <1>a DEF Join, Typed, Place, Unbound, Bound, Gated, Persisting, Out
  <2>2. [conn[c] EXCEPT !.stage = "joined"] \in Place
    BY Zenon, <2>1 DEF Bound, Place
  <2>3. conn' \in [Conn -> Place]
    BY Zenon, <2>2, <1>5, <1>c DEF Join
  <2>4. conn[c].at \in Instance
    BY Zenon, <2>1 DEF Bound
  <2>5. session' \in [Instance -> Session]
    BY <2>4, <1>5, <1>a DEF Join, Typed, Session
  <2> QED
    BY Zenon, <1>5, <1>a, <2>3, <2>5 DEF Join, Typed, bounds
<1>6. ASSUME NEW c \in Conn, Leave(c) PROVE Typed'
  <2>1. conn[c].at \in Instance
    BY Zenon, <1>6, <1>b DEF Leave, Holds, Holding
  <2>2. conn' \in [Conn -> Place]
    BY Zenon, <1>6, <1>c DEF Leave, Place, Unbound
  <2>3. session' \in [Instance -> Session]
    BY <2>1, <1>6, <1>a DEF Leave, Without, Typed, Session
  <2> QED
    BY Zenon, <1>6, <1>a, <2>2, <2>3 DEF Leave, Typed, bounds
<1>7. ASSUME NEW c \in Conn, Gate(c) PROVE Typed'
  <2>1. conn[c].at \in Instance
    BY Zenon, <1>7, <1>b DEF Gate, Holds, Holding
  <2>2. edits + 1 \in Edits
    BY <1>7, <1>a DEF Gate, Typed, Edits
  <2>3. [stage |-> "gated", at |-> conn[c].at, edit |-> edits + 1] \in Place
    BY Zenon, <2>1, <2>2 DEF Place, Gated
  <2>4. conn' \in [Conn -> Place]
    BY Zenon, <2>3, <1>7, <1>c DEF Gate
  <2> QED
    BY <1>7, <1>a, <2>4 DEF Gate, Typed
<1>8. ASSUME NEW c \in Conn, ApplyCommand(c) PROVE Typed'
  <2> DEFINE l == conn[c].at
             new == [session[l] EXCEPT !.doc = @ \union {conn[c].edit}, !.seq = @ + 1]
  <2>1. l \in Instance /\ conn[c].edit \in Edits
    BY <1>8, <1>a DEF ApplyCommand, Typed, Place, Unbound, Bound, Gated, Persisting, Out
  <2>2. session[l] \in Session
    BY Zenon, <2>1, <1>a DEF Typed
  <2>3. new.doc = session[l].doc \union {conn[c].edit} /\ new.seq = session[l].seq + 1
    BY Zenon, <2>2 DEF Session
  <2>4. new.seq = Cardinality(new.doc)
    <3>1. conn[c].edit \notin session[l].doc /\ session[l].seq = Cardinality(session[l].doc)
      BY Zenon, <1>8, <2>1 DEF ApplyCommand, SeqInv, Unused, Counted
    <3>2. IsFiniteSet(Edits)
      BY <1>a, FS_Interval DEF Edits
    <3>3. IsFiniteSet(session[l].doc)
      <4>1. session[l].doc \subseteq Edits
        BY Zenon, <2>2 DEF Session
      <4> QED
        BY Zenon, <3>2, <4>1, FS_Subset
    <3> QED
      BY Zenon, <3>1, <3>3, <2>3, FS_AddElement
  <2>5. new.doc \subseteq Edits
    BY Zenon, <2>1, <2>2, <2>3 DEF Session
  <2>6. new.seq \in 0..MaxEdits
    <3>1. IsFiniteSet(Edits) /\ Cardinality(Edits) = MaxEdits
      BY <1>a, FS_Interval DEF Edits
    <3>2. Cardinality(new.doc) <= MaxEdits /\ Cardinality(new.doc) \in Nat
      BY <3>1, <2>5, FS_Subset, FS_CardinalityType
    <3> QED
      BY <3>2, <2>4, <1>a
  <2>7. new \in Session
    BY Zenon, <2>2, <2>5, <2>6 DEF Session
  <2>8. session' = [session EXCEPT ![l] = new]
        /\ Goto(c, [stage |-> "persisting", at |-> l, edit |-> conn[c].edit,
                    doc |-> new.doc, seq |-> new.seq])
    BY Zenon, <1>8 DEF ApplyCommand
  <2> HIDE DEF l, new
  <2>9. [stage |-> "persisting", at |-> l, edit |-> conn[c].edit,
         doc |-> new.doc, seq |-> new.seq] \in Place
    BY Zenon, <2>1, <2>5, <2>6 DEF Place, Persisting
  <2>10. conn' \in [Conn -> Place]
    BY Zenon, <2>8, <2>9, <1>c
  <2>11. session' \in [Instance -> Session]
    BY Zenon, <2>8, <2>7, <2>1, <1>a DEF Typed
  <2> QED
    BY Zenon, <1>8, <1>a, <2>10, <2>11 DEF ApplyCommand, Typed, bounds
<1>9. ASSUME NEW c \in Conn, Persist(c) \/ PersistFails(c) PROVE Typed'
  <2>1. conn[c] \in Persisting
    BY <1>9, <1>a
       DEF Persist, PersistFails, Typed, Place, Unbound, Bound, Gated, Persisting, Out
  <2>2. [stage |-> "joined", at |-> conn[c].at] \in Place
    BY Zenon, <2>1 DEF Persisting, Place, Bound
  <2>3. conn' \in [Conn -> Place]
    BY Zenon, <2>2, <1>9, <1>c DEF Persist, PersistFails
  <2>4. Persist(c) => stored' \in [doc : SUBSET Edits, seq : 0..MaxEdits, archived : BOOLEAN]
    BY Zenon, <2>1, <1>a DEF Persist, Written, Typed, Persisting
  <2>5. Persist(c) => acked' \subseteq Edits
    BY Zenon, <2>1, <1>a DEF Persist, Typed, Persisting
  <2> QED
    BY Zenon, <1>9, <1>a, <2>3, <2>4, <2>5 DEF Persist, PersistFails, Typed, bounds
<1>10. ASSUME NEW l \in Instance, IdleTtlPasses(l) PROVE Typed'
  <2>1. session' \in [Instance -> Session]
    BY <1>10, <1>a DEF IdleTtlPasses, Typed, Session
  <2> QED
    BY Zenon, <1>10, <1>a, <2>1 DEF IdleTtlPasses, Typed, bounds
<1>11. CASE SweepLooks
  <2>1. live \in Instance /\ session[live] \in Session
    BY Zenon, <1>11, <1>a DEF SweepLooks, Typed
  <2>2. Observed(session[live]) \in Session
    BY Zenon, <2>1 DEF Observed, Session
  <2>3. session' \in [Instance -> Session]
    BY Zenon, <1>11, <1>a, <2>1, <2>2 DEF SweepLooks, Typed
  <2> QED
    BY Zenon, <1>11, <1>a, <2>1, <2>3 DEF SweepLooks, Typed, bounds
<1>12. CASE SweepRemoves
  <2>1. session' \in [Instance -> Session]
    BY Zenon, <1>12, <1>a, <1>e DEF SweepRemoves, SameEntry, Typed
  <2> QED
    BY Zenon, <1>12, <1>a, <2>1 DEF SweepRemoves, Typed, bounds
<1>13. CASE Archive \/ Unarchive
  BY Zenon, <1>13, <1>a DEF Archive, Unarchive, Typed, bounds
<1>14. CASE Revoke
  <2>1. session' \in [Instance -> Session]
    BY Zenon, <1>14, <1>a, <1>e DEF Revoke, Typed
  <2> QED
    BY Zenon, <1>14, <1>a, <2>1 DEF Revoke, Revoked, Typed, bounds
<1>15. CASE Crash
  <2>1. session' \in [Instance -> Session] /\ conn' \in [Conn -> Place]
    BY Zenon, <1>15, <1>d DEF Crash, Place, Unbound
  <2>2. crashes' \in Nat
    BY <1>15, <1>a DEF Crash, Typed
  <2> QED
    BY <1>15, <1>a, <2>1, <2>2, Zenon DEF Crash, Typed
<1>16. CASE UNCHANGED vars
  BY Zenon, <1>16, <1>a DEF vars, bounds, Typed
<1> QED
  BY Zenon, <1>1, <1>2, <1>3, <1>4, <1>5, <1>6, <1>7, <1>8, <1>9, <1>10, <1>11, <1>12,
     <1>13, <1>14,
     <1>15, <1>16 DEF Next, Opening, Editing, Sweeping

(* Every step keeps the registry's invariant.  The steps that move the     *)
(* registry or an instance's clients are the ones to look at: a name that  *)
(* Load takes is nobody's, a restored instance is registered alive, the    *)
(* sweep and the revocation take the entry they cancel out.                *)
LEMMA RegistryStep == RegistryInv /\ Typed' /\ [Next]_vars => RegistryInv'
<1> SUFFICES ASSUME RegistryInv, Typed', [Next]_vars PROVE RegistryInv'
  BY Zenon
<1>a. Typed /\ ClientsMatch /\ RestoringIsPrivate /\ SweptIsIdle /\ RegistryIsAlive
  BY Zenon DEF RegistryInv
<1>n. None \notin Instance
  BY Zenon, NoneIsNone
<1>b. \A l : l \in Held <=> l \in {live, sweep} \/ \E c \in Conn : Holds(c) /\ conn[c].at = l
  BY Zenon, <1>a, HeldByStage DEF Typed, Held, HeldByConn, Holds
<1>c. \A l : l \in Held' <=> l \in {live', sweep'} \/ \E c \in Conn : Holds(c)' /\ conn'[c].at = l
  BY Zenon, HeldByStage DEF Typed, Held, HeldByConn, Holds
<1>d. \A c \in Conn : Holds(c) => conn[c].at \in Instance
  BY Zenon, <1>a, HeldByStage DEF Typed, Holds
<1>e. \A s \in Session : [s EXCEPT !.cancelled = TRUE].clients = s.clients
                        /\ [s EXCEPT !.cancelled = TRUE].empty = s.empty
  BY Zenon DEF Session
<1> USE DEF RegistryInv
<1>1. ASSUME NEW c \in Conn, Authorize(c) \/ OpenFails(c) PROVE RegistryInv'
  <2>1. /\ UNCHANGED <<live, sweep, session>>
        /\ ~Holds(c)' /\ conn[c].stage \notin Inside /\ conn'[c].stage \notin Inside
        /\ \A d \in Conn \ {c} : conn'[d] = conn[d]
    BY <1>1, <1>a DEF Authorize, OpenFails, Goto, Typed, Holds, Holding, Inside, Out
  <2>2. ClientsMatch'
    BY <2>1, <1>a, <1>b, <1>c DEF ClientsMatch, Holds
  <2>3. RestoringIsPrivate'
    BY Zenon, <2>1, <1>a DEF RestoringIsPrivate, Holds, Holding
  <2> QED
    BY Zenon, <2>1, <2>2, <2>3, <1>a DEF SweptIsIdle, RegistryIsAlive
<1>2. ASSUME NEW c \in Conn, LookUp(c) PROVE RegistryInv'
  <2>1. /\ UNCHANGED <<live, sweep, session>>
        /\ conn[c].stage \notin Inside /\ conn'[c].stage \notin Inside
        /\ conn'[c].stage # "restoring" /\ (Holds(c)' => conn'[c].at = live)
        /\ \A d \in Conn \ {c} : conn'[d] = conn[d]
    BY Zenon, <1>2, <1>a DEF LookUp, Goto, Typed, Holds, Holding, Inside
  <2>2. ClientsMatch'
    BY <2>1, <1>a, <1>b, <1>c DEF ClientsMatch, Holds
  <2>3. RestoringIsPrivate'
    BY <2>1, <1>a DEF RestoringIsPrivate, Holds, Holding
  <2> QED
    BY Zenon, <2>1, <2>2, <2>3, <1>a DEF SweptIsIdle, RegistryIsAlive
<1>3. ASSUME NEW c \in Conn, Load(c) PROVE RegistryInv'
  <2> DEFINE m == Min(Free)
  <2>1. m \in Instance /\ m \notin Held
    BY Zenon, <1>3, MinIsFree DEF Load, Free
  <2>2. /\ UNCHANGED <<live, sweep>>
        /\ session' = [session EXCEPT ![m] = Restored]
        /\ conn[c].stage = "loading" /\ conn'[c] = [stage |-> "restoring", at |-> m]
        /\ \A d \in Conn \ {c} : conn'[d] = conn[d]
    BY Zenon, <1>3, <1>a DEF Load, Goto, Typed
  <2>3. Restored.clients = {} /\ ~Restored.cancelled
    BY Zenon DEF Restored, Blank
  <2> HIDE DEF m
  <2>4. session'[m].clients = {} /\ ~session'[m].cancelled
        /\ \A l \in Instance \ {m} : session'[l] = session[l]
    BY Zenon, <2>1, <2>2, <2>3, <1>a DEF Typed
  <2>5. \A d \in Conn \ {c} : Holds(d)' => conn'[d].at # m
    BY Zenon, <2>1, <2>2, <1>b DEF Holds
  <2>6. ClientsMatch'
    <3> SUFFICES ASSUME NEW l \in Instance, l \in Held'
                 PROVE  session'[l].clients
                          = {d \in Conn : conn'[d].stage \in Inside /\ conn'[d].at = l}
      BY Zenon DEF ClientsMatch
    <3>1. CASE l = m
      BY <3>1, <2>2, <2>4, <2>5 DEF Inside, Holds, Holding
    <3>2. CASE l # m
      <4>1. l \in Held
        BY <3>2, <1>b, <1>c, <2>2 DEF Holds
      <4> QED
        BY <3>2, <4>1, <2>2, <2>4, <1>a DEF ClientsMatch, Inside
    <3> QED
      BY Zenon, <3>1, <3>2
  <2>7. RestoringIsPrivate'
    <3> SUFFICES ASSUME NEW k \in Conn, conn'[k].stage = "restoring"
                 PROVE  /\ conn'[k].at \notin {live', sweep'}
                        /\ ~session'[conn'[k].at].cancelled
                        /\ \A d \in Conn : Holds(d)' /\ conn'[d].at = conn'[k].at => d = k
      BY Zenon DEF RestoringIsPrivate
    <3>1. CASE k = c
      BY <3>1, <2>1, <2>2, <2>4, <2>5, <1>b
    <3>2. CASE k # c
      <4>1. conn[k].stage = "restoring" /\ conn'[k].at = conn[k].at /\ conn[k].at \in Instance
            /\ conn[k].at # m
        BY Zenon, <3>2, <2>2, <2>5, <1>d DEF Holds, Holding
      <4> QED
        BY <3>2, <4>1, <2>1, <2>2, <2>4, <1>a DEF RestoringIsPrivate, Holds
    <3> QED
      BY Zenon, <3>1, <3>2
  <2>8. live # m /\ sweep # m
    BY Zenon, <2>1, <1>b
  <2> QED
    BY Zenon, <2>2, <2>4, <2>6, <2>7, <2>8, <1>a DEF SweptIsIdle, RegistryIsAlive, Typed
<1>4. ASSUME NEW c \in Conn, Register(c) PROVE RegistryInv'
  <2>1. /\ UNCHANGED <<sweep, session>>
        /\ conn[c].stage = "restoring" /\ live' = conn[c].at
        /\ conn'[c] = [stage |-> "upgrading", at |-> conn[c].at]
        /\ \A d \in Conn \ {c} : conn'[d] = conn[d]
    BY Zenon, <1>4, <1>a DEF Register, Goto, Typed
  <2>2. conn[c].at \in Instance /\ ~session[conn[c].at].cancelled /\ Holds(c)
        /\ \A d \in Conn : Holds(d) /\ conn[d].at = conn[c].at => d = c
    BY Zenon, <2>1, <1>a, <1>d DEF RestoringIsPrivate, Holds, Holding
  <2>3. ClientsMatch'
    BY <2>1, <2>2, <1>a, <1>b, <1>c DEF ClientsMatch, Holds, Holding, Inside
  <2>4. RestoringIsPrivate'
    BY <2>1, <2>2, <1>a DEF RestoringIsPrivate, Holds, Holding
  <2> QED
    BY Zenon, <2>1, <2>2, <2>3, <2>4, <1>a DEF SweptIsIdle, RegistryIsAlive
<1>5. ASSUME NEW c \in Conn, Join(c) PROVE RegistryInv'
  <2> DEFINE m == conn[c].at
  <2>1. /\ UNCHANGED <<live, sweep>>
        /\ m \in Instance /\ conn[c].stage = "upgrading" /\ m \in Held
        /\ conn'[c].stage = "joined" /\ conn'[c].at = m
        /\ \A d \in Conn \ {c} : conn'[d] = conn[d]
    <3>1. conn[c] \in Bound /\ conn[c].stage = "upgrading"
      BY <1>5, <1>a DEF Join, Typed, Place, Unbound, Bound, Gated, Persisting, Out
    <3> QED
      BY <3>1, <1>5, <1>a, <1>b DEF Join, Goto, Typed, Bound, Holds, Holding
  <2>2. /\ session'[m].clients = session[m].clients \union {c}
        /\ session'[m].cancelled = session[m].cancelled /\ session'[m].empty = session[m].empty
        /\ \A l \in Instance \ {m} : session'[l] = session[l]
    <3>1. session[m] \in Session
      BY Zenon, <2>1, <1>a DEF Typed
    <3> QED
      BY Zenon, <3>1, <2>1, <1>5, <1>a DEF Join, Typed, Session
  <2> HIDE DEF m
  <2>3. ClientsMatch'
    <3> SUFFICES ASSUME NEW l \in Instance, l \in Held'
                 PROVE  session'[l].clients
                          = {d \in Conn : conn'[d].stage \in Inside /\ conn'[d].at = l}
      BY Zenon DEF ClientsMatch
    <3>1. l \in Held
      BY <2>1, <1>b, <1>c DEF Holds, Holding, m
    <3>2. session[l].clients = {d \in Conn : conn[d].stage \in Inside /\ conn[d].at = l}
      BY Zenon, <3>1, <1>a DEF ClientsMatch
    <3> QED
      BY <3>2, <2>1, <2>2 DEF Inside
  <2>4. RestoringIsPrivate'
    BY <2>1, <2>2, <1>a, <1>d DEF RestoringIsPrivate, Holds, Holding, m
  <2> QED
    BY Zenon, <2>1, <2>2, <2>3, <2>4, <1>a DEF SweptIsIdle, RegistryIsAlive, Typed
<1>6. ASSUME NEW c \in Conn, Leave(c) PROVE RegistryInv'
  <2> DEFINE m == conn[c].at
  <2>1. /\ UNCHANGED <<live, sweep>>
        /\ m \in Instance /\ conn[c].stage = "joined" /\ conn'[c].stage = "out"
        /\ \A d \in Conn \ {c} : conn'[d] = conn[d]
    BY Zenon, <1>6, <1>a, <1>d DEF Leave, Goto, Typed, Out, Holds, Holding
  <2>2. /\ session'[m].clients = session[m].clients \ {c}
        /\ session'[m].cancelled = session[m].cancelled /\ session'[m].empty = session[m].empty
        /\ \A l \in Instance \ {m} : session'[l] = session[l]
    <3>1. session[m] \in Session
      BY Zenon, <2>1, <1>a DEF Typed
    <3> QED
      BY Zenon, <3>1, <2>1, <1>6, <1>a DEF Leave, Without, Typed, Session
  <2> HIDE DEF m
  <2>3. ClientsMatch'
    <3> SUFFICES ASSUME NEW l \in Instance, l \in Held'
                 PROVE  session'[l].clients
                          = {d \in Conn : conn'[d].stage \in Inside /\ conn'[d].at = l}
      BY Zenon DEF ClientsMatch
    <3>1. l \in Held
      BY <2>1, <1>b, <1>c DEF Holds, Holding
    <3>2. session[l].clients = {d \in Conn : conn[d].stage \in Inside /\ conn[d].at = l}
      BY Zenon, <3>1, <1>a DEF ClientsMatch
    <3> QED
      BY <3>2, <2>1, <2>2 DEF Inside, m
  <2>4. RestoringIsPrivate'
    BY <2>1, <2>2, <1>a, <1>d DEF RestoringIsPrivate, Holds, Holding
  <2> QED
    BY Zenon, <2>1, <2>2, <2>3, <2>4, <1>a DEF SweptIsIdle, RegistryIsAlive, Typed
<1>7. ASSUME NEW c \in Conn, Gate(c) \/ Persist(c) \/ PersistFails(c) PROVE RegistryInv'
  <2>1. /\ UNCHANGED <<live, sweep, session>>
        /\ conn[c].stage \in Inside /\ conn'[c].stage \in Inside /\ conn'[c].at = conn[c].at
        /\ \A d \in Conn \ {c} : conn'[d] = conn[d]
    BY <1>7, <1>a DEF Gate, Persist, PersistFails, Goto, Typed, Inside
  <2>2. ClientsMatch'
    BY <2>1, <1>a, <1>b, <1>c DEF ClientsMatch, Holds, Holding, Inside
  <2>3. RestoringIsPrivate'
    BY <2>1, <1>a, <1>d DEF RestoringIsPrivate, Holds, Holding, Inside
  <2> QED
    BY Zenon, <2>1, <2>2, <2>3, <1>a DEF SweptIsIdle, RegistryIsAlive
<1>8. ASSUME NEW c \in Conn, ApplyCommand(c) PROVE RegistryInv'
  <2>1. /\ UNCHANGED <<live, sweep>>
        /\ conn[c].stage \in Inside /\ conn'[c].stage \in Inside /\ conn'[c].at = conn[c].at
        /\ \A d \in Conn \ {c} : conn'[d] = conn[d]
    BY Zenon, <1>8, <1>a DEF ApplyCommand, Goto, Typed, Inside
  <2>2. \A l \in Instance : session'[l].clients = session[l].clients
            /\ session'[l].cancelled = session[l].cancelled /\ session'[l].empty = session[l].empty
    <3>1. \A l \in Instance : session[l] \in Session
      BY Zenon, <1>a DEF Typed
    <3> QED
      BY <3>1, <1>8, <1>a DEF ApplyCommand, Typed, Session
  <2>3. ClientsMatch'
    BY <2>1, <2>2, <1>a, <1>b, <1>c DEF ClientsMatch, Holds, Holding, Inside
  <2>4. RestoringIsPrivate'
    BY <2>1, <2>2, <1>a, <1>d DEF RestoringIsPrivate, Holds, Holding, Inside
  <2> QED
    BY Zenon, <2>1, <2>2, <2>3, <2>4, <1>a DEF SweptIsIdle, RegistryIsAlive, Typed
<1>9. ASSUME NEW l \in Instance, IdleTtlPasses(l) PROVE RegistryInv'
  <2>1. UNCHANGED <<live, sweep, conn>>
        /\ \A k \in Instance : session'[k].clients = session[k].clients
            /\ session'[k].cancelled = session[k].cancelled
            /\ (session[k].empty = "expired" => session'[k].empty = "expired")
    <3>1. \A k \in Instance : session[k] \in Session
      BY Zenon, <1>a DEF Typed
    <3> QED
      BY Zenon, <3>1, <1>9, <1>a DEF IdleTtlPasses, Typed, Session
  <2>2. ClientsMatch'
    BY <2>1, <1>a, <1>b, <1>c DEF ClientsMatch, Holds
  <2>3. RestoringIsPrivate'
    BY Zenon, <2>1, <1>a, <1>d DEF RestoringIsPrivate, Holds, Holding
  <2> QED
    BY Zenon, <2>1, <2>2, <2>3, <1>a DEF SweptIsIdle, RegistryIsAlive, Typed
<1>10. CASE SweepLooks
  <2>1. live \in Instance /\ sweep = None /\ UNCHANGED <<live, conn>>
        /\ session' = [session EXCEPT ![live] = Observed(session[live])]
        /\ sweep' = IF session[live].clients = {} /\ session[live].empty = "expired"
                    THEN live ELSE None
    BY Zenon, <1>10, <1>a DEF SweepLooks, Typed
  <2>2. LET s == session[live] IN
           /\ Observed(s).clients = s.clients /\ Observed(s).cancelled = s.cancelled
           /\ s.clients = {} /\ s.empty = "expired" => Observed(s).empty = "expired"
    <3>1. session[live] \in Session
      BY Zenon, <2>1, <1>a DEF Typed
    <3> QED
      BY Zenon, <3>1 DEF Observed, Session
  <2>3. \A k \in Instance : session'[k].clients = session[k].clients
            /\ session'[k].cancelled = session[k].cancelled
    BY Zenon, <2>1, <2>2, <1>a DEF Typed
  <2>4. ClientsMatch'
    BY <2>1, <2>3, <1>a, <1>b, <1>c, <1>n DEF ClientsMatch, Holds
  <2>5. RestoringIsPrivate'
    BY Zenon, <2>1, <2>3, <1>a, <1>d, <1>n DEF RestoringIsPrivate, Holds, Holding
  <2>6. SweptIsIdle'
    BY Zenon, <2>1, <2>2, <1>a DEF SweptIsIdle, Typed
  <2> QED
    BY Zenon, <2>1, <2>3, <2>4, <2>5, <2>6, <1>a DEF RegistryIsAlive, Typed
<1>11. ASSUME NEW gone \in Instance \union {None}, gone = live, UNCHANGED conn,
              live' = None, sweep' \in {sweep, None},
              session' = IF gone = None THEN session ELSE [session EXCEPT ![gone].cancelled = TRUE]
       PROVE  RegistryInv'
  <2>1. \A k \in Instance : session'[k].clients = session[k].clients
            /\ session'[k].empty = session[k].empty
            /\ (k # gone => session'[k].cancelled = session[k].cancelled)
    BY Zenon, <1>11, <1>a, <1>e DEF Typed
  <2>2. ClientsMatch'
    BY <2>1, <1>11, <1>a, <1>b, <1>c, <1>n DEF ClientsMatch, Holds
  <2>3. RestoringIsPrivate'
    BY <2>1, <1>11, <1>a, <1>d, <1>n DEF RestoringIsPrivate, Holds, Holding
  <2> QED
    BY Zenon, <2>1, <2>2, <2>3, <1>11, <1>a DEF SweptIsIdle, RegistryIsAlive, Typed
<1>12. CASE SweepRemoves
  <2>1. CASE live = sweep
    BY Zenon, <1>12, <2>1, <1>11, <1>a DEF SweepRemoves, SameEntry, Typed
  <2>2. CASE live # sweep
    <3>1. UNCHANGED <<live, session, conn>> /\ sweep' = None
      BY Zenon, <1>12, <2>2 DEF SweepRemoves, SameEntry
    <3>2. ClientsMatch'
      BY <3>1, <1>a, <1>b, <1>c, <1>n DEF ClientsMatch, Holds
    <3>3. RestoringIsPrivate'
      BY Zenon, <3>1, <1>a, <1>d, <1>n DEF RestoringIsPrivate, Holds, Holding
    <3> QED
      BY Zenon, <3>1, <3>2, <3>3, <1>a DEF SweptIsIdle, RegistryIsAlive
  <2> QED
    BY Zenon, <2>1, <2>2
<1>13. CASE Revoke
  BY Zenon, <1>13, <1>11, <1>a DEF Revoke, Revoked, Typed
<1>14. CASE UNCHANGED <<live, sweep, session, conn>>
  <2>1. ClientsMatch' /\ RestoringIsPrivate'
    BY <1>14, <1>a, <1>b, <1>c DEF ClientsMatch, RestoringIsPrivate, Holds
  <2> QED
    BY Zenon, <2>1, <1>14, <1>a DEF SweptIsIdle, RegistryIsAlive
<1>15. CASE Crash
  <2>1. live' = None /\ sweep' = None /\ \A c \in Conn : conn'[c].stage = "out"
    BY Zenon, <1>15 DEF Crash, Out
  <2>2. ClientsMatch' /\ RestoringIsPrivate'
    BY <2>1, <1>c, <1>n DEF ClientsMatch, RestoringIsPrivate, Holds, Holding
  <2> QED
    BY Zenon, <2>1, <2>2 DEF SweptIsIdle, RegistryIsAlive
<1>16. CASE Archive \/ Unarchive \/ UNCHANGED vars
  BY Zenon, <1>14, <1>16 DEF Archive, Unarchive, vars
<1> QED
  BY Zenon, <1>1, <1>2, <1>3, <1>4, <1>5, <1>6, <1>7, <1>8, <1>9, <1>10, <1>12, <1>13,
     <1>15, <1>16
     DEF Next, Opening, Editing, Sweeping

(* The sweep evicts an instance only after it was seen idle. *)
LEMMA EvictionStep ==
    RegistryInv /\ [Next]_vars => (EvictedNow => session[live].empty = "expired")
<1> SUFFICES ASSUME RegistryInv, [Next]_vars, EvictedNow PROVE session[live].empty = "expired"
  BY Zenon
<1>a. live # None /\ live' = None /\ UNCHANGED <<revoking, crashes>>
  BY Zenon DEF EvictedNow
<1>b. Typed /\ SweptIsIdle
  BY Zenon DEF RegistryInv
<1>1. ASSUME NEW c \in Conn PROVE ~Register(c)
  <2>1. conn[c].stage = "restoring" => conn[c].at # None
    BY Zenon, <1>b, HeldByStage, NoneIsNone DEF Typed, Holding
  <2> QED
    BY Zenon, <2>1, <1>a DEF Register
<1>2. ASSUME NEW c \in Conn PROVE ~(Opening(c) \/ Editing(c) \/ Leave(c))
  BY Zenon, <1>1, <1>a
     DEF Opening, Editing, Authorize, LookUp, Load, OpenFails, Join, Leave, Gate, ApplyCommand,
         Persist, PersistFails
<1>3. ASSUME NEW l \in Instance PROVE ~IdleTtlPasses(l)
  BY Zenon, <1>a DEF IdleTtlPasses
<1>4. ~SweepLooks /\ ~Archive /\ ~Unarchive /\ ~UNCHANGED vars
  BY Zenon, <1>a DEF SweepLooks, Archive, Unarchive, vars
<1>5. ~Revoke /\ ~Crash
  BY <1>a, <1>b DEF Revoke, Crash, Typed
<1>6. SweepRemoves
  BY Zenon, <1>2, <1>3, <1>4, <1>5 DEF Next, Sweeping
<1> QED
  BY Zenon, <1>6, <1>a, <1>b DEF SweepRemoves, SameEntry, SweptIsIdle

(* Every step keeps each copy's seq the number of its commands: a command  *)
(* is applied under a number of its own, and what is written or restored   *)
(* is a document with its seq.                                             *)
LEMMA SeqStep == RegistryInv /\ SeqInv /\ Typed' /\ [Next]_vars => SeqInv'
<1> SUFFICES ASSUME RegistryInv, SeqInv, Typed', [Next]_vars PROVE SeqInv'
  BY Zenon
<1>a. Typed /\ MaxEdits \in Nat
  BY Zenon, LiveAssumption DEF RegistryInv
<1>b. Cardinality({}) = 0
  BY Zenon, FS_EmptySet
<1>c. \A s \in Session : [s EXCEPT !.cancelled = TRUE].doc = s.doc
                        /\ [s EXCEPT !.cancelled = TRUE].seq = s.seq
  BY Zenon DEF Session
<1>d. \A l \in Instance : session[l] \in Session
  BY Zenon, <1>a DEF Typed
(* Steps that leave every copy as it was, or drop or restore one. *)
<1>1. ASSUME /\ stored'.doc = stored.doc /\ stored'.seq = stored.seq
             /\ edits' = edits
             /\ \A l \in Instance :
                   \/ session'[l].doc = session[l].doc /\ session'[l].seq = session[l].seq
                   \/ session'[l].doc = stored.doc /\ session'[l].seq = stored.seq
                   \/ session'[l].doc = {} /\ session'[l].seq = 0
             /\ \A c \in Conn : conn'[c].stage \in {"gated", "persisting"} => conn'[c] = conn[c]
      PROVE  SeqInv'
  <2>1. \A e \in Edits : Unused(e) => Unused(e)'
    BY Zenon, <1>1 DEF Unused
  <2>2. \A c \in Conn : conn[c].stage = "gated" => conn[c].edit \in Edits
    BY <1>a DEF Typed, Place, Unbound, Bound, Gated, Persisting, Out
  <2>3. Counted(stored)' /\ \A l \in Instance : Counted(session[l])'
    BY Zenon, <1>1, <1>b DEF SeqInv, Counted
  <2>4. \A c \in Conn : conn'[c].stage = "persisting" => Counted(conn[c])'
    BY Zenon, <1>1 DEF SeqInv, Counted
  <2>5. \A c \in Conn : conn'[c].stage = "gated"
                        => conn'[c].edit <= edits' /\ Unused(conn[c].edit)'
    BY Zenon, <1>1, <2>1, <2>2 DEF SeqInv
  <2>6. \A c, d \in Conn : conn'[c].stage = "gated" /\ conn'[d].stage = "gated"
                           /\ conn'[c].edit = conn'[d].edit => c = d
    BY Zenon, <1>1 DEF SeqInv
  <2>7. \A e \in Edits : e > edits' => Unused(e)'
    BY Zenon, <1>1, <2>1 DEF SeqInv
  <2> QED
    BY Zenon, <2>3, <2>4, <2>5, <2>6, <2>7 DEF SeqInv
<1>2. ASSUME NEW c \in Conn, Authorize(c) \/ OpenFails(c) \/ LookUp(c) \/ Register(c) PROVE SeqInv'
  BY <1>2, <1>1, <1>a DEF Authorize, OpenFails, LookUp, Register, Goto, Typed, Out, bounds
<1>3. ASSUME NEW c \in Conn, Load(c) PROVE SeqInv'
  <2>1. Restored.doc = stored.doc /\ Restored.seq = stored.seq
    BY Zenon DEF Restored, Blank
  <2> QED
    BY Zenon, <1>3, <2>1, <1>1, <1>a DEF Load, Goto, Typed, bounds
<1>4. ASSUME NEW c \in Conn, Join(c) \/ Leave(c) PROVE SeqInv'
  <2>1. \A l \in Instance : session'[l].doc = session[l].doc /\ session'[l].seq = session[l].seq
    BY <1>4, <1>d, <1>a DEF Join, Leave, Without, Typed, Session
  <2>2. \A d \in Conn : conn'[d].stage \in {"gated", "persisting"} => conn'[d] = conn[d]
    <3>1. Join(c) => conn[c] \in Bound
      BY <1>a DEF Join, Typed, Place, Unbound, Bound, Gated, Persisting, Out
    <3> QED
      BY <1>4, <3>1, <1>a DEF Join, Leave, Goto, Typed, Bound, Out
  <2> QED
    BY Zenon, <1>4, <2>1, <2>2, <1>1 DEF Join, Leave, bounds
<1>5. ASSUME NEW l \in Instance, IdleTtlPasses(l) PROVE SeqInv'
  <2>1. \A k \in Instance : session'[k].doc = session[k].doc /\ session'[k].seq = session[k].seq
    BY Zenon, <1>5, <1>d, <1>a DEF IdleTtlPasses, Typed, Session
  <2> QED
    BY Zenon, <1>5, <2>1, <1>1 DEF IdleTtlPasses, bounds
<1>6. CASE SweepLooks
  <2>1. live \in Instance
    BY Zenon, <1>6, <1>a DEF SweepLooks, Typed
  <2>2. Observed(session[live]).doc = session[live].doc
        /\ Observed(session[live]).seq = session[live].seq
    BY Zenon, <2>1, <1>d DEF Observed, Session
  <2>3. \A k \in Instance : session'[k].doc = session[k].doc /\ session'[k].seq = session[k].seq
    BY Zenon, <1>6, <2>1, <2>2, <1>a DEF SweepLooks, Typed
  <2> QED
    BY Zenon, <1>6, <2>3, <1>1 DEF SweepLooks, bounds
<1>7. CASE SweepRemoves \/ Revoke
  <2>1. \A k \in Instance : session'[k].doc = session[k].doc /\ session'[k].seq = session[k].seq
    BY ZenonT(60), <1>7, <1>a, <1>c, <1>d DEF SweepRemoves, SameEntry, Revoke, Typed
  <2> QED
    BY Zenon, <1>7, <2>1, <1>1 DEF SweepRemoves, Revoke, bounds
<1>8. CASE Archive \/ Unarchive \/ UNCHANGED vars
  <2>1. stored'.doc = stored.doc /\ stored'.seq = stored.seq
    BY Zenon, <1>8, <1>a DEF Archive, Unarchive, vars, Typed
  <2> QED
    BY Zenon, <1>8, <2>1, <1>1 DEF Archive, Unarchive, vars, bounds
<1>9. CASE Crash
  BY Zenon, <1>9, <1>1, <1>a DEF Crash, Blank, Out
<1>10. ASSUME NEW c \in Conn, PersistFails(c) PROVE SeqInv'
  BY Zenon, <1>10, <1>1, <1>a DEF PersistFails, Goto, Typed
<1>11. ASSUME NEW c \in Conn, Gate(c) PROVE SeqInv'
  <2>1. /\ edits \in Nat /\ edits' = edits + 1 /\ edits + 1 \in Edits
        /\ conn'[c] = [stage |-> "gated", at |-> conn[c].at, edit |-> edits + 1]
        /\ \A d \in Conn \ {c} : conn'[d] = conn[d]
        /\ UNCHANGED <<stored, session>>
    BY <1>11, <1>a DEF Gate, Goto, Typed, Edits
  <2>2. \A e \in Edits : Unused(e) => Unused(e)'
    BY <2>1 DEF Unused
  <2>3. \A d \in Conn : conn[d].stage = "gated" => conn[d].edit \in Edits /\ conn[d].edit <= edits
    BY <1>a DEF SeqInv, Typed, Place, Unbound, Bound, Gated, Persisting, Out
  <2>4. Unused(edits + 1)
    BY <2>1 DEF SeqInv
  <2>5. Counted(stored)' /\ \A l \in Instance : Counted(session[l])'
    BY Zenon, <2>1 DEF SeqInv, Counted
  <2>6. \A d \in Conn : conn'[d].stage = "persisting" => Counted(conn[d])'
    BY <2>1 DEF SeqInv, Counted
  <2>7. \A d \in Conn : conn'[d].stage = "gated"
                        => conn'[d].edit <= edits' /\ Unused(conn[d].edit)'
    <3> SUFFICES ASSUME NEW d \in Conn, conn'[d].stage = "gated"
                 PROVE  conn'[d].edit <= edits' /\ Unused(conn[d].edit)'
      BY Zenon
    <3>1. conn'[d].edit \in Edits /\ conn'[d].edit <= edits + 1 /\ Unused(conn'[d].edit)
      <4>1. CASE d = c
        BY <4>1, <2>1, <2>4
      <4>2. CASE d # c
        <5>1. conn'[d] = conn[d] /\ Unused(conn[d].edit)
          BY Zenon, <4>2, <2>1 DEF SeqInv
        <5>2. conn[d].edit \in Edits /\ conn[d].edit <= edits
          BY Zenon, <5>1, <2>3
        <5> QED
          BY <5>1, <5>2, <2>1, <1>a DEF Edits
      <4> QED
        BY Zenon, <4>1, <4>2
    <3> QED
      BY Zenon, <3>1, <2>1, <2>2 DEF Unused
  <2>8. \A k, d \in Conn : conn'[k].stage = "gated" /\ conn'[d].stage = "gated"
                           /\ conn'[k].edit = conn'[d].edit => k = d
    <3>1. \A d \in Conn \ {c} : conn'[d].stage = "gated" => conn'[d].edit # edits + 1
      BY <2>1, <2>3 DEF Edits
    <3> QED
      BY <3>1, <2>1 DEF SeqInv
  <2>9. \A e \in Edits : e > edits' => Unused(e)'
    BY <2>1, <2>2 DEF SeqInv, Edits
  <2> QED
    BY Zenon, <2>5, <2>6, <2>7, <2>8, <2>9 DEF SeqInv
<1>12. ASSUME NEW c \in Conn, ApplyCommand(c) PROVE SeqInv'
  <2> DEFINE l == conn[c].at
             e == conn[c].edit
  <2>1. l \in Instance /\ e \in Edits /\ e <= edits /\ Unused(e) /\ conn[c].stage = "gated"
    <3>1. conn[c].stage = "gated" /\ conn[c] \in Place
      BY Zenon, <1>12, <1>a DEF ApplyCommand, Typed
    <3>2. conn[c] \in Gated
      BY <3>1 DEF Place, Unbound, Bound, Gated, Persisting, Out
    <3>3. l \in Instance /\ e \in Edits
      BY Zenon, <3>2 DEF Gated
    <3> QED
      BY Zenon, <3>1, <3>3 DEF SeqInv
  <2>2. /\ session'[l].doc = session[l].doc \union {e} /\ session'[l].seq = session[l].seq + 1
        /\ \A k \in Instance \ {l} : session'[k] = session[k]
        /\ conn'[c] = [stage |-> "persisting", at |-> l, edit |-> e,
                       doc |-> session[l].doc \union {e}, seq |-> session[l].seq + 1]
        /\ \A d \in Conn \ {c} : conn'[d] = conn[d]
        /\ UNCHANGED <<stored, edits>>
    <3> DEFINE new == [session[l] EXCEPT !.doc = @ \union {e}, !.seq = @ + 1]
    <3>1. session[l] \in Session
      BY Zenon, <2>1, <1>d
    <3>2. new.doc = session[l].doc \union {e} /\ new.seq = session[l].seq + 1
      BY Zenon, <3>1 DEF Session
    <3>3. /\ session' = [session EXCEPT ![l] = new]
          /\ conn' = [conn EXCEPT ![c] = [stage |-> "persisting", at |-> l, edit |-> e,
                                          doc |-> new.doc, seq |-> new.seq]]
          /\ UNCHANGED <<stored, edits>>
      BY Zenon, <1>12 DEF ApplyCommand, Goto, bounds
    <3>4. session \in [Instance -> Session] /\ conn \in [Conn -> Place]
      BY Zenon, <1>a DEF Typed
    <3> HIDE DEF l, e, new
    <3>5. session'[l] = new /\ \A k \in Instance \ {l} : session'[k] = session[k]
      BY Zenon, <2>1, <3>3, <3>4
    <3>6. /\ conn'[c] = [stage |-> "persisting", at |-> l, edit |-> e,
                         doc |-> new.doc, seq |-> new.seq]
          /\ \A d \in Conn \ {c} : conn'[d] = conn[d]
      BY Zenon, <1>12, <3>3, <3>4
    <3> QED
      BY Zenon, <3>2, <3>3, <3>5, <3>6
  <2> HIDE DEF l, e
  <2>3. session[l].seq + 1 = Cardinality(session[l].doc \union {e})
    <3>1. IsFiniteSet(Edits)
      BY <1>a, FS_Interval DEF Edits
    <3>2. session[l].doc \subseteq Edits
      BY Zenon, <2>1, <1>d DEF Session
    <3>3. IsFiniteSet(session[l].doc)
      BY Zenon, <3>1, <3>2, FS_Subset
    <3>4. e \notin session[l].doc /\ session[l].seq = Cardinality(session[l].doc)
      BY Zenon, <2>1 DEF Unused, SeqInv, Counted
    <3> QED
      BY Zenon, <3>3, <3>4, FS_AddElement
  <2>4. \A x \in Edits : Unused(x) /\ x # e => Unused(x)'
    BY <2>1, <2>2 DEF Unused
  <2>5. Counted(stored)' /\ \A k \in Instance : Counted(session[k])'
    BY Zenon, <2>1, <2>2, <2>3 DEF SeqInv, Counted
  <2>6. \A d \in Conn : conn'[d].stage = "persisting" => Counted(conn[d])'
    <3>1. Counted(conn'[c])
      BY <2>2, <2>3 DEF Counted
    <3>2. \A d \in Conn \ {c} : conn'[d].stage = "persisting" => Counted(conn'[d])
      BY Zenon, <2>2 DEF SeqInv
    <3> QED
      BY Zenon, <3>1, <3>2 DEF Counted
  <2>7. \A d \in Conn : conn[d].stage = "gated" => conn[d].edit \in Edits
    BY <1>a DEF Typed, Place, Unbound, Bound, Gated, Persisting, Out
  <2>8. \A d \in Conn \ {c} : conn[d].stage = "gated" => conn[d].edit # e
    BY Zenon, <2>1 DEF SeqInv, e
  <2>9. \A d \in Conn : conn'[d].stage = "gated" => d # c /\ conn'[d] = conn[d]
    BY <2>2
  <2>10. \A d \in Conn : conn'[d].stage = "gated"
                         => conn'[d].edit <= edits' /\ Unused(conn[d].edit)'
    BY Zenon, <2>2, <2>4, <2>7, <2>8, <2>9 DEF SeqInv
  <2>11. \A k, d \in Conn : conn'[k].stage = "gated" /\ conn'[d].stage = "gated"
                            /\ conn'[k].edit = conn'[d].edit => k = d
    BY Zenon, <2>9 DEF SeqInv
  <2>12. \A x \in Edits : x > edits' => Unused(x)'
    BY <2>1, <2>2, <2>4, <1>a DEF SeqInv, Edits, Typed
  <2> QED
    BY Zenon, <2>5, <2>6, <2>10, <2>11, <2>12 DEF SeqInv
<1>13. ASSUME NEW c \in Conn, Persist(c) PROVE SeqInv'
  <2>1. /\ conn[c].stage = "persisting"
        /\ stored'.doc = conn[c].doc /\ stored'.seq = conn[c].seq
        /\ conn'[c].stage = "joined"
        /\ \A d \in Conn \ {c} : conn'[d] = conn[d]
        /\ UNCHANGED <<session, edits>>
    BY Zenon, <1>13, <1>a DEF Persist, Written, Goto, Typed, bounds
  <2>2. \A e \in Edits : Unused(e) => Unused(e)'
    BY Zenon, <2>1 DEF Unused
  <2>3. \A d \in Conn : conn[d].stage = "gated" => conn[d].edit \in Edits
    BY <1>a DEF Typed, Place, Unbound, Bound, Gated, Persisting, Out
  <2>4. Counted(stored)' /\ \A l \in Instance : Counted(session[l])'
    BY Zenon, <2>1 DEF SeqInv, Counted
  <2>5. \A d \in Conn : conn'[d].stage = "persisting" => Counted(conn[d])'
    BY Zenon, <2>1 DEF SeqInv, Counted
  <2>6. \A d \in Conn : conn'[d].stage = "gated"
                        => conn'[d].edit <= edits' /\ Unused(conn[d].edit)'
    BY Zenon, <2>1, <2>2, <2>3 DEF SeqInv
  <2>7. \A k, d \in Conn : conn'[k].stage = "gated" /\ conn'[d].stage = "gated"
                           /\ conn'[k].edit = conn'[d].edit => k = d
    BY Zenon, <2>1 DEF SeqInv
  <2>8. \A e \in Edits : e > edits' => Unused(e)'
    BY Zenon, <2>1, <2>2 DEF SeqInv
  <2> QED
    BY Zenon, <2>4, <2>5, <2>6, <2>7, <2>8 DEF SeqInv
<1> QED
  BY Zenon, <1>2, <1>3, <1>4, <1>5, <1>6, <1>7, <1>8, <1>9, <1>10, <1>11, <1>12, <1>13
     DEF Next, Opening, Editing, Sweeping

----------------------------------------------------------------------------
InUse == ({live} \union HeldByConn) \ {None}

(* Until a race: the one instance in use has every persisted command, and  *)
(* the clone about to be written is its document.                          *)
AckInv ==
    ~raced =>
        /\ ~Forked /\ ~Crowded
        /\ acked \subseteq stored.doc
        /\ \A l \in InUse : stored.doc \subseteq session[l].doc
        /\ \A c \in Conn : conn[c].stage = "persisting" =>
               conn[c].doc = session[conn[c].at].doc /\ conn[c].edit \in conn[c].doc

IInv == RegistryInv /\ SeqInv /\ AckInv

(* Without a fork there is one instance in use at most. *)
LEMMA OneInUse ==
    ASSUME Typed, ~Forked
    PROVE  \A x, y \in InUse : x = y
<1> SUFFICES ASSUME NEW x \in InUse, NEW y \in InUse, x # y PROVE FALSE
  BY Zenon
<1> DEFINE Holders == {k \in Conn : "at" \in DOMAIN conn[k]}
<1>1. IsFiniteSet(Holders)
  <2>1. IsFiniteSet(Conn) /\ Holders \subseteq Conn
    BY Zenon, LiveAssumption
  <2> QED
    BY Zenon, <2>1, FS_Subset
<1>2. IsFiniteSet(HeldByConn)
  <2> DEFINE f == [c \in Holders |-> conn[c].at]
  <2>1. f \in Surjection(Holders, HeldByConn)
    BY Zenon DEF Surjection, HeldByConn
  <2> HIDE DEF f, Holders
  <2> QED
    BY Zenon, <1>1, <2>1, FS_Surjection
<1>3. IsFiniteSet(InUse)
  <2>1. IsFiniteSet({live}) /\ InUse \subseteq {live} \union HeldByConn
    BY Zenon, FS_Singleton DEF InUse
  <2>2. IsFiniteSet({live} \union HeldByConn)
    BY Zenon, <2>1, <1>2, FS_Union
  <2> QED
    BY Zenon, <2>1, <2>2, FS_Subset
<1>4. Cardinality({x}) = 1 /\ Cardinality({x, y}) = 2 /\ {x, y} \subseteq InUse
  <2>1. IsFiniteSet({x}) /\ Cardinality({x}) = 1
    BY Zenon, FS_Singleton
  <2>2. Cardinality({x} \union {y}) = Cardinality({x}) + 1
    BY Zenon, <2>1, FS_AddElement
  <2> QED
    BY <2>1, <2>2
<1>5. Cardinality({x, y}) <= Cardinality(InUse) /\ Cardinality(InUse) \in Nat
  BY Zenon, <1>3, <1>4, FS_Subset, FS_CardinalityType
<1> QED
  BY <1>4, <1>5 DEF Forked, InUse

(* What is in use, read off the stages. *)
LEMMA InUseByStage ==
    ASSUME Typed
    PROVE  \A l : l \in InUse <=> l # None /\ (l = live \/ \E c \in Conn : Holds(c) /\ conn[c].at = l)
BY Zenon, HeldByStage DEF Typed, InUse, HeldByConn, Holds

(* Every step keeps what is acknowledged in the row until a race. *)
LEMMA AckStep == IInv /\ RegistryInv' /\ [RaceNext]_raceVars => AckInv'
<1> SUFFICES ASSUME IInv, RegistryInv', [RaceNext]_raceVars, ~raced' PROVE AckInv'
  BY Zenon DEF AckInv
<1>a. Typed /\ Typed' /\ None \notin Instance
  BY Zenon, NoneIsNone DEF IInv, RegistryInv
<1>b. ~raced /\ ~(Forked \/ Crowded)'
  <2>1. CASE UNCHANGED raceVars
    <3>1. UNCHANGED <<live, conn, raced>>
      BY Zenon, <2>1 DEF raceVars, vars
    <3> QED
      BY Zenon, <3>1 DEF IInv, AckInv, Forked, Crowded, HeldByConn
  <2>2. CASE RaceNext
    BY Zenon, <2>2 DEF RaceNext
  <2> QED
    BY Zenon, <2>1, <2>2
<1>c. /\ ~Forked /\ ~Crowded
      /\ acked \subseteq stored.doc
      /\ \A l \in InUse : stored.doc \subseteq session[l].doc
      /\ \A c \in Conn : conn[c].stage = "persisting" =>
             conn[c].doc = session[conn[c].at].doc /\ conn[c].edit \in conn[c].doc
  BY Zenon, <1>b DEF IInv, AckInv
<1>d. \A l : l \in InUse <=> l # None /\ (l = live \/ \E c \in Conn : Holds(c) /\ conn[c].at = l)
  BY Zenon, <1>a, InUseByStage
<1>e. \A l : l \in InUse' <=> l # None /\ (l = live' \/ \E c \in Conn : Holds(c)' /\ conn'[c].at = l)
  BY Zenon, <1>a, HeldByStage DEF Typed, InUse, HeldByConn, Holds
<1>f. \A c \in Conn : Holds(c) => conn[c].at \in Instance
  BY Zenon, <1>a, HeldByStage DEF Typed, Holds
<1>g. \A l \in Instance : session[l] \in Session
  BY Zenon, <1>a DEF Typed
(* Steps that write no document and take no new instance into use. *)
<1>1. ASSUME /\ acked' = acked /\ stored'.doc = stored.doc
             /\ \A l \in InUse' : l \in InUse /\ session'[l].doc = session[l].doc
             /\ \A c \in Conn : conn'[c].stage = "persisting" => conn'[c] = conn[c]
      PROVE  AckInv'
  <2>1. \A l \in InUse' : stored'.doc \subseteq session'[l].doc
    BY Zenon, <1>1, <1>c
  <2>2. \A c \in Conn : conn'[c].stage = "persisting" => conn'[c].at \in InUse'
    BY <1>1, <1>a, <1>e, <1>f DEF Holds, Holding
  <2>3. \A c \in Conn : conn'[c].stage = "persisting" =>
             conn'[c].doc = session'[conn'[c].at].doc /\ conn'[c].edit \in conn'[c].doc
    BY <1>1, <1>c, <2>2
  <2> QED
    BY Zenon, <1>1, <1>b, <1>c, <2>1, <2>3 DEF AckInv
<1>2. ASSUME NEW c \in Conn, Authorize(c) \/ OpenFails(c) \/ LookUp(c) \/ Register(c)
      PROVE  AckInv'
  <2>1. UNCHANGED <<acked, stored, session>>
        /\ (live' = live \/ (conn[c].stage = "restoring" /\ live' = conn[c].at))
        /\ (Holds(c)' => (conn'[c].at = live \/ (Holds(c) /\ conn'[c].at = conn[c].at)))
        /\ conn'[c].stage # "persisting"
        /\ \A d \in Conn \ {c} : conn'[d] = conn[d]
    BY <1>2, <1>a
       DEF Authorize, OpenFails, LookUp, Register, Goto, Typed, Out, Holds, Holding
  <2>2. \A l \in InUse' : l \in InUse
    BY <2>1, <1>d, <1>e DEF Holds, Holding
  <2> QED
    BY Zenon, <2>1, <2>2, <1>1
<1>3. ASSUME NEW c \in Conn, Load(c) PROVE AckInv'
  <2> DEFINE m == Min(Free)
  <2>1. m \in Instance /\ m \notin Held
    BY Zenon, <1>3, MinIsFree DEF Load, Free
  <2>2. /\ UNCHANGED <<live, acked, stored>>
        /\ session' = [session EXCEPT ![m] = Restored]
        /\ conn'[c] = [stage |-> "restoring", at |-> m]
        /\ \A d \in Conn \ {c} : conn'[d] = conn[d]
    BY Zenon, <1>3, <1>a DEF Load, Goto, Typed
  <2>3. Restored.doc = stored.doc
    BY Zenon DEF Restored, Blank
  <2> HIDE DEF m
  <2>4. session'[m].doc = stored.doc /\ \A l \in Instance \ {m} : session'[l] = session[l]
    BY Zenon, <2>1, <2>2, <2>3, <1>a DEF Typed
  <2>5. \A l \in InUse' : l = m \/ (l \in InUse /\ l \in Instance \ {m})
    <3>1. InUse \subseteq Held /\ InUse \subseteq Instance
      BY <1>a, <1>d, <1>f DEF InUse, Held, Typed
    <3> QED
      BY <3>1, <2>1, <2>2, <1>d, <1>e DEF Holds
  <2>6. \A l \in InUse' : stored'.doc \subseteq session'[l].doc
    BY Zenon, <2>2, <2>4, <2>5, <1>c
  <2>7. \A d \in Conn : conn'[d].stage = "persisting" => d # c /\ conn'[d] = conn[d]
    BY <2>2
  <2>8. \A d \in Conn : conn[d].stage = "persisting" => conn[d].at \in Instance \ {m}
    BY Zenon, <2>1, <1>a, <1>f, HeldByStage DEF Typed, Holds, Holding, Held, HeldByConn
  <2>9. \A d \in Conn : conn'[d].stage = "persisting" =>
             conn'[d].doc = session'[conn'[d].at].doc /\ conn'[d].edit \in conn'[d].doc
    BY <2>4, <2>7, <2>8, <1>c
  <2> QED
    BY Zenon, <2>2, <2>6, <2>9, <1>b, <1>c DEF AckInv
<1>4. ASSUME NEW c \in Conn, Join(c) \/ Leave(c) PROVE AckInv'
  <2>1. \A l \in Instance : session'[l].doc = session[l].doc
    BY <1>4, <1>g, <1>a DEF Join, Leave, Without, Typed, Session
  <2>2. /\ \A d \in Conn \ {c} : conn'[d] = conn[d]
        /\ conn'[c].stage # "persisting" /\ (Holds(c)' => Holds(c) /\ conn'[c].at = conn[c].at)
    <3>1. Join(c) => conn[c] \in Bound
      BY <1>a DEF Join, Typed, Place, Unbound, Bound, Gated, Persisting, Out
    <3> QED
      BY <1>4, <3>1, <1>a DEF Join, Leave, Goto, Typed, Bound, Out, Holds, Holding
  <2>3. UNCHANGED <<acked, stored, live>>
    BY Zenon, <1>4 DEF Join, Leave
  <2>4. \A l \in InUse' : l \in InUse /\ l \in Instance
    BY <2>2, <2>3, <1>a, <1>d, <1>e, <1>f DEF Holds, Typed
  <2> QED
    BY Zenon, <2>1, <2>2, <2>3, <2>4, <1>1
(* Steps that change nothing of the documents and no connection. *)
<1>5. ASSUME UNCHANGED <<acked, conn>>, stored'.doc = stored.doc, live' \in {live, None},
             \A l \in Instance : session'[l].doc = session[l].doc
      PROVE  AckInv'
  <2>1. \A l \in InUse' : l \in InUse /\ l \in Instance
    BY <1>5, <1>a, <1>d, <1>e, <1>f DEF Holds, Typed
  <2> QED
    BY Zenon, <2>1, <1>5, <1>1
<1>6. ASSUME NEW l \in Instance, IdleTtlPasses(l) PROVE AckInv'
  <2>1. \A k \in Instance : session'[k].doc = session[k].doc
    BY <1>6, <1>a, <1>g DEF IdleTtlPasses, Typed, Session
  <2> QED
    BY Zenon, <1>6, <2>1, <1>5 DEF IdleTtlPasses
<1>7. CASE SweepLooks
  <2>1. live \in Instance
    BY Zenon, <1>7, <1>a DEF SweepLooks, Typed
  <2>2. Observed(session[live]).doc = session[live].doc
    BY Zenon, <2>1, <1>g DEF Observed, Session
  <2>3. \A k \in Instance : session'[k].doc = session[k].doc
    BY Zenon, <1>7, <2>1, <2>2, <1>a DEF SweepLooks, Typed
  <2> QED
    BY Zenon, <1>7, <2>3, <1>5 DEF SweepLooks
<1>8. CASE SweepRemoves \/ Revoke
  <2>1. \A s \in Session : [s EXCEPT !.cancelled = TRUE].doc = s.doc
    BY Zenon DEF Session
  <2>2. \A k \in Instance : session'[k].doc = session[k].doc
    BY ZenonT(60), <1>8, <2>1, <1>a, <1>g DEF SweepRemoves, SameEntry, Revoke, Typed
  <2> QED
    BY Zenon, <1>8, <2>2, <1>5 DEF SweepRemoves, Revoke, Revoked
<1>9. CASE Archive \/ Unarchive \/ UNCHANGED raceVars
  <2>1. stored'.doc = stored.doc
    BY Zenon, <1>9, <1>a DEF Archive, Unarchive, raceVars, vars, Typed
  <2> QED
    BY Zenon, <1>9, <2>1, <1>5 DEF Archive, Unarchive, raceVars, vars
<1>10. CASE Crash
  <2>1. live' = None /\ (\A c \in Conn : conn'[c].stage = "out") /\ UNCHANGED <<acked, stored>>
    BY Zenon, <1>10 DEF Crash, Out
  <2>2. InUse' = {}
    BY Zenon, <2>1, <1>e DEF Holds, Holding
  <2> QED
    BY Zenon, <2>1, <2>2, <1>1
<1>11. ASSUME NEW c \in Conn, Gate(c) \/ PersistFails(c) PROVE AckInv'
  <2>1. /\ UNCHANGED <<acked, stored, session, live>>
        /\ Holds(c) /\ conn'[c].stage # "persisting" /\ conn'[c].at = conn[c].at
        /\ \A d \in Conn \ {c} : conn'[d] = conn[d]
    BY <1>11, <1>a DEF Gate, PersistFails, Goto, Typed, Holds, Holding
  <2>2. \A l \in InUse' : l \in InUse
    BY <2>1, <1>d, <1>e DEF Holds
  <2> QED
    BY Zenon, <2>1, <2>2, <1>1
<1>12. ASSUME NEW c \in Conn, ApplyCommand(c) PROVE AckInv'
  <2> DEFINE l == conn[c].at
             e == conn[c].edit
  <2>1. l \in Instance /\ Holds(c)
    BY Zenon, <1>12, <1>f DEF ApplyCommand, Holds, Holding
  <2>2. /\ session'[l].doc = session[l].doc \union {e}
        /\ \A k \in Instance \ {l} : session'[k] = session[k]
        /\ conn'[c].stage = "persisting" /\ conn'[c].at = l /\ conn'[c].edit = e
        /\ conn'[c].doc = session[l].doc \union {e}
        /\ \A d \in Conn \ {c} : conn'[d] = conn[d]
        /\ UNCHANGED <<stored, acked, live>>
    BY ZenonT(60), <1>12, <1>a, <1>g, <2>1 DEF ApplyCommand, Goto, Typed, Session, bounds
  <2> HIDE DEF e
  <2>3. \A k \in InUse' : k \in InUse /\ k \in Instance
    BY <2>1, <2>2, <1>a, <1>d, <1>e, <1>f DEF Holds, Typed
  <2>4. \A k \in InUse' : stored'.doc \subseteq session'[k].doc
    BY Zenon, <2>1, <2>2, <2>3, <1>c
  <2>5. \A d \in Conn : conn'[d].stage = "persisting" => d = c
    BY Zenon, <2>2, <1>b DEF Crowded
  <2>6. \A d \in Conn : conn'[d].stage = "persisting" =>
             conn'[d].doc = session'[conn'[d].at].doc /\ conn'[d].edit \in conn'[d].doc
    BY Zenon, <2>2, <2>5
  <2> QED
    BY Zenon, <2>2, <2>4, <2>6, <1>b, <1>c DEF AckInv
<1>13. ASSUME NEW c \in Conn, Persist(c) PROVE AckInv'
  <2>1. /\ conn[c].stage = "persisting" /\ stored'.doc = conn[c].doc
        /\ acked' = acked \union {conn[c].edit} /\ UNCHANGED <<session, live>>
        /\ conn'[c].stage = "joined" /\ conn'[c].at = conn[c].at
        /\ \A d \in Conn \ {c} : conn'[d] = conn[d]
    BY Zenon, <1>13, <1>a DEF Persist, Written, Goto, Typed
  <2>2. Holds(c) /\ conn[c].at \in InUse
    BY Zenon, <2>1, <1>a, <1>d, <1>f DEF Holds, Holding
  <2>3. \A l \in InUse' : l = conn[c].at
    <3>1. \A x, y \in InUse : x = y
      BY Zenon, <1>a, <1>c, OneInUse
    <3>2. \A l \in InUse' : l \in InUse
      BY <2>1, <2>2, <1>d, <1>e DEF Holds
    <3> QED
      BY Zenon, <3>1, <3>2, <2>2
  <2>4. acked' \subseteq stored'.doc
    BY Zenon, <2>1, <2>2, <1>c
  <2>5. \A d \in Conn : conn'[d].stage # "persisting"
    BY Zenon, <2>1, <1>c DEF Crowded
  <2> QED
    BY Zenon, <2>1, <2>3, <2>4, <2>5, <1>b, <1>c DEF AckInv
<1> QED
  BY Zenon, <1>2, <1>3, <1>4, <1>6, <1>7, <1>8, <1>9, <1>10, <1>11, <1>12, <1>13
     DEF RaceNext, Next, Opening, Editing, Sweeping

----------------------------------------------------------------------------
(* The invariant holds in every state. *)
THEOREM InvariantHolds == RaceSpec => []IInv
<1>1. RaceInit => IInv
  <2> SUFFICES ASSUME RaceInit PROVE IInv
    BY Zenon
  <2>1. RegistryInv
    BY Zenon, RegistryInit DEF RaceInit
  <2>2. SeqInv
    BY Zenon, FS_EmptySet DEF RaceInit, Init, SeqInv, Counted, Unused, Blank, Out
  <2>3. InUse = {} /\ ~Crowded
    BY Zenon, <2>1, InUseByStage
       DEF RegistryInv, RaceInit, Init, Holds, Holding, Out, Crowded
  <2>4. ~Forked
    BY <2>3, FS_EmptySet DEF InUse, Forked
  <2> QED
    <3>1. acked = {} /\ \A c \in Conn : conn[c].stage = "out"
      BY Zenon DEF RaceInit, Init, Out
    <3>2. AckInv
      BY Zenon, <3>1, <2>3, <2>4 DEF AckInv
    <3> QED
      BY Zenon, <2>1, <2>2, <3>2 DEF IInv
<1>2. IInv /\ [RaceNext]_raceVars => IInv'
  <2> SUFFICES ASSUME IInv, [RaceNext]_raceVars PROVE IInv'
    BY Zenon
  <2>1. [Next]_vars
    BY Zenon DEF RaceNext, raceVars
  <2>2. Typed'
    BY Zenon, <2>1, TypedStep DEF IInv
  <2>3. RegistryInv' /\ SeqInv'
    BY Zenon, <2>1, <2>2, RegistryStep, SeqStep DEF IInv
  <2> QED
    BY Zenon, <2>3, AckStep DEF IInv
<1> QED
  BY <1>1, <1>2, PTL DEF RaceSpec

(* The registry hands out no instance that was shut down, an instance's    *)
(* clients are the connections that joined it, and the sweep takes only    *)
(* one seen empty for the TTL, however loads, sweeps, archives and         *)
(* restarts interleave (evict_idle_workspaces, notify_workspace_archived). *)
THEOREM RegistrySound == RaceSpec => RegistryIsSound
<1>1. IInv => TypeOK /\ RegistryIsAlive
  BY Zenon DEF IInv, RegistryInv, Typed, ClientsMatch, TypeOK, Session, Edits
<1>2. IInv /\ [RaceNext]_raceVars => [EvictedNow => session[live].empty = "expired"]_vars
  BY Zenon, EvictionStep DEF IInv, RaceNext, raceVars
<1> QED
  BY <1>1, <1>2, InvariantHolds, PTL DEF RaceSpec, RegistryIsSound, FreshIsKept

(* The row holds a document with the seq that counts its commands, and     *)
(* every acknowledged command unless two instances or two writes           *)
(* overlapped (PERSIST_DOCUMENT, apply_document_command).                  *)
THEOREM StoredRightly == RaceSpec => []StoredIsRight
<1>1. IInv => StoredIsRight
  BY Zenon
     DEF IInv, SeqInv, Counted, AckInv, StoredIsRight, SeqCountsDocument, AckedUnlessRaced,
         AckedIsDurable
<1> QED
  BY <1>1, InvariantHolds, PTL
=============================================================================
