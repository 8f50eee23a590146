---------------------------- MODULE SceneDocument ----------------------------
(***************************************************************************)
(* The shared document and what each viewer derives from it (lucida-core   *)
(* scene/types.rs, scene/mod.rs, command.rs): DocumentState::apply, which  *)
(* the server and every client run on the same commands, and the parts of  *)
(* Scene::apply, load_document and import_dataset_presence that keep a     *)
(* viewer's derived placements and display settings in step with it.       *)
(*                                                                         *)
(* A manifest is a member of Content; positions are integers on one axis   *)
(* (both in-plane axes are treated alike); a comment is its text.          *)
(***************************************************************************)
EXTENDS Integers, Sequences, FiniteSets, SequencesExt

CONSTANTS
    Dataset, Content, Layout, Entity, Pin, Comment, Text,
    Spot,              \* positions a user may pick
    None,
    EntitiesOf,        \* per content: its image-bearing entities, in order
    LabelsOf,          \* per content: the names of its labels, in order
    SourceLayouts,     \* per content: its own layouts, in order
    DefaultLayout,     \* per content: its default layout, or None
    IsCollection,      \* per content
    Placements,        \* per layout: the entities it places, and where
    Parent, Offset,    \* per entity: its group (or None) and place inside it
    PeerSettings,      \* display settings a peer may send
    Scenarios          \* what a session may do: see Allowed

VARIABLES
    doc,               \* DocumentState
    derived,           \* per dataset: the placement of its entities, or None
    order, settings,   \* dataset_order and dataset_settings
    epochs,            \* SceneEpochs
    may,               \* the scenario
    done,              \* commands applied so far
    late,              \* datasets with a layout registered after its selection
    home               \* per pin: its place relative to its anchor

docVars == <<doc, derived, order, settings, epochs, may, done, late, home>>

-----------------------------------------------------------------------------
(* Layouts.                                                                *)

\* The layout in force; None stands for the empty LayoutSpec.
resolve_layout(m, registered, activeId) ==
    LET source == ToSet(SourceLayouts[m])
    IN  IF activeId \in source \cup registered THEN activeId
        ELSE IF DefaultLayout[m] \in source THEN DefaultLayout[m]
        ELSE IF source = {} THEN None ELSE Head(SourceLayouts[m])

placements(l) == IF l = None THEN <<>> ELSE Placements[l]

\* Where l places e: a set with at most one position.
resolve_entity_position(e, l) ==
    LET placed == placements(l)
    IN  IF e \in DOMAIN placed THEN {placed[e]}
        ELSE IF Parent[e] \in DOMAIN placed THEN {placed[Parent[e]] + Offset[e]} ELSE {}

\* The render path puts an unplaced entity at the origin.
build_derived_state(m, l) ==
    [e \in ToSet(EntitiesOf[m]) |->
        LET at == resolve_entity_position(e, l)
        IN  IF at = {} THEN 0 ELSE CHOOSE p \in at : TRUE]

layout_of(d, dset) == resolve_layout(d.manifests[dset], d.registered[dset], d.active[dset])

-----------------------------------------------------------------------------
(* Pins.                                                                   *)

distance(p, q) == IF p < q THEN q - p ELSE p - q

\* The placed entity nearest to p, the first of the manifest on a tie.
nearest_anchor(d, dset, p) ==
    IF d.manifests[dset] = None \/ ~IsCollection[d.manifests[dset]] THEN None
    ELSE LET m == d.manifests[dset]
             l == layout_of(d, dset)
             placed == SelectSeq(EntitiesOf[m], LAMBDA e : resolve_entity_position(e, l) # {})
             far(e) == distance(CHOOSE q \in resolve_entity_position(e, l) : TRUE, p)
             best == {i \in DOMAIN placed : \A j \in DOMAIN placed :
                          \/ far(placed[i]) < far(placed[j])
                          \/ far(placed[i]) = far(placed[j]) /\ i <= j}
         IN  IF placed = <<>> THEN None ELSE placed[CHOOSE i \in best : TRUE]

shifted(pin, by) == [pin EXCEPT !.at = @ + by, !.end = IF @ = None THEN None ELSE @ + by]

\* Mutant: pins move by the new position, not by the difference.
reanchoredAbsolutely(d, dset, to) ==
    LET m == d.manifests[dset]
        target == resolve_layout(m, d.registered[dset], to)
        moved(pin) ==
            IF pin = None \/ pin.anchor = None THEN pin
            ELSE LET there == resolve_entity_position(pin.anchor, target)
                 IN  IF there = {} THEN pin ELSE shifted(pin, CHOOSE t \in there : TRUE)
    IN  IF m = None \/ d.active[dset] = to THEN d.pins[dset]
        ELSE [p \in Pin |-> moved(d.pins[dset][p])]

\* reanchor_for_layout: each anchored pin rides its entity from the layout in
\* force to the one selected, if both place it.
reanchored(d, dset, to) ==
    LET m == d.manifests[dset]
        source == layout_of(d, dset)
        target == resolve_layout(m, d.registered[dset], to)
        moved(pin) ==
            IF pin = None \/ pin.anchor = None THEN pin
            ELSE LET here == resolve_entity_position(pin.anchor, source)
                     there == resolve_entity_position(pin.anchor, target)
                 IN  IF here = {} \/ there = {} THEN pin
                     ELSE shifted(pin, (CHOOSE t \in there : TRUE) - (CHOOSE h \in here : TRUE))
    IN  IF m = None \/ d.active[dset] = to THEN d.pins[dset]
        ELSE [p \in Pin |-> moved(d.pins[dset][p])]

\* Mutant: a replayed pin starts a new thread.
add_annotationFresh(d, dset, p, at, end) ==
    [d EXCEPT !.pins[dset][p] =
        [at |-> at, end |-> end, anchor |-> nearest_anchor(d, dset, at),
         thread |-> [c \in Comment |-> None]]]

\* A replayed id replaces the pin and keeps its thread.
add_annotation(d, dset, p, at, end) ==
    [d EXCEPT !.pins[dset][p] =
        [at |-> at, end |-> end, anchor |-> nearest_anchor(d, dset, at),
         thread |-> IF @ = None THEN [c \in Comment |-> None] ELSE @.thread]]

\* Mutant: the second vertex is offset from the old anchor every time.
move_annotationTwice(pin, at, end) ==
    IF end # None /\ pin.end # None THEN [pin EXCEPT !.at = at, !.end = end]
    ELSE [pin EXCEPT !.at = at, !.end = IF @ = None THEN None ELSE @ + at]

\* set_vertices when end is given, else set_position; a point grows no end.
move_annotation(pin, at, end) ==
    IF end # None THEN [pin EXCEPT !.at = at, !.end = IF @ = None THEN None ELSE end]
    ELSE shifted(pin, at - pin.at)

\* Comments are kept by id; only one that is there can be edited.
edited(pin, c) ==
    CASE c.type = "move" -> move_annotation(pin, c.at, c.end)
      [] c.type = "comment" -> [pin EXCEPT !.thread[c.id] = c.text]
      [] c.type = "uncomment" -> [pin EXCEPT !.thread[c.id] = None]
      [] c.type = "edit" -> [pin EXCEPT !.thread[c.id] = IF @ = None THEN None ELSE c.text]

\* Every other pin edit goes through annotation_mut: no pin, no effect.
on_pin(d, c) ==
    IF d.pins[c.ds][c.pin] = None THEN d ELSE [d EXCEPT !.pins[c.ds][c.pin] = edited(@, c)]

-----------------------------------------------------------------------------
(* Commands.                                                               *)

EmptyEntry == [manifests |-> None, registered |-> {}, active |-> None, catalogs |-> {},
               pins |-> [p \in Pin |-> None]]
EmptyDoc == [f \in DOMAIN EmptyEntry |-> [d \in Dataset |-> EmptyEntry[f]]]

\* rekey_dataset_ids drops the dataset from every id-keyed map.
remove_dataset(d, dset) == [f \in DOMAIN d |-> [d[f] EXCEPT ![dset] = EmptyEntry[f]]]

\* DocumentState::apply. Only the manifest edits look for the dataset: a
\* layout, a catalog entry or a pin of an unknown dataset is kept.
apply(d, c) ==
    CASE c.type = "opened" ->
           [d EXCEPT !.manifests[c.ds] = c.content, !.catalogs[c.ds] = {}]
      [] c.type = "remove" -> remove_dataset(d, c.ds)
      [] c.type = "rename" -> d
      [] c.type = "register" -> [d EXCEPT !.registered[c.ds] = @ \cup {c.layout}]
      [] c.type = "activate" ->
           [d EXCEPT !.pins[c.ds] = reanchored(d, c.ds, c.layout), !.active[c.ds] = c.layout]
      [] c.type = "assets" -> [d EXCEPT !.catalogs[c.ds] = @ \cup {c.entity}]
      [] c.type = "pin" -> add_annotation(d, c.ds, c.pin, c.at, c.end)
      [] c.type = "unpin" -> [d EXCEPT !.pins[c.ds][c.pin] = None]
      [] c.type \in {"move", "comment", "uncomment", "edit"} -> on_pin(d, c)

Command ==
    [type : {"opened"}, ds : Dataset, content : Content] \cup
    [type : {"remove", "rename"}, ds : Dataset] \cup
    [type : {"register", "activate"}, ds : Dataset, layout : Layout] \cup
    [type : {"assets"}, ds : Dataset, entity : Entity] \cup
    [type : {"pin", "move"}, ds : Dataset, pin : Pin, at : Spot, end : Spot \cup {None}] \cup
    [type : {"unpin"}, ds : Dataset, pin : Pin] \cup
    [type : {"comment", "edit"}, ds : Dataset, pin : Pin, id : Comment, text : Text] \cup
    [type : {"uncomment"}, ds : Dataset, pin : Pin, id : Comment]

-----------------------------------------------------------------------------
(* Display settings.                                                       *)

\* Mutant: by position, whatever the names.
reconcile_by_position(saved, author, current) ==
    [i \in DOMAIN current |-> IF i \in DOMAIN saved THEN saved[i] ELSE FALSE]

\* reconcile_label_settings: the k-th label of a name takes the k-th saved
\* entry of that name; a label the save does not have is hidden.
reconcile_label_settings(saved, author, current) ==
    LET nth(i) == Cardinality({j \in 1..i : current[j] = current[i]})
        from(i) == {a \in DOMAIN author :
                       /\ author[a] = current[i]
                       /\ Cardinality({b \in 1..a : author[b] = current[i]}) = nth(i)}
    IN  [i \in DOMAIN current |->
            \E a \in (IF author = <<>> THEN {i} ELSE from(i)) : a \in DOMAIN saved /\ saved[a]]

seeded_for(m) ==
    [visible |-> TRUE, pin |-> None, names |-> LabelsOf[m],
     shown |-> [i \in DOMAIN LabelsOf[m] |-> FALSE]]

\* Settings without label names stay positional.
realigned(s, m) ==
    IF s.names = <<>> \/ s.names = LabelsOf[m] THEN s
    ELSE [s EXCEPT !.shown = reconcile_label_settings(s.shown, s.names, LabelsOf[m]),
                   !.names = LabelsOf[m]]

\* Mutant: settings adopted before the manifest are kept as they came.
settledAsIs(s, m) == IF s = None THEN seeded_for(m) ELSE s

settled(s, m) == IF s = None THEN seeded_for(m) ELSE realigned(s, m)

-----------------------------------------------------------------------------
(* A viewer's scene.                                                       *)

NoEpochs == [content |-> 0, layout |-> 0, view |-> 0, selection |-> 0, asset |-> 0,
             annotation |-> 0]
bump(e, which) == [f \in DOMAIN e |-> IF f \in which THEN e[f] + 1 ELSE e[f]]

DocInit ==
    /\ doc = EmptyDoc
    /\ derived = [d \in Dataset |-> None]
    /\ order = <<>> /\ settings = [d \in Dataset |-> None]
    /\ epochs = NoEpochs /\ done = 0 /\ may \in Scenarios /\ late = {}
    /\ home = [d \in Dataset |-> [p \in Pin |-> None]]

\* The scenario bounds the number of commands and says which ones occur. A
\* dataset is reopened with the content it is open with.
Allowed(c) ==
    /\ c.type \in may.types /\ c.ds \in may.datasets /\ done < may.commands
    /\ c.type = "opened" => doc.manifests[c.ds] \in {None, c.content}

\* Mutant: selecting a layout rebuilds before the document changes.
derived_fromEarly(before, after, d) ==
    build_derived_state(after.manifests[d],
                        resolve_layout(after.manifests[d], before.registered[d], before.active[d]))

derived_from(before, after, d) ==
    build_derived_state(after.manifests[d], layout_of(after, d))

\* Mutant: a layout change goes unnoticed.
epochs_ofQuiet(c) ==
    IF c.type = "activate" THEN {}
    ELSE IF c.type \in {"opened", "remove", "rename"} THEN {"content", "layout"}
    ELSE IF c.type = "assets" THEN {"asset"} ELSE {"annotation"}

epochs_of(c) ==
    CASE c.type \in {"opened", "remove"} -> {"content", "layout"}
      [] c.type = "rename" -> {"content"}
      [] c.type \in {"register", "activate"} -> {"layout"}
      [] c.type = "assets" -> {"asset"}
      [] OTHER -> {"annotation"}

\* Where a pin is relative to its anchor in the layout in force.
relative(d, dset, pin) ==
    IF pin = None \/ pin.anchor = None \/ d.manifests[dset] = None THEN None
    ELSE LET at == resolve_entity_position(pin.anchor, layout_of(d, dset))
         IN  IF at = {} THEN None
             ELSE [off |-> pin.at - (CHOOSE p \in at : TRUE),
                   span |-> IF pin.end = None THEN None ELSE pin.end - pin.at]

\* Bookkeeping of the properties: a user placing a pin says where it belongs;
\* it is on its own once a layout does not place its anchor.
Watch(c, next) ==
    /\ late' = CASE c.type = "register" /\ doc.active[c.ds] = c.layout
                    /\ doc.manifests[c.ds] # None
                    /\ layout_of(doc, c.ds) # layout_of(next, c.ds) -> late \cup {c.ds}
                 [] c.type = "remove" -> late \ {c.ds}
                 [] OTHER -> late
    /\ home' = [home EXCEPT ![c.ds] = [p \in Pin |->
                   LET pin == next.pins[c.ds][p]
                   IN  IF c.type \notin {"pin", "move"} /\ relative(next, c.ds, pin) # None
                       THEN @[p]
                       ELSE IF c.type \in {"pin", "move"} /\ c.pin # p THEN @[p]
                       ELSE relative(next, c.ds, pin)]]

\* Scene::apply of a document command.
Do(c) ==
    LET next == apply(doc, c)
    IN  /\ Allowed(c) /\ done' = done + 1
        /\ doc' = next
        /\ derived' = CASE c.type \in {"opened", "activate"} /\ next.manifests[c.ds] # None ->
                              [derived EXCEPT ![c.ds] = derived_from(doc, next, c.ds)]
                         [] c.type = "remove" -> [derived EXCEPT ![c.ds] = None]
                         [] OTHER -> derived
        /\ order' = CASE c.type = "opened" /\ c.ds \notin ToSet(order) -> Append(order, c.ds)
                      [] c.type = "remove" -> SelectSeq(order, LAMBDA d : d # c.ds)
                      [] OTHER -> order
        /\ settings' = CASE c.type = "opened" ->
                               [settings EXCEPT ![c.ds] = settled(@, c.content)]
                          [] c.type = "remove" -> [settings EXCEPT ![c.ds] = None]
                          [] OTHER -> settings
        /\ epochs' = bump(epochs, epochs_of(c))
        /\ Watch(c, next)
        /\ UNCHANGED may

\* load_document: a reconnect, with one command the viewer missed.
load_document(c) ==
    LET next == apply(doc, c)
        open == {d \in Dataset : next.manifests[d] # None}
    IN  /\ "reload" \in may.types /\ Allowed(c) /\ done' = done + 1
        /\ doc' = next
        /\ derived' = [d \in Dataset |-> IF d \in open THEN derived_from(next, next, d) ELSE None]
        /\ order' = SelectSeq(order, LAMBDA d : d \in open) \o SetToSeq(open \ ToSet(order))
        /\ settings' = [d \in Dataset |->
                           IF d \in open THEN settled(settings[d], next.manifests[d]) ELSE None]
        /\ epochs' = bump(epochs, {"content", "layout", "asset", "annotation", "selection"})
        /\ Watch(c, next)
        /\ UNCHANGED may

\* Viewport commands on order and settings, and a peer's settings: the
\* selection epoch moves when they do.
Display(newOrder, newSettings) ==
    /\ done < may.commands /\ done' = done + 1
    /\ order' = newOrder /\ settings' = newSettings
    /\ epochs' = IF newOrder = order /\ newSettings = settings THEN epochs
                 ELSE bump(epochs, {"selection"})
    /\ UNCHANGED <<doc, derived, may, late, home>>

SetDatasetOrder(seq) == "order" \in may.types /\ Display(seq, settings)

SetDatasetVisible(d, v) ==
    /\ "visible" \in may.types /\ settings[d] # None
    /\ Display(order, [settings EXCEPT ![d].visible = v])

\* The index is bounded by the manifest's labels; ensure_label grows the list
\* with hidden entries.
SetLabelVisible(d, i, v) ==
    /\ "labels" \in may.types /\ settings[d] # None
    /\ doc.manifests[d] # None /\ i <= Len(LabelsOf[doc.manifests[d]])
    /\ LET old == settings[d].shown
           grown == [j \in 1..(IF i > Len(old) THEN i ELSE Len(old)) |->
                        IF j = i THEN v ELSE j <= Len(old) /\ old[j]]
       IN  Display(order, [settings EXCEPT ![d].shown = grown])

\* import_dataset_presence replaces everything, realigned where a manifest is
\* known.
import_dataset_presence(seq, blob) ==
    /\ "presence" \in may.types
    /\ Display(seq, [d \in Dataset |->
                       IF blob[d] = None \/ doc.manifests[d] = None THEN blob[d]
                       ELSE realigned(blob[d], doc.manifests[d])])

Orders == {s \in SeqOf(Dataset, Cardinality(Dataset)) : IsInjective(s)}

DocNext ==
    \/ \E c \in Command : Do(c) \/ load_document(c)
    \/ \E seq \in Orders : SetDatasetOrder(seq) \/ \E b \in PeerSettings : import_dataset_presence(seq, b)
    \/ \E d \in Dataset, v \in BOOLEAN : SetDatasetVisible(d, v) \/ \E i \in 1..2 : SetLabelVisible(d, i, v)

DocSpec == DocInit /\ [][DocNext]_docVars

-----------------------------------------------------------------------------
(* Properties.                                                             *)

\* A viewer's placements are those a viewer joining now would derive, unless
\* a layout was registered after it had been selected.
DerivedIsCurrent ==
    \A d \in Dataset :
        IF doc.manifests[d] = None THEN derived[d] = None
        ELSE d \in late \/ derived[d] = derived_from(doc, doc, d)

\* A pin keeps its place and its shape relative to the entity it was dropped
\* on, through every change of layout that places that entity.
PinsRideTheirAnchor ==
    \A d \in Dataset \ late, p \in Pin :
        home[d][p] # None => relative(doc, d, doc.pins[d][p]) = home[d][p]

\* A command applied twice is applied once: a replay leaves peers equal.
ReplayIsIdempotent ==
    \A c \in Command : c.ds \in may.datasets /\ c.type \in may.types =>
        LET once == apply(doc, c) IN apply(once, c) = once

\* A viewer who was there, one who replays and one who joins now see the same
\* scene (Scene::apply).
ViewersAgree == DerivedIsCurrent /\ ReplayIsIdempotent

\* Editing a pin keeps its discussion, and editing the discussion keeps the
\* pin: a replayed or moved pin loses no comment.
ThreadsAreKept ==
    [][\A d \in Dataset, p \in Pin :
          LET was == doc.pins[d][p]
              is == doc'.pins[d][p]
          IN  was # None /\ is # None /\ was.thread # is.thread =>
                  <<was.at, was.end, was.anchor>> = <<is.at, is.end, is.anchor>>]_docVars

\* A label's switch belongs to the label: settings that know their labels'
\* names list exactly the labels of the open manifest.
SettingsAlign ==
    \A d \in Dataset :
        settings[d] # None /\ doc.manifests[d] # None /\ settings[d].names # <<>> =>
            /\ settings[d].names = LabelsOf[doc.manifests[d]]
            /\ Len(settings[d].shown) = Len(settings[d].names)

\* The switches of the labels called n, in order.
switches(s, n) ==
    LET at == SelectSeq([i \in DOMAIN s.names |-> i], LAMBDA i : s.names[i] = n)
    IN  [k \in DOMAIN at |-> s.shown[at[k]]]

\* Whatever content a dataset is opened with next, each label's switch goes to
\* the label of the same name and rank, and a new label starts hidden.
RealignKeepsChoices ==
    \A d \in Dataset, m \in Content :
        settings[d] # None /\ settings[d].names # <<>> =>
            LET new == realigned(settings[d], m)
            IN  \A n \in ToSet(LabelsOf[m]) :
                    LET before == switches(settings[d], n)
                        after == switches(new, n)
                    IN  \A k \in DOMAIN after :
                            after[k] = (k \in DOMAIN before /\ before[k])

\* A label's switch follows the label through every change of manifest
\* (reconcile_label_settings).
SwitchesFollowLabels == SettingsAlign /\ RealignKeepsChoices

\* Pins ride their anchor and keep their discussion (reanchor_for_layout, add_annotation).
PinsAreKept == []PinsRideTheirAnchor /\ ThreadsAreKept

=============================================================================
