------------------------------ MODULE SceneView ------------------------------
(***************************************************************************)
(* What is on screen (lucida-core scene/mod.rs, target_level.rs and the    *)
(* camera half of command.rs; lucida-web pipeline/tickCoordinator.ts and   *)
(* planning/snapshotDelta.ts): the camera, the level each entity is wanted *)
(* at, the incremental view query with its cursor, and the web planner     *)
(* that folds the increments onto its own copy.                            *)
(*                                                                         *)
(* Projection is one-dimensional: an entity is on screen when it lies      *)
(* within Reach of the camera. The measure pixels-per-sample is kept in    *)
(* quarter octaves, the unit of the hysteresis band: zoom z stands for     *)
(* 2^(-z/4) pixels per sample, and a level's ratio r for 2^(r/4).          *)
(***************************************************************************)
EXTENDS SceneDocument

CONSTANTS
    Reach, Zooms, Modes,
    PeerCameras,       \* cameras a followed peer may send
    Ratios,            \* per content and camera family: per level, its ratio
    Never,             \* the ratio of a level the view cannot use
    SourceLevels,      \* per content: the levels that are not generated
    Extent,            \* per content: its physical extent
    MaxThrows,         \* bound: folds that throw
    MaxPlanners        \* bound: viewers remounted on the scene

VARIABLES
    camera,            \* mode, place, zoom
    cursors,           \* view_query_cursors: per dataset, or None
    fold,              \* viewDeltaCursor: per dataset, or None
    lastEpochs,        \* the planner's lastEpochs, or None
    ref,               \* per dataset: identity of the planner's manifest
    planners, throws

viewVars == <<camera, cursors, fold, lastEpochs, ref, planners, throws>>
vars == <<docVars, viewVars>>

ViewInit ==
    /\ DocInit
    /\ camera = [mode |-> "slice", at |-> 0, zoom |-> 0]
    /\ cursors = [d \in Dataset |-> None]
    /\ fold = [d \in Dataset |-> None] /\ lastEpochs = None
    /\ ref = [d \in Dataset |-> 0]
    /\ planners = 0 /\ throws = 0

-----------------------------------------------------------------------------
(* The target level.                                                       *)

\* The coarsest level that still has a sample under every pixel, or 0.
raw(z, ratios) ==
    LET fits == {l \in DOMAIN ratios : ratios[l] # Never /\ ratios[l] <= z}
    IN  IF fits = {} THEN 0 ELSE (CHOOSE l \in fits : \A k \in fits : k <= l) - 1

\* With history the level moves once the measure is a band past the boundary.
target_level(z, ratios, previous) ==
    LET wanted == raw(z, ratios)
        crossed == IF wanted > previous THEN raw(z - 1, ratios) > previous
                   ELSE raw(z + 1, ratios) < previous
    IN  IF previous = None \/ wanted = previous \/ crossed THEN wanted ELSE previous

\* Mutant: any level up to the deepest source level will do.
clamp_to_deepest(m, requested) ==
    IF SourceLevels[m] = {} THEN None
    ELSE LET deepest == CHOOSE l \in SourceLevels[m] : \A k \in SourceLevels[m] : k <= l
         IN  IF requested > deepest + 1 THEN deepest ELSE requested

\* The level asked for if the source has it, else the next finer source
\* level, else the finest one.
clamp_to_source_levels(m, requested) ==
    LET finer == {l \in SourceLevels[m] : l <= requested}
    IN  IF finer # {} THEN CHOOSE l \in finer : \A k \in finer : k <= l
        ELSE IF SourceLevels[m] = {} THEN None
        ELSE CHOOSE l \in SourceLevels[m] : \A k \in SourceLevels[m] : l <= k

-----------------------------------------------------------------------------
(* The view query.                                                         *)

\* ViewQueryCursor::matches: the same membership base and camera family.
matches(cur) ==
    /\ cur # None /\ cur.mode = camera.mode
    /\ <<cur.content, cur.layout, cur.asset>> = <<epochs.content, epochs.layout, epochs.asset>>

\* In 3D every member is placed with the correction of the whole scene.
correction ==
    IF camera.mode = "slice" THEN 0
    ELSE LET sizes == {Extent[doc.manifests[d]] : d \in {e \in Dataset : derived[e] # None}}
         IN  CHOOSE s \in sizes : \A r \in sizes : r <= s

known(d) == derived[d] # None /\ doc.manifests[d] # None

\* Scene::view_query: per entity, what is reported of it.
view_query(d) ==
    LET m == doc.manifests[d]
        ratios == Ratios[m][IF camera.mode = "slice" THEN "plane" ELSE "volume"]
        clamp(l) == clamp_to_source_levels(m, l)
        history(e) == IF matches(cursors[d]) /\ cursors[d].entries[e].visible
                      THEN cursors[d].entries[e].level ELSE None
        screen(e) == target_level(camera.zoom, ratios, history(e))
        pin == IF settings[d] = None \/ settings[d].pin = None THEN None ELSE clamp(settings[d].pin)
        seen(e) == distance(derived[d][e], camera.at) <= Reach
    IN  [e \in DOMAIN derived[d] |->
            [visible |-> seen(e),
             pinned |-> seen(e) /\ pin # None,
             level |-> IF ~seen(e) THEN Len(ratios) - 1
                       ELSE IF pin # None THEN pin
                       ELSE IF clamp(screen(e)) = None THEN screen(e) ELSE clamp(screen(e)),
             place |-> <<derived[d][e], correction>>]]

\* The fields whose change a delta reports.
QuantizedEntity(r) == <<r.visible, r.level, r.pinned>>

cursor_at(rows) ==
    [content |-> epochs.content, layout |-> epochs.layout, asset |-> epochs.asset,
     mode |-> camera.mode, entries |-> rows]

\* view_query_diff onto a consumer's copy: what left goes, what entered or
\* changed is replaced, the rest stays as it was.
applyViewQueryDelta(prev, old, rows) ==
    [e \in DOMAIN rows |->
        IF e \in DOMAIN old /\ e \in DOMAIN prev /\ QuantizedEntity(old[e]) = QuantizedEntity(rows[e])
        THEN prev[e] ELSE rows[e]]

-----------------------------------------------------------------------------
(* The planner.                                                            *)

\* The snapshot inputs the fold's rows were joined with.
basis(d) == <<epochs.content, epochs.layout, epochs.asset, ref[d]>>

planned(d) == known(d) /\ (settings[d] = None \/ settings[d].visible)

\* The copy a delta may be folded onto: one joined with the same basis.
held(d) == IF fold[d] # None /\ fold[d].basis = basis(d) THEN fold[d] ELSE None

\* Mutant: a fold that throws leaves the copy behind.
after_throwKept(d) == held(d)

\* The Rust cursor has advanced, so the copy is dropped.
after_throw(d) == None

\* foldViewDeltaEntities: a full query, or a delta onto the copy held, or a
\* reseed when there is none.
folded(d) ==
    LET rows == view_query(d)
        seeded == [basis |-> basis(d), map |-> rows]
    IN  IF ~matches(cursors[d]) \/ held(d) = None THEN seeded
        ELSE [seeded EXCEPT !.map = applyViewQueryDelta(held(d).map, cursors[d].entries, rows)]

\* The epochs a plan depends on.
planned_on == <<epochs.content, epochs.layout, epochs.view, epochs.selection, epochs.asset>>

\* A tick whose epochs moved (a coalesced one just happens later). A throw at
\* dataset `bad` ends the rebuild; lastEpochs keeps the change to be seen.
Tick(bad) ==
    LET Sorted == SetToSeq(Dataset)
        before(d) == \E i, j \in DOMAIN Sorted : i < j /\ Sorted[i] = d /\ Sorted[j] = bad
        reached(d) == planned(d) /\ (bad = None \/ d = bad \/ before(d))
    IN  /\ "tick" \in may.types /\ lastEpochs # planned_on
        /\ bad # None => planned(bad) /\ throws < MaxThrows
        /\ throws' = IF bad = None THEN throws ELSE throws + 1
        /\ fold' = [d \in Dataset |->
                       CASE reached(d) /\ d = bad -> after_throw(d)
                         [] reached(d) /\ d # bad -> folded(d)
                         [] OTHER -> fold[d]]
        /\ cursors' = [d \in Dataset |-> IF reached(d) THEN cursor_at(view_query(d)) ELSE cursors[d]]
        /\ lastEpochs' = IF bad = None THEN planned_on ELSE lastEpochs
        /\ UNCHANGED <<docVars, camera, ref, planners>>

\* Generated levels swap the planner's manifest object; no epoch moves.
SwapManifest(d) ==
    /\ "swap" \in may.types /\ done < may.commands /\ done' = done + 1
    /\ known(d) /\ ref' = [ref EXCEPT ![d] = 1 - @]
    /\ UNCHANGED <<doc, derived, order, settings, epochs, may, late, home, camera, cursors, fold,
                   lastEpochs, planners, throws>>

\* set_mode_2d, set_mode_3d, set_mode_fly: arcball and fly convert into each
\* other, a switch from or to the slice view starts a new camera.
in_mode(m) ==
    IF camera.mode # "slice" /\ m # "slice" THEN [camera EXCEPT !.mode = m]
    ELSE IF m = camera.mode THEN camera ELSE [mode |-> m, at |-> 0, zoom |-> 0]

\* A camera command (pan, zoom, mode) or import_presence of a peer's camera:
\* the view epoch moves with the camera.
MoveCamera(next) ==
    /\ "camera" \in may.types /\ done < may.commands /\ done' = done + 1
    /\ camera' = next
    /\ epochs' = IF next = camera THEN epochs ELSE bump(epochs, {"view"})
    /\ UNCHANGED <<doc, derived, order, settings, may, late, home, cursors, fold, lastEpochs, ref,
                   planners, throws>>

\* clamp_detail_level_override: against the manifest at hand.
stored_level(d, l) ==
    IF l = None \/ doc.manifests[d] = None THEN None
    ELSE clamp_to_source_levels(doc.manifests[d], l)

SetDetailLevel(d, l) ==
    /\ "level" \in may.types /\ settings[d] # None
    /\ Display(order, [settings EXCEPT ![d].pin = stored_level(d, l)])
    /\ UNCHANGED viewVars

\* A document command leaves the camera; a removal drops the cursor and the
\* planner's copy (clearMemberResources).
SceneStep ==
    /\ DocNext
    /\ cursors' = [d \in Dataset |-> IF doc'.manifests[d] = None THEN None ELSE cursors[d]]
    /\ fold' = [d \in Dataset |-> IF doc'.manifests[d] = None THEN None ELSE fold[d]]
    /\ UNCHANGED <<camera, lastEpochs, ref, planners, throws>>

\* A new viewer on the same scene (slice to volume and back): its planner
\* starts empty, the scene's cursors do not.
NewPlanner ==
    /\ "remount" \in may.types /\ planners < MaxPlanners /\ planners' = planners + 1
    /\ fold' = [d \in Dataset |-> None] /\ lastEpochs' = None
    /\ UNCHANGED <<docVars, camera, cursors, ref, throws>>

ViewNext ==
    \/ SceneStep \/ NewPlanner
    \/ \E bad \in Dataset \cup {None} : Tick(bad)
    \/ \E d \in Dataset : SwapManifest(d) \/ \E l \in {0, 1, 2, None} : SetDetailLevel(d, l)
    \/ \E p \in Spot : MoveCamera([camera EXCEPT !.at = p])
    \/ \E z \in Zooms : MoveCamera([camera EXCEPT !.zoom = z])
    \/ \E m \in Modes : MoveCamera(in_mode(m))
    \/ \E peer \in PeerCameras : MoveCamera(peer)

ViewSpec == ViewInit /\ [][ViewNext]_vars

-----------------------------------------------------------------------------
(* Properties.                                                             *)

\* Once a tick sees no epoch moved, what the planner holds of every planned
\* dataset is what a full query would report now: visibility, level, pin and
\* placement, whatever commands, cameras, throws and remounts came before.
PlannerIsCurrent ==
    lastEpochs = planned_on =>
        \A d \in Dataset : planned(d) /\ d \notin late =>
            fold[d] # None /\ fold[d].map = view_query(d)

\* An entity on screen is wanted at a level its source has, pinned or not.
TargetsAreSourceLevels ==
    \A d \in Dataset : known(d) =>
        \A e \in DOMAIN derived[d] :
            LET r == view_query(d)[e]
            IN  r.visible => r.level \in SourceLevels[doc.manifests[d]]

\* The chunk plan is cached by epoch: nothing a query reads changes without an
\* epoch, and the view and selection epochs move only with what they stand for.
EpochsTellTheTruth ==
    [][/\ epochs' = epochs =>
              UNCHANGED <<doc.manifests, doc.pins, derived, settings, order, camera>>
       /\ epochs'.view # epochs.view => camera' # camera
       /\ epochs'.selection # epochs.selection /\ epochs'.content = epochs.content =>
              <<order, settings>>' # <<order, settings>>]_vars

\* The plan is of the scene as it is, and the epochs it is cached by tell of
\* every change (TickCoordinator.tick).
PlansAreCurrent == []PlannerIsCurrent /\ EpochsTellTheTruth

=============================================================================
