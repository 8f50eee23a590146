--------------------------- MODULE CollectionImport ---------------------------
(***************************************************************************)
(* Importing a dataset: a single image, or a collection of groups of tiles *)
(* whose metadata is fetched concurrently and assembled in declared order. *)
(* The first readable group defines the axes, every group's first tile is  *)
(* read for its own geometry, one geometry is declared that covers them    *)
(* all, and labels are discovered by sampling and kept within a budget.    *)
(* Reads of chunks (ChunkRead) start when the import is done.              *)
(*                                                                         *)
(* A source is chosen in the initial state: its tiles as stored, its       *)
(* groups as declared and what their metadata holds.                       *)
(***************************************************************************)
EXTENDS ChunkRead

CONSTANTS
    MinSkipped,       \* label sampling must skip at least this many tiles
    MaxExpansions,    \* groups expanded on suspicion alone
    MaxLabels,        \* labels kept in a dataset
    MaxColors         \* color entries kept in a dataset

VARIABLES
    phase,            \* how far the import is
    slots,            \* group -> its outcome: unread, parsed or skipped
    represent,        \* the group whose first tile defines the axes
    passed,           \* groups passed over while looking for it
    stored,           \* by position, each group's own geometry: unread, ok or not
    declared,         \* the one geometry all tiles are served at, once declared
    origins,          \* level -> whether the representative's origin is there
    probed,           \* tile -> what probing its labels found
    wanted,           \* tiles whose labels are still to be probed
    built,            \* how many tiles have had their labels built
    labels,           \* labels kept, in order
    warnings          \* what the user is told

importVars == <<phase, slots, represent, passed, stored, declared, origins, probed, wanted,
                built, labels, warnings>>
vars == <<readVars, importVars>>

Groups == DOMAIN source.groups
tiles(g) == source.groups[g].tiles
Tiles == DOMAIN disk
Single == source.kind = "single"

\* The groups that were parsed, in declared order.
parsed_groups == SelectSeq([g \in Groups |-> g], LAMBDA g : slots[g] = "parsed")
parsed == {g \in Groups : slots[g] = "parsed"}

\* The tiles of the parsed groups, in declared order.
tile_prefixes == FlattenSeq([n \in DOMAIN parsed_groups |-> tiles(parsed_groups[n])])

\* A read that may fail: it spends one of the store's failures.
may_fail(failed) ==
    /\ failed => faults > 0
    /\ faults' = faults - (IF failed THEN 1 ELSE 0)

keep_reads == UNCHANGED <<source, indexes, read, answer>>

-----------------------------------------------------------------------------
(* Groups.                                                                 *)

\* Mutant: a group whose list of images is empty is parsed.
group_usableEmpty(g) == source.groups[g].metadata \in {"ok", "empty"}

\* A group's metadata lists at least one image.
group_usable(g) == source.groups[g].metadata = "ok"

\* One group's metadata arrives, in any order.
parse_one_group(g) ==
    /\ phase = "groups"
    /\ slots[g] = "unread"
    /\ \E failed \in BOOLEAN :
          /\ may_fail(failed)
          /\ slots' = [slots EXCEPT ![g] = IF group_usable(g) /\ ~failed THEN "parsed" ELSE "skipped"]
    /\ keep_reads
    /\ UNCHANGED <<bound, phase, represent, passed, stored, declared, origins, probed, wanted,
                   built, labels, warnings>>

\* Survivors keep their declared order and the others become warnings.  With
\* no survivor the import fails.
AssembleGroups ==
    /\ phase = "groups"
    /\ \A g \in Groups : slots[g] # "unread"
    /\ warnings' = {<<"skipped group", g>> : g \in Groups \ parsed}
    /\ phase' = IF parsed = {} THEN "failed" ELSE "geometry"
    /\ keep_reads
    /\ UNCHANGED <<bound, slots, represent, passed, stored, declared, origins, probed, wanted,
                   built, labels, faults>>

-----------------------------------------------------------------------------
(* The representative and the declared geometry.                           *)

\* A tile whose metadata and level arrays parse.
readable(tile) == disk[tile].readable

\* The groups that have a first tile, in declared order.
group_firsts == SelectSeq(parsed_groups, LAMBDA g : tiles(g) # <<>>)

candidates == SelectSeq(group_firsts, LAMBDA g : g \notin passed)

\* The next candidate is read; an unreadable one is passed over.  A single
\* image has no other candidate.
select_shared_tile_geometry ==
    /\ phase = "geometry"
    /\ represent = 0
    /\ candidates # <<>>
    /\ LET g == Head(candidates)
       IN  \E failed \in BOOLEAN :
              /\ may_fail(failed)
              /\ IF readable(tiles(g)[1]) /\ ~failed
                 THEN represent' = g /\ UNCHANGED passed
                 ELSE passed' = passed \cup {g} /\ UNCHANGED represent
    /\ keep_reads
    /\ UNCHANGED <<bound, phase, slots, stored, declared, origins, probed, wanted,
                   built, labels, warnings>>

\* No candidate was readable.
NoGeometry ==
    /\ phase = "geometry" /\ represent = 0 /\ candidates = <<>>
    /\ phase' = "failed"
    /\ keep_reads
    /\ UNCHANGED <<bound, slots, represent, passed, stored, declared, origins, probed, wanted,
                   built, labels, warnings, faults>>

shared == disk[tiles(represent)[1]]

levels_accepted(axes, tile) ==
    \A l \in DOMAIN tile.levels :
        level_accepted(axes, tile.levels[l]) /\ 0 \notin Range(stored_chunk(tile.levels[l]))

\* The representative's levels become its binding, or the import fails.
BindRepresentative ==
    /\ phase = "geometry" /\ represent # 0
    /\ phase' = IF levels_accepted(shared.axes, shared) THEN "origins" ELSE "failed"
    /\ warnings' = warnings \cup (IF passed = {} THEN {} ELSE {<<"unreadable geometry", passed>>})
    /\ keep_reads
    /\ UNCHANGED <<bound, slots, represent, passed, stored, declared, origins, probed, wanted,
                   built, labels, faults>>

\* Whether the origin chunk of a level was written.  A sharded level is
\* asked through its shard's index.
origin_written(n, l) ==
    LET tile == disk[n]
        meta == tile.levels[l]
        origin == [i \in DOMAIN tile.axes |-> 0]
        found == object(n, l - 1, origin)
    IN  IF meta.inner = None THEN IF found = None THEN "absent" ELSE "present"
        ELSE LET index == index_read(from_codec_chain(meta)[1], found)
             IN  IF index = None THEN "unknown"
                 ELSE IF index[1] = Missing \/ entry_read(index[1], 0, found) = Absent
                 THEN "absent" ELSE "present"

\* One level's origin is probed; a failed probe is no answer.
probe_level_origins(l) ==
    /\ phase = "origins"
    /\ l \in DOMAIN shared.levels
    /\ origins[l] = "unread"
    /\ \E failed \in BOOLEAN :
          /\ may_fail(failed)
          /\ origins' = [origins EXCEPT ![l] =
                IF failed THEN "unknown" ELSE origin_written(tiles(represent)[1], l)]
    /\ keep_reads
    /\ UNCHANGED <<bound, phase, slots, represent, passed, stored, declared, probed, wanted,
                   built, labels, warnings>>

\* How much source space a level's origin chunk spans.
origin_footprint(meta) ==
    [i \in DOMAIN meta.scale |-> stored_chunk(meta)[i] * meta.scale[i]]

covers(outer, inner) == \A i \in DOMAIN outer : outer[i] >= inner[i]

\* Mutant: any present level accuses an absent one.
unwritten_level_indicesBare(tile, found) ==
    {l \in DOMAIN found : found[l] = "absent" /\ \E w \in DOMAIN found : found[w] = "present"}

\* The levels that look unwritten: the origin is absent while a level whose
\* origin it contains has data.
unwritten_level_indices(tile, found) ==
    {l \in DOMAIN found :
        /\ found[l] = "absent"
        /\ \E w \in DOMAIN found :
              /\ found[w] = "present"
              /\ covers(origin_footprint(tile.levels[l]), origin_footprint(tile.levels[w]))}

JudgeOrigins ==
    /\ phase = "origins"
    /\ \A l \in DOMAIN shared.levels : origins[l] # "unread"
    /\ LET bare == unwritten_level_indices(shared, SubSeq(origins, 1, Len(shared.levels)))
       IN  warnings' = warnings \cup (IF bare = {} THEN {} ELSE {<<"unwritten level", bare>>})
    /\ phase' = IF Single THEN "discover" ELSE "stored"
    /\ stored' = [n \in DOMAIN stored |->
                    IF n \in DOMAIN group_firsts /\ group_firsts[n] = represent THEN "ok" ELSE stored[n]]
    /\ keep_reads
    /\ UNCHANGED <<bound, slots, represent, passed, declared, origins, probed, wanted,
                   built, labels, faults>>

\* A tile can be served at the representative's axes and sample size.
stored_levels_accepted(tile) ==
    /\ tile.axes = shared.axes
    /\ tile.dtype_size = shared.dtype_size
    /\ \A l \in DOMAIN tile.levels : Len(tile.levels[l].shape) = Len(shared.axes)
    /\ levels_accepted(shared.axes, tile)

\* Each other group's first tile is read for its own geometry.
read_stored_groups(n) ==
    /\ phase = "stored"
    /\ n \in DOMAIN group_firsts
    /\ stored[n] = "unread"
    /\ \E failed \in BOOLEAN :
          /\ may_fail(failed)
          /\ LET tile == tiles(group_firsts[n])[1]
             IN  stored' = [stored EXCEPT ![n] =
                    IF readable(tile) /\ ~failed /\ stored_levels_accepted(disk[tile])
                    THEN "ok" ELSE "unusable"]
    /\ keep_reads
    /\ UNCHANGED <<bound, phase, slots, represent, passed, declared, origins, probed, wanted,
                   built, labels, warnings>>

\* What a group's first tile stores.
stored_levels(g) ==
    LET tile == disk[tiles(g)[1]]
    IN  [shapes |-> [l \in DOMAIN tile.levels |-> tile.levels[l].shape],
         bindings |-> build_level_binding_infos(tile.axes, tile.levels, tile.dtype_size)]

usable == SelectSeq([n \in DOMAIN group_firsts |-> n], LAMBDA n : stored[n] = "ok")

\* Every group is read: the covering geometry is declared, or refused.
Declare ==
    /\ phase = "stored"
    /\ \A n \in DOMAIN group_firsts : stored[n] # "unread"
    /\ LET unusable == {group_firsts[n] : n \in DOMAIN group_firsts \ Range(usable)}
       IN  warnings' = warnings \cup (IF unusable = {} THEN {} ELSE {<<"unusable geometry", unusable>>})
    /\ declared' = covering([k \in DOMAIN usable |-> stored_levels(group_firsts[usable[k]])])
    /\ phase' = IF covering_accepted(declared', shared.axes) THEN "discover" ELSE "failed"
    /\ keep_reads
    /\ UNCHANGED <<bound, slots, represent, passed, stored, origins, probed, wanted,
                   built, labels, faults>>

\* The levels a tile is served at: its group's own, or the representative's
\* when the group's could not be used.  Groups and geometries are paired by
\* position.
tile_levels(n) ==
    bind(declared, stored_levels(IF stored[n] = "ok" THEN group_firsts[n] ELSE represent),
         shared.axes, shared.dtype_size)

-----------------------------------------------------------------------------
(* Labels.                                                                 *)

\* Each group's first and last tile.
sample_probe_indices ==
    UNION {{tiles(g)[1], Last(tiles(g))} : g \in Range(group_firsts)}

use_exhaustive_label_probes ==
    Single \/ source.exhaustive \/ Len(tile_prefixes) < Cardinality(sample_probe_indices) + MinSkipped

Discover ==
    /\ phase = "discover"
    /\ wanted' = IF use_exhaustive_label_probes THEN Range(tile_prefixes) ELSE sample_probe_indices
    /\ phase' = IF use_exhaustive_label_probes THEN "probing" ELSE "sampling"
    /\ keep_reads
    /\ UNCHANGED <<bound, slots, represent, passed, stored, declared, origins, probed,
                   built, labels, warnings, faults>>

\* Mutant: an index that could not be read counts as absent.
probe_outcomeLenient(tile, failed) == IF failed THEN "absent" ELSE disk[tile].labels.index

\* A failed read, or an index without usable names, is not an absence.
probe_outcome(tile, failed) == IF failed THEN "unusable" ELSE disk[tile].labels.index

\* One tile's labels index arrives, in any order.
probe_labels_for_image(tile) ==
    /\ phase \in {"sampling", "probing"}
    /\ tile \in wanted
    /\ \E failed \in BOOLEAN :
          /\ may_fail(failed)
          /\ probed' = [probed EXCEPT ![tile] = probe_outcome(tile, failed)]
    /\ wanted' = wanted \ {tile}
    /\ keep_reads
    /\ UNCHANGED <<bound, phase, slots, represent, passed, stored, declared, origins,
                   built, labels, warnings>>

unprobed(g) == {tile \in Range(tiles(g)) : probed[tile] = "unread"}

sampled_state(g, state) == \E tile \in Range(tiles(g)) : probed[tile] = state

\* Mutant: a group that needs no further probe is charged.
chargedAlways(g) == TRUE

\* The allowance for suspects is charged only by an expansion that reads.
charged(g) == unprobed(g) # {}

\* Mutant: groups that list labels draw on the allowance too.
expanded_groupsCapped ==
    LET step(acc, g) ==
            IF /\ sampled_state(g, "listed") \/ sampled_state(g, "unusable")
               /\ acc.spent < MaxExpansions /\ charged(g)
            THEN [groups |-> acc.groups \cup {g}, spent |-> acc.spent + 1]
            ELSE acc
    IN  FoldLeft(step, [groups |-> {}, spent |-> 0], parsed_groups).groups

\* The groups expanded past their samples: all that list labels and, in
\* declared order, the first suspects within the allowance.
expanded_groups ==
    LET step(acc, g) ==
            IF sampled_state(g, "listed") THEN [acc EXCEPT !.groups = @ \cup {g}]
            ELSE IF sampled_state(g, "unusable") /\ acc.spent < MaxExpansions /\ charged(g)
            THEN [groups |-> acc.groups \cup {g}, spent |-> acc.spent + 1]
            ELSE acc
    IN  FoldLeft(step, [groups |-> {}, spent |-> 0], parsed_groups).groups

Expand ==
    /\ phase = "sampling"
    /\ wanted = {}
    /\ wanted' = UNION {unprobed(g) : g \in expanded_groups}
    /\ phase' = "probing"
    /\ keep_reads
    /\ UNCHANGED <<bound, slots, represent, passed, stored, declared, origins, probed,
                   built, labels, warnings, faults>>

\* What discovery could not see is told.
Report ==
    /\ phase = "probing"
    /\ wanted = {}
    /\ LET skipped == {tile \in Range(tile_prefixes) : probed[tile] = "unread"}
           broken == {tile \in Range(tile_prefixes) : probed[tile] = "unusable"}
       IN  warnings' = warnings
              \cup (IF skipped = {} THEN {} ELSE {<<"sampled labels", skipped>>})
              \cup (IF broken = {} THEN {} ELSE {<<"unusable labels", broken>>})
    /\ phase' = "building"
    /\ keep_reads
    /\ UNCHANGED <<bound, slots, represent, passed, stored, declared, origins, probed, wanted,
                   built, labels, faults>>

colors_of(kept) == FoldLeft(LAMBDA n, label : n + label.colors, 0, kept)

\* Mutant: a label's colors are kept whole.
retainedWhole(kept, tile, name) ==
    Append(kept, [tile |-> tile, name |-> name, colors |-> disk[tile].labels.names[name].colors])

\* One label kept, with as many colors as the dataset still has room for.
retained(kept, tile, name) ==
    Append(kept, [tile |-> tile, name |-> name,
                  colors |-> Min({disk[tile].labels.names[name].colors, MaxColors - colors_of(kept)})])

\* The labels kept after one tile: the ones that build, while there is room.
kept_after(kept, tile, broken) ==
    LET listed == probed[tile] = "listed"
        names == [n \in DOMAIN disk[tile].labels.names |-> n]
    IN  IF ~listed THEN kept
        ELSE FoldLeft(LAMBDA acc, n : IF Len(acc) = MaxLabels \/ n \in broken
                                         \/ ~disk[tile].labels.names[n].ok
                                      THEN acc ELSE retained(acc, tile, n),
                      kept, names)

\* The next tile's labels are built, in declared order.
build_labels_within_budget ==
    /\ phase = "building"
    /\ built < Len(tile_prefixes)
    /\ LET tile == tile_prefixes[built + 1]
       IN  \E broken \in SUBSET DOMAIN disk[tile].labels.names :
              /\ Cardinality(broken) <= faults
              /\ broken # {} => probed[tile] = "listed"
              /\ faults' = faults - Cardinality(broken)
              /\ labels' = kept_after(labels, tile, broken)
    /\ built' = built + 1
    /\ keep_reads
    /\ UNCHANGED <<bound, phase, slots, represent, passed, stored, declared, origins, probed,
                   wanted, warnings>>

\* The import is done and its tiles are bound.
Finish ==
    /\ phase = "building"
    /\ built = Len(tile_prefixes)
    /\ phase' = "open"
    /\ bound' = IF Single
                THEN [tile \in Tiles |-> Some(stored_levels(represent).bindings)]
                ELSE [tile \in Tiles |->
                        LET n == {k \in DOMAIN group_firsts : tile \in Range(tiles(parsed_groups[k]))}
                        IN  IF n = {} THEN None ELSE Some(tile_levels(CHOOSE k \in n : TRUE))]
    /\ keep_reads
    /\ UNCHANGED <<slots, represent, passed, stored, declared, origins, probed, wanted,
                   built, labels, warnings, faults>>

-----------------------------------------------------------------------------

\* The keys of the served grid, one past its end on every axis the array has,
\* and one of a level the binding does not have.
Keys ==
    LET tile == shared
        upto(l, name) ==
            LET chunk == IF Single THEN stored_chunk(tile.levels[l]) ELSE declared.chunks[l]
                shape == IF Single THEN tile.levels[l].shape ELSE declared.shapes[l]
                size == extent(tile.axes, shape, name)
            IN  IF name \notin Range(tile.axes) THEN {0}
                ELSE IF name \in Indexed THEN 0 .. size
                ELSE 0 .. ((size - 1) \div extent(tile.axes, chunk, name)) + 1
        depth == IF Single THEN Len(tile.levels) ELSE Len(declared.chunks)
    IN  UNION {[level : {l - 1}, t : upto(l, "t"), c : upto(l, "c"), z : upto(l, "z"),
                y : upto(l, "y"), x : upto(l, "x")] : l \in 1 .. depth}
        \cup {[level |-> 9, t |-> 0, c |-> 0, z |-> 0, y |-> 0, x |-> 0]}

Reading ==
    /\ phase = "open"
    /\ \E r \in source.readers :
          \/ \E tile \in Tiles, key \in Keys : Ask(r, tile, key)
          \/ \E s \in (IF read[r] = Idle THEN {} ELSE read[r].todo) : ReadSource(r, s)
          \/ Serve(r)
    /\ UNCHANGED importVars

\* A dataset as the import finds it.
Opened(dataset, at) ==
    /\ source = dataset
    /\ bound = [tile \in DOMAIN dataset.disk |-> None]
    /\ ReadInit
    /\ faults = dataset.faults
    /\ phase = at
    /\ slots = [g \in DOMAIN dataset.groups |->
                    IF dataset.kind = "single" THEN "parsed" ELSE "unread"]
    /\ represent = 0 /\ passed = {}
    /\ stored = [n \in DOMAIN dataset.groups |-> "unread"]
    /\ declared = [shapes |-> <<>>, chunks |-> <<>>]
    /\ origins = [l \in 1 .. dataset.depth |-> "unread"]
    /\ probed = [tile \in DOMAIN dataset.disk |-> "unread"]
    /\ wanted = {} /\ built = 0 /\ labels = <<>> /\ warnings = {}

Init ==
    \E dataset \in Sources :
        Opened(dataset, IF dataset.kind = "single" THEN "geometry" ELSE "groups")

Next ==
    \/ \E g \in Groups : parse_one_group(g)
    \/ AssembleGroups \/ select_shared_tile_geometry \/ NoGeometry \/ BindRepresentative
    \/ \E l \in DOMAIN origins : probe_level_origins(l)
    \/ JudgeOrigins
    \/ \E n \in DOMAIN stored : read_stored_groups(n)
    \/ Declare \/ Discover
    \/ \E tile \in wanted : probe_labels_for_image(tile)
    \/ Expand \/ Report \/ build_labels_within_budget \/ Finish
    \/ Reading

Spec == Init /\ [][Next]_vars

-----------------------------------------------------------------------------
(* Properties.                                                             *)

\* The tiles bound at their own group's geometry.
trusted == UNION {Range(tiles(group_firsts[n])) : n \in {k \in DOMAIN group_firsts : stored[k] = "ok"}}

\* Whatever the layout of the store, a request that is served a chunk is
\* served the voxels its key names: nothing from another place, no padding
\* past a regridded tile, fill exactly where nothing was written, and no
\* chunk at all when the store failed (read_chunk, ShardIndexCache, copy).
ServedIsSource ==
    \A r \in Reader :
        answer[r] # None /\ answer[r][1].chunk.kind # "error" /\ answer[r][1].tile \in trusted
        => LET a == answer[r][1]
           IN  Right(disk[a.tile], a.key, level_info(bound[a.tile][1], a.key), a.chunk)

\* An import that opens accounts for every declared tile: it is bound, at
\* its group's own geometry or under the warning that says it is not, or its
\* group is named as skipped (import_collection).
TilesAreAccounted ==
    phase = "open" =>
        \A g \in Groups :
            \/ <<"skipped group", g>> \in warnings
            \/ /\ \A tile \in Range(tiles(g)) : bound[tile] # None
               /\ \/ Range(tiles(g)) \subseteq trusted
                  \/ \E w \in warnings : w[1] = "unusable geometry" /\ g \in w[2]

\* Labels that exist and were not seen are reported: a tile whose index lists
\* labels is probed, or the user is told that discovery was sampled or broken.
UnseenLabelsAreReported ==
    phase \in {"building", "open"} =>
        \A tile \in Range(tile_prefixes) :
            disk[tile].labels.index = "listed" /\ probed[tile] # "listed"
            => \E w \in warnings : w[1] \in {"sampled labels", "unusable labels"} /\ tile \in w[2]

\* The allowance for suspect groups is spent only on reads: while it has room
\* no group with a broken index keeps a tile unprobed.
AllowanceIsSpentOnReads ==
    phase \in {"building", "open"} =>
        LET suspect == {g \in parsed : sampled_state(g, "unusable")}
            left == {g \in suspect : unprobed(g) # {}}
        IN  left # {} => Cardinality({g \in suspect \ left : Len(tiles(g)) > 2}) >= MaxExpansions

\* What sampling skips is what nothing pointed at: a group one of whose
\* labels was seen is probed to its last tile.
LabelledGroupsAreComplete ==
    phase \in {"building", "open"} =>
        \A g \in parsed :
            sampled_state(g, "listed") => unprobed(g) = {}

\* The labels kept are the first ones in declared order that build, with
\* their colors, as far as the dataset's budget reaches; the order in which
\* the indexes arrived does not matter (build_labels_within_budget).
RetentionIsSequential ==
    phase = "open" /\ faults = source.faults =>
        LET buildable(tile) == {n \in DOMAIN disk[tile].labels.names : disk[tile].labels.names[n].ok}
            seen == SelectSeq(tile_prefixes, LAMBDA tile : probed[tile] = "listed")
            all == FlattenSeq([k \in DOMAIN seen |-> SetToSortSeq(
                        {[tile |-> seen[k], name |-> n] : n \in buildable(seen[k])},
                        LAMBDA a, b : a.name < b.name)])
            colors(k) == disk[all[k].tile].labels.names[all[k].name].colors
            before(k) == FoldLeft(LAMBDA n, j : n + colors(j), 0, [j \in 1 .. k - 1 |-> j])
        IN  /\ Len(labels) = Min({MaxLabels, Len(all)})
            /\ \A k \in DOMAIN labels :
                  /\ labels[k].tile = all[k].tile /\ labels[k].name = all[k].name
                  /\ labels[k].colors = Max({0, Min({colors(k), MaxColors - before(k)})})

\* A layout is refused exactly when one wire chunk is not one run of the
\* stored chunk: every image that opens can be sliced, and none that could
\* be is turned away (compute_chunk_byte_layout).
RefusedIffScattered ==
    Single /\ phase \in {"open", "failed"} /\ passed = {} =>
        LET meta(l) == shared.levels[l]
            chunk(l) == stored_chunk(meta(l))
            samples(l) == [n \in 1 .. Product(chunk(l)) |-> unravel(chunk(l), n - 1)]
            outer(l, v) == [i \in DOMAIN v |-> IF shared.axes[i] \in Kept THEN 0 ELSE v[i]]
            one_run(l) ==
                \A a, b, c \in DOMAIN samples(l) :
                    a < b /\ b < c /\ outer(l, samples(l)[a]) = outer(l, samples(l)[c])
                    => outer(l, samples(l)[b]) = outer(l, samples(l)[a])
        IN  phase = "open" <=> \A l \in DOMAIN shared.levels :
                /\ meta(l).codec \in Codecs /\ sharding_accepted(meta(l)) /\ one_run(l)

\* A pyramid that a sparse writer finished is never called unwritten: if some
\* set of non-zero source positions explains which chunks every level holds,
\* no level is accused (unwritten_level_indices).
FinishedIsNotAccused ==
    (\E w \in warnings : w[1] = "unwritten level") =>
        LET space == {p \in [DOMAIN shared.axes -> 0 .. source.extent] :
                        \A i \in DOMAIN p : p[i] < shared.levels[1].shape[i] * shared.levels[1].scale[i]}
            home(p, meta) == [i \in DOMAIN p |-> p[i] \div (stored_chunk(meta)[i] * meta.scale[i])]
            explains(data) ==
                \A l \in DOMAIN shared.levels :
                    \A p \in space :
                        written(shared.levels[l], home(p, shared.levels[l]))
                        <=> \E d \in data : home(d, shared.levels[l]) = home(p, shared.levels[l])
        IN  ~ \E data \in SUBSET space : explains(data)

\* What an import says of the source is so: it refuses what it cannot slice
\* and nothing else, accuses no finished level, and a tile it does not bind
\* at its own geometry is named in a warning (import_collection).
ImportIsHonest == RefusedIffScattered /\ FinishedIsNotAccused /\ TilesAreAccounted

\* Sampled label discovery loses nothing in silence: what it skips nothing
\* pointed at or is reported, its allowance goes to reads, and what is kept
\* does not depend on the order of arrival (import_collection, build_label).
LabelsAreAccounted ==
    /\ UnseenLabelsAreReported /\ AllowanceIsSpentOnReads /\ LabelledGroupsAreComplete
    /\ RetentionIsSequential
=============================================================================
