---------------------------- MODULE TileGeometry ----------------------------
(***************************************************************************)
(* Where a voxel lies in the object store, and where a wire chunk finds    *)
(* it: the byte layout of a stored chunk, the packing of chunks into       *)
(* shards, the one geometry a collection declares for tiles stored at      *)
(* different shapes, and the plan that assembles a declared chunk from     *)
(* the stored chunks under it.  Everything here is a pure function.        *)
(*                                                                         *)
(* A byte is a cell.  A cell of voxel data names its voxel and its byte    *)
(* within the sample, so that a byte taken from the wrong place is seen.   *)
(* A word of a shard index and its checksum are one cell each; a           *)
(* compressed chunk is two cells that only decoding turns back.            *)
(* An optional value is a sequence of length zero or one.                  *)
(***************************************************************************)
EXTENDS Integers, FiniteSets, SequencesExt

None == <<>>
Some(v) == <<v>>

\* The axes a wire chunk keeps whole, and the axes it holds one index of.
Kept == {"z", "y", "x"}
Indexed == {"t", "c"}

Product(s) == FoldLeft(LAMBDA a, b : a * b, 1, s)

\* The extent along a named axis, one when the array has no such axis.
extent(axes, shape, name) ==
    IF \E i \in DOMAIN axes : axes[i] = name
    THEN shape[CHOOSE i \in DOMAIN axes : axes[i] = name]
    ELSE 1

\* Samples between two neighbours on axis i, in C order.
stride(shape, i) == Product(SubSeq(shape, i + 1, Len(shape)))

\* The coordinate of the n-th sample of a block of the given shape.
unravel(shape, n) == [i \in DOMAIN shape |-> (n \div stride(shape, i)) % shape[i]]

-----------------------------------------------------------------------------
(* The byte layout of one stored chunk.                                    *)

\* Mutant: only the timepoint and channel axes are looked at.
chunk_layout_acceptedPinned(axes, chunk) ==
    \A i, j \in DOMAIN axes :
        (i < j /\ chunk[i] > 1 /\ chunk[j] > 1 /\ axes[i] \in Kept) => axes[j] \notin Indexed

\* Among the axes with more than one sample, every indexed or pinned axis
\* precedes every kept one; a chunk that breaks this fails the import.
chunk_layout_accepted(axes, chunk) ==
    \A i, j \in DOMAIN axes :
        (i < j /\ chunk[i] > 1 /\ chunk[j] > 1 /\ axes[i] \in Kept) => axes[j] \in Kept

compute_chunk_byte_layout(axes, chunk, dtype_size) ==
    LET along(name) == extent(axes, chunk, name)
        step(name) ==
            IF along(name) <= 1 THEN 0
            ELSE dtype_size * stride(chunk, CHOOSE i \in DOMAIN axes : axes[i] = name)
    IN  [canonical_byte_size |->
            dtype_size * Product([i \in DOMAIN axes |-> IF axes[i] \in Kept THEN chunk[i] ELSE 1]),
         on_disk_byte_size |-> dtype_size * Product(chunk),
         byte_stride_t |-> step("t"), byte_stride_c |-> step("c"),
         chunk_size_t |-> along("t"), chunk_size_c |-> along("c")]

\* The byte range of one timepoint and channel in a decoded chunk.
slice_range(layout, t, c) ==
    [offset |-> (t % layout.chunk_size_t) * layout.byte_stride_t
                  + (c % layout.chunk_size_c) * layout.byte_stride_c,
     size |-> layout.canonical_byte_size]

\* A range the bytes cannot satisfy passes the chunk through whole.
slice_wire_chunk(raw, layout, t, c) ==
    LET at == slice_range(layout, t, c)
    IN  IF at.size > 0 /\ at.offset + at.size <= Len(raw)
        THEN SubSeq(raw, at.offset + 1, at.offset + at.size)
        ELSE raw

-----------------------------------------------------------------------------
(* From a wire key to a stored chunk.  A key names a level, a timepoint    *)
(* and a channel as voxels, and z, y and x as chunk coordinates.           *)

chunk_key_grid_coords(key, axes, chunk) ==
    [i \in DOMAIN axes |->
        IF axes[i] \notin Kept \cup Indexed THEN 0
        ELSE IF axes[i] \in Indexed /\ chunk[i] > 1
             THEN key[axes[i]] \div chunk[i]
             ELSE key[axes[i]]]

\* What the sharding codec settles: the inner chunks along each axis, where
\* the index sits and whether it carries a checksum.  No layout for a level
\* whose chunks are objects of their own.
from_codec_chain(meta) ==
    IF meta.inner = None THEN None
    ELSE Some([per |-> [i \in DOMAIN meta.chunk |-> meta.chunk[i] \div meta.inner[i]],
               at |-> meta.at, crc |-> meta.crc])

\* The inner chunk must tile its shard on every axis.
sharding_accepted(meta) ==
    meta.inner = None
    \/ /\ Len(meta.inner) = Len(meta.chunk)
       /\ \A i \in DOMAIN meta.inner : meta.inner[i] # 0 /\ meta.chunk[i] % meta.inner[i] = 0

inner_chunks_per_shard(layout) == Product(layout.per)

\* Two words an entry, and the checksum after the last.
index_len(layout) ==
    2 * inner_chunks_per_shard(layout) + (IF layout.crc THEN 1 ELSE 0)

\* The shard that holds an inner chunk, and its row-major position there.
locate_inner_chunk(layout, coords) ==
    [shard |-> [i \in DOMAIN coords |-> coords[i] \div layout.per[i]],
     position |-> FoldLeft(LAMBDA p, i : p * layout.per[i] + (coords[i] % layout.per[i]),
                           0, [i \in DOMAIN coords |-> i])]

-----------------------------------------------------------------------------
(* What the chunk path knows of a level.                                   *)

\* The codecs the importer can undo.
Codecs == {"none", "zstd"}

\* The chunk a level is planned and fetched in: the inner one when sharded.
stored_chunk(meta) == IF meta.inner = None THEN meta.chunk ELSE meta.inner

level_accepted(axes, meta) ==
    /\ sharding_accepted(meta)
    /\ meta.codec \in Codecs
    /\ chunk_layout_accepted(axes, stored_chunk(meta))

build_level_binding_infos(axes, metas, dtype_size) ==
    [l \in DOMAIN metas |->
        [compression |-> metas[l].codec, chunk_shape |-> stored_chunk(metas[l]),
         layout |-> compute_chunk_byte_layout(axes, stored_chunk(metas[l]), dtype_size),
         shard |-> from_codec_chain(metas[l]), regrid |-> None]]

\* A level the binding does not describe: the bytes are served as they are.
unsliced_level_info ==
    [compression |-> "none", chunk_shape |-> <<>>,
     layout |-> [canonical_byte_size |-> 0, on_disk_byte_size |-> 0, byte_stride_t |-> 0,
                 byte_stride_c |-> 0, chunk_size_t |-> 1, chunk_size_c |-> 1],
     shard |-> None, regrid |-> None]

level_info(levels, key) ==
    IF key.level + 1 \in DOMAIN levels THEN levels[key.level + 1] ELSE unsliced_level_info

-----------------------------------------------------------------------------
(* One declared geometry for every tile of a collection.                   *)

widen(declared, stored) ==
    [i \in DOMAIN declared |-> IF stored[i] > declared[i] THEN stored[i] ELSE declared[i]]

\* The levels every tile has, and on each the largest shape and the largest
\* chunk on each axis.
covering(tiles) ==
    LET depth == Min({Len(tiles[n].shapes) : n \in DOMAIN tiles})
        over(field(_, _), l) == FoldLeft(LAMBDA d, tile : widen(d, field(tile, l)),
                                         field(tiles[1], l), Tail(tiles))
    IN  [shapes |-> [l \in 1 .. depth |-> over(LAMBDA tile, m : tile.shapes[m], l)],
         chunks |-> [l \in 1 .. depth |->
                        over(LAMBDA tile, m : tile.bindings[m].chunk_shape, l)]]

covering_accepted(declared, axes) ==
    \A l \in DOMAIN declared.chunks : chunk_layout_accepted(axes, declared.chunks[l])

\* One tile's binding at the declared levels: as stored where its chunk is
\* the declared one, and regridded where it is not.
bind(declared, tile, axes, dtype_size) ==
    LET depth == Min({Len(tile.bindings), Len(declared.chunks)})
    IN  [l \in 1 .. depth |->
            IF tile.bindings[l].chunk_shape = declared.chunks[l] THEN tile.bindings[l]
            ELSE [tile.bindings[l] EXCEPT !.regrid = Some(
                    [chunk_shape |-> declared.chunks[l],
                     layout |-> compute_chunk_byte_layout(axes, declared.chunks[l], dtype_size),
                     stored_shape |-> tile.shapes[l]])]]

-----------------------------------------------------------------------------
(* The plan of one declared chunk over the stored chunks under it.         *)

Spatial == <<"z", "y", "x">>

\* No plan when the declared chunk lies wholly past the stored level.
plan_new(key, axes, level) ==
    LET regrid == level.regrid[1]
        along(shape) == [i \in 1 .. 3 |-> Max({extent(axes, shape, Spatial[i]), 1})]
        served == along(regrid.chunk_shape)
        size == along(regrid.stored_shape)
        origin == [i \in 1 .. 3 |-> key[Spatial[i]] * served[i]]
    IN  IF \/ key.t >= extent(axes, regrid.stored_shape, "t")
           \/ key.c >= extent(axes, regrid.stored_shape, "c")
           \/ \E i \in 1 .. 3 : origin[i] >= size[i]
        THEN None
        ELSE Some([key |-> key, origin |-> origin, served |-> served,
                   end |-> [i \in 1 .. 3 |-> Min({origin[i] + served[i], size[i]})],
                   stored |-> along(level.chunk_shape),
                   sample_bytes |-> regrid.layout.canonical_byte_size \div Product(served)])

\* The keys of the stored chunks a declared chunk overlaps.
stored_chunks(plan) ==
    LET range(i) == (plan.origin[i] \div plan.stored[i]) .. ((plan.end[i] - 1) \div plan.stored[i])
    IN  {[plan.key EXCEPT !.z = g[1], !.y = g[2], !.x = g[3]] :
            g \in range(1) \X range(2) \X range(3)}

\* Copy the part of one stored chunk the declared chunk covers, one run
\* along x a row.  A run either buffer cannot hold is not copied.
copy(plan, from, wire, out) ==
    LET base == <<from.z * plan.stored[1], from.y * plan.stored[2], from.x * plan.stored[3]>>
        lo == [i \in 1 .. 3 |-> Max({plan.origin[i], base[i]})]
        hi == [i \in 1 .. 3 |-> Min({plan.end[i], base[i] + plan.stored[i]})]
        byte(block, corner, at) ==
            (((at[1] - corner[1]) * block[2] + (at[2] - corner[2])) * block[3] + (at[3] - corner[3]))
                * plan.sample_bytes
        copied(n, at) ==
            LET row_end == [at EXCEPT ![3] = hi[3]]
            IN  IF /\ \A i \in 1 .. 3 : lo[i] <= at[i] /\ at[i] < hi[i]
                   /\ byte(plan.stored, base, row_end) <= Len(wire)
                   /\ byte(plan.served, plan.origin, row_end) <= Len(out)
                THEN wire[byte(plan.stored, base, at) + ((n - 1) % plan.sample_bytes) + 1]
                ELSE out[n]
    IN  [n \in DOMAIN out |->
            LET at == unravel(plan.served, (n - 1) \div plan.sample_bytes)
            IN  copied(n, [i \in 1 .. 3 |-> plan.origin[i] + at[i]])]
=============================================================================
