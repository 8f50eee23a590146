---------------------------- MODULE StoredObjects ----------------------------
(***************************************************************************)
(* What a writer leaves in the object store: the bytes of a chunk, of a    *)
(* shard with its index, and the objects of a level.  The writers are not  *)
(* part of the server; the formats are the ones its readers expect.        *)
(***************************************************************************)
EXTENDS TileGeometry

CONSTANT MaxWord    \* the largest index word, which in both words means absent

Fill == <<"fill">>   \* a zero byte
Pad == <<"pad">>     \* what a writer left past the array's edge

-----------------------------------------------------------------------------
(* One level as a writer left it.                                          *)

voxel_cell(meta, v, k) ==
    IF \A i \in DOMAIN v : v[i] < meta.shape[i] THEN <<"v", v, k>> ELSE Pad

raw_chunk(tile, meta, coords) ==
    LET shape == stored_chunk(meta)
    IN  [n \in 1 .. tile.dtype_size * Product(shape) |->
            LET at == unravel(shape, (n - 1) \div tile.dtype_size)
            IN  voxel_cell(meta, [i \in DOMAIN shape |-> coords[i] * shape[i] + at[i]],
                           (n - 1) % tile.dtype_size)]

encoded_chunk(tile, meta, coords) ==
    LET raw == raw_chunk(tile, meta, coords)
    IN  IF meta.codec = "none" THEN raw ELSE <<<<"zstd", raw>>, <<"end">>>>

written(meta, coords) ==
    /\ coords \notin meta.holes
    /\ \A i \in DOMAIN coords : coords[i] * stored_chunk(meta)[i] < meta.shape[i]

\* The index of a shard over the chunks it holds, in order: where each lies
\* and how long it is.  An empty part is a chunk that was never written.
index_words(base, part) ==
    FlattenSeq([p \in DOMAIN part |->
        IF part[p] = <<>> THEN <<<<"w", MaxWord>>, <<"w", MaxWord>>>>
        ELSE <<<<"w", base + Len(FlattenSeq(SubSeq(part, 1, p - 1)))>>, <<"w", Len(part[p])>>>>])

checked(layout, words) == IF layout.crc THEN Append(words, <<"crc", words>>) ELSE words

placed(layout, index, body) == IF layout.at = "start" THEN index \o body ELSE body \o index

\* A shard as it is stored; a torn one has lost its last byte.
shard_bytes(layout, part, torn) ==
    LET base == IF layout.at = "start" THEN index_len(layout) ELSE 0
        laid == placed(layout, checked(layout, index_words(base, part)), FlattenSeq(part))
    IN  IF \A p \in DOMAIN part : part[p] = <<>> THEN None
        ELSE Some(SubSeq(laid, 1, Len(laid) - (IF torn THEN 1 ELSE 0)))

inner_at(layout, shard, p) ==
    [i \in DOMAIN shard |-> shard[i] * layout.per[i] + unravel(layout.per, p - 1)[i]]

written_part(tile, meta, coords) ==
    IF written(meta, coords) THEN encoded_chunk(tile, meta, coords) ELSE <<>>

\* A shard: its written inner chunks in order, and the index that finds them.
shard_object(tile, meta, layout, shard) ==
    shard_bytes(layout, [p \in 1 .. inner_chunks_per_shard(layout) |->
                            written_part(tile, meta, inner_at(layout, shard, p))],
                shard \in meta.torn)

\* Every object of a level, by its grid coordinate.
level_objects(tile, meta) ==
    LET grid == {p \in [DOMAIN meta.shape -> 0 .. Max(Range(meta.shape)) - 1] :
                    \A i \in DOMAIN p : p[i] * meta.chunk[i] < meta.shape[i]}
    IN  [p \in grid |->
            IF meta.inner # None THEN shard_object(tile, meta, from_codec_chain(meta)[1], p)
            ELSE IF written(meta, p) THEN Some(encoded_chunk(tile, meta, p)) ELSE None]

\* Every object of every dataset.
all_objects(sources) ==
    [s \in sources |-> [n \in DOMAIN s.disk |->
        [l \in DOMAIN s.disk[n].levels |-> level_objects(s.disk[n], s.disk[n].levels[l])]]]
=============================================================================
