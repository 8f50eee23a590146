------------------------------ MODULE ChunkRead ------------------------------
(***************************************************************************)
(* Reading one wire chunk: the location its key names, the shard index     *)
(* remembered or read, the bytes, the decoding, the timepoint and channel  *)
(* cut out, and on a regridded level the declared chunk assembled from     *)
(* the stored chunks it overlaps.                                          *)
(*                                                                         *)
(* Several reads share one memory of shard indexes per binding.  A read of *)
(* the store may fail as often as the faults left allow.                   *)
(***************************************************************************)
EXTENDS StoredObjects

CONSTANTS
    Reader,     \* requests in flight together
    Sources,    \* the datasets there may be, each with its tiles as stored
    Objects     \* dataset -> tile -> level -> grid coordinate -> the object

VARIABLES
    source,     \* the dataset that is imported and read
    bound,      \* tile -> its levels as the import bound them, if it did
    indexes,    \* the shard indexes a binding remembers
    read,       \* reader -> its request and the stored chunks read so far
    answer,     \* reader -> what it was served
    faults      \* how often the store may still fail

readVars == <<source, bound, indexes, read, answer, faults>>

\* The tiles of the dataset: axes, sample size, levels, labels.
disk == source.disk

\* The object at a grid coordinate of a tile's level, if there is one.
object(tile, level, coords) ==
    LET levels == Objects[source][tile]
    IN  IF level + 1 \in DOMAIN levels /\ coords \in DOMAIN levels[level + 1]
        THEN levels[level + 1][coords] ELSE None

Absent == [outcome |-> "absent", cells |-> <<>>]
Failed == [outcome |-> "failed", cells |-> <<>>]
Bytes(cells) == [outcome |-> "ok", cells |-> cells]

\* A range past the end is the store's error, or the bytes there are.
get_range(found, lo, hi) ==
    IF found = None THEN Absent
    ELSE IF lo >= Len(found[1]) THEN Failed
    ELSE Bytes(SubSeq(found[1], lo + 1, Min({hi, Len(found[1])})))

\* An object shorter than the suffix answers with all of its bytes.
get_suffix(found, len) ==
    IF found = None THEN Absent
    ELSE Bytes(SubSeq(found[1], Max({1, Len(found[1]) - len + 1}), Len(found[1])))

-----------------------------------------------------------------------------
(* One stored chunk.                                                       *)

\* An index is entries of offset and length.  One of the wrong length, one
\* that does not match its checksum, and one with an entry past any object,
\* is refused.
parse_accepted(layout, cells) ==
    LET n == 2 * inner_chunks_per_shard(layout)
    IN  /\ Len(cells) = index_len(layout)
        /\ layout.crc => cells[n + 1] = <<"crc", SubSeq(cells, 1, n)>>
        /\ \A p \in 1 .. inner_chunks_per_shard(layout) :
               \/ cells[2 * p - 1][2] = MaxWord /\ cells[2 * p][2] = MaxWord
               \/ cells[2 * p - 1][2] + cells[2 * p][2] <= MaxWord

parse(layout, cells) ==
    [p \in 1 .. inner_chunks_per_shard(layout) |->
        [offset |-> cells[2 * p - 1][2], len |-> cells[2 * p][2]]]

\* The index of a shard object that is not there.
Missing == <<>>

\* What reading a shard's index learns: the index, or that the read failed.
\* A shard that is not there is an index with nothing written.
index_read(layout, found) ==
    LET got == IF layout.at = "start" THEN get_range(found, 0, index_len(layout))
               ELSE get_suffix(found, index_len(layout))
    IN  IF got.outcome = "absent" THEN Some(Missing)
        ELSE IF got.outcome = "ok" /\ parse_accepted(layout, got.cells)
        THEN Some(parse(layout, got.cells))
        ELSE None

\* The bytes of one inner chunk, given its shard's index.
entry_read(index, position, found) ==
    IF index = Missing THEN Absent
    ELSE IF position + 1 \notin DOMAIN index THEN Failed
    ELSE LET e == index[position + 1]
         IN  IF e.offset = MaxWord /\ e.len = MaxWord THEN Absent
             ELSE get_range(found, e.offset, e.offset + e.len)

\* Where a key's bytes lie: an object, or a position in a shard.
resolve(axes, level, key) ==
    LET chunk == IF level.chunk_shape = <<>> THEN [i \in DOMAIN axes |-> 1]
                 ELSE level.chunk_shape
        coords == chunk_key_grid_coords(key, axes, chunk)
    IN  IF level.shard = None THEN [path |-> coords, position |-> 0]
        ELSE LET at == locate_inner_chunk(level.shard[1], coords)
             IN  [path |-> at.shard, position |-> at.position]

decode_storage_bytes(cells, compression) ==
    IF compression = "none" THEN Some(cells)
    ELSE IF Len(cells) = 2 THEN Some(cells[1][2]) ELSE None

\* Decode one stored chunk and cut out the key's timepoint and channel.
decode_wire_chunk(cells, level, key) ==
    LET raw == decode_storage_bytes(cells, level.compression)
        expected == level.layout.on_disk_byte_size
    IN  IF raw = None THEN None
        ELSE IF expected > 0 /\ Len(raw[1]) # expected THEN None
        ELSE Some(slice_wire_chunk(raw[1], level.layout, key.t, key.c))

-----------------------------------------------------------------------------
(* A request.                                                              *)

Idle == [tile |-> 0]

\* The stored chunks a request reads: its own, or the ones a declared chunk
\* overlaps.
sources(tile, key) ==
    LET level == level_info(bound[tile][1], key)
        plan == plan_new(key, disk[tile].axes, level)
    IN  IF level.regrid = None THEN {key}
        ELSE IF plan = None THEN {} ELSE stored_chunks(plan[1])

\* A request, which names a tile the import bound.  Each reader makes one.
Ask(r, tile, key) ==
    /\ read[r] = Idle
    /\ answer[r] = None
    /\ bound[tile] # None
    /\ read' = [read EXCEPT ![r] =
                    [tile |-> tile, key |-> key, todo |-> sources(tile, key), got |-> <<>>]]
    /\ UNCHANGED <<source, bound, indexes, answer, faults>>

\* Mutant: an index that could not be read is remembered as missing.
rememberedAnyway(path, learnt) ==
    IF path \in DOMAIN indexes THEN indexes
    ELSE indexes @@ (path :> IF learnt = None THEN Missing ELSE learnt[1])

\* The memory after an index was read: a failure is not remembered, and an
\* index another request remembered first is kept.
remembered(path, learnt) ==
    IF learnt = None \/ path \in DOMAIN indexes THEN indexes
    ELSE indexes @@ (path :> learnt[1])

\* The index a read goes by: the remembered one, or the one it reads first.
resolve_index(level, path, found, broken) ==
    IF path \in DOMAIN indexes THEN Some(indexes[path])
    ELSE IF broken = "index" THEN None
    ELSE index_read(level.shard[1], found)

\* The bytes of an object of its own.
read_object(found) == IF found = None THEN Absent ELSE Bytes(found[1])

\* The bytes of an inner chunk, once its shard's index is known or not.
read_inner_chunk(learnt, position, found) ==
    IF learnt = None THEN Failed ELSE entry_read(learnt[1], position, found)

\* A read of bytes that breaks.  Nothing is read of a chunk that is absent.
or_broken(got, broken) ==
    IF broken = "bytes" /\ got.outcome = "ok" THEN Failed ELSE got

Got(r, from, got) ==
    read' = [read EXCEPT ![r].todo = @ \ {from}, ![r].got = Append(@, [source |-> from, res |-> got])]

\* A whole object arrives, or its read fails.
ReadObject(r, from, at, broken) ==
    /\ broken # "index"
    /\ Got(r, from, IF broken = "bytes" THEN Failed
                    ELSE read_object(object(read[r].tile, from.level, at.path)))
    /\ UNCHANGED indexes

\* An inner chunk arrives by its shard's index, or one of the reads fails.
ReadInner(r, from, level, at, broken) ==
    LET path == <<read[r].tile, from.level, at.path>>
    IN  \E found \in {object(read[r].tile, from.level, at.path)} :
        \E learnt \in {resolve_index(level, path, found, broken)} :
            /\ broken = "index" => path \notin DOMAIN indexes
            /\ Got(r, from, or_broken(read_inner_chunk(learnt, at.position, found), broken))
            /\ indexes' = remembered(path, learnt)

\* One stored chunk's bytes arrive.  On a sharded level its index is the
\* remembered one, or is read first.  Either read may fail.
ReadSource(r, from) ==
    /\ read[r] # Idle
    /\ from \in read[r].todo
    /\ \E level \in {level_info(bound[read[r].tile][1], read[r].key)} :
       \E at \in {resolve(disk[read[r].tile].axes, level, from)} :
       \E broken \in {"nothing", "index", "bytes"} :
          /\ broken # "nothing" => faults > 0
          /\ faults' = faults - (IF broken = "nothing" THEN 0 ELSE 1)
          /\ IF level.shard = None THEN ReadObject(r, from, at, broken)
             ELSE ReadInner(r, from, level, at, broken)
    /\ UNCHANGED <<source, bound, answer>>

Present(cells) == Some([kind |-> "present", cells |-> cells])
FillOf(len) == Some([kind |-> "absent", cells |-> [n \in 1 .. len |-> Fill]])
ReadError == Some([kind |-> "error", cells |-> <<>>])

\* The declared chunk: fill, with every stored chunk there is copied over.
assembled(tile, key, level, got) ==
    LET len == level.regrid[1].layout.canonical_byte_size
        plan == plan_new(key, tile.axes, level)
        there == SelectSeq(got, LAMBDA g : g.res.outcome = "ok")
    IN  IF plan = None \/ there = <<>> THEN FillOf(len)
        ELSE Present(FoldLeft(
                LAMBDA out, g : copy(plan[1], g.source,
                                     decode_wire_chunk(g.res.cells, level, g.source)[1], out),
                [n \in 1 .. len |-> Fill], there))

\* What a request is served once its stored chunks have been read.
served(tile, key, level, got) ==
    IF \E n \in DOMAIN got :
          \/ got[n].res.outcome = "failed"
          \/ got[n].res.outcome = "ok" /\ decode_wire_chunk(got[n].res.cells, level, got[n].source) = None
    THEN ReadError
    ELSE IF level.regrid # None THEN assembled(tile, key, level, got)
    ELSE IF got[1].res.outcome = "absent" THEN FillOf(level.layout.canonical_byte_size)
    ELSE Present(decode_wire_chunk(got[1].res.cells, level, key)[1])

Serve(r) ==
    /\ read[r] # Idle
    /\ read[r].todo = {}
    /\ LET tile == read[r].tile
           level == level_info(bound[tile][1], read[r].key)
       IN  answer' = [answer EXCEPT ![r] =
                Some([tile |-> tile, key |-> read[r].key,
                      chunk |-> served(disk[tile], read[r].key, level, read[r].got)[1]])]
    /\ read' = [read EXCEPT ![r] = Idle]
    /\ UNCHANGED <<source, bound, indexes, faults>>

ReadInit ==
    /\ indexes = <<>>
    /\ read = [r \in Reader |-> Idle]
    /\ answer = [r \in Reader |-> None]

-----------------------------------------------------------------------------
(* What a chunk should be, from the array alone.                           *)

\* The chunk a key addresses: the declared one on a regridded level.
addressed(level) ==
    IF level.regrid = None THEN level.chunk_shape ELSE level.regrid[1].chunk_shape

\* The voxel under the n-th sample of the wire chunk a key names.
voxel(axes, chunk, key, n) ==
    LET wire == [i \in DOMAIN axes |-> IF axes[i] \in Kept THEN chunk[i] ELSE 1]
        at == unravel(wire, n)
    IN  [i \in DOMAIN axes |->
            IF axes[i] \in Kept THEN key[axes[i]] * chunk[i] + at[i]
            ELSE IF axes[i] \in Indexed THEN key[axes[i]] ELSE 0]

\* A served chunk holds, sample by sample, the voxel the array has there,
\* fill where its stored chunk was never written, and past the array fill
\* or, where chunks are served as they are stored, the writer's padding.
Right(tile, key, level, chunk) ==
    IF key.level + 1 \notin DOMAIN tile.levels THEN chunk.cells = <<>>
    ELSE LET meta == tile.levels[key.level + 1]
             size == tile.dtype_size
             per == stored_chunk(meta)
         IN  /\ Len(chunk.cells) = size * Product([i \in DOMAIN tile.axes |->
                    IF tile.axes[i] \in Kept THEN addressed(level)[i] ELSE 1])
             /\ \A n \in DOMAIN chunk.cells :
                    LET v == voxel(tile.axes, addressed(level), key, (n - 1) \div size)
                        home == [i \in DOMAIN v |-> v[i] \div per[i]]
                    IN  IF \A i \in DOMAIN v : v[i] < meta.shape[i]
                        THEN chunk.cells[n] = IF written(meta, home)
                                              THEN <<"v", v, (n - 1) % size>> ELSE Fill
                        ELSE chunk.cells[n] \in {Fill} \cup (IF level.regrid = None THEN {Pad} ELSE {})
=============================================================================
