--------------------------- MODULE ImportSources ---------------------------
(***************************************************************************)
(* The sources the import and chunk read run is checked on: single images  *)
(* over axis orders and chunk shapes, sharded images with holes and torn   *)
(* shards, collections whose groups are stored at different geometries,    *)
(* collections with labels, and pyramids with chunks missing.              *)
(***************************************************************************)
EXTENDS StoredObjects

NoLabels == [index |-> "absent", names |-> <<>>]
Listed(colors) ==
    [index |-> "listed", names |-> [n \in DOMAIN colors |-> [colors |-> colors[n], ok |-> colors[n] > 0]]]
BrokenIndex == [index |-> "unusable", names |-> <<>>]

Level(shape, chunk, inner, at, crc, codec, holes, torn) ==
    [shape |-> shape, chunk |-> chunk, inner |-> inner, at |-> at, crc |-> crc, codec |-> codec,
     holes |-> holes, torn |-> torn, scale |-> [i \in DOMAIN shape |-> 1]]
Plain(shape, chunk, holes) == Level(shape, chunk, <<>>, "end", FALSE, "none", holes, {})

Tile(axes, size, levels, found) ==
    [axes |-> axes, dtype_size |-> size, levels |-> levels, readable |-> TRUE, labels |-> found]

Image(tile, readers, faulty, extents) ==
    [kind |-> "single", disk |-> <<tile>>, groups |-> <<[metadata |-> "ok", tiles |-> <<1>>]>>,
     readers |-> readers, faults |-> faulty, depth |-> Len(tile.levels), exhaustive |-> FALSE,
     extent |-> extents]

\* Every chunk shape of one or two samples an axis, for several axis orders.
Orders == {<<<<"t", "c", "y", "x">>, <<3, 2, 2, 3>>>>, <<<<"c", "t", "x">>, <<2, 3, 3>>>>,
           <<<<"y", "c", "x">>, <<2, 2, 3>>>>, <<<<"c", "m", "z", "x">>, <<3, 2, 2, 2>>>>,
           <<<<"x", "m">>, <<3, 2>>>>}
Layouts ==
    {Image(Tile(o[1], 1 + (chunk[1] % 2), <<Plain(o[2], chunk, {})>>, NoLabels), {1}, 0, 0) :
        o \in {q \in Orders : Len(q[1]) = 4}, chunk \in [1 .. 4 -> {1, 2}]}
    \cup {Image(Tile(o[1], 1, <<Plain(o[2], chunk, {})>>, NoLabels), {1}, 0, 0) :
        o \in {q \in Orders : Len(q[1]) = 3}, chunk \in [1 .. 3 -> {1, 2}]}
    \cup {Image(Tile(o[1], 2, <<Plain(o[2], chunk, {})>>, NoLabels), {1}, 0, 0) :
        o \in {q \in Orders : Len(q[1]) = 2}, chunk \in [1 .. 2 -> {1, 2}]}

\* Shards with a hole, torn or not, of every index placement and codec.
Shards ==
    {Image(Tile(<<"c", "y", "x">>, 1,
                <<Level(<<2, 2, 5>>, <<2, 2, 4>>, inner, at, TRUE, codec, {<<0, 1, 0>>}, torn)>>,
                NoLabels), {1}, 1, 0) :
        inner \in {<<1, 1, 2>>, <<2, 1, 2>>, <<2, 2, 1>>, <<1, 2, 3>>}, at \in {"start", "end"},
        codec \in {"none", "zstd", "gzip"}, torn \in {{}, {<<0, 0, 1>>}}}
    \cup {Image(Tile(<<"y", "x">>, 1,
                <<Level(<<2, 4>>, <<2, 2>>, <<1, 1>>, at, crc, "none", {<<0, 0>>, <<0, 1>>}, {})>>,
                NoLabels), {1, 2}, 1, 0) : at \in {"start", "end"}, crc \in BOOLEAN}

\* Two groups, and a third that is empty, unreadable or stored otherwise.
Stored(axes, shape, chunk, holes) == Tile(axes, 1, <<Plain(shape, chunk, holes)>>, NoLabels)
YX == <<"c", "y", "x">>
Third == {<<"ok", Stored(YX, <<1, 3, 3>>, <<1, 3, 1>>, {})>>,
          <<"ok", Stored(<<"y", "c", "x">>, <<2, 1, 2>>, <<1, 1, 2>>, {})>>,
          <<"ok", Tile(YX, 2, <<Plain(<<2, 2, 2>>, <<1, 2, 2>>, {})>>, NoLabels)>>,
          <<"ok", [Stored(YX, <<1, 2, 2>>, <<1, 2, 2>>, {}) EXCEPT !.readable = FALSE]>>,
          <<"bad", Stored(YX, <<1, 2, 2>>, <<1, 2, 2>>, {})>>,
          <<"empty", Stored(YX, <<1, 2, 2>>, <<1, 2, 2>>, {})>>}
Collection(tile1, tile2, third, order, faulty) ==
    LET groups == <<[metadata |-> "ok", tiles |-> <<1>>], [metadata |-> "ok", tiles |-> <<2>>],
                    [metadata |-> third[1], tiles |-> IF third[1] = "empty" THEN <<>> ELSE <<3>>]>>
    IN  [kind |-> "collection", disk |-> <<tile1, tile2, third[2]>>,
         groups |-> [n \in 1 .. 3 |-> groups[order[n]]],
         readers |-> IF faulty = 0 THEN {1} ELSE {}, faults |-> faulty, depth |-> 1,
         exhaustive |-> FALSE, extent |-> 0]
Collections ==
    {Collection(Stored(YX, <<1, 4, 4>>, chunks[1], {<<0, 0, 1>>}),
                Stored(YX, <<2, 3, 3>>, chunks[2], {<<0, 1, 0>>}), third, order, faulty) :
        chunks \in {<<<<1, 2, 2>>, <<1, 3, 3>>>>, <<<<1, 2, 3>>, <<2, 3, 2>>>>}, third \in Third,
        order \in {<<1, 2, 3>>, <<3, 1, 2>>}, faulty \in {0, 1}}

\* Groups of one to four tiles whose labels are listed, absent or broken.
Labelled(found, sizes, faulty) ==
    LET start(g) == FoldLeft(LAMBDA n, k : n + sizes[k], 0, [k \in 1 .. g - 1 |-> k])
    IN  [kind |-> "collection",
         disk |-> [n \in DOMAIN found |->
                    Tile(<<"y", "x">>, 1, <<Plain(<<1, 1>>, <<1, 1>>, {})>>, found[n])],
         groups |-> [g \in DOMAIN sizes |->
                        [metadata |-> "ok", tiles |-> [k \in 1 .. sizes[g] |-> start(g) + k]]],
         readers |-> {}, faults |-> faulty, depth |-> 1, exhaustive |-> FALSE, extent |-> 0]
LabelSets ==
    {Labelled(<<a, NoLabels, b, c, d, NoLabels, NoLabels>>, <<3, 1, 3>>, 1) :
        a \in {NoLabels, Listed(<<1, 2>>), BrokenIndex}, b \in {NoLabels, Listed(<<2, 0, 1>>)},
        c \in {NoLabels, BrokenIndex, Listed(<<1>>)}, d \in {NoLabels, Listed(<<3>>), BrokenIndex}}
    \cup {Labelled(<<NoLabels, Listed(<<1>>), Listed(<<3>>), BrokenIndex>>, <<1, 3>>, 1),
          Labelled(<<BrokenIndex, BrokenIndex, BrokenIndex, Listed(<<1>>), NoLabels,
                     BrokenIndex, Listed(<<2>>), NoLabels>>, <<2, 3, 3>>, 0)}

\* Two levels of one row, with any chunks missing.
Scaled(shape, chunk, scale, holes) == [Plain(shape, chunk, holes) EXCEPT !.scale = scale]
Pyramids ==
    {Image(Tile(<<"x">>, 1, <<Scaled(<<4>>, <<c0>>, <<1>>, h0), Scaled(<<2>>, <<c1>>, <<2>>, h1)>>,
                NoLabels), {}, 1, 3) :
        c0 \in {1, 2, 4}, c1 \in {1, 2},
        h0 \in SUBSET {<<0>>, <<1>>, <<2>>, <<3>>}, h1 \in SUBSET {<<0>>, <<1>>}}

MCSources == Layouts \cup Shards \cup Collections \cup LabelSets \cup Pyramids
MCObjects == all_objects(MCSources)
=============================================================================
