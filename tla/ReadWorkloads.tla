---------------------------- MODULE ReadWorkloads ----------------------------
(* Small mixes of calls on one or two objects, for CachedStore. *)
EXTENDS Naturals, Sequences

CONSTANTS shard, listing, whole

Range_(s, e) == [path |-> shard, range |-> <<s, e>>]
Object(p) == [path |-> p, range |-> whole]

(* A pan over a shard: two inner chunks that touch, one of them wanted     *)
(* twice, and a third beyond a gap.                                        *)
PanTasks == 1..4
PanKeyOf == <<Range_(0, 2), Range_(2, 4), Range_(0, 2), Range_(6, 7)>>
PanClassOf == <<"chunk", "chunk", "chunk", "chunk">>

(* Opening a dataset: an optional document asked for by two callers at     *)
(* once and probed by a third, beside a required one.                      *)
OpenTasks == 5..8
OpenKeyOf == <<Object(listing), Object(listing), Object(listing), Object(shard)>>
OpenClassOf == <<"optional", "optional", "probe", "meta">>

ReadTasks == PanTasks \union OpenTasks
ReadKeyOf == PanKeyOf \o OpenKeyOf
ReadClassOf == PanClassOf \o OpenClassOf
ReadKeys == {ReadKeyOf[t] : t \in ReadTasks}
ReadSize == [k \in ReadKeys |-> IF k.range = whole THEN 2 ELSE k.range[2] - k.range[1]]

(* Two neighbours, one of them wanted twice. *)
LiveTasks == 1..3
LiveKeyOf == <<Range_(0, 2), Range_(2, 4), Range_(0, 2)>>
LiveKeys == {LiveKeyOf[t] : t \in LiveTasks}
LiveClassOf == [t \in LiveTasks |-> "chunk"]
LiveSize == [k \in LiveKeys |-> 2]

============================================================================
