------------------------- MODULE MCGeneratedChunks -------------------------
(* A small instance of GeneratedChunks. *)
EXTENDS GeneratedChunks

MCKeysOf == [p \in {"coarse", "thumb"} |->
                IF p = "coarse" THEN <<"c1", "c2">> ELSE <<"t1">>]
Visible(k) == [key |-> k, lane |-> "Visible"]
Predicted(k) == [key |-> k, lane |-> "Predicted"]
\* One list over the cap, one that names a key the other does not.
MCInterests == {<<Visible("c1"), Predicted("t1"), Predicted("c2")>>, <<Visible("c2")>>}

\* Eviction and restart with one worker, an unlimited disk with two, requests
\* beside one worker, and errors.
Of(workers, limit, budget, who, close, h, r, f, again) ==
    [concurrency |-> workers, fill |-> limit, budget |-> budget, viewers |-> who,
     closes |-> close, hints |-> h, requests |-> r, faults |-> f, restarts |-> again]
MCScenarios ==
    {Of(1, 1, 4, {"ann"}, TRUE, 1, 0, 0, 1), Of(2, 1, 20, {"ann"}, FALSE, 1, 0, 0, 0),
     Of(2, 3, 3, {}, FALSE, 0, 0, 0, 0), Of(1, 1, 3, {}, TRUE, 0, 0, 1, 0),
     Of(1, 1, 4, {}, FALSE, 0, 0, 1, 1), Of(1, 1, 4, {"ann"}, FALSE, 0, 1, 0, 1),
     Of(1, 0, 20, {"ann", "bob"}, FALSE, 3, 0, 0, 0), Of(1, 0, 4, {"ann"}, TRUE, 1, 1, 0, 0)}
LiveScenarios ==
    {Of(1, 0, 20, {"ann", "bob"}, FALSE, 2, 0, 0, 0), Of(2, 0, 4, {"ann"}, FALSE, 1, 0, 0, 0),
     Of(1, 1, 4, {"ann"}, FALSE, 1, 0, 0, 0)}

=============================================================================
