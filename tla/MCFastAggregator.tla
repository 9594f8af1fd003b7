-------------------------- MODULE MCFastAggregator --------------------------
(* Instances of FastAggregator: u1 and u2 share shard 0, u3 has shard 1.   *)
EXTENDS FastAggregator, TLC

CONSTANTS u1, u2, u3, fa, fb, fz

OneShardUpdaters == {u1, u2}
OneShardHostId == (u1 :> 3) @@ (u2 :> 4)
TwoEach == (u1 :> 2) @@ (u2 :> 2)

TwoShardUpdaters == {u1, u3}
TwoShardHostId == (u1 :> 4) @@ (u3 :> 7)
OneEach == (u1 :> 1) @@ (u3 :> 1)

TwoAggs == {fa, fb}
OneAgg == {fa}
OneAndUnknown == {fa, fz}

\* Updaters of one shard, and flows, are interchangeable.
Symmetry == Permutations(OneShardUpdaters) \cup Permutations(TwoAggs)
=============================================================================
