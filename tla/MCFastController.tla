-------------------------- MODULE MCFastController --------------------------
(* Two connections of host 0 and one of host 3, two aggregates.            *)
EXTENDS FastController, TLC

CONSTANTS l1, l2, l3

ThreeHostOf == (l1 :> 0) @@ (l2 :> 0) @@ (l3 :> 3)

\* The two connections of host 0 are interchangeable.
Symmetry == Permutations({l1, l2})
=============================================================================
