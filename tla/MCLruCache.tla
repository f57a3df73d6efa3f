---------------------------- MODULE MCLruCache ------------------------------
(* Instances of LruCache for TLC.                                           *)
EXTENDS LruCacheRefinement, TLC

CONSTANTS t1, t2, k1, k2, k3, o1, o2, o3, o4

\* No creation nests; the creation of k1 creates k2 as well.
NoNesting == [k \in Keys |-> {}]
K1NestsK2 == [k \in Keys |-> IF k = k1 THEN {k2} ELSE {}]

\* Keys differ in what their creation nests; threads and objects are alike.
NestedSymmetry == Permutations(Threads) \cup Permutations(Objects)
=============================================================================
