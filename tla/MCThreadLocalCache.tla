------------------------- MODULE MCThreadLocalCache -------------------------
(* Instances of ThreadLocalCache for TLC.                                   *)
EXTENDS ThreadLocalCache, TLC

CacheSymmetry == Permutations(Threads) \cup Permutations(Kernels)
=============================================================================
