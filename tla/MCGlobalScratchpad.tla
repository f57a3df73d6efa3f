------------------------- MODULE MCGlobalScratchpad -------------------------
(* Instances of GlobalScratchpad for TLC. *)
EXTENDS GlobalScratchpad, TLC

(* Threads and primitives are interchangeable. *)
PadSymmetry == Permutations(Threads) \cup Permutations(Primitives)
=============================================================================
