------------------------ MODULE MCPrimitiveScratchpad ------------------------
(* Instances of PrimitiveScratchpad for TLC: alignments and pages of 1/16 and
   1/256 of their size, three descriptors, one of them nested in another. *)
EXTENDS PrimitiveScratchpad, TLC

CONSTANTS conv, reorder, parent

Plain(path, key, bytes, data_align, perf_align) ==
    [path |-> path, key |-> key, bytes |-> bytes, nested |-> None,
     data_align |-> data_align, perf_align |-> perf_align]

Nested(key, d) ==
    [path |-> << >>, key |-> key, bytes |-> 0, nested |-> d,
     data_align |-> default_alignment, perf_align |-> default_alignment]

(* A convolution with padded bias and two reducers, one of which needs no
   space; a reorder; a primitive that runs the reorder and has an attached
   part with a reducer of its own. *)
SmallBookings ==
    (conv :> << Plain(<< >>, 1, 5, 4, 8), Plain(<<2>>, 1, 0, 4, 8),
                Plain(<<3>>, 1, 20, 4, 32), Plain(<<3>>, 2, 16, 8, 8),
                Plain(<< >>, 2, 15, 2, 16), Plain(<<1>>, 1, 1, 1, 1) >>)
    @@ (reorder :> << Plain(<< >>, 1, 3, 2, 8), Plain(<< >>, 2, 17, 1, 16) >>)
    @@ (parent :> << Nested(1, reorder), Plain(<<3>>, 2, 1, 1, 8),
                     Plain(<<2, 1>>, 2, 32, 16, 4) >>)

SmallBases == 32 .. 63

(* Sizes of a few hundred bytes. *)
SmallSizes == 1 .. 1000

(* Threads and primitives are interchangeable. *)
PadSymmetry == Permutations(Threads) \cup Permutations(Primitives)
=============================================================================
