-------------------------- MODULE MCMemoryPlanner ---------------------------
(* Instances of MemoryPlanner: the kinds of operations of small subgraphs.   *)
EXTENDS MemoryPlanner

Kind(alias, arity, pair, bytes, extra, more) ==
    [alias |-> alias, arity |-> arity, pair |-> pair, size |-> bytes,
     extra |-> extra, bytes |-> more]

Sizes == [v \in 1..Inputs |-> 2]
View == Kind(TRUE, 1, 1, 0, "none", 0)           \* reshape
Binary == Kind(FALSE, 2, 1, 0, "scratchpad", 0)  \* in place on its first input
Sum == Kind(FALSE, 2, 2, 0, "scratchpad", 1)     \* matmul with a post-sum
Reorder == Kind(FALSE, 1, 0, 3, "scratchpad", 1) \* to a larger layout
Norm == Kind(FALSE, 1, 0, 0, "stats", 1)         \* layernorm with statistics

\* Four operations and one result, or three of all kinds and two results.
LongOrWide ==
    {[kinds |-> {View, Binary, Reorder, Norm}, ops |-> 4, outputs |-> 1],
     [kinds |-> {View, Binary, Sum, Reorder, Norm}, ops |-> 3, outputs |-> 2]}
=============================================================================
