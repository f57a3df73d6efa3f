----------------------- MODULE MCConstantTensorCache ------------------------
(* Instances of ConstantTensorCache for TLC.                                *)
EXTENDS ConstantTensorCache

\* One tensor of each size.
CONSTANTS small, large
SmallLarge == [k \in Keys |-> IF k = large THEN 2 ELSE 1]

=============================================================================
