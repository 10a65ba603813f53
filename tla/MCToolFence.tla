----------------------------- MODULE MCToolFence -----------------------------
(* Instances of ToolFence: one Attempt, one action delivered three times.      *)
EXTENDS ToolFence, TLC

CONSTANTS t1, x1, d1, d2, d3

OneAction == [x \in Actions |-> t1]
SameAction == [d \in Deliveries |-> x1]

Redelivery == Permutations(Deliveries)
=============================================================================
