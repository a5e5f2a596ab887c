------------------------ MODULE MCBlockCoordinator ------------------------
(* Two slots, with every kind of input. *)
EXTENDS BlockCoordinator

(* 1 <- 2 *)
PairParent == [s \in {1, 2} |-> s - 1]
PairAncestors == [s \in {1, 2} |-> 1 .. s - 1]
=============================================================================
