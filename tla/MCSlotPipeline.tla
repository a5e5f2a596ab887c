--------------------------- MODULE MCSlotPipeline ---------------------------
EXTENDS SlotPipeline

(* Slots 1 <- 3 are canonical, 2 is a fork of 3 that ends discarded; the   *)
(* fork carries a transaction and an account update, slot 3 is empty.      *)
ForkParent == [s \in {1, 2, 3} |-> IF s = 1 THEN 0 ELSE 1]
ForkTxSlot == [t1 |-> 1, t2 |-> 2]
ForkTxKind == [t1 |-> "fallback", t2 |-> "failed"]
ForkAcctSlot == [a1 |-> 2]
ForkAcctKind == [a1 |-> "record"]

(* One slot with a late account update. *)
LateParent == [s \in {1} |-> 0]
LateTxSlot == [t1 |-> 1]
LateTxKind == [t1 |-> "absent"]
LateAcctSlot == [a1 |-> 1, a2 |-> 1]
LateAcctKind == [a1 |-> "record", a2 |-> "record"]
=============================================================================
