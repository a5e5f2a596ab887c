------------------------------ MODULE SlotLog ------------------------------
(***************************************************************************)
(* What the coordinated pipeline promises its two sinks: each output is a  *)
(* log of slots, extended only at its end, by complete canonical slots, in *)
(* chain order, none skipped and none repeated.                            *)
(***************************************************************************)
EXTENDS Sequences, Naturals

CONSTANTS
    InstructionLog,  \* the complete InstructionSlots of the canonical chain, in order
    AccountLog       \* the complete AccountSlots of the canonical chain, in order

VARIABLES ixLog, acctLog

vars == <<ixLog, acctLog>>

Prefix(log, n) == SubSeq(log, 1, n)

(* One iteration may release several slots at once. *)
Extend(now, next, log) ==
    \E n \in Len(now) .. Len(log) : now = Prefix(log, Len(now)) /\ next = Prefix(log, n)

Init == ixLog = <<>> /\ acctLog = <<>>

Next ==
    /\ Extend(ixLog, ixLog', InstructionLog)
    /\ Extend(acctLog, acctLog', AccountLog)

Spec == Init /\ [][Next]_vars
=============================================================================
