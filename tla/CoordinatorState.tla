-------------------------- MODULE CoordinatorState --------------------------
(***************************************************************************)
(* The pure part of the block coordinator: CoordinatorState (state.rs) and *)
(* the SlotRecordBuffer it keeps per slot (buffer.rs), as operators on a   *)
(* record c.  No variables: BlockCoordinator and SlotPipeline both build   *)
(* their steps from these operators.                                       *)
(*                                                                         *)
(*   c.pending    the keys of the map `buffer`                             *)
(*   c.buf        its values; a slot that has no entry holds DefaultBuffer *)
(*   c.discarded  discarded_slots, the tombstones                          *)
(*   c.lastIx, c.lastAcct   last_{instruction,account}_flushed_slot        *)
(*   c.counts     account_event_counts (no entry = 0)                      *)
(***************************************************************************)
EXTENDS Integers

CONSTANTS
    Slots,            \* the slots of the instance
    IxKeys,           \* sort keys of instruction records
    AcctKeys,         \* sort keys of account records
    AccountCommitAt,  \* "Confirmed" or "Finalized"
    Retention         \* DISCARDED_SLOT_RETENTION_BEHIND_FLUSH (512 in the code)

ASSUME SlotsAssumption ==
    /\ Slots \subseteq Nat
    /\ \E m \in Slots : \A s \in Slots : s <= m

ASSUME ConfigAssumption ==
    /\ AccountCommitAt \in {"Confirmed", "Finalized"}
    /\ Retention \in Nat

None == -1      \* an Option that is None: slots and counts are naturals

-----------------------------------------------------------------------------
(* SlotRecordBuffer *)

Buffers ==
    [ixRecords : SUBSET IxKeys, acctRecords : SUBSET AcctKeys,
     parent : Nat \cup {None}, expectedTx : Nat \cup {None},
     parsedTx : Nat, ixCommitted : BOOLEAN,
     finalized : BOOLEAN, acctCommitted : BOOLEAN,
     expectedAcct : Nat \cup {None}, processedAcct : Nat,
     ixDrained : BOOLEAN, acctDrained : BOOLEAN,
     ixStats : Nat, acctStats : Nat]

DefaultBuffer ==
    [ixRecords |-> {}, acctRecords |-> {},
     parent |-> None, expectedTx |-> None,
     parsedTx |-> 0, ixCommitted |-> FALSE,
     finalized |-> FALSE, acctCommitted |-> FALSE,
     expectedAcct |-> None, processedAcct |-> 0,
     ixDrained |-> FALSE, acctDrained |-> FALSE,
     ixStats |-> 0, acctStats |-> 0]

TxParseComplete(b) == b.expectedTx # None /\ b.parsedTx >= b.expectedTx

AccountParseComplete(b) ==
    b.expectedAcct # None /\ b.processedAcct >= b.expectedAcct

InstructionGateReached(b) == TxParseComplete(b) /\ b.ixCommitted

AccountGateReached(b) == AccountParseComplete(b) /\ b.acctCommitted

IsAccountGateFrozen(b) == b.acctCommitted /\ b.expectedAcct # None

IsFullyDrained(b) == b.ixDrained /\ b.acctDrained

(* Mutant: the last write wins. *)
OverwriteExpectedAccountCount(b, n) == [b EXCEPT !.expectedAcct = n]

(* set_expected_account_count: the first write wins. *)
SetExpectedAccountCount(b, n) ==
    IF b.expectedAcct = None THEN [b EXCEPT !.expectedAcct = n] ELSE b

-----------------------------------------------------------------------------
(* CoordinatorState: guards *)

States ==
    [pending : SUBSET Slots, buf : [Slots -> Buffers],
     discarded : SUBSET Slots,
     lastIx : Slots \cup {None}, lastAcct : Slots \cup {None},
     counts : [Slots -> Nat]]

InitialState ==
    [pending |-> {}, buf |-> [s \in Slots |-> DefaultBuffer],
     discarded |-> {}, lastIx |-> None, lastAcct |-> None,
     counts |-> [s \in Slots |-> 0]]

(* Mutant: a slot equal to a frontier is not behind it. *)
IsStrictlyBehind(c, s) == s < c.lastIx /\ s < c.lastAcct

(* A lifecycle event is stale only behind BOTH flush frontiers. *)
IsAlreadyFlushed(c, s) == s <= c.lastIx /\ s <= c.lastAcct

(* Mutant: a record behind the frontier is accepted. *)
NotDiscarded(c, s) == s \notin c.discarded

ValidInstructionSlot(c, s) == s \notin c.discarded /\ ~(s <= c.lastIx)

(* Mutant: no tombstone check. *)
AccountsNotFlushed(c, s) ==
    ~(s <= c.lastAcct) /\ ~(s \in c.pending /\ c.buf[s].acctDrained)

ValidAccountSlot(c, s) ==
    /\ s \notin c.discarded
    /\ ~(s <= c.lastAcct)
    /\ ~(s \in c.pending /\ c.buf[s].acctDrained)

(* The slower of the two frontiers, or the only one there is. *)
LastFlushedSlot(c) ==
    IF c.lastIx = None \/ (c.lastAcct # None /\ c.lastAcct < c.lastIx)
    THEN c.lastAcct
    ELSE c.lastIx

(* prune_discarded_slots; saturating_sub keeps the bound at or above 0. *)
PruneDiscardedSlots(c) ==
    LET last == LastFlushedSlot(c)
        minRetained == IF last > Retention THEN last - Retention ELSE 0
    IN  IF last = None
        THEN c
        ELSE [c EXCEPT !.discarded = {s \in @ : s > minRetained}]

-----------------------------------------------------------------------------
(* CoordinatorState::apply, one operator per event *)

(* buffer.entry(s).or_default() followed by an update of the entry to b. *)
WithEntry(c, s, b) == [c EXCEPT !.pending = @ \cup {s}, !.buf[s] = b]

BlockFrozen(c, s, parent, expectedTx) ==
    IF IsAlreadyFlushed(c, s)
    THEN c
    ELSE WithEntry(c, s, [c.buf[s] EXCEPT !.parent = parent,
                                          !.expectedTx = expectedTx])

(* freeze_account_gate: the running count becomes the expected count. *)
FreezeAccountGate(c, s) ==
    LET b == SetExpectedAccountCount(c.buf[s], c.counts[s])
    IN  [WithEntry(c, s, [b EXCEPT !.acctCommitted = TRUE])
            EXCEPT !.counts[s] = 0]

SlotConfirmed(c, s) ==
    LET marked == WithEntry(c, s, [c.buf[s] EXCEPT !.ixCommitted = TRUE])
    IN  IF IsAlreadyFlushed(c, s) THEN c
        ELSE IF AccountCommitAt = "Confirmed" THEN FreezeAccountGate(marked, s)
        ELSE marked

SlotFinalized(c, s) ==
    IF AccountCommitAt # "Finalized" \/ IsAlreadyFlushed(c, s)
    THEN c
    ELSE FreezeAccountGate(
            WithEntry(c, s, [c.buf[s] EXCEPT !.finalized = TRUE]), s)

(* discard_slot: tombstone, forget the count, prune, drop the entry. *)
SlotDiscarded(c, s) ==
    LET marked == [c EXCEPT !.discarded = @ \cup {s}, !.counts[s] = 0]
    IN  [PruneDiscardedSlots(marked)
            EXCEPT !.pending = @ \ {s}, !.buf[s] = DefaultBuffer]

(* Counted without creating an entry; dropped once the gate is frozen. *)
AccountEventSeen(c, s) ==
    IF \/ IsAlreadyFlushed(c, s)
       \/ s \in c.discarded
       \/ /\ s \in c.pending
          /\ AccountGateReached(c.buf[s]) \/ IsAccountGateFrozen(c.buf[s])
    THEN c
    ELSE [c EXCEPT !.counts[s] = @ + 1]

InstructionRecordParsed(c, s, k) ==
    IF ValidInstructionSlot(c, s)
    THEN WithEntry(c, s, [c.buf[s] EXCEPT !.ixRecords = @ \cup {k}])
    ELSE c

AccountRecordParsed(c, s, k) ==
    IF ValidAccountSlot(c, s)
    THEN WithEntry(c, s, [c.buf[s] EXCEPT !.acctRecords = @ \cup {k},
                                          !.processedAcct = @ + 1])
    ELSE c

TransactionParsed(c, s) ==
    IF ValidInstructionSlot(c, s)
    THEN WithEntry(c, s, [c.buf[s] EXCEPT !.parsedTx = @ + 1])
    ELSE c

(* ParseStats of an account outcome also counts as a processed account. *)
AccountStat(c, s) ==
    IF ValidAccountSlot(c, s)
    THEN WithEntry(c, s, [c.buf[s] EXCEPT !.acctStats = @ + 1,
                                          !.processedAcct = @ + 1])
    ELSE c

InstructionStat(c, s) ==
    IF ValidInstructionSlot(c, s)
    THEN WithEntry(c, s, [c.buf[s] EXCEPT !.ixStats = @ + 1])
    ELSE c

-----------------------------------------------------------------------------
(* The two drains.  The code walks the buffer in ascending slot order,     *)
(* skips drained entries and stops at the first other entry that is not    *)
(* ready.  When the walk reaches s, every undrained entry below s has been *)
(* flushed by this very walk, so the frontier it compares with is the      *)
(* greatest of them: no loop is needed to say which slots are flushed.     *)

MaxSlot(S) == CHOOSE s \in S : \A t \in S : t <= s

(* Mutant: an entry that waits for its accounts is drained again. *)
AllPending(c) == c.pending

UndrainedIx(c) == {s \in c.pending : ~c.buf[s].ixDrained}

(* last_instruction_flushed_slot when the walk reaches s. *)
FrontierAt(c, s) ==
    LET below == {t \in UndrainedIx(c) : t < s}
    IN  IF below = {} THEN c.lastIx ELSE MaxSlot(below)

(* The first flush is unconditional; later ones need the parent behind the *)
(* frontier or discarded.                                                  *)
ParentOk(c, s) ==
    LET last == FrontierAt(c, s)
    IN  \/ last = None
        \/ c.buf[s].parent <= last
        \/ c.buf[s].parent \in c.discarded

(* Mutant: an entry that is not ready is skipped instead of ending the walk. *)
InstructionFlushableSkipping(c) ==
    {s \in UndrainedIx(c) : InstructionGateReached(c.buf[s]) /\ ParentOk(c, s)}

InstructionFlushable(c) ==
    {s \in UndrainedIx(c) :
        \A t \in UndrainedIx(c) :
            t <= s => InstructionGateReached(c.buf[t]) /\ ParentOk(c, t)}

UndrainedAcct(c) == {s \in c.pending : ~c.buf[s].acctDrained}

(* Mutant: an entry that is not ready is skipped instead of ending the walk. *)
AccountFlushableSkipping(c) ==
    {s \in UndrainedAcct(c) : AccountGateReached(c.buf[s])}

AccountFlushable(c) ==
    {s \in UndrainedAcct(c) :
        \A t \in UndrainedAcct(c) : t <= s => AccountGateReached(c.buf[t])}

(* cleanup_fully_drained; the counts are pruned by the account frontier. *)
CleanupFullyDrained(c) ==
    LET gone == {s \in c.pending : IsFullyDrained(c.buf[s])}
        kept == [c EXCEPT
                    !.pending = @ \ gone,
                    !.buf = [s \in Slots |-> IF s \in gone THEN DefaultBuffer
                                                           ELSE c.buf[s]],
                    !.counts = [s \in Slots |-> IF s <= c.lastAcct THEN 0
                                                           ELSE c.counts[s]]]
    IN  PruneDiscardedSlots(kept)

DrainInstructionFlushable(c) ==
    LET F == InstructionFlushable(c)
        drained == [c EXCEPT
                       !.lastIx = MaxSlot(F),
                       !.buf = [s \in Slots |->
                                  IF s \in F
                                  THEN [c.buf[s] EXCEPT !.ixRecords = {},
                                                        !.ixDrained = TRUE]
                                  ELSE c.buf[s]]]
    IN  IF F = {} THEN c ELSE CleanupFullyDrained(drained)

DrainAccountFlushable(c) ==
    LET F == AccountFlushable(c)
        drained == [c EXCEPT
                       !.lastAcct = MaxSlot(F),
                       !.buf = [s \in Slots |->
                                  IF s \in F
                                  THEN [c.buf[s] EXCEPT !.acctRecords = {},
                                                        !.acctDrained = TRUE]
                                  ELSE c.buf[s]]]
    IN  IF F = {} THEN c ELSE CleanupFullyDrained(drained)

(* The slots the drains hand to the output channels, in ascending order. *)
InstructionSlotOf(c, s) ==
    [slot |-> s, records |-> c.buf[s].ixRecords, stats |-> c.buf[s].ixStats,
     executedTx |-> c.buf[s].expectedTx]

AccountSlotOf(c, s) ==
    [slot |-> s, records |-> c.buf[s].acctRecords, stats |-> c.buf[s].acctStats]
=============================================================================
