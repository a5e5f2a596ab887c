-------------------------- MODULE BlockCoordinator --------------------------
(***************************************************************************)
(* BlockMachineCoordinator::run_inner (coordinator.rs): an iteration takes *)
(* one input from either channel, applies the events it converts to, and   *)
(* runs both drains.  The coordinator is one task that owns its state, so  *)
(* an iteration is one action, except that a geyser update may convert to  *)
(* several lifecycle events (convert_geyser_update): each is an action and *)
(* only the last one drains.                                               *)
(*                                                                         *)
(* The two producers are open:                                             *)
(*  - handlers send records, stats and TransactionParsed for any slot at   *)
(*    any time (they run in parallel and are not synchronised with the     *)
(*    lifecycle);                                                          *)
(*  - the block state machine (yellowstone_block_machine, a library) emits *)
(*    lifecycle events under the discipline of the section "Feed".         *)
(***************************************************************************)
EXTENDS CoordinatorState

CONSTANTS
    Parent,         \* the block tree: Parent[s] < s, maybe outside Slots
    Ancestors,      \* its transitive closure within Slots
    RequireTxGate,  \* require_tx_gate
    MaxTx,          \* bound: executed transactions of a block
    MaxParsed,      \* bound: TransactionParsed signals counted for one slot
    MaxAcct,        \* bound: account events seen, and processed, for one slot
    MaxStats        \* bound: instruction stats counted for one slot

ASSUME TreeAssumption ==
    /\ Parent \in [Slots -> Nat]
    /\ Ancestors \in [Slots -> SUBSET Slots]
    /\ \A s \in Slots :
          /\ Parent[s] < s
          /\ Parent[s] \in Slots => Parent[s] \in Ancestors[s]
          /\ \A a \in Ancestors[s] : a < s /\ Ancestors[a] \subseteq Ancestors[s]
          /\ \A a, b \in Ancestors[s] :
                a = b \/ a \in Ancestors[b] \/ b \in Ancestors[a]

ASSUME BoundsAssumption ==
    /\ RequireTxGate \in BOOLEAN
    /\ MaxTx \in Nat /\ MaxParsed \in Nat /\ MaxAcct \in Nat /\ MaxStats \in Nat

VARIABLES
    co,           \* CoordinatorState
    midUpdate,    \* an event of a geyser update was applied, more follow
    ixOut,        \* the InstructionSlots the last iteration sent
    acctOut,      \* the AccountSlots the last iteration sent
    ixFlushed,    \* history: slots sent to the instruction output
    acctFlushed,  \* history: slots sent to the account output
    frozen,       \* feed: slots whose BlockFrozen was emitted
    confirmed,    \* feed: slots whose SlotConfirmed was emitted
    finalized,    \* feed: slots whose SlotFinalized was emitted
    dead          \* feed: slots whose SlotDiscarded was emitted

outVars == <<ixOut, acctOut, ixFlushed, acctFlushed>>
feedVars == <<frozen, confirmed, finalized, dead>>
vars == <<co, midUpdate, outVars, feedVars>>

Init ==
    /\ co = InitialState /\ midUpdate = FALSE
    /\ ixOut = {} /\ acctOut = {}
    /\ ixFlushed = {} /\ acctFlushed = {}
    /\ frozen = {} /\ confirmed = {} /\ finalized = {} /\ dead = {}

-----------------------------------------------------------------------------
(* The rest of an iteration once the events turned the state into c:       *)
(* instructions first, then accounts on what the first drain left.         *)
Drain(c) ==
    LET afterIx == DrainInstructionFlushable(c)
        ixBatch == InstructionFlushable(c)
        acctBatch == AccountFlushable(afterIx)
    IN  /\ co' = DrainAccountFlushable(afterIx)
        /\ midUpdate' = FALSE
        /\ ixOut' = {InstructionSlotOf(c, s) : s \in ixBatch}
        /\ acctOut' = {AccountSlotOf(afterIx, s) : s \in acctBatch}
        /\ ixFlushed' = ixFlushed \cup ixBatch
        /\ acctFlushed' = acctFlushed \cup acctBatch

(* More events of the same geyser update follow: nothing is drained yet.   *)
Hold(c) ==
    /\ co' = c /\ midUpdate' = TRUE
    /\ ixOut' = {} /\ acctOut' = {}
    /\ UNCHANGED <<ixFlushed, acctFlushed>>

EndEvent(c) == Drain(c) \/ Hold(c)

-----------------------------------------------------------------------------
(* Feed: what the block state machine emits.                               *)
(*  - a block is frozen once, after every ancestor it tracks was frozen or *)
(*    given up (a bank is replayed on a frozen parent);                    *)
(*  - a commitment status follows the block, and the slots with one lie on *)
(*    a single branch;                                                     *)
(*  - a slot with a commitment status is never discarded, a discarded slot *)
(*    is not reported again except as discarded.                           *)

Canonical == confirmed \cup finalized

SameBranch(s, t) == s = t \/ s \in Ancestors[t] \/ t \in Ancestors[s]

CommitmentAllowed(s) ==
    /\ s \in frozen \ dead
    /\ \A t \in Canonical : SameBranch(s, t)

EmitBlockFrozen(s) ==
    /\ s \notin frozen \cup dead
    /\ Ancestors[s] \subseteq frozen \cup dead
    /\ \E expected \in (IF RequireTxGate THEN 0..MaxTx ELSE {0}) :
          EndEvent(BlockFrozen(co, s, Parent[s], expected))
    /\ frozen' = frozen \cup {s}
    /\ UNCHANGED <<confirmed, finalized, dead>>

EmitSlotConfirmed(s) ==
    /\ CommitmentAllowed(s)
    /\ EndEvent(SlotConfirmed(co, s))
    /\ confirmed' = confirmed \cup {s}
    /\ UNCHANGED <<frozen, finalized, dead>>

EmitSlotFinalized(s) ==
    /\ CommitmentAllowed(s)
    /\ EndEvent(SlotFinalized(co, s))
    /\ finalized' = finalized \cup {s}
    /\ UNCHANGED <<frozen, confirmed, dead>>

EmitSlotDiscarded(s) ==
    /\ s \notin Canonical
    /\ EndEvent(SlotDiscarded(co, s))
    /\ dead' = dead \cup {s}
    /\ UNCHANGED <<frozen, confirmed, finalized>>

-----------------------------------------------------------------------------
(* The other inputs: the source's AccountEventSeen and handler messages.   *)

SeeAccountEvent(s) ==
    /\ ~midUpdate
    /\ co.counts[s] < MaxAcct
    /\ Drain(AccountEventSeen(co, s))
    /\ UNCHANGED feedVars

ParseInstruction(s) ==
    /\ ~midUpdate
    /\ \E k \in IxKeys : Drain(InstructionRecordParsed(co, s, k))
    /\ UNCHANGED feedVars

ParseAccount(s) ==
    /\ ~midUpdate
    /\ co.buf[s].processedAcct < MaxAcct
    /\ \E k \in AcctKeys : Drain(AccountRecordParsed(co, s, k))
    /\ UNCHANGED feedVars

ParseTransaction(s) ==
    /\ ~midUpdate
    /\ co.buf[s].parsedTx < MaxParsed
    /\ Drain(TransactionParsed(co, s))
    /\ UNCHANGED feedVars

CountAccountStat(s) ==
    /\ ~midUpdate
    /\ co.buf[s].processedAcct < MaxAcct
    /\ Drain(AccountStat(co, s))
    /\ UNCHANGED feedVars

CountInstructionStat(s) ==
    /\ ~midUpdate
    /\ co.buf[s].ixStats < MaxStats
    /\ Drain(InstructionStat(co, s))
    /\ UNCHANGED feedVars

Lifecycle(s) ==
    EmitBlockFrozen(s) \/ EmitSlotConfirmed(s) \/ EmitSlotFinalized(s)
        \/ EmitSlotDiscarded(s)

Parsed(s) ==
    ParseInstruction(s) \/ ParseAccount(s) \/ ParseTransaction(s)
        \/ CountAccountStat(s) \/ CountInstructionStat(s)

Next == \E s \in Slots : Lifecycle(s) \/ SeeAccountEvent(s) \/ Parsed(s)

Spec == Init /\ [][Next]_vars

-----------------------------------------------------------------------------
(* Properties *)

(* Every piece of coordinator state keeps its type. *)
TypeOK ==
    /\ co \in States /\ midUpdate \in BOOLEAN
    /\ ixFlushed \subseteq Slots /\ acctFlushed \subseteq Slots
    /\ frozen \subseteq Slots /\ confirmed \subseteq Slots
    /\ finalized \subseteq Slots /\ dead \subseteq Slots

(* state.rs:217, "strictly ascending", across iterations as well as within *)
(* one: an InstructionSlot that is sent lies beyond every slot sent in an  *)
(* earlier iteration, so no slot is sent twice and none is sent late.      *)
InstructionOrder ==
    [][\A o \in ixOut' : \A t \in ixFlushed : t < o.slot]_vars

(* state.rs:261, the same for the account output. *)
AccountOrder ==
    [][\A o \in acctOut' : \A t \in acctFlushed : t < o.slot]_vars

(* "Earlier slot blocks later ones": when a slot has been sent to the      *)
(* instruction output, so has every live frozen ancestor of it.            *)
AncestorsFlushedFirst ==
    \A s \in ixFlushed : \A a \in (Ancestors[s] \cap frozen) \ dead : a \in ixFlushed

(* A record accepted into the buffer is not stranded: an entry that was    *)
(* drained holds no record, since nothing will drain it again.             *)
NoStrandedRecords ==
    \A s \in co.pending :
        /\ co.buf[s].ixDrained => co.buf[s].ixRecords = {}
        /\ co.buf[s].acctDrained => co.buf[s].acctRecords = {}

(* What both outputs have received leaves nothing behind: no buffer entry  *)
(* (it would stay at the head of the walk for ever) and no event count.    *)
FlushedSlotsForgotten ==
    /\ (ixFlushed \cap acctFlushed) \cap co.pending = {}
    /\ \A s \in acctFlushed : co.counts[s] = 0

(* buffer.rs:159, a duplicate commitment status does not change the number *)
(* of accounts a slot waits for.                                           *)
AccountExpectationStable ==
    [][\A s \in co.pending \cap co'.pending :
          co.buf[s].expectedAcct # None =>
             co'.buf[s].expectedAcct = co.buf[s].expectedAcct]_vars

(* Both outputs ascend: what a consumer of either reads is in chain order. *)
OutputsAscend == InstructionOrder /\ AccountOrder
=============================================================================
