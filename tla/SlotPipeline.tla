---------------------------- MODULE SlotPipeline ----------------------------
(***************************************************************************)
(* The coordinated pipeline end to end:                                    *)
(*                                                                         *)
(*            input (lifecycle, AccountEventSeen)                          *)
(*   geyser -> CoordinatorSource ----------------------> coordinator -> out *)
(*                  |                                       ^              *)
(*                  +-> runtime queue -> handler jobs ------+ parsed       *)
(*                                                                         *)
(* CoordinatorSource is source.rs, the jobs are Buffer's tasks running a   *)
(* BufferingHandler (kafka-sink handler.rs), the coordinator is run_inner  *)
(* on CoordinatorState.  The two channels into the coordinator are not     *)
(* synchronised, and up to Jobs handlers run in parallel.                  *)
(***************************************************************************)
EXTENDS CoordinatorState, FiniteSets, Sequences

CONSTANTS
    Parent,        \* Parent[s]: the parent slot, maybe before the stream
    Canon,         \* the slots that get confirmed (one branch)
    Txs,           \* transactions on the stream
    TxSlot,        \* TxSlot[t]: the slot of t
    TxKind,        \* TxKind[t]: what the handler finds in t
    Accts,         \* account updates on the stream
    AcctSlot,      \* AcctSlot[a]: the slot of a
    AcctKind,      \* AcctKind[a]: "record" or "stat" (filtered, failed, malformed)
    Kinds,         \* the lifecycle events on the stream
    Jobs,          \* permits of the runtime's buffer
    Capacity,      \* capacity of each channel
    Late           \* the account updates that follow their slot's commitment

ASSUME PipelineAssumption ==
    /\ Canon \subseteq Slots
    /\ Kinds \subseteq {"Frozen", "Confirmed", "Finalized", "Discarded"}
    /\ Jobs \in Nat \ {0} /\ Capacity \in Nat \ {0}
    /\ IsFiniteSet(Txs) /\ Txs \subseteq IxKeys
    /\ IsFiniteSet(Accts) /\ Accts \subseteq AcctKeys
    /\ TxSlot \in [Txs -> Slots] /\ AcctSlot \in [Accts -> Slots]
    /\ TxKind \in [Txs -> {"absent", "failed", "decoded", "filtered", "fallback"}]
    /\ AcctKind \in [Accts -> {"record", "stat"}]
    /\ Late \subseteq Accts

(* A block follows its parent, and the confirmed slots are one branch.     *)
ASSUME BranchAssumption ==
    /\ Parent \in [Slots -> Nat]
    /\ \A s \in Slots : s > 0 => Parent[s] < s
    /\ \A s, t \in Canon : s < t => Parent[t] \in Canon /\ s <= Parent[t]

VARIABLES
    emitted,   \* geyser: updates the source has taken from the stream
    held,      \* source: the update it is waiting to put on the runtime's channel
    input,     \* channel source -> coordinator
    queue,     \* channel source -> runtime, jobs not yet started
    running,   \* started jobs: [job, todo], todo the messages still to send
    panicked,  \* history: a handler panicked
    parsed,    \* channel handlers -> coordinator
    co,        \* CoordinatorState
    ixLog,     \* InstructionSlots sent so far
    acctLog    \* AccountSlots sent so far

vars == <<emitted, held, input, queue, running, panicked, parsed, co, ixLog, acctLog>>

Init ==
    /\ emitted = {} /\ held = {} /\ running = {} /\ panicked = FALSE
    /\ input = <<>> /\ queue = <<>> /\ parsed = <<>>
    /\ co = InitialState
    /\ ixLog = <<>> /\ acctLog = <<>>

HasRoom(channel) == Len(channel) < Capacity

-----------------------------------------------------------------------------
(* Stream and source *)

Lifecycle(kind, s) == [type |-> kind, slot |-> s]
Update(kind, id, s) == [type |-> kind, id |-> id, slot |-> s]

CommitEvent == IF AccountCommitAt = "Confirmed" THEN "Confirmed" ELSE "Finalized"

(* connect, one turn of the 'stream loop.  Each send is an await: an       *)
(* account update is announced to the coordinator before it is forwarded,  *)
(* and the loop takes no other update until the runtime has room for it.   *)
AnnounceAccount(a) ==
    LET s == AcctSlot[a]
    IN  /\ held = {}
        /\ Update("Account", a, s) \notin emitted
        /\ a \in Late => Lifecycle(CommitEvent, s) \in emitted
        /\ HasRoom(input)
        /\ emitted' = emitted \cup {Update("Account", a, s)}
        /\ input' = Append(input, Lifecycle("AccountEventSeen", s))
        /\ held' = {Update("Account", a, s)}
        /\ UNCHANGED <<queue, running, panicked, parsed, co, ixLog, acctLog>>

(* A transaction only goes to the runtime. *)
TakeTransaction(t) ==
    LET u == Update("Transaction", t, TxSlot[t])
    IN  /\ held = {} /\ u \notin emitted
        /\ emitted' = emitted \cup {u}
        /\ held' = {u}
        /\ UNCHANGED <<input, queue, running, panicked, parsed, co, ixLog, acctLog>>

ForwardToRuntime ==
    \E u \in held :
        /\ HasRoom(queue)
        /\ queue' = Append(queue, u)
        /\ held' = {}
        /\ UNCHANGED <<emitted, input, running, panicked, parsed, co, ixLog, acctLog>>

(* What the block state machine makes of Entry, Slot and BlockMeta         *)
(* updates: each kind once per slot, a block after its parent, commitment  *)
(* for the canonical branch and after the account updates that are not     *)
(* late, a discard for every other slot.                                   *)
LifecycleAllowed(kind, s) ==
    /\ kind = CommitEvent =>
          \A a \in Accts \ Late :
             AcctSlot[a] = s => Update("Account", a, s) \in emitted
    /\ CASE kind = "Frozen" ->
              /\ Lifecycle("Discarded", s) \notin emitted
              /\ Parent[s] \in Slots => Lifecycle("Frozen", Parent[s]) \in emitted
         [] kind = "Confirmed" -> s \in Canon /\ Lifecycle("Frozen", s) \in emitted
         [] kind = "Finalized" -> Lifecycle("Confirmed", s) \in emitted
         [] kind = "Discarded" -> s \notin Canon

(* connect: Entry, Slot and BlockMeta updates only go to the coordinator. *)
ForwardLifecycle(kind, s) ==
    /\ held = {}
    /\ Lifecycle(kind, s) \notin emitted
    /\ LifecycleAllowed(kind, s)
    /\ HasRoom(input)
    /\ emitted' = emitted \cup {Lifecycle(kind, s)}
    /\ input' = Append(input, Lifecycle(kind, s))
    /\ UNCHANGED <<held, queue, running, panicked, parsed, co, ixLog, acctLog>>

-----------------------------------------------------------------------------
(* Runtime and handlers *)

Message(kind, u) == [type |-> kind, key |-> u.id, slot |-> u.slot]

(* Mutant: a transaction is reported as parsed before its records are sent. *)
HandlerMessagesEarlyDone(u) ==
    IF u.type = "Account"
    THEN <<Message("AccountParsed", u)>>
    ELSE <<Message("TransactionParsed", u), Message("InstructionParsed", u)>>

(* BufferingHandler::handle: everything a transaction yields precedes its  *)
(* TransactionParsed; an account yields one record or one stat.  The kinds *)
(* of transaction: without a body, failed (or its instructions malformed), *)
(* and with one instruction that is decoded, filtered (or in error), or    *)
(* kept as a fallback record, which is counted as a stat as well.          *)
HandlerMessages(u) ==
    LET Stat == Message("InstructionStat", u)
        Record == Message("InstructionParsed", u)
        Done == Message("TransactionParsed", u)
    IN  IF u.type = "Account"
        THEN <<Message(IF AcctKind[u.id] = "record" THEN "AccountParsed"
                                                    ELSE "AccountStat", u)>>
        ELSE CASE TxKind[u.id] = "absent"   -> <<Done>>
               [] TxKind[u.id] = "failed"   -> <<Stat, Done>>
               [] TxKind[u.id] = "decoded"  -> <<Stat, Record, Done>>
               [] TxKind[u.id] = "filtered" -> <<Stat, Stat, Done>>
               [] TxKind[u.id] = "fallback" -> <<Stat, Record, Stat, Done>>

StartJob ==
    /\ queue # <<>>
    /\ Cardinality(running) < Jobs
    /\ running' = running \cup {[job |-> Head(queue), todo |-> HandlerMessages(Head(queue))]}
    /\ queue' = Tail(queue)
    /\ UNCHANGED <<emitted, held, input, panicked, parsed, co, ixLog, acctLog>>

HandlerSend(r) ==
    /\ HasRoom(parsed)
    /\ parsed' = Append(parsed, Head(r.todo))
    /\ running' = (running \ {r}) \cup
          (IF Len(r.todo) = 1 THEN {} ELSE {[r EXCEPT !.todo = Tail(@)]})
    /\ UNCHANGED <<emitted, held, input, queue, panicked, co, ixLog, acctLog>>

(* A panic stays in its task: the permit is released, the rest is not sent. *)
HandlerPanic(r) ==
    /\ running' = running \ {r} /\ panicked' = TRUE
    /\ UNCHANGED <<emitted, held, input, queue, parsed, co, ixLog, acctLog>>

-----------------------------------------------------------------------------
(* Coordinator *)

ExecutedTxs(s) == Cardinality({t \in Txs : TxSlot[t] = s})

ApplyInput(c, m) ==
    CASE m.type = "Frozen" -> BlockFrozen(c, m.slot, Parent[m.slot], ExecutedTxs(m.slot))
      [] m.type = "Confirmed" -> SlotConfirmed(c, m.slot)
      [] m.type = "Finalized" -> SlotFinalized(c, m.slot)
      [] m.type = "Discarded" -> SlotDiscarded(c, m.slot)
      [] m.type = "AccountEventSeen" -> AccountEventSeen(c, m.slot)

ApplyParsed(c, m) ==
    CASE m.type = "InstructionParsed" -> InstructionRecordParsed(c, m.slot, m.key)
      [] m.type = "AccountParsed" -> AccountRecordParsed(c, m.slot, m.key)
      [] m.type = "TransactionParsed" -> TransactionParsed(c, m.slot)
      [] m.type = "InstructionStat" -> InstructionStat(c, m.slot)
      [] m.type = "AccountStat" -> AccountStat(c, m.slot)

(* The members of S in ascending order: the i-th has i - 1 below it. *)
Ascending(S) ==
    [i \in 1 .. Cardinality(S) |->
        CHOOSE s \in S : Cardinality({t \in S : t < s}) = i - 1]

(* Both drains, after the events of one input.  (Bound with \E rather than *)
(* LET so that TLC computes each state once when it evaluates fairness.)   *)
Drain(applied) ==
    \E c \in {applied} : \E afterIx \in {DrainInstructionFlushable(c)} :
        LET ixBatch == Ascending(InstructionFlushable(c))
            acctBatch == Ascending(AccountFlushable(afterIx))
        IN  /\ co' = DrainAccountFlushable(afterIx)
            /\ ixLog' = ixLog \o
                  [i \in DOMAIN ixBatch |-> InstructionSlotOf(c, ixBatch[i])]
            /\ acctLog' = acctLog \o
                  [i \in DOMAIN acctBatch |-> AccountSlotOf(afterIx, acctBatch[i])]

(* Mutant: the two channels are awaited together, not one of them at a time. *)
TakeInputJoined ==
    /\ input # <<>> /\ parsed # <<>>
    /\ Drain(ApplyInput(co, Head(input)))
    /\ input' = Tail(input)
    /\ UNCHANGED <<emitted, held, queue, running, panicked, parsed>>

TakeInput ==
    /\ input # <<>>
    /\ Drain(ApplyInput(co, Head(input)))
    /\ input' = Tail(input)
    /\ UNCHANGED <<emitted, held, queue, running, panicked, parsed>>

TakeParsed ==
    /\ parsed # <<>>
    /\ Drain(ApplyParsed(co, Head(parsed)))
    /\ parsed' = Tail(parsed)
    /\ UNCHANGED <<emitted, held, input, queue, running, panicked>>

-----------------------------------------------------------------------------
Geyser ==
    \/ \E a \in Accts : AnnounceAccount(a)
    \/ \E t \in Txs : TakeTransaction(t)
    \/ ForwardToRuntime
    \/ \E kind \in Kinds, s \in Slots : ForwardLifecycle(kind, s)

Runtime == StartJob \/ \E r \in running : HandlerSend(r) \/ HandlerPanic(r)

Coordinator == TakeInput \/ TakeParsed

Next == Geyser \/ Runtime \/ Coordinator

(* The stream goes on, a started handler ends, and the coordinator's loop  *)
(* does not stop while a channel has something for it.                     *)
Fairness ==
    /\ WF_vars(Geyser)
    /\ WF_vars(StartJob \/ \E r \in running : HandlerSend(r))
    /\ WF_vars(Coordinator)

Spec == Init /\ [][Next]_vars /\ Fairness

-----------------------------------------------------------------------------
(* Properties *)

StatsOf(t) ==
    CASE TxKind[t] = "absent" -> 0
      [] TxKind[t] \in {"failed", "decoded"} -> 1
      [] TxKind[t] \in {"filtered", "fallback"} -> 2

TxsOf(s) == {t \in Txs : TxSlot[t] = s}

AcctsOf(s) == {a \in Accts : AcctSlot[a] = s}

CompleteInstructionSlot(s) ==
    [slot |-> s,
     records |-> {t \in TxsOf(s) : TxKind[t] \in {"decoded", "fallback"}},
     stats |-> Cardinality({p \in TxsOf(s) \X {1, 2} : p[2] <= StatsOf(p[1])}),
     executedTx |-> Cardinality(TxsOf(s))]

CompleteAccountSlot(s) ==
    [slot |-> s,
     records |-> {a \in AcctsOf(s) : AcctKind[a] = "record"},
     stats |-> Cardinality({a \in AcctsOf(s) : AcctKind[a] = "stat"})]

Chain == Ascending(Canon)

Promise == INSTANCE SlotLog WITH
    InstructionLog <- [i \in DOMAIN Chain |-> CompleteInstructionSlot(Chain[i])],
    AccountLog <- [i \in DOMAIN Chain |-> CompleteAccountSlot(Chain[i])]

(* The pipeline implements SlotLog: whatever the interleaving of the two   *)
(* channels and of the handlers, both outputs are prefixes of the          *)
(* canonical chain made of complete slots.                                 *)
ImplementsSlotLog == Promise!Spec

(* Every canonical slot reaches both outputs, unless a handler panicked    *)
(* (what it did not send is missing for the gate for ever).                *)
EverySlotDelivered ==
    <>(panicked \/ (Len(ixLog) = Cardinality(Canon) /\ Len(acctLog) = Cardinality(Canon)))

(* buffer.rs:189, "Account-count gate: all account updates processed": an  *)
(* account update that was counted before its slot committed is in the     *)
(* AccountSlot that is sent, if no handler panicked.                       *)
OnTimeAccountsDelivered ==
    ~panicked => \A i \in DOMAIN acctLog :
        {a \in AcctsOf(acctLog[i].slot) \ Late : AcctKind[a] = "record"}
            \subseteq acctLog[i].records

(* Everything the stream had was sent, handled and applied. *)
Quiescent ==
    /\ ~panicked
    /\ \A t \in Txs : Update("Transaction", t, TxSlot[t]) \in emitted
    /\ \A a \in Accts : Update("Account", a, AcctSlot[a]) \in emitted
    /\ \A s \in Slots :
          IF s \in Canon
          THEN {Lifecycle("Confirmed", s), Lifecycle(CommitEvent, s)} \subseteq emitted
          ELSE Lifecycle("Discarded", s) \in emitted
    /\ held = {} /\ running = {}
    /\ input = <<>> /\ queue = <<>> /\ parsed = <<>>

(* Nothing is left in the coordinator once it has caught up: no entry that *)
(* would block the head of the walk (of a fork whose late records arrived  *)
(* after its discard, say) and no event count that nobody will claim.      *)
NothingLeftBehind ==
    Quiescent => co.pending = {} /\ \A s \in Slots : co.counts[s] = 0
=============================================================================
