--------------------------- MODULE KafkaSlotSink ---------------------------
(***************************************************************************)
(* The slot writers of kafka-sink: TransactionSlotSink and AccountSlotSink, *)
(* which differ in what they write only, over SlotWriteExecutor, with the   *)
(* start-up that resumes after the last checkpoint in the slots topic.      *)
(*                                                                          *)
(* A process can crash, and the next one may start while it is still        *)
(* running; all use one transactional.id.  Slots are numbered along the     *)
(* chain; a process is given the slots from its resume point on, in order   *)
(* (what BlockCoordinator promises).  The log holds what a read_committed   *)
(* consumer sees: one batch per committed transaction, or per delivery when *)
(* delivery is not transactional; a slots topic has one partition here.     *)
(*                                                                          *)
(* The producer library and the brokers are external: an operation may be   *)
(* carried out although its caller is told that it failed, a commit that    *)
(* was requested can take effect later, init_transactions aborts the open   *)
(* transaction and locks out every earlier producer, begin_transaction      *)
(* needs the previous transaction to have been completed.                   *)
(***************************************************************************)
EXTENDS Integers, Sequences

CONSTANTS
    Processes,      \* processes that are started
    Records,        \* records of a slot
    MaxSlot,        \* bound: slots of the stream
    WriteAttempts,  \* kafka_write_max_attempts, clamped
    OpAttempts      \* kafka_transaction_op_max_attempts, clamped

Marker == "checkpoint"

ASSUME SinkAssumption ==
    /\ 0 \notin Processes /\ Marker \notin Records
    /\ MaxSlot \in Nat
    /\ WriteAttempts \in Nat \ {0} /\ OpAttempts \in Nat \ {0}

Slots == 1..MaxSlot
Items == [slot : Slots, key : Records \cup {Marker}]
RecordsOf(n) == [slot : {n}, key : Records]
CheckpointOf(n) == [slot |-> n, key |-> Marker]
(* A SlotWritePlan *)
Plan(n) == RecordsOf(n) \cup {CheckpointOf(n)}

VARIABLES
    delivery,   \* DeliveryGuarantee: "transactional" or "plain"
    pc,         \* what a process does next
    next,       \* the slot it writes, or waits for
    attempt,    \* attempt at the slot
    op,         \* attempt at the control operation
    txn,        \* its producer's transaction: "none", "ready", "open",
                \*   "abortable", "committing", "committed" (not yet known)
    owner,      \* the process that last initialised its producer, or 0
    open,       \* contents of the owner's transaction
    log,
    behind      \* history: processes whose scan returned an older
                \*   checkpoint than the last

procVars == <<pc, next, attempt, op>>
vars == <<delivery, procVars, txn, owner, open, log, behind>>

Transactional == delivery = "transactional"

Init ==
    /\ delivery \in {"transactional", "plain"}
    /\ pc = [p \in Processes |-> "off"]
    /\ next = [p \in Processes |-> 1]
    /\ attempt = [p \in Processes |-> 1] /\ op = [p \in Processes |-> 1]
    /\ txn = [p \in Processes |-> "none"]
    /\ owner = 0 /\ open = {} /\ log = <<>> /\ behind = {}

At(p, label) == pc[p] = label
Goto(p, label) == pc' = [pc EXCEPT ![p] = label] /\ op' = [op EXCEPT ![p] = 1]
SetTxn(p, state) == txn' = [txn EXCEPT ![p] = state]

(* with_retry around the slot: the whole plan again, or give up.  For      *)
(* comparison, one attempt too many, and attempts that are not counted.    *)
FailAttemptLate(p) ==
    /\ \/ /\ attempt[p] <= WriteAttempts
          /\ attempt' = [attempt EXCEPT ![p] = @ + 1]
          /\ Goto(p, IF Transactional THEN "begin" ELSE "publish")
       \/ /\ attempt[p] > WriteAttempts
          /\ Goto(p, "failed") /\ UNCHANGED attempt
    /\ UNCHANGED next
FailAttemptUncounted(p) ==
    /\ Goto(p, IF Transactional THEN "begin" ELSE "publish")
    /\ UNCHANGED <<attempt, next>>
FailAttempt(p) ==
    /\ \/ /\ attempt[p] < WriteAttempts
          /\ attempt' = [attempt EXCEPT ![p] = @ + 1]
          /\ Goto(p, IF Transactional THEN "begin" ELSE "publish")
       \/ /\ attempt[p] >= WriteAttempts
          /\ Goto(p, "failed") /\ UNCHANGED attempt
    /\ UNCHANGED next

(* run_transactional_op: the same control operation once more.             *)
RetryOp(p) ==
    /\ op[p] < OpAttempts
    /\ op' = [op EXCEPT ![p] = @ + 1]
    /\ UNCHANGED <<pc, next, attempt>>

SlotWritten(p) ==
    /\ Goto(p, "idle")
    /\ next' = [next EXCEPT ![p] = @ + 1] /\ UNCHANGED attempt

-----------------------------------------------------------------------------
(* Start-up: initialise, then read the resume point; for comparison, in    *)
(* the other order.                                                        *)
ReadFirst ==
    [off |-> "scan", scan |-> IF Transactional THEN "init" ELSE "idle",
     init |-> "idle"]
StartUpOrder ==
    [off |-> IF Transactional THEN "init" ELSE "scan", init |-> "scan",
     scan |-> "idle"]

Start(p) ==
    /\ At(p, "off") /\ Goto(p, StartUpOrder.off)
    /\ UNCHANGED <<delivery, behind, next, attempt, txn, owner, open, log>>

Fence(p) == owner' = p /\ open' = {}

(* The brokers may have taken the new producer although the process is told *)
(* otherwise; a producer that finds itself initialised counts as a success *)
(* and takes nothing from the process that came after.                     *)
InitTransactions(p) ==
    /\ At(p, "init")
    /\ \/ /\ txn[p] = "none" /\ Fence(p)
          /\ SetTxn(p, "ready") /\ Goto(p, StartUpOrder.init)
          /\ UNCHANGED <<next, attempt>>
       \/ /\ txn[p] = "ready" /\ Goto(p, StartUpOrder.init)
          /\ UNCHANGED <<next, attempt, txn, owner, open>>
       \/ /\ \/ txn[p] = "none" /\ Fence(p) /\ SetTxn(p, "ready")
             \/ UNCHANGED <<txn, owner, open>>
          /\ \/ RetryOp(p)
             \/ Goto(p, "failed") /\ UNCHANGED <<next, attempt>>
    /\ UNCHANGED <<delivery, behind, log>>

NoCheckpointIn(from, to) ==
    \A k \in from..to : \A n \in Slots : CheckpointOf(n) \notin log[k]

(* The last checkpoint among the first k batches is that of slot n.        *)
LastCheckpoint(k, n) ==
    \/ n = 0 /\ NoCheckpointIn(1, k)
    \/ \E j \in 1..k : /\ n \in Slots /\ CheckpointOf(n) \in log[j]
                       /\ NoCheckpointIn(j + 1, k)

(* read_tail_candidate_in_range ends at a message behind the watermark it   *)
(* was given or at its deadline, with what it has found until then: on a   *)
(* topic nobody writes to only the deadline ends it, and nothing compares  *)
(* what was read with the watermark.  Nothing found in a topic that is not *)
(* empty is an error.                                                      *)
ReadCheckpoint(p) ==
    /\ At(p, "scan")
    /\ \/ \E k \in 0..Len(log) : \E n \in Slots \cup {0} :
             /\ LastCheckpoint(k, n)
             /\ n = 0 => LastCheckpoint(Len(log), 0)
             /\ next' = [next EXCEPT ![p] = n + 1]
             /\ behind' = IF LastCheckpoint(Len(log), n)
                          THEN behind ELSE behind \cup {p}
             /\ Goto(p, StartUpOrder.scan)
       \/ Goto(p, "failed") /\ UNCHANGED <<next, behind>>
    /\ UNCHANGED <<delivery, attempt, txn, owner, open, log>>

-----------------------------------------------------------------------------
(* Writing a slot *)

TakeSlot(p) ==
    /\ At(p, "idle") /\ next[p] \in Slots
    /\ Goto(p, IF Transactional THEN "begin" ELSE "publish")
    /\ attempt' = [attempt EXCEPT ![p] = 1]
    /\ UNCHANGED <<delivery, behind, next, txn, owner, open, log>>

ChannelClosed(p) ==
    /\ At(p, "idle") /\ Goto(p, "done")
    /\ UNCHANGED <<delivery, behind, next, attempt, txn, owner, open, log>>

Begin(p) ==
    /\ At(p, "begin")
    /\ \/ /\ txn[p] = "ready"
          /\ SetTxn(p, "open") /\ Goto(p, "publish") /\ UNCHANGED <<next, attempt>>
       \/ RetryOp(p) /\ UNCHANGED txn
       \/ FailAttempt(p) /\ UNCHANGED txn
    /\ UNCHANGED <<delivery, behind, owner, open, log>>

(* The items in sent are taken: into the transaction, which the brokers    *)
(* refuse from a producer that is locked out, or into the log.             *)
Deliver(p, sent) ==
    \/ sent = {} /\ UNCHANGED <<open, log>>
    \/ /\ sent # {} /\ Transactional /\ owner = p
       /\ open' = open \cup sent /\ UNCHANGED log
    \/ /\ sent # {} /\ ~Transactional
       /\ log' = Append(log, sent) /\ UNCHANGED open

(* A failed publication: abort, or try again at once.                      *)
PublishFailed(p) ==
    \/ Transactional /\ Goto(p, "abort") /\ UNCHANGED <<next, attempt>>
    \/ ~Transactional /\ FailAttempt(p)

(* batch_publish_records: all are sent, any may fail; for comparison, a    *)
(* failure of some ignored.                                                *)
PublishIgnoring(p) ==
    /\ At(p, "publish")
    /\ \E sent \in SUBSET RecordsOf(next[p]) :
          Deliver(p, sent) /\ Goto(p, "checkpoint") /\ UNCHANGED <<next, attempt>>
    /\ UNCHANGED <<delivery, behind, txn, owner>>
Publish(p) ==
    /\ At(p, "publish")
    /\ \/ /\ Deliver(p, RecordsOf(next[p]))
          /\ Goto(p, "checkpoint") /\ UNCHANGED <<next, attempt>>
       \/ \E sent \in SUBSET RecordsOf(next[p]) :
             Deliver(p, sent) /\ PublishFailed(p)
    /\ UNCHANGED <<delivery, behind, txn, owner>>

(* For comparison, a checkpoint that failed ignored.                       *)
PublishCheckpointUnchecked(p) ==
    /\ At(p, "checkpoint")
    /\ \E sent \in SUBSET {CheckpointOf(next[p])} : Deliver(p, sent)
    /\ \/ Transactional /\ Goto(p, "commit") /\ UNCHANGED <<next, attempt>>
       \/ ~Transactional /\ SlotWritten(p)
    /\ UNCHANGED <<delivery, behind, txn, owner>>
PublishCheckpoint(p) ==
    /\ At(p, "checkpoint")
    /\ \/ /\ Deliver(p, {CheckpointOf(next[p])})
          /\ \/ Transactional /\ Goto(p, "commit") /\ UNCHANGED <<next, attempt>>
             \/ ~Transactional /\ SlotWritten(p)
       \/ \E sent \in SUBSET {CheckpointOf(next[p])} :
             Deliver(p, sent) /\ PublishFailed(p)
    /\ UNCHANGED <<delivery, behind, txn, owner>>

(* commit_transaction: the request, what the brokers make of it, and the   *)
(* reply, which may be a timeout whatever they made of it.                 *)
RequestCommit(p) ==
    /\ At(p, "commit") /\ txn[p] = "open"
    /\ SetTxn(p, "committing")
    /\ UNCHANGED <<delivery, behind, procVars, owner, open, log>>

BrokersCommit(p) ==
    /\ txn[p] = "committing" /\ owner = p
    /\ SetTxn(p, "committed")
    /\ log' = Append(log, open) /\ open' = {}
    /\ UNCHANGED <<delivery, behind, procVars, owner>>

(* Done; an error that requires an abort; a retry; or a failure without an *)
(* abort.                                                                 *)
CommitReply(p) ==
    /\ At(p, "commit") /\ txn[p] \in {"committing", "committed"}
    /\ \/ txn[p] = "committed" /\ SetTxn(p, "ready") /\ SlotWritten(p)
       \/ /\ txn[p] = "committing" /\ SetTxn(p, "abortable")
          /\ Goto(p, "abort") /\ UNCHANGED <<next, attempt>>
       \/ RetryOp(p) /\ UNCHANGED txn
       \/ FailAttempt(p) /\ UNCHANGED txn
    /\ UNCHANGED <<delivery, behind, owner, open, log>>

(* abort_transaction, which ends in an error of the attempt either way.    *)
AbortTransaction(p) ==
    /\ At(p, "abort")
    /\ \/ /\ owner = p /\ open' = {}
          /\ SetTxn(p, "ready") /\ FailAttempt(p)
       \/ /\ UNCHANGED <<open, txn>> \/ (owner = p /\ open' = {} /\ UNCHANGED txn)
          /\ RetryOp(p) \/ FailAttempt(p)
    /\ UNCHANGED <<delivery, behind, owner, log>>

Crash(p) ==
    /\ pc[p] \notin {"off", "done", "failed", "crashed"}
    /\ Goto(p, "crashed")
    /\ UNCHANGED <<delivery, behind, next, attempt, txn, owner, open, log>>

-----------------------------------------------------------------------------
Write(p) ==
    TakeSlot(p) \/ Begin(p) \/ Publish(p) \/ PublishCheckpoint(p)
        \/ RequestCommit(p) \/ CommitReply(p) \/ AbortTransaction(p)

StartUp(p) == Start(p) \/ InitTransactions(p) \/ ReadCheckpoint(p)

Next ==
    \E p \in Processes :
        StartUp(p) \/ Write(p) \/ BrokersCommit(p) \/ ChannelClosed(p) \/ Crash(p)

Spec == Init /\ [][Next]_vars

(* A process that has not crashed goes on writing.                         *)
FairSpec == Spec /\ \A p \in Processes : WF_vars(Write(p))

-----------------------------------------------------------------------------
(* Properties *)

Labels == {"off", "init", "scan", "idle", "begin", "publish", "checkpoint",
           "commit", "abort", "failed", "crashed", "done"}
TxnStates == {"none", "ready", "open", "abortable", "committing", "committed"}

(* Every variable keeps its type; in particular no operation is tried more *)
(* often than configured.                                                  *)
TypeOK ==
    /\ delivery \in {"transactional", "plain"}
    /\ pc \in [Processes -> Labels]
    /\ next \in [Processes -> 1..(MaxSlot + 1)]
    /\ attempt \in [Processes -> 1..WriteAttempts]
    /\ op \in [Processes -> 1..OpAttempts]
    /\ txn \in [Processes -> TxnStates]
    /\ owner \in Processes \cup {0}
    /\ open \in SUBSET Items
    /\ log \in Seq(SUBSET Items)
    /\ behind \subseteq Processes

(* Every slot before n is whole in one of the first k batches.             *)
Reached(n, k) ==
    \A m \in 1..(n - 1) : \E j \in 1..k : log[j] = Plan(m)

(* Slot n comes right after the last one that was committed.               *)
Latest(n) == IF log = <<>> THEN n = 1 ELSE log[Len(log)] = Plan(n - 1)

(* kafka_sink.rs:466, "visibility stays atomic per slot": with transactions *)
(* consumers see whole slots only, and none before all earlier ones, over  *)
(* retries, lost replies, crashes and processes that outlive their         *)
(* replacement.  They see each slot once, in the order of the chain, as    *)
(* long as no process resumed from an older checkpoint than the last: such *)
(* a process commits slots a second time.                                  *)
EachSlotOnce ==
    Transactional =>
        /\ \A k \in 1..Len(log) :
              \E n \in Slots : log[k] = Plan(n) /\ Reached(n, k - 1)
        /\ behind = {} => \A k \in 1..Len(log) : log[k] = Plan(k)

(* The checkpoint of a slot is visible only after every record of that     *)
(* slot and of those before it, with transactions and without.             *)
CheckpointCovers ==
    \A k \in 1..Len(log) : \A n \in Slots :
        CheckpointOf(n) \in log[k] =>
            \A m \in 1..n : \A item \in RecordsOf(m) :
                \E j \in 1..k : item \in log[j]

(* The process that holds the transactional.id never starts a slot while   *)
(* one before it is missing, however its start-up scan ended; and when the *)
(* scan read up to the last checkpoint it starts each slot right after the *)
(* last one committed, also behind processes that repeated some.  The      *)
(* proviso is needed: producer.rs:63-65 says "the caller can trust a       *)
(* subsequent read_committed checkpoint read as the latest visible         *)
(* progress for that logical writer", but the scan ends at its deadline    *)
(* without a check that it read the tail (topics.rs:184-186, 208), and     *)
(* then its result can be older.                                           *)
ResumePointCurrent ==
    \A p \in Processes :
        Transactional /\ owner = p /\ At(p, "idle") =>
            /\ Reached(next[p], Len(log))
            /\ p \notin behind => Latest(next[p])

(* config.rs:102, "Max attempts for Kafka writes before surfacing an        *)
(* error": a slot that was taken is written or given up.                   *)
AttemptsEnd ==
    \A p \in Processes :
        pc[p] \in {"begin", "publish"} ~>
            pc[p] \in {"idle", "failed", "crashed", "done"}
=============================================================================
