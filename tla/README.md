# A TLA+ model of shipstern

Shipstern turns a Solana Geyser stream into ordered, complete per-slot records.
A *source* feeds updates to the *runtime*, whose buffer runs *handlers* in
parallel; in the coordinated setup the handlers report to a *block coordinator*
that holds every record back until its slot is complete and committed, and hands
whole slots to Kafka *sinks* in chain order. This directory models the part of
the program in which that order and completeness are decided, checks it with TLC
on small instances, and proves its safety properties with TLAPS. It also models
the runtime that every setup runs in (its job pool, its supervision and the ways
a run can end), the protocol that changes a live subscription, the Kafka
writers at the end of the pipeline with their retries, crashes and restarts, and
the paths data takes outside the coordinated setup: what parsers ask of a source,
the preconf, archive, RPC, snapshot and fumarole sources, how a transaction is taken
apart and handed to parsers, what the program parsers make of it, and the stream
server and the passthrough sink behind them.

## Inventory

| Component | State it keeps | Operations | Interacts through |
|---|---|---|---|
| `block-coordinator` buffer.rs, state.rs | per slot: records, transaction and account counters, commitment and drain flags; tombstones, two flush frontiers, account event counts | nine events, two drains, cleanup, pruning | called by the coordinator task only |
| `block-coordinator` coordinator.rs | the state above, the wrapped block state machine | one iteration: take an input, apply its events, drain both sides | two input channels, two output channels |
| `block-coordinator` source.rs | the gRPC stream | forward an update to the coordinator, the runtime, or both | bounded channels, awaits |
| `kafka-sink` handler.rs | none | parse a transaction or an account, send records, stats, `TransactionParsed` | the handlers' channel to the coordinator |
| `kafka-sink` kafka_sink.rs | producer, retry state, watermark | write a slot transactionally or idempotently, retry, checkpoint | output channels, Kafka |
| `runtime` buffer.rs | permits, the bridge's queue, the abort flag | acquire, spawn, stop, drain with a ceiling | the source's channel, job tasks |
| `runtime` lib.rs, util.rs | the source's status, the stop channel | supervise source and buffer, stop, join, return | select over tasks and signals |
| `runtime` handle.rs | the watch slot with the current filters, the update lock | edit, validate and publish a filter set | the slot, read by the source |
| `yellowstone-grpc-source` | the stream, a held filter update | reconnect, resubscribe, supersede a pending update | the runtime's filter channel |
| `preconf-source` | per feed: frames of its slots, reconnect attempts | frame, evict, resubscribe, merge the feeds | its streams, the runtime's channel |
| `jetstreamer-source` | entries buffered per slot | a replay's range, entry, transaction and block callbacks of several workers | a shared map, the runtime's channel |
| fumarole, RPC and snapshot sources | tasks, a scan and its sender | fetch or scan per filter, forward, report the first failure | bounded channels |
| `core` | a prefilter builder | build, merge and send prefilters; rebuild the instruction tree, paths and log ranges | pure functions the others call |
| `runtime` handler.rs, instruction.rs, builder.rs | the registered pipelines | register, collect filters, route an update, run parsers and handlers | jobs of the buffer |
| `stream` | a broadcast channel per parser, a cursor per client | build, broadcast, subscribe, lag, stop | tonic streams |
| `kafka-sink` sink.rs, events.rs, schema_registry.rs | schema ids | register schemas, choose parser or fallback, key and frame a record | the registry, the handlers |
| program parsers | none (a stack of batches) | read accounts by position, dispatch extensions, parse nested batches | called by pipelines |
| macros, `codama-from-anchor`, proto, mock | none | code generation, a generated `.proto` schema and its message indices, message types, fixtures | the schema is registered by the sink |

What is hard here: two channels into the coordinator that nothing synchronises;
handlers that finish in any order, late, or not at all; forks whose data keeps
arriving after they were discarded; commitment statuses that repeat; gates that
count messages rather than identify them; a walk that stops at the first slot
that is not ready, so that one stuck slot stops everything; and, outside the
core, the ways in which a source, a buffer, a bridge thread, handlers and a
supervisor end at once, writers that outlive their replacement, replies that are
lost after the operation took effect, retries and reconnects. PROJECT.json lists each hazard at its
line with the properties that watch it.

What makes each component correct: the coordinator sends slots in chain order,
once, complete, and forgets them; the pipeline delivers every canonical slot and
keeps nothing of a fork; the sinks write each slot atomically, once and in order,
and resume right after the last one; the
runtime never runs more jobs than it has permits and does not return while a job
is mid-write unless the ceiling passed; a filter update that was accepted last is
the one in force; a request asks for all that some parser wants; a source that
reports success has delivered everything; the tree rebuilt from a transaction is
the tree of calls, and its log lines and keys go with it; a parser reads each
account once and never past the end; a client misses only what was overwritten.

## Modules

| Module | Models |
|---|---|
| `CoordinatorState` | `SlotRecordBuffer` and `CoordinatorState` as operators on a record: guards, one operator per event, the two drains |
| `BlockCoordinator` | the coordinator's loop over open producers: any handler message at any time, lifecycle events under the block state machine's discipline |
| `MCBlockCoordinator` | an instance of it |
| `BlockCoordinatorProofs` | the inductive invariant and the theorems |
| `SlotPipeline` | source, runtime jobs, handlers and coordinator composed over bounded channels |
| `SlotLog` | the abstract promise: two logs that grow by complete canonical slots in chain order |
| `MCSlotPipeline` | two instances of the pipeline |
| `SlotPipelineProofs` | its inductive invariant and theorems |
| `Runtime` | `Buffer::run_yellowstone`, its bridge thread and jobs, and `try_run`/`try_run_async` around it |
| `MCRuntime` | its instance |
| `RuntimeProofs` | its inductive invariant and theorems |
| `FilterUpdates` | `RuntimeHandle::update_filters`, the watch slot and the filter branches of the gRPC source |
| `MCFilterUpdates` | an instance of it |
| `FilterUpdatesProofs` | its inductive invariant and theorems |
| `KafkaSlotSink` | the slot writers over `SlotWriteExecutor`, their start-up, crashes and replacement, against an external producer and brokers |
| `MCKafkaSlotSink` | an instance of it |
| `KafkaSlotSinkProofs` | its inductive invariant and theorems |
| `Prefilters` | prefilters, their validation and merge, the gRPC and the preconf request made of them |
| `Subscription` | a program that builds, merges and removes prefilters and connects a source |
| `PreconfSource` | streams, resubscribers and framers of several feeds, merged by the source's loop |
| `PreconfSourceProofs` | its inductive invariant and theorems |
| `JetstreamSource` | a replay: range, workers' callbacks, the shared entry map, the sends |
| `JetstreamSourceProofs` | its inductive invariant and theorems |
| `AccountSources` | `connect` of the RPC, snapshot and fumarole sources |
| `StreamServer` | the stream server's builder, broadcast channels, clients and shutdown |
| `AccountPath` | an account source, the runtime's jobs and one of three consumers: stream server, passthrough sink, coordinator |
| `AccountPathProofs` | its inductive invariants and theorems |
| `InstructionTree` | the instruction tree, paths and log ranges of a transaction |
| `SinkRecords` | a sink record: parser or fallback, key, wire format |
| `ProtoSchema` | the messages of a generated `.proto` schema and the indices of its dispatch messages |
| `TransactionPath` | a transaction from its execution to the sink's records or the handler calls of a runtime job; schema registration before it |
| `ProgramAccounts` | the account layouts of the program parsers, a row per arm |
| `ProgramParsers` | the parsers over these rows, extension dispatch, nested batches, account decoders |
| `MCSubscription`, `MCPreconfSource`, `MCJetstreamSource`, `MCAccountPath`, `MCTransactionPath` | their instances |

### How the coordinator's model corresponds to the code

`c.pending` and `c.buf` are the `BTreeMap` of buffers; a slot without an entry
holds `DefaultBuffer`, so `entry(slot).or_default()` is `WithEntry`. Records are
sets of sort keys (the maps' keys; their order is the sort order of the keys).
The six statistic counters become two, one per output side. Counters that only
feed logs (`late_*_drops`) and `blockhash` are left out. Options are `None = -1`.

The drains are stated without a loop. The code walks the entries in ascending
order, skips drained ones and breaks at the first other entry that is not ready,
so a slot is flushed exactly when it and every undrained entry below it are
ready. The frontier a slot's parent is compared with is the greatest undrained
entry below it (flushed by the same walk), or the old frontier if there is none:
`FrontierAt`. `SlotDiscarded` prunes tombstones before it drops the entry, as
`discard_slot` does.

An iteration of `run_inner` is one action. A geyser update may turn into several
lifecycle events, applied before a single drain: each is an action, and only the
last drains (`EndEvent`: `Drain` or `Hold`); until then no other input is taken.

The block state machine (`yellowstone_block_machine`) is a library outside the
repository. What the coordinator relies on is written as guards in the section
*Feed* of `BlockCoordinator`: a block is frozen once and after the ancestors it
tracks were frozen or given up; the slots with a commitment status lie on one
branch; such a slot is not discarded, and a discarded one is not reported again
except as discarded. Statuses may repeat and may come in any order of slots.

### How the pipeline's model corresponds to the code

`AnnounceAccount`, `TakeTransaction`, `ForwardToRuntime` and `ForwardLifecycle`
are the turns of `CoordinatorSource::connect`; each `send().await` is a step, and
`held` is the update the source waits to put on the runtime's channel. `StartJob`
is the permit, the bridge and the spawn of `Buffer::run_yellowstone`; a running
job is the list of messages `BufferingHandler::handle` still has to send, and
`HandlerPanic` ends it early, which `panicked` remembers for the properties. `TakeInput` and `TakeParsed` are the two arms of the
coordinator's `select!`. Here one lifecycle update is one event; updates with
several events are covered by `BlockCoordinator`.

### How the runtime's model corresponds to the code

An update is a number. It goes from the source's channel (`queued`) to the buffer
task, which takes a permit and puts it on the bridge's queue; the bridge thread
reads the abort flag and spawns a job or discards; a job ends (its handlers
returned, failed or panicked, which `run_job` treats alike) or, if it is one of
the constant `Wedged`, never. Where the code performs two steps that another
thread can separate, so does the model: the bridge receives, checks and spawns in
three steps, and the buffer task receives and then waits for the permit.

The supervisor's `select!` is biased and polls its branches in turn while the
other threads run, so `PollSignal`, `PollStatus` and `PollBuffer` are separate
steps of one round. `ForceStop` sends the stop; `TakeStop` is the buffer task's
two stop branches. `BufferJoined` and `BufferStopped` are the two ways the
supervisor waits for the buffer, and `DropRuntime` is the drop of the Tokio
runtime at the end of `try_run`, which cancels what still runs. The drain may
time out only while permits are missing; how long the ceiling is is not modelled.

### How the filter model corresponds to the code

A filter set is a set of entries. `Registered` are the entries whose parser has a
pipeline; `validate` refuses any other. An edit keeps some entries and adds some,
which covers `merge`, `remove` and whole replacement. The lock and the snapshot
are one step, the edit with its validation and publication another, and an edit
may panic in between. The watch slot carries the version that
`changed`/`borrow_and_update` compare. The gRPC client is external: its sink
rejects while the connection is down, it records what it took, and it resubscribes
with that when it reconnects, as the comments in `connect` describe.

### How the Kafka writers' model corresponds to the code

`TransactionSlotSink` and `AccountSlotSink` differ in what they write, not in how,
so one module stands for both. A process starts up (`InitTransactions`, then
`ReadCheckpoint`: the order the comment at producer.rs:61 asks for) and takes
slots from its channel, in order from its resume point. `pc` is where
`execute_transactional` or `publish_plan` stands; `attempt` counts `with_retry`,
`op` the loop of `run_transactional_op` and `commit_transactional_op`, which
starts at 1 with every operation. `txn` is the state of the producer's
transaction, `open` what the brokers hold in it.

The producer library and the brokers are external. The model takes from them what
the code relies on and the trouble it has to cope with: `init_transactions` aborts
what an earlier producer had open and refuses that producer from then on
(`Fence`); an operation that reports an error may have been carried out; a commit
that was requested can take effect at any later moment, even after its caller
gave up (`BrokersCommit`); a producer whose transaction was not completed cannot
begin another (`Begin`). What a producer that is locked out sends is
refused. `log` is what a `read_committed`
consumer sees, one batch per commit, or per delivery without transactions.
The resume scan returns an error, or the last checkpoint of any prefix of the topic:
what had been read when the deadline passed, or a message at the end of its range was
met. Nothing found in a topic that is not empty is an error. `behind` is a history
variable: the processes whose scan returned an older checkpoint than the last one.

### How the models outside the coordinated setup correspond to the code

*Subscription.* `Filters` is a function from parser ids to prefilters; an `Option`
is a set of at most one element. A behaviour makes calls on a `PrefilterBuilder`,
inserts or merges what it builds, and connects one source. What a server does with a
request (`Receives...`) is external, read off the comments on the fields and on the
merges; the cuckoo filter is external too: it may hold all keys, some, or not be
built. Account data comparisons keep their encoding and lengths only.

*Preconf source.* Each feed has a stream, a resubscriber (`attempt`) and a framer
(`frames`, `frontier`); `hand` is the item the loop holds while it waits for room, in
which time nothing else of the source moves. Time is kept only where the code compares
it: whether a failed stream had lasted for `STABLE`.

*Archive replay.* The firehose is external: it splits the range over workers, and each
calls back for the entries, transactions and block of one slot after another. Callbacks
wait at every send, so those of different workers interleave there.

*Accounts.* `AccountPath` puts one of the account sources in front of the runtime's
permits and one of three consumers. The RPC source's tasks, the snapshot's scan and
sender, the jobs, the clients and the passthrough sink are separate processes. Tokio's
broadcast channel is external: it keeps the last messages, and tells a receiver that it
was overtaken. `RuntimeReturns` follows the runtime's exits, which `Runtime` has in
detail.

*Transactions.* The Solana runtime is external and executes calls step by step, with
log lines that may imitate the runtime's own and a log that may be cut; the model knows
who called whom, and the properties compare that with what the code rebuilds. Any of the
stack heights may be missing, as in old data. The sink registers its schemas first: the
registry is external, knows an older definition of a topic, and may refuse. The schema of
the first topic is the generated one (`ProtoSchema`), with its messages in their order and
the index that the generator counted. Bytes are numbers, so the wire format is modelled to
the byte.
In a job of the runtime the transaction pipelines and the `InstructionPipeline` are lanes
polled in one task (`run_job`, `join_all`), so their steps interleave; the handlers of a
parser run at once and their errors are kept until the last of them ends. The
`InstructionPipeline` reports the errors of each parser when it is done with it and
returns `AlreadyHandled`; a panic ends the whole job.

*Program parsers.* Every arm is a row: the accounts it insists on, the index of each
field, what is optional, where the trailing list begins. The recursion into nested
batches is a stack of frames.

## Runs

Properties that ask one question of one state are conjunctions of named parts; each
part has its own comment in the module.

| Run | Instance | Shows |
|---|---|---|
| `coordinator` | 1 <- 2, records, stats and signals of both sides, confirmed mode, transaction gate | `AncestorsFlushedFirst`, `OutputsAscend`, `NoStrandedRecords`, `FlushedSlotsForgotten`, `AccountExpectationStable` |
| `pipeline` | 1 <- 3 canonical, 2 discarded with data in flight, finalized mode, panics | `EverySlotDelivered` (liveness), `NothingLeftBehind`, `ImplementsSlotLog` (refinement of `SlotLog`) |
| `pipeline_late_account` | one slot, one late account update | violates `OnTimeAccountsDelivered`: see below |
| `runtime_pool` | two permits, five updates, the third and fourth of which never return | `PermitsConserved`, `OkMeansFinished`, `RunReturns` (liveness), `ErrorsSurface` |
| `filter_updates` | two callers, an entry without a pipeline, auto-reconnect, two lost connections | `TypeOK`, `NoEditLost`, `NewestWins`, `Converges` (liveness) |
| `kafka_slots` | a process and its replacement, two slots of a record and a checkpoint, two attempts at a slot and at an operation, with and without transactions, scans cut off anywhere | `TypeOK`, `EachSlotOnce`, `CheckpointCovers`, `ResumePointCurrent`, `AttemptsEnd` (liveness) |
| `subscription` | two builders of two calls, two parser ids, every kind of update, up to three data slices | `AskedForIsKept`, `RequestServesParsers` |
| `preconf_source` | a feed of each kind, one to two at once, three slots, a cap of two frames, two failures | `FramesKept`, `EveryTransactionAccounted`, `FeedFailuresBounded`, `ReceiverDropEndsSource` (liveness) |
| `program_parsers` | every arm of every parser with up to 16 accounts, nested batches of depth three | `ParsedWhole`, `BatchesContained` |
| `jetstream` | two workers, two parsers, ranges and epochs of up to two slots | `EntriesHandedOver`, `ReplayWhole`, `SourceEnds` (liveness) |
| `transactions` | up to four instructions, log lines and cuts of two programs and a precompile, five calls of one program over four levels, any heights missing, a generated schema, two concurrent pipelines, of two parsers and of one | `CallsRebuilt`, `LogsFollowCalls`, `SinkAccountsForAll`, `FailuresIsolated` |
| `accounts` | three accounts of two programs, three sources, three consumers, two jobs | `AccountsServed`, `ClientsLoseOnlyGaps`, `WatermarksHold`, `RunEnds` (liveness) |

*Bounds.* Three slots are the fewest in which a fork has a sibling beyond it, which
`pipeline` has; `coordinator` has two, one to overtake and one to be overtaken, and
every kind of input instead, order in longer chains being proved. One record key per side
is enough because no guard looks at keys. `MaxTx = MaxParsed = 1` distinguishes
blocks with and without transactions, signals before and after the block, and
excess signals; `MaxAcct = 1` distinguishes counted, uncounted and processed
updates. `Retention = 1` (512 in the code) makes tombstones expire within the
instance; the pipeline keeps 512, so that its delivery claims do not rest on a
window shorter than the code's. Channels of capacity 1 give the strongest back
pressure; two jobs let handlers overtake each other. For the runtime, an update
after the two stuck ones, with two permits, makes the buffer task wait for one,
and those before show permits coming back. Three published sets let a held set be
superseded by one that is itself held. For the writers, two processes give one
that outlives its replacement and one that resumes, two slots a slot before and
after a resume point, and two attempts a retry and a failure in both scopes; a process
that starts after slots were repeated needs a third, and is covered by the proof only. Two
calls and two builders let every pair of settings meet in one builder and in a
merge. A cap of two frames and a retention of one slot (both larger in the code) let
three slots exceed either. An epoch of two slots lets a range begin and end inside,
at and across its ends. Five calls over four levels are the fewest with a return over
two levels within one list of inner instructions and an instruction after it (heights 2,
3, 4, 2 below the outer one); a generated schema of more than 60 messages makes an index
take two bytes. Sixteen accounts are more than any arm reads by name. A broadcast buffer of
one message and one try reach every state of a lagging client.

*Deadlock* is not checked where a run may stop by itself: the streams of the
instances end and the coordinator
then waits for input as the program does; a run that has returned stops; callers
need not call; a writer stops when it has failed or its channel is closed; a builder
is not used further. That nothing gets stuck is what the liveness properties say. It is
checked for `program_parsers`, `jetstream`, `transactions` and `accounts`, whose ends
are steps of their own.

*Fairness.* Pipeline: weak fairness of the stream, of starting and running
jobs (not of panicking), and of the coordinator's loop. tokio polls a task that
can make progress, handlers contain no unbounded wait other than their sends, and
`select!` does not leave a ready channel while it loops. Runtime: weak fairness of
reporting the source's end, of the buffer task, of the bridge thread, of the end
of jobs that are not wedged and of the supervisor; none of sending updates, of the
source returning, of signals or of timing out. Filters: weak fairness of the two
branches of the source's loop (the retry timer ticks every five seconds), of
reconnecting and of the server reading its requests; `Converges` asks moreover
that the connection be up for good at some point. Writers: weak fairness of the
steps of writing, per process (every producer call has a timeout, so each
returns); none of starting, of crashing or of the brokers' commit. Preconf: weak
fairness of the source's loop. Replay: of each worker's callbacks, of the firehose
returning when its workers are done, and of the runtime reading. Accounts: of the
source, the runtime, the handlers, the sink and the server, which are tasks, and of
the clients' streams, which tonic polls; `RunEnds` therefore assumes clients that read,
and says nothing of fumarole, whose stream need not end.

### Findings

*Account gate* (`pipeline_late_account`). The account gate compares two counters. An account update that
arrives after the gate was frozen is not counted, but its record is; if it is
parsed before an update that was counted, the gate opens and the AccountSlot is
sent without the counted one, whose record is then dropped as late. The comments
at buffer.rs:189 and buffer.rs:11-12 promise that all updates were processed.

The following are stated by the properties as exceptions, or settled by
them. Where a formula and an instance are named, checking it shows the behaviour.

*Stuck handlers* (`MCRuntimePool.cfg`, `status = "Completed" ~> main = "dropped"`). The
drain has a ceiling "so a stuck handler
can't hold shutdown open forever" (runtime buffer.rs:24), but the buffer task
reaches the drain only after it has found its channel closed. If it waits for a
permit that a stuck handler holds when the source completes, the supervisor waits
for the buffer and polls neither signals nor sends a stop: the run never returns.
`RunReturns` shows that every other stop gets out of that wait, and that nothing but a
stuck handler causes it.

*Stream errors* (`MCRuntimePool.cfg`, `StreamErrorSurfaces` without its condition on
`status`). When a stream error stops the buffer, a
source that goes on (Fumarole) finds its receiver gone and reports
`ReceiverDropped`. If the supervisor polls after both happened, the biased select
takes the source's status, stops a buffer that already ended, logs its error and
returns `Ok`. runtime_tests.rs:1139 asserts that such an error surfaces.

*Source errors* (`MCRuntimePool.cfg`, `status = "Failed" /\ ~signal => outcome # "Ok"`).
The biased select is meant to see the
source's error before the buffer's clean end (lib.rs:374). It polls the status
first, but if the source fails, the channel closes and the buffer drains between
that poll and the poll of the buffer, the run returns `Ok`. `ErrorsSurface` shows that
a failure reported before the round's poll of the status is never lost.

*Resume point* (`MCKafkaSlotSink.cfg`, `ResumePointCurrent` without its proviso
`p \notin behind`). The scan of the slots topic ends at a message behind the range it was
to read, or when five seconds have passed (topics.rs:184-186, 208). On an idle topic there
is no such message, so the deadline is its ordinary exit; it skips poll errors, and
returns what it has found without comparing that with the end of the range. If only part
of the tail was read, an older checkpoint becomes the resume point, although
producer.rs:63 lets the caller trust it as "the latest visible progress": slots that were
committed are committed again. `EachSlotOnce` therefore claims that slots come once and in
order only while `behind = {}`; that none is left out and each is whole holds regardless.

*Ids across kinds* (`MCAccountPath.cfg`, `CompletedMeansServed` without `Alone`).
`PipelineSets::filters` (runtime handler.rs:260) collects the filters of all kinds of
pipelines into one map by id, while the builder looks for collisions within a kind
only: of an account and a transaction parser with one id, one is not asked for. The
builder's documentation (runtime builder.rs:198) promises an error when two pipelines
share a parser id.

*Cut logs* (`MCTransactionPath.cfg`, `LogsBelongToTheirInstruction` for all lines instead
of those before `CutAt`, the line of the cut itself aside). Where the log was cut, lines of one instruction can be given to
another: log_messages.rs:124-126 gives the next invoke to the next inner instruction
without comparing their programs. What holds after the cut is that ranges nest
(`CutLogsStayNested`).

*Missing heights* (`MCTransactionPath.cfg`, `PathsAreTreePositions` without its condition
on the heights). Paths and tree treat an instruction without a stack height differently:
heights 2, 3, none give the last one the path [0,0,1] (the test at instruction.rs:833) and
the place [0,1] in the tree. Both still keep the order of execution.

*Message index*. The comment at schema_registry.rs:16-18 says that `message_index` is
"0-indexed from the last message". The wire format (sink.rs:478, where 0 is written as the
first message), the generator and its test (proto/src/lib.rs:143-156) count from the first;
that is what `SchemasLeadToTheirMessage` checks of generated schemas. Somebody who followed
the comment would register an index that leads to another message.

*Dropped failures*. When several parsers fail on an instruction, the pipeline warns that
"the earlier failure is being dropped" (runtime instruction.rs:78-84). What is dropped is
the value it returns; each failure was reported when it occurred, which `ReportedOnce`
checks.

*Panics* (`MCTransactionPath.cfg`, `phase = "panicked" => BagToSet(reports) = failures`).
"Each handler runs as its own task" (runtime_tests.rs:906) is true of updates, not of
handlers: the pipelines of an update are one task (runtime buffer.rs:203). A panic in one
of them ends the others, and the errors of handlers that were done with the same value are
not reported.

*Watermarks* (`MCAccountPath.cfg`, `WatermarkCovers` without its exemption). Handlers run
in parallel, so a record can reach the sink after one of a later slot, behind the watermark
that one brought about. `WatermarkCovers` exempts these records; it claims what the sink's
own loop can keep.

## Proofs

`BlockCoordinatorProofs` proves, for every set of slots with a greatest element,
every block tree, every set of keys and every bound, all that the run
`coordinator` checks: `AncestorsFirst`, `OutputsInOrder` (from `InstructionsAscend`
and `AccountsAscend`), `NothingStranded`, `FlushedForgotten` and
`ExpectationStable`; and the type invariant, `TypeCorrect`.

*Assumptions.* `SlotsAssumption` (slots are naturals, with a greatest one),
`ConfigAssumption`, `TreeAssumption` (a parent precedes its child; the ancestors
of a block form a chain) and `BoundsAssumption`; and the feed's discipline, which
is part of `Spec`.

*Argument.* Neither drain compares the slot it flushes with the frontier, so
order is not a local fact. `IndInv` has four parts:

- `FeedOK`: the slots with a commitment status are live, frozen and on one
  branch, and the ancestors of a frozen block are frozen or given up;
- `LogOK`, for each output: only such slots were sent, each with its live
  ancestors, and the frontier is the greatest of them;
- `EntriesOK`: every live frozen block has an entry until both outputs have it,
  unless it forks off the canonical branch; drain flags agree with the outputs and
  commitment flags with the feed.

A slot the walk flushes has all its live ancestors flushed already or by the same
walk, since they have entries below it. If it were older than a slot sent before,
both being on one branch, it would be an ancestor of that slot and so already
sent. That an entry is never recreated for a sent slot rests on the validators and
on the frontier being an upper bound, which closes the circle. The proof shows
that every event touches one entry in a limited way (`Touched`), that such a
touch and each feed event keep the invariant, and that each drain does.

`SlotPipelineProofs` proves what the run `pipeline` checks except its liveness, for every
set of slots with a greatest element, every fork, all transactions and account updates of
every kind, both commitment modes, and any number of permits and channel capacity:

- `PipelineImplementsSlotLog`, the refinement: whatever the interleaving of the stream,
  the handlers (panics included) and the two channels, a step of the pipeline extends
  each output by complete canonical slots in chain order, or leaves it alone. Hypothesis:
  `Late = {}`, no account update follows its slot's commitment. It cannot be dropped:
  the run `pipeline_late_account` shows what a late one does.
- `PipelineLeavesNothingBehind`: a coordinator that has caught up without a panic holds no
  entry and no count. Hypotheses: `Late = {}` and `WideRetention`, the tombstone of a fork
  is not pruned while the stream lasts (slots less than `Retention` apart, none of the
  forks slot 0, whose tombstone is pruned at the first flush).
- `PipelineExplained`, the invariant both rest on.

*Assumptions.* `SlotsAssumption`, `ConfigAssumption`, `PipelineAssumption` (types, finitely
many updates, each in a slot) and `BranchAssumption` (a parent precedes its child, the
confirmed slots are one branch); what the block state machine guarantees of the stream is
in the guards of `Spec`.

*Argument.* That a flushed slot is complete is a fact about counters, and the state does
not say what they count: two `ParseStats` of a slot are equal, and so are two
`AccountEventSeen`. The invariant, `Explained`, therefore says that there *are* numbers and
orders that make the state what it is: for each update, how many messages of its handler
were sent (`sent`) and applied (`app`); for each message on `parsed`, its update and
position (`g`); the items of the stream on `input` (`h`) and those applied (`done`). With
these,

- `JobsOK` places each update with the stream, the source, the queue or a job, or has it
  sent out, unless a handler panicked;
- `ParsedOK` has the messages of an update on the channel in the handler's order, none
  missing and none twice;
- `FeedOK` has every item after what it needs (`Ready`): blocks after their canonical
  ancestors, commitment after the account updates of the slot;
- `CoordinatorOK` gives every field of the entry of a canonical slot as a cardinality over
  `done` and `app`, up to the frontier that has passed it; of a fork it only says that no
  gate opens and that its tombstone keeps it out.

The order within a handler makes a transaction that was counted one whose records and
stats were applied, so a gate that has opened has everything behind it (`IxGate`,
`AcctGate`). A walk releases the canonical slots between the old and the new frontier, all
of them, because a canonical slot below a frozen one has an entry until both walks have
passed it; their ranks in `Canon` are their places in the log (`ChainBetween`,
`LogGrows`). `WalkedOut`, that the walks went as far as they could, gives the second
theorem: the least slot left would be one the walk releases.

`RuntimeProofs` proves, for every number of permits, updates and wedged handlers,
`RuntimeTypeCorrect`, `RuntimePermits`, `RuntimeBarrier`, `RuntimeOkMeansFinished`
(from `RuntimeHandlersFinish` and `RuntimeDrains`) and `RuntimeStreamErrors`, the
safety part of `ErrorsSurface`. A permit has no identity in the code, so conservation is a
count over four places it may be in (the buffer task, the queue, the bridge, a
job). The invariant therefore orders the updates: those ended or discarded,
running, at the bridge, queued, at the buffer task and still in the channel are
disjoint, and each place holds later updates than the next, which makes the count
exact. It adds that nothing is lost between two places, that the buffer task's
program counter agrees with the abort flag and the sender, and that the supervisor
returns only on the paths that waited. The barrier follows: with the sender
dropped, an empty queue, an idle bridge and all permits back, no job can start.
`RuntimeHandlersFinish` is about runs that return `Ok`: after a failed source the
code returns without waiting for the buffer, so no such claim is made.
`RuntimeStreamErrors` needs an invariant of its own, `StopsExplained`: a buffer that
ended with an error leaves the supervisor only through the poll of the buffer, which
returns the error, unless a signal or the source's report took it elsewhere.

`FilterUpdatesProofs` proves, for any callers, entries and number of lost
connections, `FilterTypeCorrect`, `FilterNoEditLost` and `FilterNewestWins`. The
invariant says that the lock has one holder and that holder's snapshot is still
what is published, and that the versions are ordered: what the sink took, what is
held, what the source saw, what is published.

`KafkaSlotSinkProofs` proves, for any set of processes and records, any number of
slots and all retry limits, `SinkTypeCorrect`, `SinkEachSlotOnce`,
`SinkCheckpointCovers` and `SinkResumesAfterLast`. Nothing is assumed of the start-up
scan: it may return any earlier checkpoint, and the statements say what holds then (see
*Resume point* above): the log is made of whole slots and none comes before those that
precede it (`Reached`), and as long as no scan fell behind each comes once. That a commit
may take effect late, after its caller began to retry the slot, is why `EachSlotOnce` is
not inductive. The invariant therefore says:

- `TxnOK`: in which state the producer of a process is at each of its steps; a
  process that retries after a commit of unknown outcome cannot begin;
- `Place`, of a process and its slot: the log lacks nothing before that slot, and unless
  the process is in `behind` that slot is the next of the log;
- `OwnerOK`, for the process that is not locked out: its transaction holds part of
  a slot with that `Place`, all of it once a commit was requested, and when that commit
  has taken effect the slot after it has that `Place`;
- `WrittenOK`, without transactions: the records of the slots a process has behind
  it are in the log;
- `PlainOK`, `NextOK`: which steps and slots can occur at all.

A process that is locked out can change neither the log nor the open transaction,
which is `Isolated`: each action is shown to be isolated from the other processes
and to keep the parts that concern its own.

`JetstreamSourceProofs` proves, for any workers, parsers and prefilters, any range and
epoch length and any number of entries, `EntriesAreHandedOver` and `ReplaysAreWhole`.
It assumes that the placeholder `None` is no list of entries and that prefilters are
prefilters. The properties speak of finished slots only, while a slot is spread over a
worker's own state, the shared map and the log, so the invariant follows it through:
`Shared`, the shares of the workers stay disjoint and in the range, which is why the
callbacks of two workers never meet in one slot of the map; `Ahead`, a slot that is not
begun is untouched; `InProgress`, the log, the map and what the worker took out of it
agree with the point the worker has reached; `Settled`, a slot nobody holds is outside
of the range, skipped or complete; `Finished`, a replay completes only when no share is
left, unless a signal came.

`PreconfSourceProofs` proves, for any feeds, updates, retry policy, frame cap and
retention, `IndexesAreKept`, `TransactionsAreAccounted` and `FailuresAreBounded`. The
assumptions are that retry limits are numbers and that updates are of the slots there
are. An index is repeated when its frame was dropped, which says nothing of the frames
still kept; `Kept` therefore says of each feed that every delivered index is below the
next index of its slot, or that the slot is `Lost`: behind the retention, or behind as
many slots the feed has seen as the cap allows. `InHand` says the same of the update
that waits for room, whose index is given out but not delivered, and may become lost
while it waits. The heart is that pruning and the cap give up only lost frames, a matter
of counting the slots above. `Retried` and `Phased` relate streams, attempts and the
loop's phase.

`AccountPathProofs` proves the three invariants of the run `accounts`, for any accounts,
owners, parsers, clients, capacities, tries, attempts and numbers of jobs:

- `ClientsMissOnlyGaps`. `InStep` relates a client's cursor in a channel with all that was
  ever sent there: what it got are, in order, the positions before the cursor that are
  not gaps, and the tries it has used up each have a gap right behind the cursor.
- `WatermarksCanBeReliedOn`. `Slots` says that an update of an account carries a slot
  other than 0, from the source to the handlers, because the sink takes 0 for "no slot
  yet". `Delivery` says where the sink stands in the order in which handlers ended
  (`Past`): what is behind is published and not above the sink's slot, what is ahead is
  in the channel. `Marks` covers the watermarks already published: a later account can
  only come after one of a later slot, or not at all.
- `AccountsAreServed`. The property looks at the end of a run; the invariant (`Serving`)
  at an account on its way to a pipeline: with the source, in the channel of the scan,
  with the sender, in the runtime's channel, with a handler, or handled. `Once` says
  that it is in at most one of these places, once, `NoneMissing` that it is in one as
  long as neither the source failed nor the runtime stops. `Rights` says that only
  pipelines that want an account get it; `Prefiltered`, that the one map of prefilters
  holds the owners of every account pipeline that is alone with its id (the last of a
  kind wins, and no two pipelines of a kind share an id, or the builder refuses);
  `Flow`, that `Finished` is the last event of a scan, so that a sender that met it has
  sent all. `Bounded` has the channels and the coordinator's counts.

Records are not looked into: what `ParseAccount` makes of an account is left
unexpanded. The assumptions (`BoundsAssumption`, `PathAssumption`, `ServerAssumption`)
are that bounds are numbers, that a channel keeps at least one message and a write is
attempted at least once, that what a snapshot can load are accounts, that a parser is of
one of the six kinds, and that `None` is neither an account nor an update.

The invariants were checked with TLC on the instances of the runs before they
were proved.

*Only model-checked:*

- what the request builders, the sinks and the parsers compute (`AskedForIsKept`,
  `RequestServesParsers`, `ParsedWhole`, `BatchesContained`, `CallsRebuilt`,
  `LogsFollowCalls`, `SinkAccountsForAll`, `FailuresIsolated`). What `InstructionTree`
  computes for every transaction is a statement about recursive definitions, which the
  prover cannot reach; its two RECURSIVE operators are in modules that no theorem uses;
- all liveness (`EverySlotDelivered`, `RunReturns`, `SourceErrorSurfaces`, `Converges`,
  `AttemptsEnd`, `ReceiverDropEndsSource`, `SourceEnds`, `RunEnds`), which is out of the
  prover's reach.

## Not modelled

- *Code generation*: of what the macros write, the messages and indices of the `.proto`
  schema are modelled, not the Rust code, nor `codama-from-anchor`'s conversion of IDLs;
  both run at build time, without state, and the code is checked by compiling it.
- *Message types, fixtures, block-meta and slot parsers*: data, test support, and
  parsers that return their input.
- *The coordinator's end*: closing of its channels and failing outputs.
- *Replays after a reconnect of the coordinated source*: whether the provider sends
  again is outside the repository; the coordinator does not deduplicate, and its count
  gates would open early.
- *Conversions of data*: the archive's and the preconf feed's records to gRPC
  messages, JSON of fallback events, configuration files, TLS options.
- *Late beyond the window*: a record more than 512 slots behind its discard recreates
  an entry; the window of the delivery claims is wider than the instance.
- In `Runtime` all errors a source can return are one value, and signals that cannot be
  registered are left out; a failed source is not waited for (lib.rs:412), so handlers
  it leaves running are cut off, and no claim is made of that exit.
- In `KafkaSlotSink` a slots topic has one partition, the brokers never abort a
  transaction for its age, and sinks that initialise their producer only after the
  resume point was read (`new` instead of `new_preinitialized`) are left out.

## Plan

1. Proofs: that merges of prefilters keep what was asked for (`AskedForIsKept`); the
   writers' log as a refinement of `SlotLog`'s instruction side.
2. The end of the coordinator's loop: closed inputs, failing outputs.
