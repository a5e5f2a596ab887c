---------------------------- MODULE TransactionPath ----------------------------
(***************************************************************************)
(* One transaction, from its execution to the records and handler calls it *)
(* leads to.                                                               *)
(*                                                                         *)
(* The Solana runtime (external) executes the transaction: instructions    *)
(* call each other, programs write log lines, and the log may be cut.  The *)
(* update then reaches one of two consumers: kafka-sink's BufferingHandler,*)
(* which sends records and counts to the coordinator, or a job of the      *)
(* runtime, whose transaction pipelines and InstructionPipeline run side   *)
(* by side in one task.  The coordinator may stop at any time, and a       *)
(* handler may fail or panic.                                              *)
(***************************************************************************)
EXTENDS InstructionTree, SinkRecords, ProtoSchema, Bags, TLC

CONSTANTS
  Programs,         \* programs that can be called (strings: log lines name them)
  Precompile,       \* a program whose instructions leave no log lines
  SinkParsers,      \* the sink's instruction parsers, in the order they were registered
  SchemaDefs,       \* the schemas to be registered, in order: the topic, the messages of the
                    \*   .proto file, the index registered and the message the topic carries
  Pipelines,        \* the parsers of the instruction pipeline, in order
  TxnPipelines,     \* the parsers of whole transactions
  HandlersOf,       \* the handlers of each parser
  MaxSize,          \* bound: instructions, lines that programs write and cuts of the log
  MaxDeep,          \* bound: calls of a transaction in which one program calls itself
  MaxHeight,        \* bound: stack height (the Solana runtime's is 5)
  MaxLoaded,        \* bound: the size of a transaction whose keys are loaded from tables
  MaxSink,          \* bound: the size of a transaction the sink is given
  MaxPipeline       \* bound: the size of a transaction the pipeline is given

VARIABLES
  phase,      \* "registering" or "refused", "executing", "received", then "sink" and
              \*   "counted" or "job" and "finished" or "panicked"
  schemas,    \* schema_ids: the registered schemas, by topic
  ixs,        \* the instructions, in the order they were reached
  stack,      \* the ids of the instructions being executed
  err,        \* the transaction failed
  cut,        \* the log reached its limit, and lines may be dropped
  log,        \* the log lines, each with the id of the instruction it is about
  txn,        \* the update as received
  tree,       \* what build_from_txn made of it
  todo,       \* the instructions a consumer still has to look at
  events,     \* what the coordinator received
  open,       \* the coordinator receives
  cancelled,  \* the sink's cancellation token
  lanes,      \* the futures of the job: each pipeline's [todo, running, errs]
  asked,      \* the values given to parsers
  served,     \* the values that each handler of each parser was done with, in order
  failures,   \* the errors that parsers and handlers returned
  reports     \* the errors that were reported, a bag

execVars == <<schemas, ixs, stack, err, cut, log>>
sinkVars == <<events, open, cancelled>>
pipeVars == <<lanes, asked, served, failures, reports>>
vars == <<phase, schemas, ixs, stack, err, cut, log, txn, tree, todo, events, open, cancelled,
          lanes, asked, served, failures, reports>>

InstructionPipeline == "InstructionPipeline"
Lanes == TxnPipelines \cup {InstructionPipeline}
Handlers == UNION {{p} \X HandlersOf[p] : p \in ToSet(Pipelines) \cup TxnPipelines}
NoLane == [todo |-> <<>>, running |-> {}, errs |-> {}]

Init ==
  /\ phase = "registering" /\ schemas = <<>> /\ todo = SchemaDefs
  /\ ixs = <<>> /\ stack = <<>> /\ err = FALSE /\ cut = FALSE /\ log = <<>>
  /\ txn = None /\ tree = None
  /\ events = <<>> /\ open = TRUE /\ cancelled = FALSE
  /\ lanes = [l \in Lanes |-> NoLane] /\ asked = {} /\ served = [c \in Handlers |-> <<>>]
  /\ failures = {} /\ reports = EmptyBag

-----------------------------------------------------------------------------
(* ensure_schemas_registered, before anything is received.                 *)

\* The registry (external): the id it gives to a definition, and the id of the schema it
\* already has for a topic when it finds the new one incompatible.
NewId(topic) == 256 + (CHOOSE i \in DOMAIN SchemaDefs : SchemaDefs[i].topic = topic)
LatestId(topic) == 1

\* A mutation: on a conflict the id of the schema that the registry has is used.
RegisterLatest(answer, def) ==
  CASE answer = "accepted" -> [ok |-> TRUE, id |-> NewId(def.topic)]
    [] answer = "conflict" -> [ok |-> TRUE, id |-> LatestId(def.topic)]
    [] answer = "failed" -> [ok |-> FALSE, id |-> 0]

\* register_schema: any answer but success is an error, a conflict too.
RegisterSchema(answer, def) ==
  IF answer = "accepted" THEN [ok |-> TRUE, id |-> NewId(def.topic)] ELSE [ok |-> FALSE, id |-> 0]

\* The registry is asked whether it is there, then for one schema after the other; the
\* first error ends the start.
EnsureRegistered(answer) ==
  LET def == Head(todo)
      result == RegisterSchema(answer, def)
  IN /\ phase = "registering" /\ todo # <<>>
     /\ IF result.ok
        THEN /\ schemas' = (def.topic :> [schema_id |-> result.id, message_index |-> def.message_index]) @@ schemas
             /\ todo' = Tail(todo) /\ UNCHANGED phase
        ELSE phase' = "refused" /\ UNCHANGED <<schemas, todo>>
     /\ UNCHANGED <<ixs, stack, err, cut, log, txn, tree, sinkVars, pipeVars>>

\* check_schema_registry fails before the first schema; the sink starts after the last.
CheckFails ==
  /\ phase = "registering" /\ todo = SchemaDefs /\ phase' = "refused"
  /\ UNCHANGED <<execVars, txn, tree, todo, sinkVars, pipeVars>>
SetSchemaIds ==
  /\ phase = "registering" /\ todo = <<>> /\ phase' = "executing"
  /\ UNCHANGED <<execVars, txn, tree, todo, sinkVars, pipeVars>>

-----------------------------------------------------------------------------
(* Execution (the Solana runtime).                                         *)

ProgramLine(ix, tail, height) ==
  [program |-> TRUE, second |-> ixs'[ix].program, tail |-> tail, height |-> height, ix |-> ix]
Note(ix, tail) == [program |-> TRUE, second |-> "log:", tail |-> tail, height |-> 0, ix |-> ix]

Size ==
  Len(ixs) + Cardinality({p \in DOMAIN log : log[p].second = "log:"}) + IF cut THEN 1 ELSE 0

\* There is room for one more call.
Room(program) ==
  \/ Size < MaxSize
  \/ Size < MaxDeep /\ Len(ixs) = Size /\ \A i \in DOMAIN ixs : ixs[i].program = program

\* A line enters the log, unless the log is cut and there is no room for it.
Write(line) == \/ log' = Append(log, line)
               \/ cut /\ log' = log

Invoke(program) ==
  LET ix == Len(ixs) + 1
  IN /\ phase = "executing" /\ ~err
     /\ Room(program) /\ Len(stack) < MaxHeight
     /\ ixs' = Append(ixs, [program |-> program, height |-> Len(stack) + 1])
     /\ stack' = Append(stack, ix)
     /\ Write(ProgramLine(ix, "invoke", Len(stack) + 1))
     /\ UNCHANGED <<phase, schemas, err, cut, txn, tree, todo, sinkVars, pipeVars>>

\* An outer instruction that leaves no lines: a precompile, or any instruction after the
\* one the transaction failed in.
Unlogged(program) ==
  /\ phase = "executing" /\ stack = <<>> /\ Size < MaxSize
  /\ program = Precompile \/ err
  /\ ixs' = Append(ixs, [program |-> program, height |-> 1])
  /\ UNCHANGED <<phase, schemas, stack, err, cut, log, txn, tree, todo, sinkVars, pipeVars>>

\* The program logs text of its own, which may look like a line of the runtime.
WriteNote(tail) ==
  /\ phase = "executing" /\ stack # <<>> /\ ~err
  /\ Size < MaxSize
  /\ Write(Note(Last(stack), tail))
  /\ UNCHANGED <<phase, schemas, ixs, stack, err, cut, txn, tree, todo, sinkVars, pipeVars>>

CutLog ==
  /\ phase = "executing" /\ Size < MaxSize /\ ~cut /\ cut' = TRUE
  /\ log' = Append(log, [program |-> FALSE, second |-> "truncated", tail |-> "", height |-> 0, ix |-> 0])
  /\ UNCHANGED <<phase, schemas, ixs, stack, err, txn, tree, todo, sinkVars, pipeVars>>

\* An instruction ends; once one has failed all its callers fail.
Return(failed) ==
  /\ phase = "executing" /\ stack # <<>>
  /\ failed \/ ~err
  /\ err' = failed
  /\ stack' = Front(stack)
  /\ UNCHANGED ixs
  /\ Write(ProgramLine(Last(stack), IF failed THEN "failed" ELSE "success", 0))
  /\ UNCHANGED <<phase, schemas, cut, txn, tree, todo, sinkVars, pipeVars>>

-----------------------------------------------------------------------------
(* The update.                                                             *)

Inner == {i \in DOMAIN ixs : ixs[i].height > 1}
OuterIds == SelectSeq([i \in DOMAIN ixs |-> i], LAMBDA i : ixs[i].height = 1)

\* The keys of the transaction in a fixed order, and how they are divided into the keys of
\* the message and the keys loaded for writing and reading.
KeyList == SetToSeq(Programs \cup {Precompile})
Keys(a, b) == [static |-> SubSeq(KeyList, 1, a), rw |-> SubSeq(KeyList, a + 1, b),
               ro |-> SubSeq(KeyList, b + 1, Len(KeyList))]
IndexOf(program) == (CHOOSE k \in DOMAIN KeyList : KeyList[k] = program) - 1

\* The inner instructions of outer instruction o; old data has no stack heights, or lacks
\* some of them: known are the instructions that have one.
GroupOf(o, known) ==
  LET from == OuterIds[o]
      to == IF o = Len(OuterIds) THEN Len(ixs) ELSE OuterIds[o + 1] - 1
  IN [index |-> o - 1,
      ixs |-> [i \in 1 .. to - from |->
                 [id |-> from + i, program_id_index |-> IndexOf(ixs[from + i].program),
                  stack_height |-> IF from + i \in known THEN ixs[from + i].height ELSE None]]]

\* What can be wrong with an update: a part is missing, the key list is too short, or
\* there are inner instructions for an outer instruction it does not have.
Missing == {"info", "transaction", "meta", "message", "header"}
Faults == Missing \cup {"account_key", "inner_index"}

Update(fault, a, b, known) ==
  [missing |-> IF fault \in Missing THEN fault ELSE None,
   keys |-> IF fault = "account_key"
            THEN [static |-> Front(KeyList), rw |-> <<>>, ro |-> <<>>] ELSE Keys(a, b),
   outer |-> [o \in DOMAIN OuterIds |->
                [id |-> OuterIds[o], program_id_index |-> IndexOf(ixs[OuterIds[o]].program),
                 stack_height |-> None]],
   groups |-> SelectSeq([o \in DOMAIN OuterIds |-> GroupOf(o, known)], LAMBDA g : g.ixs # <<>>)
                \o (IF fault = "inner_index" THEN <<[index |-> Len(OuterIds), ixs |-> <<>>]>> ELSE <<>>),
   log |-> log, err |-> err]

\* The transaction ends and its update is received.
Receive(fault, a, b, known) ==
  /\ phase = "executing" /\ stack = <<>> /\ ixs # <<>>
  /\ fault # None \/ a < Len(KeyList) => known = Inner
  /\ fault # None => a = Len(KeyList) /\ Size <= MaxSink
  /\ a < Len(KeyList) => Size <= MaxLoaded
  /\ phase' = "received"
  /\ txn' = Update(fault, a, b, known)
  /\ tree' = BuildFromTxn(txn')
  /\ UNCHANGED <<execVars, todo, sinkVars, pipeVars>>

\* Bound: a consumer is given updates of a size up to n, all keys in the message.
Given(n) ==
  /\ phase = "received" /\ Size <= n
  /\ txn.keys.rw = <<>> /\ txn.keys.ro = <<>>

-----------------------------------------------------------------------------
(* BufferingHandler.                                                       *)

\* A mutation: a failed send is only logged.
DeliverQuietly(es) ==
  \/ open /\ events' = events \o es /\ UNCHANGED <<open, cancelled>>
  \/ open /\ open' = FALSE /\ UNCHANGED <<events, cancelled>>
  \/ ~open /\ UNCHANGED <<events, open, cancelled>>

\* The handler's sends, one after the other.  The coordinator may stop before any of them,
\* and a send that fails cancels the sink but not the handler.
Deliver(es) ==
  \/ /\ open /\ events' = events \o es
     /\ UNCHANGED <<open, cancelled>>
  \/ /\ open /\ \E n \in 0 .. Len(es) - 1 : events' = events \o SubSeq(es, 1, n)
     /\ open' = FALSE /\ cancelled' = TRUE
  \/ /\ ~open /\ cancelled' = TRUE
     /\ UNCHANGED <<events, open>>

Stats(kind) == [event |-> "stats", kind |-> kind]
Parsed == [event |-> "transaction_parsed"]
Record(key, record) == [event |-> "record", key |-> key, record |-> record]

\* A mutation: a transaction that cannot be taken apart is not counted.
NotCountedOnError(missing) == IF missing = "info" THEN <<>> ELSE <<Stats("succeeded"), Parsed>>

\* The counts for a transaction that has no instructions to look at.
CountedOnError(missing) ==
  IF missing = "info" THEN <<Parsed>> ELSE <<Stats("succeeded"), Parsed>>

\* handle up to the loop over the instructions.
SinkReceives ==
  /\ Given(MaxSink)
  /\ IF tree = None \/ txn.err
     THEN /\ Deliver(IF txn.missing # "info" /\ txn.missing # "meta" /\ txn.err
                     THEN <<Stats("failed"), Parsed>> ELSE CountedOnError(txn.missing))
          /\ phase' = "counted" /\ UNCHANGED todo
     ELSE /\ Deliver(<<Stats("succeeded")>>)
          /\ phase' = "sink" /\ todo' = VisitedWithIndices(tree)
  /\ UNCHANGED <<execVars, txn, tree, pipeVars>>

\* A mutation: a record on a fallback topic is taken for a decoded instruction.
CountUnlessRecord(result) ==
  IF result.record # <<>> THEN <<>>
  ELSE <<Stats(IF result.had_error THEN "instruction_error" ELSE "instruction_filtered")>>

\* An instruction that was not decoded is counted as an error or as filtered.
CountUnlessDecoded(result) ==
  IF result.record # <<>> /\ result.record[1].is_decoded THEN <<>>
  ELSE <<Stats(IF result.had_error THEN "instruction_error" ELSE "instruction_filtered")>>

\* One instruction: its record if there is one, and a count unless it was decoded.
SinkInstruction(outcome) ==
  LET ix == Head(todo)[1]
      flat == Head(todo)[2]
      result == ParseWith(SinkParsers, schemas, tree.program[ix], outcome,
                          MakeInstructionRecordKey("slot", "signature", flat), <<ix>>, "instruction")
  IN /\ phase = "sink" /\ todo # <<>>
     /\ Deliver([i \in DOMAIN result.record |-> Record(flat, result.record[i])]
                \o CountUnlessDecoded(result))
     /\ todo' = Tail(todo)
     /\ UNCHANGED <<phase, execVars, txn, tree, pipeVars>>

SinkDone ==
  /\ phase = "sink" /\ todo = <<>>
  /\ Deliver(<<Parsed>>)
  /\ phase' = "counted"
  /\ UNCHANGED <<execVars, txn, tree, todo, pipeVars>>

-----------------------------------------------------------------------------
(* A job of the runtime: the pipelines of one transaction update.          *)

\* Every instruction with every parser, instruction by instruction.
FanOut ==
  FlattenSeq([k \in DOMAIN VisitedWithIndices(tree) |->
    [p \in DOMAIN Pipelines |-> <<VisitedWithIndices(tree)[k][1], Pipelines[p]>>]])

\* Bound: the programs and the lines of the transaction make no difference to a job.
Uniform == Len(ixs) = Size /\ \A i \in DOMAIN ixs : ixs[i].program = KeyList[1]

\* run_job: all pipelines are polled in one task.  A transaction pipeline is given the
\* transaction, whose id is 0, and the InstructionPipeline first takes it apart.
JobStarts ==
  /\ Given(MaxPipeline) /\ Uniform
  /\ phase' = "job"
  /\ lanes' = [l \in Lanes |-> [NoLane EXCEPT !.todo = <<<<0, l>>>>]]
  /\ UNCHANGED <<execVars, txn, tree, todo, sinkVars, asked, served, failures, reports>>

Current(l) == Head(lanes[l].todo)

\* A mutation: the InstructionPipeline returns its last error as it is.
ReturnedAsIs(l, errs) == errs

\* The errors in what a pipeline returns to the runtime, which reports them.  What the
\* InstructionPipeline returns says only that its errors were handled.  The warning it logs
\* when it replaces an earlier such value, "the earlier failure is being dropped", is not
\* borne out: the earlier failure was reported when it occurred.
Returned(l, errs) == IF l = InstructionPipeline THEN {} ELSE errs

\* The errors that are reported when a value of lane l is done with: the
\* InstructionPipeline reports each at once, the runtime what is returned at the end.
Reported(l, errs, rest) ==
  SetToBag(IF l = InstructionPipeline THEN errs ELSE {})
    (+) SetToBag(IF rest = <<>> THEN Returned(l, errs) ELSE {})

\* A mutation: the InstructionPipeline ends at the first error.
NextUntilError(l, errs) == IF errs # {} THEN <<>> ELSE Tail(lanes[l].todo)

\* What is left for lane l after the current value: an error ends nothing.
NextOf(l, errs) == Tail(lanes[l].todo)

\* The current value of lane l is done with, its handlers included.
Advance(l, errs) ==
  /\ lanes' = [lanes EXCEPT ![l] = [NoLane EXCEPT !.todo = NextOf(l, errs)]]
  /\ reports' = reports (+) Reported(l, errs, NextOf(l, errs))

\* InstructionPipeline::handle, before its loops: an update that cannot be taken apart is
\* a parse error of the whole pipeline, which is returned.
BuildInstructions ==
  LET l == InstructionPipeline
  IN /\ phase = "job" /\ lanes[l].todo # <<>> /\ Current(l) = <<0, l>>
     /\ IF tree = None
        THEN /\ failures' = failures \cup {<<0, l, "parser">>}
             /\ reports' = reports (+) SetToBag({<<0, l, "parser">>})
             /\ lanes' = [lanes EXCEPT ![l] = NoLane]
        ELSE /\ lanes' = [lanes EXCEPT ![l].todo = FanOut]
             /\ UNCHANGED <<failures, reports>>
     /\ UNCHANGED <<phase, execVars, txn, tree, todo, sinkVars, asked, served>>

\* Pipeline::handle: the parser filters the value, refuses it or parses it, and then all
\* handlers of the parser run at once.
Parse(l, outcome) ==
  /\ phase = "job" /\ lanes[l].todo # <<>> /\ lanes[l].running = {}
  /\ Current(l) # <<0, InstructionPipeline>>
  /\ asked' = asked \cup {Current(l)}
  /\ \/ outcome = "filtered" /\ Advance(l, {}) /\ UNCHANGED failures
     \/ LET e == <<Current(l)[1], Current(l)[2], "parser">>
        IN outcome = "error" /\ Advance(l, {e}) /\ failures' = failures \cup {e}
     \/ /\ outcome = "parsed"
        /\ lanes' = [lanes EXCEPT ![l].running = HandlersOf[Current(l)[2]]]
        /\ UNCHANGED <<failures, reports>>
  /\ UNCHANGED <<phase, execVars, txn, tree, todo, sinkVars, served>>

\* A mutation: the first handler that fails ends the others.
AwaitedUntilFailure(l, h, ok) == IF ok THEN lanes[l].running \ {h} ELSE {}

\* The handlers still waited for once h has ended: the others, whatever h returned.
Awaited(l, h, ok) == lanes[l].running \ {h}

\* One handler ends.  Its error is kept until the last one ends.
HandlerEnds(l, h, ok) ==
  LET p == Current(l)[2]
      e == <<Current(l)[1], p, h>>
      errs == lanes[l].errs \cup IF ok THEN {} ELSE {e}
  IN /\ phase = "job" /\ h \in lanes[l].running
     /\ served' = [served EXCEPT ![<<p, h>>] = Append(@, e[1])]
     /\ failures' = failures \cup IF ok THEN {} ELSE {e}
     /\ IF Awaited(l, h, ok) = {} THEN Advance(l, errs)
        ELSE /\ lanes' = [lanes EXCEPT ![l].running = Awaited(l, h, ok), ![l].errs = errs]
             /\ UNCHANGED reports
     /\ UNCHANGED <<phase, execVars, txn, tree, todo, sinkVars, asked>>

\* A parser or a handler panics: the task of the job ends, and with it everything the job
\* still had to do or held.  One task runs the whole job, not one each handler.
JobPanics(l) ==
  /\ phase = "job" /\ lanes[l].todo # <<>> /\ Current(l) # <<0, InstructionPipeline>>
  /\ phase' = "panicked"
  /\ UNCHANGED <<execVars, txn, tree, todo, sinkVars, pipeVars>>

JobDone ==
  /\ phase = "job" /\ \A l \in Lanes : lanes[l].todo = <<>>
  /\ phase' = "finished"
  /\ UNCHANGED <<execVars, txn, tree, todo, sinkVars, pipeVars>>

Done == phase \in {"counted", "finished", "panicked", "refused"} /\ UNCHANGED vars

\* An update of the tree and the log alone: no consumer is given it.
NotGiven == phase = "received" /\ UNCHANGED vars

\* The parsers of another program are not asked.
Outcomes(program) ==
  {o \in [DOMAIN SinkParsers -> {"parsed", "filtered", "error"}] :
     \A i \in DOMAIN SinkParsers : SinkParsers[i].program_id # program => o[i] = "filtered"}

Next ==
  \/ \E answer \in {"accepted", "conflict", "failed"} : EnsureRegistered(answer)
  \/ CheckFails \/ SetSchemaIds
  \/ \E p \in Programs : Invoke(p)
  \/ \E p \in Programs \cup {Precompile} : Unlogged(p)
  \/ \E t \in {"invoke", "success"} : WriteNote(t)
  \/ CutLog
  \/ \E f \in BOOLEAN : Return(f)
  \/ \E fault \in Faults \cup {None}, a, b \in 0 .. Len(KeyList), known \in SUBSET Inner :
       a <= b /\ Receive(fault, a, b, known)
  \/ SinkReceives
  \/ phase = "sink" /\ todo # <<>> /\ \E o \in Outcomes(tree.program[Head(todo)[1]]) : SinkInstruction(o)
  \/ SinkDone
  \/ JobStarts \/ BuildInstructions
  \/ \E l \in Lanes :
       \/ \E o \in {"filtered", "error", "parsed"} : Parse(l, o)
       \/ \E h \in lanes[l].running, ok \in BOOLEAN : HandlerEnds(l, h, ok)
       \/ JobPanics(l)
  \/ JobDone
  \/ NotGiven
  \/ Done

Spec == Init /\ [][Next]_vars

-----------------------------------------------------------------------------
(* Properties.                                                             *)

Ids == DOMAIN ixs
Built == tree # None

\* The inner instructions that came with their stack height.
Known == UNION {{ix.id : ix \in {x \in ToSet(txn.groups[g].ixs) : x.stack_height # None}} : g \in DOMAIN txn.groups}

\* The instruction that was on the stack below ix when it was invoked; 0 for an outer one.
Caller(ix) ==
  LET below == {j \in 1 .. ix - 1 : ixs[j].height = ixs[ix].height - 1}
  IN IF ixs[ix].height = 1 THEN 0 ELSE CHOOSE j \in below : \A k \in below : k <= j

\* The outer instruction in which ix was executed, and the inner ones from a to b.
OuterOf(ix) == CHOOSE o \in 1 .. ix : ixs[o].height = 1 /\ \A j \in o + 1 .. ix : ixs[j].height > 1
InnerFrom(a, b) == {j \in a .. b : ixs[j].height > 1}

TypeOK ==
  /\ phase \in {"registering", "refused", "executing", "received", "sink", "counted", "job",
                 "finished", "panicked"}
  /\ \A i \in DOMAIN stack : stack[i] \in Ids /\ ixs[stack[i]].height = i
  /\ open \/ cancelled
  /\ Built => \A ix \in Ids : tree.logs[ix][1] \in 1 .. tree.logs[ix][2] /\ tree.logs[ix][2] <= Len(log) + 1

\* The instruction that build_from_txn can know to have called ix: its caller, if the
\* stack heights from the caller's to its own are all known, and otherwise no other than
\* the outer instruction.
KnownCaller(ix) ==
  IF ixs[ix].height > 1 /\ InnerFrom(Caller(ix), ix) \subseteq Known THEN Caller(ix)
  ELSE IF ixs[ix].height > 1 THEN OuterOf(ix) ELSE 0

\* The tree that build_from_txn makes of a flat list and its stack heights is the tree of
\* calls that happened: each instruction is the child of the instruction that called it,
\* children are in call order, and its program is the one executed however the keys are
\* divided.  An instruction is placed below another only on evidence: where a height is
\* missing on the way it stays with the outer instruction, and no instruction is lost.
TreeIsCallTree ==
  Built =>
    \A ix \in Ids :
      /\ tree.program[ix] = ixs[ix].program
      /\ tree.inner[ix] = SelectSeq([i \in Ids |-> i], LAMBDA i : KnownCaller(i) = ix)

PathLess(a, b) ==
  \/ Len(a) < Len(b) /\ SubSeq(b, 1, Len(a)) = a
  \/ \E k \in 1 .. Len(a) : k <= Len(b) /\ SubSeq(a, 1, k - 1) = SubSeq(b, 1, k - 1) /\ a[k] < b[k]

\* The path of an instruction, which is derived from the stack heights without the tree,
\* is its position in the tree as far as the heights of its outer instruction are known,
\* and where none is.  After a missing height it can be another (the heights 2, 3 and none
\* give the path 0.0.1 and the position 0.1), but no two instructions share a path and
\* the order of the paths stays the order of execution.
PathsAreTreePositions ==
  Built =>
    /\ \A ix \in Ids : \A k \in DOMAIN tree.inner[ix] :
         LET i == tree.inner[ix][k]
             o == OuterOf(i)
         IN (InnerFrom(o, i) \subseteq Known \/ {j \in Known : OuterOf(j) = o} = {})
              => tree.path[i] = Append(tree.path[ix], k - 1)
    /\ \A i, j \in Ids : i < j => PathLess(tree.path[i], tree.path[j])

\* Consumers walk the tree and number what they meet: they meet every instruction once, in
\* the order of execution, whatever heights are missing.
VisitsFollowExecution ==
  Built => [k \in DOMAIN VisitedWithIndices(tree) |-> VisitedWithIndices(tree)[k][1]] = [i \in Ids |-> i]

\* The lines an instruction wrote or is named in, and whether jx was called from within ix.
LinesOf(ix) == {p \in DOMAIN log : log[p].ix = ix}
Within(ix, jx) == ix <= jx /\ \A j \in ix + 1 .. jx : ixs[j].height > ixs[ix].height
LinesIn(range) == {p \in DOMAIN log : range[1] <= p /\ p < range[2]}

\* Where the log was cut, if it was.
CutAt == IF cut THEN CHOOSE p \in DOMAIN log : log[p].second = "truncated" ELSE Len(log) + 1

\* Up to where the log was cut each instruction is given exactly its own lines and those of
\* the instructions below it, also next to precompiles, after a failure, and when a program
\* logs text that looks like an invoke or a close; its direct lines are its own, and one
\* that has returned by then is given nothing after.  Where the log is whole, the log split
\* by outer instruction is the ranges of those that have one.  After the cut nothing is
\* claimed of whose a line is: the walk gives the next invoke to the next instruction
\* without comparing their programs.  Nor is it where stack heights are missing.
LogsBelongToTheirInstruction ==
  Built /\ Inner \subseteq Known =>
    /\ \A ix \in Ids :
         LET r == tree.logs[ix]
             before == 1 .. CutAt - 1
         IN /\ LinesIn(r) \cap before = UNION {LinesOf(jx) : jx \in {j \in Ids : Within(ix, j)}} \cap before
            /\ ToSet(DirectLines(log, r)) \cap before = LinesOf(ix) \cap before
            /\ (\E p \in LinesOf(ix) \cap before : ClassifyLogLine(log[p]) = "close") => r[2] <= CutAt
    /\ ~cut =>
         LET logged == SelectSeq(tree.outer, LAMBDA o : LinesOf(o) # {})
         IN SplitLogs(log) =
              [i \in DOMAIN logged |-> [k \in 1 .. tree.logs[logged[i]][2] - tree.logs[logged[i]][1] |->
                                         tree.logs[logged[i]][1] + k - 1]]

Apart(r, q) == r[2] <= q[1] \/ q[2] <= r[1] \/ r[1] = r[2] \/ q[1] = q[2]

\* However the log was cut and whatever heights are missing, the lines given to an
\* instruction lie within its parent's or are none, no line is given to two instructions
\* side by side, and an outer instruction's lines begin where its program was called from
\* outside.
CutLogsStayNested ==
  Built =>
    /\ \A ix \in Ids :
         /\ \A c \in ToSet(tree.inner[ix]) :
              LET r == tree.logs[c]
              IN r[1] = r[2] \/ (tree.logs[ix][1] < r[1] /\ r[2] <= tree.logs[ix][2])
         /\ \A c, d \in ToSet(tree.inner[ix]) : c # d => Apart(tree.logs[c], tree.logs[d])
    /\ \A o, q \in ToSet(tree.outer) : o # q => Apart(tree.logs[o], tree.logs[q])
    /\ \A o \in ToSet(tree.outer) :
         LET r == tree.logs[o]
         IN r[1] < r[2] => /\ log[r[1]].height = 1 /\ log[r[1]].second = ixs[o].program
                           /\ log[r[1]].tail = "invoke"

EventsOf(kind) == {i \in DOMAIN events : events[i].event = kind}
RecordsOf == {i \in DOMAIN events : events[i].event = "record"}
Counted(kind) == Cardinality({i \in EventsOf("stats") : events[i].kind = kind})

\* The gate: for every transaction the sink looks at, also one that has nothing to take
\* apart, the coordinator is told once that it is parsed, after everything else.  If
\* anything did not arrive, it is not told, and the sink is cancelled.
GateCountedOnceAndLast ==
  phase = "counted" =>
    IF open THEN events # <<>> /\ EventsOf("transaction_parsed") = {Len(events)}
    ELSE cancelled /\ EventsOf("transaction_parsed") = {}

\* Every instruction of a transaction that succeeded is accounted for once: decoded,
\* filtered or an error, where a record on a fallback topic is an error too.
EveryInstructionCounted ==
  phase = "counted" /\ open /\ Built /\ ~txn.err =>
    /\ Counted("succeeded") = 1 /\ Counted("failed") = 0
    /\ Cardinality({i \in RecordsOf : events[i].record.is_decoded})
         + Counted("instruction_filtered") + Counted("instruction_error") = Len(ixs)
    /\ Cardinality({i \in RecordsOf : ~events[i].record.is_decoded}) <= Counted("instruction_error")

\* The sort keys and record keys are the flat indices: no two records of a transaction
\* share one, and ordering by key is the order of execution.
KeysFollowExecution ==
  \A i, j \in RecordsOf : i < j =>
    /\ PathLess(events[i].key, events[j].key)
    /\ events[i].record.key # events[j].record.key
    /\ \A k \in {i, j} :
         Len(events[k].key) = 2 =>
           \E g \in DOMAIN txn.groups :
             txn.groups[g].index = events[k].key[1] /\ events[k].key[2] \in 0 .. Len(txn.groups[g].ixs) - 1

\* What a consumer reads from the bytes at position p: a variable length integer, and the
\* position after it.
ReadVarint(bytes, p) ==
  LET last == CHOOSE q \in p .. Len(bytes) : bytes[q] < 128 /\ \A r \in p .. q - 1 : bytes[r] >= 128
      value == FoldRight(LAMBDA b, v : (b % 128) + 128 * v, SubSeq(bytes, p, last), 0)
  IN [value |-> IF value % 2 = 0 THEN value \div 2 ELSE 0 - (value + 1) \div 2, next |-> last + 1]

\* What is registered for a topic is its definition, under the id the registry has it by and
\* never that of an older schema, and the index kept with it, counted from the first message
\* of the definition as the wire format does, leads to the message that the topic carries.
\* Once the handlers run, every definition is registered.
SchemasLeadToTheirMessage ==
  phase = "registering" =>
    \A def \in ToSet(SchemaDefs) \ ToSet(todo) :
      /\ def.topic \in DOMAIN schemas
      /\ schemas[def.topic].schema_id = NewId(def.topic)
      /\ schemas[def.topic].message_index + 1 \in DOMAIN def.messages
      /\ def.messages[schemas[def.topic].message_index + 1] = def.dispatch

\* A consumer can read every decoded record: after the magic byte the payload names what is
\* registered for its topic, the schema and the message in it, and the rest is the data.
\* A fallback record is the raw event.
ConsumersDecode ==
  \A i \in RecordsOf :
    LET r == events[i].record
        count == ReadVarint(r.payload, 6)
        index == IF count.value = 0 THEN [value |-> 0, next |-> count.next]
                 ELSE ReadVarint(r.payload, count.next)
        schema == schemas[r.topic]
    IN IF ~r.is_decoded THEN Head(r.payload) = 123 /\ Last(r.payload) = 125
       ELSE r.topic \in DOMAIN schemas =>
              /\ r.payload[1] = 0
              /\ r.payload[2] * 2^24 + r.payload[3] * 2^16 + r.payload[4] * 2^8 + r.payload[5] = schema.schema_id
              /\ count.value \in {0, 1} /\ index.value = schema.message_index
              /\ Len(r.payload) = index.next

\* All pipelines together ask every parser about every value it is there for, whichever
\* parser or handler failed before.
EveryParserAsked ==
  phase = "finished" =>
    asked = ({0} \X TxnPipelines) \cup IF Built THEN Ids \X ToSet(Pipelines) ELSE {}

\* The handlers of one parser are given the same values in the order of execution, also
\* when one of them fails; while a value is with them, or when a panic ends the job, some
\* may not have had it, and no handler has had a later one.
HandlersAgree ==
  \A c, d \in Handlers : c[1] = d[1] =>
    LET s == served[c]
        r == served[d]
        waiting == {Current(l)[1] : l \in {m \in Lanes : lanes[m].running # {} /\ Current(m)[2] = c[1]}}
    IN /\ \A i, j \in DOMAIN s : i < j => s[i] < s[j]
       /\ s = r \/ \E v \in waiting : s = Append(r, v) \/ r = Append(s, v)

\* Every error is reported once: not again by the runtime that the pipeline returns to,
\* and not lost to a later error.  An error is unreported only while other handlers of the
\* same value still run; a panic at that moment loses it, and nothing else.
ReportedOnce ==
  LET unreported == UNION {lanes[l].errs : l \in Lanes}
  IN /\ BagToSet(reports) = failures \ unreported
     /\ \A e \in BagToSet(reports) : reports[e] = 1
     /\ \A l \in Lanes : lanes[l].errs # {} => phase # "finished" /\ lanes[l].running # {}

\* Tree and paths, rebuilt separately from the stack heights, are both the call tree as far
\* as the heights tell it, and both keep the order of execution where they do not.
CallsRebuilt == TypeOK /\ TreeIsCallTree /\ PathsAreTreePositions /\ VisitsFollowExecution

\* The log lines given to an instruction are its own up to where the log was cut; after
\* that they still nest as the calls do.
LogsFollowCalls == LogsBelongToTheirInstruction /\ CutLogsStayNested

\* The coordinator learns of a transaction all it needs to release the slot: every
\* instruction once, in an order that is the order of execution, and the end last; and a
\* consumer of the records can read them.
SinkAccountsForAll ==
  /\ GateCountedOnceAndLast /\ EveryInstructionCounted
  /\ KeysFollowExecution /\ SchemasLeadToTheirMessage /\ ConsumersDecode

\* A parser or handler that fails keeps no other from its values, and no failure goes
\* unreported; a panic costs only what its own update still had to do, and the errors that
\* waited for other handlers of the same value.
FailuresIsolated == EveryParserAsked /\ HandlersAgree /\ ReportedOnce
=============================================================================
