------------------------------ MODULE Runtime ------------------------------
(***************************************************************************)
(* shipstern-runtime: one run of Runtime::try_run.  The supervisor          *)
(* (try_run_async) waits for a signal, for the source task to report how it *)
(* ended, or for the buffer task to end; the buffer task takes updates from *)
(* the source's channel, waits for one of Jobs permits for each and hands   *)
(* it to the bridge thread, which spawns one job per update; a permit       *)
(* travels with its job until the job ends.  When try_run returns it drops  *)
(* the Tokio runtime and with it every job that is still running.           *)
(*                                                                          *)
(* Updates are numbered in the order the source sends them; StreamError is  *)
(* an Err(Status) on the same channel.  The ways a source can fail (an Err, *)
(* a panic, StreamEnded, StreamError, Error) differ in the error that       *)
(* try_run returns only, and are one status here.  A handler that is        *)
(* Wedged never returns; every other job ends, by returning, with an error  *)
(* or by a panic that its task contains.                                    *)
(***************************************************************************)
EXTENDS Integers, Sequences, FiniteSets

CONSTANTS
    JobsSetting,    \* BufferConfig.jobs
    ChannelSize,    \* BufferConfig.sources_channel_size
    Wedged,         \* updates whose handler never returns
    MaxUpdates      \* bound: updates the source sends

ASSUME RuntimeAssumption ==
    /\ JobsSetting \in Nat /\ ChannelSize \in Nat \ {0} /\ MaxUpdates \in Nat
    /\ Wedged \subseteq 1..MaxUpdates

Updates == 1..MaxUpdates
StreamError == 0
NoUpdate == 0
Statuses == {"None", "Completed", "ReceiverDropped", "Failed"}

(* The number of jobs is clamped.                                          *)
Jobs == IF JobsSetting = 0 THEN 1 ELSE JobsSetting

VARIABLES
    src,        \* source task: "running", "returned", "reported", "exited"
    status,     \* what connect returned
    sent,       \* number of updates sent
    erred,      \* the source sent an error on the channel
    stream,     \* the channel from the source to the buffer task
    prod,       \* buffer task: "recv", "permit", "break", "drop", "drain",
                \*   "join", "done"
    cur,        \* the update that waits for a permit
    drain,      \* the loop ended on a closed channel
    result,     \* what the loop ended with: "Ok" or "Err"
    timedOut,   \* the drain gave up at its ceiling
    abort,      \* the abort flag
    free,       \* permits in the semaphore
    queue,      \* the channel from the buffer task to the bridge
    bridge,     \* bridge thread: "recv", "check", "spawn", "exited"
    job,        \* the job the bridge holds
    running,    \* jobs that were spawned and have not ended
    ended,      \* jobs that ended
    main,       \* supervisor: "signal", "status", "buffer" (the branch of the
                \*   select to poll next), "joining", "waiting", "returned",
                \*   "dropped"
    signal,     \* a signal has arrived
    stop,       \* the stop channel was used or its sender dropped
    outcome     \* what try_run returns: "None", "Ok" or "Err"

sourceVars == <<src, status, sent, erred>>
producerVars == <<prod, cur, drain, result, timedOut, abort>>
bridgeVars == <<bridge, job>>
jobVars == <<running, ended>>
mainVars == <<main, signal, stop, outcome>>
vars == <<sourceVars, stream, producerVars, free, queue, bridgeVars, jobVars,
          mainVars>>

Init ==
    /\ src = "running" /\ status = "None" /\ sent = 0 /\ erred = FALSE
    /\ stream = <<>>
    /\ prod = "recv" /\ cur = NoUpdate /\ drain = FALSE /\ result = "Ok"
    /\ timedOut = FALSE /\ abort = FALSE
    /\ free = Jobs /\ queue = <<>>
    /\ bridge = "recv" /\ job = NoUpdate
    /\ running = {} /\ ended = {}
    /\ main = "signal" /\ signal = FALSE /\ stop = FALSE /\ outcome = "None"

-----------------------------------------------------------------------------
(* No task runs once the Tokio runtime was dropped.                        *)
Live == main # "dropped"

(* The source task.  The receiver lives as long as the buffer task.        *)

ReceiverOpen == prod # "done"

Send(item) ==
    /\ Live /\ src = "running" /\ ReceiverOpen
    /\ Len(stream) < ChannelSize
    /\ stream' = Append(stream, item)
    /\ UNCHANGED <<src, status, producerVars, free, queue, bridgeVars, jobVars,
                   mainVars>>

SendUpdate ==
    /\ sent < MaxUpdates
    /\ Send(sent + 1)
    /\ sent' = sent + 1 /\ UNCHANGED erred

(* A source forwards a stream error and may go on (Fumarole) or return.    *)
SendError ==
    /\ ~erred
    /\ Send(StreamError)
    /\ erred' = TRUE /\ UNCHANGED sent

(* connect returns, which drops the source's own sender: with              *)
(* ReceiverDropped only after a send that failed.                          *)
SourceReturns ==
    /\ Live /\ src = "running"
    /\ \/ status' \in {"Completed", "Failed"}
       \/ ~ReceiverOpen /\ status' = "ReceiverDropped"
    /\ src' = "returned"
    /\ UNCHANGED <<sent, erred, stream, producerVars, free, queue, bridgeVars,
                   jobVars, mainVars>>

(* status_tx.send, or its drop when connect panicked; then                 *)
(* drop(status_guard), the last sender of the channel.                     *)
SourceReports ==
    /\ Live
    /\ \/ src = "returned" /\ src' = "reported"
       \/ src = "reported" /\ src' = "exited"
    /\ UNCHANGED <<status, sent, erred, stream, producerVars, free, queue,
                   bridgeVars, jobVars, mainVars>>

StreamClosed == src = "exited"

-----------------------------------------------------------------------------
(* The buffer task *)

othersOfProducer == <<sourceVars, bridgeVars, jobVars, mainVars>>

(* The loop ends with (res, drain).                                        *)
Break(res, drains) ==
    /\ prod' = "break" /\ result' = res /\ drain' = drains
    /\ UNCHANGED <<timedOut, abort, free, queue>>

(* stream.recv(): an update, an error, or the closed channel.              *)
Receive ==
    /\ Live /\ prod = "recv"
    /\ \/ /\ stream # <<>> /\ Head(stream) # StreamError
          /\ stream' = Tail(stream) /\ cur' = Head(stream) /\ prod' = "permit"
          /\ UNCHANGED <<drain, result, timedOut, abort, free, queue>>
       \/ /\ stream # <<>> /\ Head(stream) = StreamError
          /\ stream' = Tail(stream)
          /\ Break("Err", FALSE) /\ UNCHANGED cur
       \/ /\ stream = <<>> /\ StreamClosed
          /\ Break("Ok", TRUE) /\ UNCHANGED <<stream, cur>>
    /\ UNCHANGED othersOfProducer

(* The stop branch of both selects; of the first only for comparison.      *)
StopWhileReceiving ==
    /\ Live /\ prod = "recv" /\ stop
    /\ Break("Ok", FALSE)
    /\ UNCHANGED <<stream, cur, othersOfProducer>>
TakeStop ==
    /\ Live /\ prod \in {"recv", "permit"} /\ stop
    /\ Break("Ok", FALSE)
    /\ UNCHANGED <<stream, cur, othersOfProducer>>

(* acquire_owned and the send to the bridge, with no await between them.   *)
AcquirePermit ==
    /\ Live /\ prod = "permit" /\ free > 0
    /\ free' = free - 1
    /\ queue' = Append(queue, cur)
    /\ prod' = "recv" /\ cur' = NoUpdate
    /\ UNCHANGED <<stream, drain, result, timedOut, abort, othersOfProducer>>

AbortAlways ==
    /\ Live /\ prod = "break" /\ prod' = "drop"
    /\ abort' = TRUE
    /\ UNCHANGED <<stream, cur, drain, result, timedOut, free, queue,
                   othersOfProducer>>
StoreAbort ==
    /\ Live /\ prod = "break" /\ prod' = "drop"
    /\ abort' = ~drain
    /\ UNCHANGED <<stream, cur, drain, result, timedOut, free, queue,
                   othersOfProducer>>

DropSender ==
    /\ Live /\ prod = "drop" /\ prod' = "drain"
    /\ UNCHANGED <<stream, cur, drain, result, timedOut, abort, free, queue,
                   othersOfProducer>>

(* acquire_many(jobs) in time, or the ceiling; without the wait for        *)
(* comparison.                                                             *)
DrainNotWaiting ==
    /\ Live /\ prod = "drain" /\ prod' = "join"
    /\ UNCHANGED <<stream, cur, drain, result, timedOut, abort, free, queue,
                   othersOfProducer>>
DrainInFlight ==
    /\ Live /\ prod = "drain" /\ prod' = "join"
    /\ timedOut' = (free < Jobs)
    /\ UNCHANGED <<stream, cur, drain, result, abort, free, queue,
                   othersOfProducer>>

JoinBridge ==
    /\ Live /\ prod = "join" /\ bridge = "exited" /\ prod' = "done"
    /\ UNCHANGED <<stream, cur, drain, result, timedOut, abort, free, queue,
                   othersOfProducer>>

SenderDropped == prod \in {"drain", "join", "done"}

-----------------------------------------------------------------------------
(* The bridge thread *)

othersOfBridge == <<sourceVars, stream, producerVars, mainVars>>

BridgeReceive ==
    /\ Live /\ bridge = "recv"
    /\ \/ /\ queue # <<>>
          /\ job' = Head(queue) /\ queue' = Tail(queue) /\ bridge' = "check"
       \/ /\ queue = <<>> /\ SenderDropped
          /\ bridge' = "exited" /\ UNCHANGED <<job, queue>>
    /\ UNCHANGED <<free, jobVars, othersOfBridge>>

(* The abort flag is read once per job: a discarded job gives its permit   *)
(* back.  For comparison, the permit given back in either case.            *)
BridgeCheckReleasing ==
    /\ Live /\ bridge = "check"
    /\ bridge' = (IF abort THEN "recv" ELSE "spawn")
    /\ job' = (IF abort THEN NoUpdate ELSE job)
    /\ free' = free + 1
    /\ UNCHANGED <<queue, jobVars, othersOfBridge>>
BridgeCheck ==
    /\ Live /\ bridge = "check"
    /\ \/ /\ abort
          /\ bridge' = "recv" /\ job' = NoUpdate /\ free' = free + 1
       \/ /\ ~abort
          /\ bridge' = "spawn" /\ UNCHANGED <<job, free>>
    /\ UNCHANGED <<queue, jobVars, othersOfBridge>>

BridgeSpawn ==
    /\ Live /\ bridge = "spawn"
    /\ running' = running \cup {job}
    /\ bridge' = "recv" /\ job' = NoUpdate
    /\ UNCHANGED <<ended, free, queue, othersOfBridge>>

-----------------------------------------------------------------------------
(* A job ends: its handlers returned, failed or panicked, and its permit   *)
(* is dropped.  For comparison, a job that keeps it.                       *)
EndJobLeaking(u) ==
    /\ Live /\ u \in running \ Wedged
    /\ running' = running \ {u} /\ ended' = ended \cup {u}
    /\ UNCHANGED <<free, queue, bridgeVars, othersOfBridge>>
EndJob(u) ==
    /\ Live /\ u \in running \ Wedged
    /\ running' = running \ {u} /\ ended' = ended \cup {u}
    /\ free' = free + 1
    /\ UNCHANGED <<queue, bridgeVars, othersOfBridge>>

-----------------------------------------------------------------------------
(* The supervisor.  The biased select polls its branches one after the     *)
(* other; other threads run between two polls.                             *)

othersOfMain == <<sourceVars, stream, producerVars, free, queue, bridgeVars,
                  jobVars>>

SignalArrives ==
    /\ Live /\ ~signal /\ signal' = TRUE
    /\ UNCHANGED <<main, stop, outcome, othersOfMain>>

(* Buffer::join: the stop is sent, then the buffer task awaited.           *)
ForceStop == stop' = TRUE /\ main' = "joining" /\ UNCHANGED outcome

(* Signals first, then the status, then the buffer; for comparison, a      *)
(* select that is not biased after the signals.                            *)
PollUnbiased ==
    /\ main = "signal"
    /\ \/ signal /\ ForceStop
       \/ ~signal /\ main' \in {"status", "buffer"} /\ UNCHANGED <<stop, outcome>>
    /\ UNCHANGED <<signal, othersOfMain>>
PollSignal ==
    /\ main = "signal"
    /\ \/ signal /\ ForceStop
       \/ ~signal /\ main' = "status" /\ UNCHANGED <<stop, outcome>>
    /\ UNCHANGED <<signal, othersOfMain>>

Reported == src \in {"reported", "exited"}

(* On a failure try_run_async returns at once; returning drops the stop    *)
(* sender, which stops the buffer task as a stop does.                     *)
PollStatus ==
    /\ main = "status"
    /\ \/ ~Reported /\ main' = "buffer" /\ UNCHANGED <<stop, outcome>>
       \/ Reported /\ status = "ReceiverDropped" /\ ForceStop
       \/ /\ Reported /\ status = "Completed"
          /\ main' = "waiting" /\ UNCHANGED <<stop, outcome>>
       \/ /\ Reported /\ status = "Failed"
          /\ main' = "returned" /\ outcome' = "Err" /\ stop' = TRUE
    /\ UNCHANGED <<signal, othersOfMain>>

PollBuffer ==
    /\ main = "buffer"
    /\ \/ prod = "done" /\ main' = "returned" /\ outcome' = result
       \/ prod # "done" /\ main' = "signal" /\ UNCHANGED outcome
    /\ UNCHANGED <<stop, signal, othersOfMain>>

(* force_stop_buffer logs the buffer's error and drops it; for comparison, *)
(* one that does not await the buffer task.                                *)
JoinNotWaiting ==
    /\ main = "joining"
    /\ main' = "returned" /\ outcome' = "Ok"
    /\ UNCHANGED <<stop, signal, othersOfMain>>
BufferJoined ==
    /\ main = "joining" /\ prod = "done"
    /\ main' = "returned" /\ outcome' = "Ok"
    /\ UNCHANGED <<stop, signal, othersOfMain>>

(* Buffer::wait_for_stop after the source completed; for comparison, one   *)
(* whose result is not passed on.                                          *)
BufferStoppedOk ==
    /\ main = "waiting" /\ prod = "done"
    /\ main' = "returned" /\ outcome' = "Ok"
    /\ UNCHANGED <<stop, signal, othersOfMain>>
BufferStopped ==
    /\ main = "waiting" /\ prod = "done"
    /\ main' = "returned" /\ outcome' = result
    /\ UNCHANGED <<stop, signal, othersOfMain>>

(* try_run drops the Tokio runtime: no task runs after this.               *)
DropRuntime ==
    /\ main = "returned" /\ main' = "dropped"
    /\ UNCHANGED <<stop, signal, outcome, othersOfMain>>

-----------------------------------------------------------------------------
Source == SendUpdate \/ SendError \/ SourceReturns \/ SourceReports

Producer ==
    Receive \/ TakeStop \/ AcquirePermit \/ StoreAbort \/ DropSender
        \/ DrainInFlight \/ JoinBridge

Bridge == BridgeReceive \/ BridgeCheck \/ BridgeSpawn

Supervisor ==
    PollSignal \/ PollStatus \/ PollBuffer \/ BufferJoined \/ BufferStopped
        \/ DropRuntime

Next ==
    Source \/ Producer \/ Bridge \/ (\E u \in Updates : EndJob(u))
        \/ SignalArrives \/ Supervisor

Spec == Init /\ [][Next]_vars

(* Tokio and the OS run every task and thread that can run; nothing is     *)
(* assumed of signals, of the source before it returns, or of a wedged     *)
(* handler.                                                                *)
Fairness ==
    /\ WF_vars(SourceReports)
    /\ WF_vars(Producer)
    /\ WF_vars(Bridge)
    /\ \A u \in Updates : WF_vars(EndJob(u))
    /\ WF_vars(Supervisor)

FairSpec == Spec /\ Fairness

-----------------------------------------------------------------------------
(* Properties *)

(* Every variable keeps its type; in particular the semaphore never holds  *)
(* more permits than it was created with.                                  *)
TypeOK ==
    /\ src \in {"running", "returned", "reported", "exited"}
    /\ status \in Statuses
    /\ sent \in 0..MaxUpdates /\ erred \in BOOLEAN
    /\ stream \in Seq(Updates \cup {StreamError})
    /\ prod \in {"recv", "permit", "break", "drop", "drain", "join", "done"}
    /\ cur \in Updates \cup {NoUpdate}
    /\ drain \in BOOLEAN /\ result \in {"Ok", "Err"}
    /\ timedOut \in BOOLEAN /\ abort \in BOOLEAN
    /\ free \in 0..Jobs
    /\ queue \in Seq(Updates)
    /\ bridge \in {"recv", "check", "spawn", "exited"}
    /\ job \in Updates \cup {NoUpdate}
    /\ running \subseteq Updates /\ ended \subseteq Updates
    /\ main \in {"signal", "status", "buffer", "joining", "waiting",
                 "returned", "dropped"}
    /\ signal \in BOOLEAN /\ stop \in BOOLEAN
    /\ outcome \in {"None", "Ok", "Err"}

(* Permits that left the semaphore with a job the bridge holds.            *)
BridgeHolds == IF bridge \in {"check", "spawn"} THEN 1 ELSE 0

(* buffer.rs:219, "Moves the permit into the task so the slot is held      *)
(* until the job ends": every permit is in the semaphore, or with a job    *)
(* that is queued, held by the bridge or running, so that no more than     *)
(* Jobs run at once and the drain barrier cannot wait for a lost permit.   *)
PermitsConserved ==
    free + Len(queue) + BridgeHolds + Cardinality(running) = Jobs

(* buffer.rs:272, the drain barrier: once the buffer task is past it and   *)
(* it did not time out, no job runs, and none can start.                   *)
BarrierSound ==
    prod \in {"join", "done"} /\ ~timedOut =>
        running = {} /\ queue = <<>> /\ BridgeHolds = 0

(* buffer.rs:299, "cancelling anything still running mid-write": when      *)
(* try_run returned Ok and the drain did not give up, the Tokio runtime    *)
(* is dropped with no job running, stops included.                         *)
HandlersNotCutOff ==
    main = "dropped" /\ outcome = "Ok" /\ ~timedOut => running = {}

(* A source that completed and was not interrupted had every update it     *)
(* sent processed before try_run returned Ok.                              *)
CleanExitDrained ==
    outcome = "Ok" /\ status = "Completed" /\ ~stop /\ ~timedOut =>
        ended = 1..sent

(* "Stop stays selected so a hung pool can still abort": after a stop the  *)
(* run ends, wedged handlers and a full permit pool notwithstanding.       *)
StopReturns == main = "joining" ~> main = "dropped"

(* buffer.rs:64, updates left in the channel are drained: a run whose      *)
(* source completed ends, unless a handler that never returns is running.  *)
OnlyStuckHandlersHold ==
    status = "Completed" ~> (main = "dropped" \/ running \cap Wedged # {})

(* runtime_tests.rs:1139, "a stream error must surface as an error": the   *)
(* run a stream error ended does not return Ok, unless a signal stopped it *)
(* too or the source, whose receiver is gone, reports ReceiverDropped      *)
(* before the supervisor has polled the buffer.                            *)
StreamErrorSurfaces ==
    result = "Err" /\ ~signal /\ status # "ReceiverDropped" => outcome # "Ok"

(* lib.rs:374, "a source Err must not be read as the buffer's clean        *)
(* Ok(())": a failure reported before a round of the select polls for it   *)
(* is what the run returns, however soon the buffer closes after it,       *)
(* unless a signal comes first.                                            *)
SourceErrorSurfaces ==
    Reported /\ status = "Failed" /\ main \in {"signal", "status"}
        ~> outcome = "Err" \/ signal

(* Every run comes to its end, after a stop in any case and after the      *)
(* source's completion unless a handler never returns.                     *)
RunReturns == StopReturns /\ OnlyStuckHandlersHold

(* What went wrong reaches the caller of try_run, in the buffer and in the *)
(* source.                                                                 *)
ErrorsSurface == []StreamErrorSurfaces /\ SourceErrorSurfaces

(* A run that returned Ok has finished what it took on: its handlers ran   *)
(* to their end, and of a source that completed every update was handled.  *)
OkMeansFinished == HandlersNotCutOff /\ CleanExitDrained
=============================================================================
