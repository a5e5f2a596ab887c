------------------------------ MODULE AccountPath ------------------------------
(***************************************************************************)
(* Account updates from a source to one of their three consumers:          *)
(*   "stream"       the parsers of a stream server and its gRPC clients,   *)
(*   "passthrough"  kafka-sink's PassthroughAccountHandler and the         *)
(*                  AccountPassthroughSink behind a channel,               *)
(*   "buffered"     kafka-sink's BufferingHandler, which tells the         *)
(*                  coordinator.                                           *)
(* The runtime between them (module Runtime) takes updates in order, runs  *)
(* the handlers of several updates at once, and may stop at any time.      *)
(***************************************************************************)
EXTENDS AccountSources, StreamServer, SinkRecords

CONSTANTS
  Bounds,           \* the consumers that are checked, and the bounds of the source for each
  StreamParsers,    \* parsers that a stream server may be given
  MaxParsers,       \* bound: how many it is given
  SinkParsers,      \* the sink's account parsers
  Schemas,          \* the registered schemas, by topic
  OutcomeOf,        \* what each of these parsers makes of each account
  Undecoded,        \* accounts that the stream server's parsers filter out
  Malformed,        \* accounts whose key has the wrong length
  Jobs,             \* updates handled at once
  WriteAttempts     \* the sink's attempts at a write

ASSUME BoundsAssumption == \A c \in DOMAIN Bounds : Bounds[c].slots \in Nat

VARIABLES
  consumer,
  jobs,        \* handlers that are running: [account, slot, version, ids, pipeline]
  handled,     \* handlers that have ended, in order
  run,         \* "running", "draining", "failing", and at the end "ok", "stopped" or "err"
  rec,         \* records on their way to the passthrough sink
  sink,        \* the passthrough sink: [pc, slot, message, attempt]
  topic,       \* what it has published: [watermark, slot, key]
  events,      \* what the coordinator has received
  open,        \* the coordinator or the passthrough sink receives
  cancelled

consumerVars == <<rec, sink, topic, events, open, cancelled>>
vars == <<sourceVars, filters, chan, rxOpen, serverVars, consumer, jobs, handled, run, consumerVars>>

\* AccountSubscription: the owners of all account parsers of the sink; and a slot pipeline.
Subscription == [id |-> "kafka-sink::AccountSubscription", kind |-> "account", program |-> "sink"]
SlotPipeline == [id |-> "slots", kind |-> "slot", program |-> "sink"]
OwnersOf(parser) ==
  IF parser = Subscription THEN {SinkParsers[i].program_id : i \in DOMAIN SinkParsers} ELSE {parser.program}

\* A snapshot loads accounts that there are, the channels are bounded, and a parser is of
\* one of the runtime's kinds; None is neither an account nor an update.
AllParsers == StreamParsers \cup {Subscription, SlotPipeline}
ASSUME PathAssumption ==
  /\ Loadable \subseteq Accounts /\ None \notin Accounts
  /\ ChannelSize \in Nat /\ SyncSize \in Nat /\ WriteAttempts \in Nat \ {0}
  /\ \A p \in AllParsers : \E k \in DOMAIN Kinds : p.kind = Kinds[k]
  /\ None # Finished
  /\ None \notin [account : Accounts, slot : Nat, version : Nat,
                   filters : SUBSET {FilterId(p) : p \in AllParsers}]

Init ==
  /\ SourceInit /\ filters = <<>>
  /\ consumer \in DOMAIN Bounds /\ bounds = Bounds[consumer]
  /\ registered = IF consumer = "stream" THEN <<>> ELSE <<Subscription, SlotPipeline>>
  /\ buildErr = "none" /\ server = "building" /\ sent = <<>> /\ closed = FALSE
  /\ clients = [c \in Clients |-> NoClient]
  /\ jobs = {} /\ handled = <<>> /\ run = "running"
  /\ rec = <<>> /\ sink = [pc |-> "recv", slot |-> 0, message |-> None, attempt |-> 1]
  /\ topic = <<>> /\ events = <<>> /\ open = TRUE /\ cancelled = FALSE

Running == server = "up" /\ run \in {"running", "draining", "failing"}

-----------------------------------------------------------------------------
(* The builder and the server.                                             *)

Register ==
  /\ consumer = "stream" /\ Len(registered) < MaxParsers
  /\ \E p \in StreamParsers : Insert(p)
  /\ UNCHANGED <<sourceVars, filters, chan, rxOpen, consumer, jobs, handled, run, consumerVars>>

BuildAll ==
  /\ Build
  /\ filters' = FiltersOf(registered, [i \in DOMAIN registered |-> OwnersOf(registered[i])])
  /\ UNCHANGED <<sourceVars, chan, rxOpen, consumer, jobs, handled, run, consumerVars>>

Source ==
  /\ Running /\ SourceStep
  /\ UNCHANGED <<filters, rxOpen, serverVars, consumer, jobs, handled, run, consumerVars>>

Client(c) ==
  /\ consumer = "stream"
  /\ Poll(c) \/ StreamEnds(c)
  /\ UNCHANGED <<sourceVars, filters, chan, rxOpen, consumer, jobs, handled, run, consumerVars>>

ClientSubscribes(c) ==
  /\ consumer = "stream" /\ run = "running"
  /\ \E i \in DOMAIN registered : Subscribe(c, {registered[i].program})
  /\ UNCHANGED <<sourceVars, filters, chan, rxOpen, consumer, jobs, handled, run, consumerVars>>

-----------------------------------------------------------------------------
(* The runtime.                                                            *)

\* get_pipelines: an update's filters name the pipelines that handle it.
JobsOf(u) ==
  {[account |-> u.account, slot |-> u.slot, version |-> u.version, ids |-> u.filters, pipeline |-> i] :
     i \in {PipelineAt(registered, "account", id) : id \in u.filters} \ {0}}

\* Updates that are being handled: all handlers of one update hold one permit.
Updates == {<<job.account, job.slot, job.version, job.ids>> : job \in jobs}

\* An error of the stream ends the buffer's loop; other updates are handled in any order.
RuntimeTakes ==
  /\ Running /\ rxOpen /\ chan # <<>> /\ Cardinality(Updates) < Jobs
  /\ IF Head(chan) = StreamError
     THEN run' = "failing" /\ rxOpen' = FALSE /\ chan' = <<>> /\ UNCHANGED jobs
     ELSE /\ chan' = Tail(chan) /\ UNCHANGED <<run, rxOpen>>
          /\ jobs' = jobs \cup (IF Head(chan).account = None THEN {} ELSE JobsOf(Head(chan)))
  /\ UNCHANGED <<sourceVars, filters, serverVars, consumer, handled, consumerVars>>

\* A signal: the buffer takes no more updates.
RuntimeStops ==
  /\ Running /\ run = "running"
  /\ run' = "draining" /\ rxOpen' = FALSE /\ chan' = <<>>
  /\ UNCHANGED <<sourceVars, filters, serverVars, consumer, jobs, handled, consumerVars>>

\* What try_run_async returns, and when.  A source that failed, or whose stream ended, is
\* an error at once, and the handlers still running are dropped; otherwise the buffer is
\* drained first.  The source's result goes before the buffer's.
RuntimeReturns ==
  /\ Running
  /\ \/ run \in {"running", "failing"} /\ src \in {"error", "stream_ended"} /\ run' = "err" /\ jobs' = {}
     \/ run = "failing" /\ jobs = {} /\ UNCHANGED jobs
        /\ run' = IF src = "receiver_dropped" THEN "stopped" ELSE "err"
     \/ run = "draining" /\ jobs = {} /\ run' = "stopped" /\ UNCHANGED jobs
     \/ run = "running" /\ src = "completed" /\ jobs = {} /\ chan = <<>> /\ run' = "ok" /\ UNCHANGED jobs
  /\ rxOpen' = FALSE /\ chan' = <<>>
  /\ ServerStopping(run' # "err")
  /\ UNCHANGED <<sourceVars, filters, consumer, handled, consumerVars>>

Stopped ==
  /\ ServerStopped
  /\ UNCHANGED <<sourceVars, filters, chan, rxOpen, consumer, jobs, handled, run, consumerVars>>

-----------------------------------------------------------------------------
(* Handlers.                                                               *)

End(job) == jobs' = jobs \ {job} /\ handled' = Append(handled, job)

StreamHandles(job) ==
  /\ consumer = "stream" /\ Running /\ End(job)
  /\ IF job.account \in Undecoded THEN UNCHANGED sent ELSE Broadcast(job.pipeline, job)
  /\ UNCHANGED <<sourceVars, filters, chan, rxOpen, registered, buildErr, server, closed, clients,
                 consumer, run, consumerVars>>

ParseAccount(job) ==
  ParseWith(SinkParsers, Schemas, OwnerOf[job.account], OutcomeOf[job.account],
            MakeAccountRecordKey(job.slot, job.account, job.version), <<1>>, "account")

\* PassthroughAccountHandler: every account is sent on, with a record or without.
PassthroughHandles(job) ==
  /\ consumer = "passthrough" /\ Running /\ End(job)
  /\ \/ /\ open /\ Len(rec) < ChannelSize
        /\ rec' = Append(rec, [slot |-> job.slot, record |-> ParseAccount(job).record])
        /\ UNCHANGED cancelled
     \/ ~open /\ cancelled' = TRUE /\ UNCHANGED rec
  /\ UNCHANGED <<sourceVars, filters, chan, rxOpen, serverVars, consumer, run, sink, topic, events, open>>

\* A mutation: a fallback record of a malformed account is sent and counted.
AccountEventsBoth(job) ==
  LET result == ParseAccount(job)
  IN [i \in DOMAIN result.record |-> "account_parsed"]
       \o (IF result.had_error \/ job.account \in Malformed THEN <<"account_error">>
           ELSE IF result.record = <<>> THEN <<"account_filtered">> ELSE <<>>)

\* BufferingHandler: a record, or a count.
AccountEvents(job) ==
  LET result == ParseAccount(job)
  IN CASE result.record # <<>> /\ job.account \in Malformed -> <<"account_error">>
       [] result.record # <<>> /\ job.account \notin Malformed -> <<"account_parsed">>
       [] result.record = <<>> /\ result.had_error -> <<"account_error">>
       [] result.record = <<>> /\ ~result.had_error -> <<"account_filtered">>

BufferingHandles(job) ==
  /\ consumer = "buffered" /\ Running /\ End(job)
  /\ \/ open /\ events' = events \o AccountEvents(job) /\ UNCHANGED <<open, cancelled>>
     \/ open' = FALSE /\ cancelled' = TRUE /\ UNCHANGED events
  /\ UNCHANGED <<sourceVars, filters, chan, rxOpen, serverVars, consumer, run, rec, sink, topic>>

-----------------------------------------------------------------------------
(* AccountPassthroughSink.                                                 *)

sinkOthers == <<sourceVars, filters, chan, rxOpen, serverVars, consumer, jobs, handled, run, events, cancelled>>

Written(message) ==
  [watermark |-> FALSE, slot |-> message.slot, key |-> message.record[1].key]
Watermark(slot) == [watermark |-> TRUE, slot |-> slot, key |-> None]

\* What follows the record of a message: the watermark of the slot before, if the message
\* is of a later slot than all before it.
AfterRecord(s, message) ==
  IF s.slot # 0 /\ message.slot > s.slot
  THEN [s EXCEPT !.pc = "watermark", !.message = message, !.attempt = 1]
  ELSE [s EXCEPT !.pc = "recv", !.message = None, !.attempt = 1,
                 !.slot = IF s.slot = 0 THEN message.slot ELSE @]

SinkReceives ==
  /\ consumer = "passthrough" /\ sink.pc = "recv" /\ rec # <<>>
  /\ rec' = Tail(rec)
  /\ sink' = IF Head(rec).record = <<>> THEN AfterRecord(sink, Head(rec))
             ELSE [sink EXCEPT !.pc = "record", !.message = Head(rec), !.attempt = 1]
  /\ UNCHANGED <<topic, open, sinkOthers>>

\* A mutation: the sink ends without a watermark for its last slot.
SinkClosesSilently ==
  /\ consumer = "passthrough" /\ sink.pc = "recv" /\ rec = <<>> /\ run \in {"ok", "stopped", "err"}
  /\ sink' = [sink EXCEPT !.pc = "done"]
  /\ UNCHANGED <<rec, topic, open, sinkOthers>>

\* The handlers are gone and the channel is empty: the last watermark.
SinkCloses ==
  /\ consumer = "passthrough" /\ sink.pc = "recv" /\ rec = <<>> /\ run \in {"ok", "stopped", "err"}
  /\ sink' = [sink EXCEPT !.pc = IF sink.slot = 0 THEN "done" ELSE "last", !.attempt = 1]
  /\ UNCHANGED <<rec, topic, open, sinkOthers>>

\* One attempt at a write: it succeeds, or an error is reported whether it was written or
\* not, and with the last attempt the sink ends.
Attempt(line, next) ==
  \/ topic' = Append(topic, line) /\ sink' = next /\ UNCHANGED <<open, rec>>
  \/ /\ topic' \in {topic, Append(topic, line)}
     /\ IF sink.attempt < WriteAttempts
        THEN sink' = [sink EXCEPT !.attempt = @ + 1] /\ UNCHANGED <<open, rec>>
        ELSE sink' = [sink EXCEPT !.pc = "failed"] /\ open' = FALSE /\ rec' = <<>>

SinkWritesRecord ==
  /\ sink.pc = "record"
  /\ Attempt(Written(sink.message), AfterRecord(sink, sink.message))
  /\ UNCHANGED sinkOthers

\* A mutation: the watermark is that of the slot that begins.
WatermarkOfNext(s) == s.message.slot

WatermarkSlot(s) == s.slot

SinkWritesWatermark ==
  /\ sink.pc = "watermark"
  /\ Attempt(Watermark(WatermarkSlot(sink)),
             [sink EXCEPT !.pc = "recv", !.slot = sink.message.slot, !.message = None, !.attempt = 1])
  /\ UNCHANGED sinkOthers

SinkWritesLast ==
  /\ sink.pc = "last"
  /\ Attempt(Watermark(sink.slot), [sink EXCEPT !.pc = "done", !.attempt = 1])
  /\ UNCHANGED sinkOthers

Passthrough == SinkReceives \/ SinkCloses \/ SinkWritesRecord \/ SinkWritesWatermark \/ SinkWritesLast

Handlers == \E job \in jobs : StreamHandles(job) \/ PassthroughHandles(job) \/ BufferingHandles(job)

\* Everything has ended, or the server waits for its streams to end.
Idle ==
  /\ server \in {"rejected", "stopping", "stopped", "abandoned"}
  /\ consumer = "passthrough" => sink.pc \in {"done", "failed"} \/ server = "rejected"
  /\ UNCHANGED vars

Next ==
  \/ Register \/ BuildAll \/ Source
  \/ \E c \in Clients : Client(c) \/ ClientSubscribes(c)
  \/ RuntimeTakes \/ RuntimeStops \/ RuntimeReturns \/ Stopped
  \/ Handlers \/ Passthrough
  \/ Idle

\* The tasks of the source, the runtime and the server are scheduled, and clients read.
Fairness ==
  /\ WF_vars(Source) /\ WF_vars(RuntimeTakes) /\ WF_vars(RuntimeReturns) /\ WF_vars(Stopped)
  /\ WF_vars(Handlers) /\ WF_vars(Passthrough)
  /\ \A c \in Clients : WF_vars(Client(c))

Spec == Init /\ [][Next]_vars /\ Fairness

-----------------------------------------------------------------------------
(* Properties.                                                             *)

TypeOK ==
  /\ src \in Results \cup {"connect", "running", "slot", "scan", "finishing", "failing"}
  /\ Len(chan) <= ChannelSize /\ Len(sync) <= SyncSize /\ Len(rec) <= ChannelSize
  /\ server \in {"building", "rejected", "up", "stopping", "stopped", "abandoned"}
  /\ \A c \in Clients : \A i \in DOMAIN clients[c].at : clients[c].tries[i] \in 0 .. MaxTries
  /\ sink.attempt \in 1 .. WriteAttempts
  /\ \A i \in DOMAIN handled : registered[handled[i].pipeline].kind = "account"

HandledBy(i) == {h \in DOMAIN handled : handled[h].pipeline = i}

\* A pipeline whose id no pipeline of another kind has.  (For others the one map of
\* prefilters keeps only one of the two.)
Alone(i) == \A j \in DOMAIN registered : j # i => FilterId(registered[j]) # registered[i].id

\* When solana-rpc-source or solana-snapshot-source completes and the runtime was not
\* stopped, every account pipeline that was registered has handled every account of its
\* owners, once; and whatever happened, never an account twice.
CompletedMeansServed ==
  source # "fumarole" =>
    \A i \in DOMAIN registered :
      registered[i].kind = "account" /\ server \in {"up", "stopping", "stopped", "abandoned"} =>
        LET mine == {a \in Accounts : OwnerOf[a] \in OwnersOf(registered[i])}
            done == {handled[h].account : h \in HandledBy(i)}
        IN /\ \A h, g \in HandledBy(i) : handled[h].account = handled[g].account => h = g
           /\ done \subseteq mine
           /\ run = "ok" /\ Alone(i) =>
                done = mine \cap (IF source = "snapshot" THEN Loadable ELSE Accounts)

\* A client has received, in order, every message since it subscribed except those that
\* were overwritten before it came to read them: of the positions it has read, the one
\* with n - 1 others before it is the n-th message it got.
ReadBy(k, i) == (k.from[i] .. k.at[i] - 1) \ k.gaps[i]
ClientsSeeAllButGaps ==
  \A c \in Clients : \A i \in DOMAIN clients[c].at :
    LET k == clients[c]
        read == ReadBy(k, i)
    IN /\ Len(k.got[i]) = Cardinality(read)
       /\ \A p \in read : k.got[i][Cardinality({r \in read : r <= p})] = sent[i][p]
       /\ \A p \in k.gaps[i] : p + Capacity <= Len(sent[i])

\* A stream is cut off only when it lagged more often than it may without a message
\* between: the messages before its cursor are all lost to it.
CutOffOnlyWhenOvertaken ==
  \A c \in Clients : clients[c].state = "panicked" =>
    \E i \in DOMAIN clients[c].at :
      /\ clients[c].at[i] < Oldest(i)
      /\ \A k \in 1 .. MaxTries : clients[c].at[i] - k \in clients[c].gaps[i]

RecordOf(job) == ParseAccount(job).record

\* kafka_sink.rs:739, "advances a monotonic watermark by slot": watermarks never go back,
\* and one is published after the records of its slot and those before, but for records
\* that reached the sink later than a record of a later slot.
WatermarkCovers ==
  \A j \in DOMAIN topic : topic[j].watermark =>
    /\ \A k \in j + 1 .. Len(topic) : topic[k].watermark => topic[k].slot >= topic[j].slot
    /\ \A h \in DOMAIN handled :
         /\ RecordOf(handled[h]) # <<>>
         /\ \A g \in 1 .. h : handled[g].slot <= topic[j].slot
         => \E k \in 1 .. j - 1 : topic[k].key = RecordOf(handled[h])[1].key

\* A sink that ends without an error has published the record of every account that was
\* handed to it, and a watermark for the last slot it saw.
CleanEndIsComplete ==
  sink.pc = "done" =>
    /\ \A h \in DOMAIN handled : RecordOf(handled[h]) # <<>> =>
         \E k \in DOMAIN topic : topic[k].key = RecordOf(handled[h])[1].key
    /\ handled # <<>> => /\ topic # <<>> /\ topic[Len(topic)].watermark
                         /\ \A h \in DOMAIN handled : handled[h].slot <= topic[Len(topic)].slot

\* The coordinator is told of every account once, as a record or as a count, unless the
\* sink was cancelled.
AccountsCountedOnce ==
  consumer = "buffered" =>
    /\ ~cancelled => Len(events) = Len(handled)
    /\ Len(events) <= Len(handled)

\* With a source that ends by itself the server comes to its end, whichever of the tasks
\* fails, and so does the sink: nobody waits on a channel for ever.
RunEnds ==
  server = "up" /\ source # "fumarole" ~>
    /\ server \in {"stopped", "abandoned"}
    /\ consumer = "passthrough" => sink.pc \in {"done", "failed"}

\* Every account is served: handled once by each pipeline that asked for it, and reported
\* once to the coordinator.
AccountsServed == TypeOK /\ CompletedMeansServed /\ AccountsCountedOnce

\* A client misses only what was overwritten before it read it, and is cut off only for
\* that.
ClientsLoseOnlyGaps == ClientsSeeAllButGaps /\ CutOffOnlyWhenOvertaken

\* A watermark can be relied on: it comes after the records it stands for, and a sink
\* that ended well has left none without one.
WatermarksHold == WatermarkCovers /\ CleanEndIsComplete
=============================================================================
