----------------------------- MODULE StreamServer -----------------------------
(***************************************************************************)
(* The stream server: StreamBuilder (builder.rs) over the runtime's builder*)
(* (runtime/src/builder.rs, handler.rs), and the gRPC service (grpc.rs,    *)
(* lib.rs), in which every parser has a broadcast channel and every client *)
(* a cursor in each channel of the programs it asked for.                  *)
(*                                                                         *)
(* Tokio's broadcast channel is external: it keeps the last messages, and a*)
(* receiver that was overtaken is told so and moved to the oldest one kept.*)
(***************************************************************************)
EXTENDS Integers, Sequences, FiniteSets

CONSTANTS
  Clients,      \* gRPC clients
  Capacity,     \* messages a channel keeps (64)
  MaxTries      \* times a stream may lag without a message between (8)

ASSUME ServerAssumption == Capacity \in Nat \ {0} /\ MaxTries \in Nat

VARIABLES
  registered,   \* the parsers, in the order they were registered: [id, kind, program]
  buildErr,     \* the builder's error
  server,       \* "building", "rejected", "up", "stopping", "stopped" or "abandoned"
  sent,         \* all messages of each parser's channel
  closed,       \* the senders are gone
  clients       \* [state, at, tries, got] of each client; with the messages it missed
                \*   (gaps) and where it began (from)

serverVars == <<registered, buildErr, server, sent, closed, clients>>

-----------------------------------------------------------------------------
(* The builders.                                                           *)

Kinds == <<"account", "transaction", "instruction", "block_meta", "block", "slot">>
Rank(kind) == CHOOSE k \in DOMAIN Kinds : Kinds[k] = kind

\* The instruction parsers share one pipeline.
FilterId(parser) == IF parser.kind = "instruction" THEN "InstructionPipeline" ELSE parser.id

\* StreamBuilder::insert refuses a second parser with the same program and id; once there
\* is an error, try_mutate ignores what follows.
Insert(parser) ==
  /\ server = "building" /\ buildErr = "none"
  /\ IF \E i \in DOMAIN registered : registered[i].program = parser.program /\ registered[i].id = parser.id
     THEN buildErr' = "duplicate_id" /\ UNCHANGED registered
     ELSE registered' = Append(registered, parser) /\ UNCHANGED buildErr
  /\ UNCHANGED <<server, sent, closed, clients>>

\* try_build_with: two pipelines of one kind with one id, except instruction parsers.
Collision(parsers) ==
  \E i, j \in DOMAIN parsers :
    /\ i # j /\ parsers[i].kind = parsers[j].kind /\ parsers[i].kind # "instruction"
    /\ parsers[i].id = parsers[j].id

\* The pipeline a PipelineSet holds for an id: the last that was collected.
PipelineAt(parsers, kind, id) ==
  LET found == {i \in DOMAIN parsers : parsers[i].kind = kind /\ parsers[i].id = id}
  IN IF found = {} THEN 0 ELSE CHOOSE i \in found : \A j \in found : j <= i

\* PipelineSets::filters: one map for the pipelines of all kinds, filled kind by kind;
\* owners gives the owners each account pipeline asks for.
FiltersOf(parsers, owners) ==
  LET ids == {FilterId(parsers[i]) : i \in DOMAIN parsers}
      Last(id) == CHOOSE i \in DOMAIN parsers :
                    /\ FilterId(parsers[i]) = id
                    /\ \A j \in DOMAIN parsers : FilterId(parsers[j]) = id =>
                         \/ Rank(parsers[j].kind) < Rank(parsers[i].kind)
                         \/ parsers[j].kind = parsers[i].kind /\ j <= i
  IN [id \in ids |-> [owners |-> IF parsers[Last(id)].kind = "account" THEN owners[Last(id)] ELSE {},
                      slot |-> parsers[Last(id)].kind = "slot"]]

Build ==
  /\ server = "building" /\ registered # <<>>
  /\ server' = IF buildErr # "none" \/ Collision(registered) THEN "rejected" ELSE "up"
  /\ sent' = [i \in DOMAIN registered |-> <<>>]
  /\ UNCHANGED <<registered, buildErr, closed, clients>>

-----------------------------------------------------------------------------
(* The service.                                                            *)

\* GrpcHandler: the message enters the channel of the parser's pipeline.
Broadcast(i, message) == sent' = [sent EXCEPT ![i] = Append(@, message)]

NoClient == [state |-> "none", at |-> <<>>, tries |-> <<>>, got |-> <<>>, gaps |-> <<>>,
             from |-> <<>>]

\* A mutation: a receiver is cloned where the service's own receiver stands, at the start.
ResubscribeAtStart(i) == 1

\* resubscribe: a cursor behind the last message.
Resubscribe(i) == Len(sent[i]) + 1

\* subscribe and subscribe_many: a stream for each channel of the programs.
Subscribe(c, programs) ==
  LET channels == {i \in DOMAIN registered : registered[i].program \in programs}
  IN /\ server = "up" /\ clients[c].state = "none"
     /\ clients' = [clients EXCEPT ![c] =
          [state |-> "open", at |-> [i \in channels |-> Resubscribe(i)],
           tries |-> [i \in channels |-> MaxTries],
           got |-> [i \in channels |-> <<>>], gaps |-> [i \in channels |-> {}],
           from |-> [i \in channels |-> Len(sent[i]) + 1]]]
     /\ UNCHANGED <<registered, buildErr, server, sent, closed>>

\* The oldest message that a channel keeps.
Oldest(i) == IF Len(sent[i]) > Capacity THEN Len(sent[i]) - Capacity + 1 ELSE 1

\* A mutation: the last try is not used.
ExhaustedEarly(tries) == tries <= 1

Exhausted(tries) == tries = 0

\* One turn of ReceiverStream::poll_next that does not wait.
PollReceives(c, i) ==
  /\ clients[c].at[i] >= Oldest(i) /\ clients[c].at[i] <= Len(sent[i])
  /\ clients' = [clients EXCEPT ![c].at[i] = @ + 1,
                                ![c].got[i] = Append(@, sent[i][clients[c].at[i]]),
                                ![c].tries[i] = MaxTries]
PollLags(c, i) ==
  /\ clients[c].at[i] < Oldest(i)
  /\ clients' = IF Exhausted(clients[c].tries[i]) THEN [clients EXCEPT ![c].state = "panicked"]
                ELSE [clients EXCEPT ![c].at[i] = Oldest(i), ![c].tries[i] = @ - 1,
                                     ![c].gaps[i] = @ \cup (clients[c].at[i] .. Oldest(i) - 1)]

Poll(c) ==
  /\ clients[c].state = "open"
  /\ \E i \in DOMAIN clients[c].at : PollReceives(c, i) \/ PollLags(c, i)
  /\ UNCHANGED <<registered, buildErr, server, sent, closed>>

\* Every stream found its channel closed, or there was none.
StreamEnds(c) ==
  /\ clients[c].state = "open"
  /\ \A i \in DOMAIN clients[c].at : closed /\ clients[c].at[i] > Len(sent[i])
  /\ clients' = [clients EXCEPT ![c].state = "ended"]
  /\ UNCHANGED <<registered, buildErr, server, sent, closed>>

\* A mutation: the channels stay open when the runtime has ended.
ChannelsHeld == FALSE

\* The runtime owned the pipelines, and they the senders.
ChannelsClosed == TRUE

\* try_run_async once the runtime has returned: on an error the server is dropped, else
\* it is stopped and waits for its streams.
ServerStopping(ok) ==
  /\ server = "up" /\ server' = (IF ok THEN "stopping" ELSE "abandoned")
  /\ closed' = ChannelsClosed
  /\ UNCHANGED <<registered, buildErr, sent, clients>>

ServerStopped ==
  /\ server = "stopping" /\ \A c \in Clients : clients[c].state # "open"
  /\ server' = "stopped"
  /\ UNCHANGED <<registered, buildErr, sent, closed, clients>>
=============================================================================
