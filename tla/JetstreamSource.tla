---------------------------- MODULE JetstreamSource ----------------------------
(***************************************************************************)
(* jetstreamer-source: the replay of a range of slots from an archive.     *)
(*                                                                         *)
(* connect checks the environment and resolves the range; the firehose     *)
(* (external) splits the range over its workers, and each worker calls     *)
(* back for the entries, the transactions and then the block of one slot   *)
(* after the other.  The callbacks share one handler: the map of buffered  *)
(* entries and the sender of the source's channel, which is bounded.  A    *)
(* callback that sends waits for room, so the callbacks of different       *)
(* workers interleave at every send.                                       *)
(***************************************************************************)
EXTENDS Integers, Sequences, FiniteSets

CONSTANTS
  Parsers,        \* ids of the parsers
  PrefilterSets,  \* the filters a run may start with: functions from Parsers to prefilters
  Workers,        \* the threads of the firehose
  SlotsPerEpoch,  \* SLOTS_PER_EPOCH: 432 000 in the code
  MaxSlot,        \* bound: the last slot a configuration names, plus one
  MaxReplay,      \* bound: the most slots one replay covers
  MaxEntries,     \* bound: the entries of one slot
  ChannelSize,    \* the room of the source's channel
  None

ASSUME JetstreamAssumption ==
  /\ IsFiniteSet(Workers) /\ Workers # {}
  /\ SlotsPerEpoch \in Nat \ {0} /\ MaxSlot \in Nat /\ MaxReplay \in Nat /\ MaxEntries \in Nat
  /\ ChannelSize \in Nat \ {0}
  /\ None \notin Seq(Nat \X Nat)

Slots == 0 .. MaxSlot

\* What the source reads of a prefilter; a block prefilter is the parts it asks for.
Prefilter == [block : SUBSET {"transactions", "accounts", "entries"} \cup {None},
              block_meta : BOOLEAN, slot : BOOLEAN, transaction : BOOLEAN]

ASSUME PrefilterAssumption == PrefilterSets \subseteq [Parsers -> Prefilter]

VARIABLES
  phase,      \* "start", "running", "completed" or "failed"
  config,     \* the configured range, None before the source is started
  filters,    \* the prefilters of the parsers
  worker,     \* what each worker of the firehose is doing
  buffer,     \* entry_buffer: the entries of each slot, None without an entry in the map
  log,        \* what was sent for each slot, in order
  waiting,    \* updates in the channel
  open,       \* the runtime still holds the receiver
  skipped,    \* the slots surfaced on the side channel
  signalled,  \* a shutdown was broadcast
  subscribed  \* the source has subscribed to the shutdown

vars == <<phase, config, filters, worker, buffer, log, waiting, open, skipped, signalled, subscribed>>

-----------------------------------------------------------------------------
(* The filters and the range.                                              *)

\* precalculate_filters: the parsers an update of each kind goes to.
BlockMatches ==
  {p \in Parsers : filters[p].block # None /\ filters[p].block # {}}
BlockMetaMatches == {p \in Parsers : filters[p].block_meta}
SlotMatches == {p \in Parsers : filters[p].slot}
TransactionMatches == {p \in Parsers : filters[p].transaction}

\* A mutation: entries are buffered for the parsers that ask for accounts.
WantsEntriesOfAccounts ==
  \E p \in Parsers : filters[p].block # None /\ "accounts" \in filters[p].block

WantsEntries ==
  \E p \in Parsers : filters[p].block # None /\ "entries" \in filters[p].block

\* A configured range: each of the three may be left out.
RangeConfigs ==
  [slot_start : Slots \cup {None}, slot_end : Slots \cup {None},
   epoch : (0 .. MaxSlot \div SlotsPerEpoch - 1) \cup {None}]

\* A mutation: the last slot of an epoch is left out.
EpochShort(epoch) == <<epoch * SlotsPerEpoch, (epoch + 1) * SlotsPerEpoch - 1>>

EpochRange(epoch) == <<epoch * SlotsPerEpoch, (epoch + 1) * SlotsPerEpoch>>

\* to_slot_range: the half-open range, None when the configuration is refused.
ToSlotRange(c) ==
  CASE c.slot_start # None /\ c.slot_end # None /\ c.epoch = None ->
         IF c.slot_start >= c.slot_end THEN None ELSE <<c.slot_start, c.slot_end>>
    [] c.slot_start = None /\ c.slot_end = None /\ c.epoch # None -> EpochRange(c.epoch)
    [] OTHER -> None

\* The slot a worker begins and the slot it stops before: contiguous shares of the range.
Shares(r) ==
  {f \in [Workers -> Slots \X Slots] :
     /\ \A w \in Workers : r[1] <= f[w][1] /\ f[w][1] <= f[w][2] /\ f[w][2] <= r[2]
     /\ \A v, w \in Workers : v # w => f[v][2] <= f[w][1] \/ f[w][2] <= f[v][1]
     /\ \A s \in r[1] .. r[2] - 1 : \E w \in Workers : f[w][1] <= s /\ s < f[w][2]}

-----------------------------------------------------------------------------
Idle(from, to) ==
  [at |-> "boundary", slot |-> from, end |-> to, entries |-> 0, read |-> 0, tx |-> FALSE,
   taken |-> <<>>]

Init ==
  /\ phase = "start" /\ config = None
  /\ filters \in PrefilterSets
  /\ worker = [w \in Workers |-> Idle(0, 0)]
  /\ buffer = [s \in Slots |-> None]
  /\ log = [s \in Slots |-> <<>>]
  /\ waiting = 0 /\ open = TRUE /\ skipped = {}
  /\ signalled = FALSE /\ subscribed = FALSE

\* connect fails: the environment does not match, or the range cannot be resolved.
ConnectFails(c, envMatches) ==
  /\ phase = "start"
  /\ ~envMatches \/ ToSlotRange(c) = None
  /\ phase' = "failed"
  /\ UNCHANGED <<config, filters, worker, buffer, log, waiting, open, skipped, signalled, subscribed>>

\* stream_loop up to the firehose: it subscribes to the shutdown only now.
StreamLoop(c) ==
  /\ phase = "start" /\ ToSlotRange(c) # None
  /\ ToSlotRange(c)[2] - ToSlotRange(c)[1] <= MaxReplay
  /\ phase' = "running" /\ config' = c
  /\ subscribed' = TRUE /\ signalled' = FALSE      \* an earlier signal is lost
  /\ \E share \in Shares(ToSlotRange(c)) :
       worker' = [w \in Workers |-> Idle(share[w][1], share[w][2])]
  /\ UNCHANGED <<filters, buffer, log, waiting, open, skipped>>

\* The firehose takes the worker's next slot; without a shutdown only the end stops it.
BeginSlot(w, entries, tx) ==
  /\ phase = "running" /\ worker[w].at = "boundary"
  /\ ~signalled /\ worker[w].slot < worker[w].end
  /\ worker' = [worker EXCEPT ![w].at = "contents", ![w].entries = entries, ![w].read = 0,
                              ![w].tx = tx, ![w].taken = <<>>]
  /\ UNCHANGED <<phase, config, filters, buffer, log, waiting, open, skipped, signalled, subscribed>>

\* on_block for a possibly skipped slot: it goes to the side channel, and the entry buffer
\* is not looked at.  The owner reads the side channel; a send into one it has dropped is a
\* FirehoseFails.
LeaderSkipped(w) ==
  /\ phase = "running" /\ worker[w].at = "boundary"
  /\ ~signalled /\ worker[w].slot < worker[w].end
  /\ skipped' = skipped \cup {worker[w].slot}
  /\ worker' = [worker EXCEPT ![w].slot = @ + 1]
  /\ UNCHANGED <<phase, config, filters, buffer, log, waiting, open, signalled, subscribed>>

\* process_entry: the callback is registered only when some filter wants entries.
OnEntry(w) ==
  LET s == worker[w].slot
      e == <<s, worker[w].read + 1>>
      old == IF buffer[s] = None THEN <<>> ELSE buffer[s]
  IN /\ phase = "running" /\ worker[w].at = "contents" /\ worker[w].read < worker[w].entries
     /\ worker' = [worker EXCEPT ![w].read = @ + 1]
     /\ buffer' = IF WantsEntries THEN [buffer EXCEPT ![s] = Append(old, e)] ELSE buffer
     /\ UNCHANGED <<phase, config, filters, log, waiting, open, skipped, signalled, subscribed>>

\* A mutation: the send does not wait for room.
SendUnbounded(w, kind, to, entries) ==
  /\ open
  /\ waiting' = waiting + 1
  /\ log' = [log EXCEPT ![worker[w].slot] =
               Append(@, [kind |-> kind, to |-> to, entries |-> entries])]

\* send: waits for room; an update is its kind, its parsers and, for a block, its entries.
Send(w, kind, to, entries) ==
  /\ open /\ waiting < ChannelSize
  /\ waiting' = waiting + 1
  /\ log' = [log EXCEPT ![worker[w].slot] =
               Append(@, [kind |-> kind, to |-> to, entries |-> entries])]

\* process_transaction.
OnTransaction(w) ==
  /\ phase = "running" /\ worker[w].at = "contents" /\ worker[w].tx
  /\ worker' = [worker EXCEPT ![w].tx = FALSE]
  /\ IF TransactionMatches = {} THEN UNCHANGED <<waiting, log>>
     ELSE Send(w, "transaction", TransactionMatches, <<>>)
  /\ UNCHANGED <<phase, config, filters, buffer, open, skipped, signalled, subscribed>>

\* A mutation: the buffer is read and left.
TakenAndKept(w) ==
  /\ worker' = [worker EXCEPT
       ![w].at = "block",
       ![w].taken = IF buffer[worker[w].slot] = None THEN <<>> ELSE buffer[worker[w].slot]]
  /\ UNCHANGED buffer

\* process_block begins: the slot's entries are drained even when nobody wants the block.
Drain(w) ==
  LET s == worker[w].slot
  IN /\ worker' = [worker EXCEPT
          ![w].at = "block",
          ![w].taken = IF WantsEntries /\ buffer[s] # None THEN buffer[s] ELSE <<>>]
     /\ buffer' = IF WantsEntries THEN [buffer EXCEPT ![s] = None] ELSE buffer

OnBlock(w) ==
  /\ phase = "running" /\ worker[w].at = "contents"
  /\ worker[w].read = worker[w].entries /\ ~worker[w].tx
  /\ Drain(w)
  /\ UNCHANGED <<phase, config, filters, log, waiting, open, skipped, signalled, subscribed>>

\* The three sends of process_block, one await each; the last ends the slot.
SendOrSkip(w, kind, to, entries) ==
  IF to = {} THEN UNCHANGED <<waiting, log>> ELSE Send(w, kind, to, entries)

SendBlock(w) ==
  /\ phase = "running" /\ worker[w].at = "block"
  /\ SendOrSkip(w, "block", BlockMatches, worker[w].taken)
  /\ worker' = [worker EXCEPT ![w].at = "meta"]
  /\ UNCHANGED <<phase, config, filters, buffer, open, skipped, signalled, subscribed>>

\* A mutation: where a status is wanted it is sent in place of the meta, and again at the end.
SendStatusEarly(w) ==
  /\ phase = "running" /\ worker[w].at = "meta"
  /\ IF SlotMatches # {} THEN Send(w, "slot", SlotMatches, <<>>)
     ELSE SendOrSkip(w, "meta", BlockMetaMatches, <<>>)
  /\ worker' = [worker EXCEPT ![w].at = "slot"]
  /\ UNCHANGED <<phase, config, filters, buffer, open, skipped, signalled, subscribed>>

SendMeta(w) ==
  /\ phase = "running" /\ worker[w].at = "meta"
  /\ SendOrSkip(w, "meta", BlockMetaMatches, <<>>)
  /\ worker' = [worker EXCEPT ![w].at = "slot"]
  /\ UNCHANGED <<phase, config, filters, buffer, open, skipped, signalled, subscribed>>

SendSlot(w) ==
  /\ phase = "running" /\ worker[w].at = "slot"
  /\ SendOrSkip(w, "slot", SlotMatches, <<>>)
  /\ worker' = [worker EXCEPT ![w].at = "boundary", ![w].slot = @ + 1]
  /\ UNCHANGED <<phase, config, filters, buffer, open, skipped, signalled, subscribed>>

\* A mutation: the callback swallows the error of its send and tries again.
SendRetries(w) ==
  /\ phase = "running" /\ ~open /\ worker[w].at # "boundary"
  /\ UNCHANGED vars

\* A send into a channel whose receiver is gone: the callback's error ends the firehose.
SendFails(w) ==
  /\ phase = "running" /\ ~open
  /\ \/ worker[w].at = "contents" /\ worker[w].tx /\ TransactionMatches # {}
     \/ worker[w].at = "block" /\ BlockMatches # {}
     \/ worker[w].at = "meta" /\ BlockMetaMatches # {}
     \/ worker[w].at = "slot" /\ SlotMatches # {}
  /\ phase' = "failed"
  /\ UNCHANGED <<config, filters, worker, buffer, log, waiting, open, skipped, signalled, subscribed>>

\* A corrupted archive or a download that fails.
FirehoseFails ==
  /\ phase = "running" /\ phase' = "failed"
  /\ UNCHANGED <<config, filters, worker, buffer, log, waiting, open, skipped, signalled, subscribed>>

\* The firehose returns: every worker is at the end of its share or, after a shutdown, at
\* a slot boundary.
FirehoseDone ==
  /\ phase = "running"
  /\ \A w \in Workers : worker[w].at = "boundary"
                        /\ (signalled \/ worker[w].slot = worker[w].end)
  /\ phase' = "completed"
  /\ UNCHANGED <<config, filters, worker, buffer, log, waiting, open, skipped, signalled, subscribed>>

\* The runtime takes an update, or drops the receiver; the owner broadcasts a shutdown.
RuntimeTakes ==
  /\ open /\ waiting > 0 /\ waiting' = waiting - 1
  /\ UNCHANGED <<phase, config, filters, worker, buffer, log, open, skipped, signalled, subscribed>>

RuntimeDrops ==
  /\ open /\ open' = FALSE
  /\ UNCHANGED <<phase, config, filters, worker, buffer, log, waiting, skipped, signalled, subscribed>>

Shutdown ==
  /\ ~signalled /\ signalled' = TRUE
  /\ UNCHANGED <<phase, config, filters, worker, buffer, log, waiting, open, skipped, subscribed>>

Ended == phase \in {"completed", "failed"}

WorkerStep(w) ==
  \/ \E n \in 0 .. MaxEntries, tx \in BOOLEAN : BeginSlot(w, n, tx)
  \/ LeaderSkipped(w)
  \/ OnEntry(w)
  \/ OnTransaction(w)
  \/ OnBlock(w)
  \/ SendBlock(w)
  \/ SendMeta(w)
  \/ SendSlot(w)
  \/ SendFails(w)

Next ==
  \/ \E c \in RangeConfigs, e \in BOOLEAN : ConnectFails(c, e)
  \/ \E c \in RangeConfigs : StreamLoop(c)
  \/ \E w \in Workers : WorkerStep(w)
  \/ FirehoseFails
  \/ FirehoseDone
  \/ RuntimeTakes
  \/ RuntimeDrops
  \/ Shutdown
  \/ Ended /\ UNCHANGED vars

Spec == Init /\ [][Next]_vars

\* The workers are tasks that run until they wait for room, and the runtime keeps reading
\* while it holds the receiver.
FairSpec ==
  /\ Spec
  /\ \A w \in Workers : WF_vars(WorkerStep(w))
  /\ WF_vars(FirehoseDone) /\ WF_vars(RuntimeTakes)

-----------------------------------------------------------------------------
(* Properties.                                                             *)

TypeOK ==
  /\ phase \in {"start", "running", "completed", "failed"}
  /\ filters \in [Parsers -> Prefilter]
  /\ waiting \in 0 .. ChannelSize /\ skipped \subseteq Slots
  /\ \A w \in Workers : worker[w].slot \in Slots /\ worker[w].read <= worker[w].entries

\* The entries a block update carries are the entries of its own slot, all of them and in
\* order, however the workers' callbacks interleave on the shared map.  Where no filter
\* wants entries a block carries none.
EntriesWithTheirBlock ==
  \A s \in Slots : \A i \in DOMAIN log[s] :
    LET u == log[s][i]
        asked == \E p \in Parsers : filters[p].block # None /\ "entries" \in filters[p].block
    IN u.kind = "block" =>
         /\ \A k \in DOMAIN u.entries : u.entries[k] = <<s, k>>
         /\ \A w \in Workers : worker[w].slot = s /\ worker[w].at \in {"meta", "slot"} =>
              Len(u.entries) = IF asked THEN worker[w].entries ELSE 0

\* The map of entries holds the slots being read and no others: a slot's entries are never
\* left behind to be pinned for the rest of the run, at most one slot per worker.
NoEntriesPinned ==
  \A s \in Slots : buffer[s] # None =>
    phase # "completed" /\ \E w \in Workers : worker[w].slot = s /\ worker[w].at = "contents"

Before == [transaction |-> 1, block |-> 2, meta |-> 3, slot |-> 4]

\* The updates of a slot keep their order, whatever other workers send between them: the
\* transactions, the block, its meta and last the finalized status.
FinalizedLast ==
  \A s \in Slots : \A i, j \in DOMAIN log[s] :
    i < j => Before[log[s][i].kind] < Before[log[s][j].kind]

Wants(p, kind) ==
  CASE kind = "block" -> filters[p].block # None /\ filters[p].block # {}
    [] kind = "meta" -> filters[p].block_meta
    [] kind = "slot" -> filters[p].slot

\* The slots the configuration names: an epoch's, or from the start up to the end.
Named(s) ==
  IF config.epoch # None THEN s \div SlotsPerEpoch = config.epoch
  ELSE config.slot_start <= s /\ s < config.slot_end

\* A replay that reports success is whole.  Each slot named was either surfaced as
\* skipped or had each of its updates sent once, to exactly the parsers that ask for that
\* kind; after a shutdown a slot may be missing but never in part.
CompletedMeansWhole ==
  phase = "completed" =>
    \A s \in Slots :
      IF ~Named(s) \/ s \in skipped THEN log[s] = <<>>
      ELSE \/ signalled /\ log[s] = <<>>
           \/ \A p \in Parsers, kind \in {"block", "meta", "slot"} :
                Cardinality({i \in DOMAIN log[s] : log[s][i].kind = kind /\ p \in log[s][i].to})
                  = IF Wants(p, kind) THEN 1 ELSE 0

\* The source always comes to an end: the callbacks never wait on each other, a dropped
\* receiver ends the next send, and a shutdown stops every worker at its next slot.
SourceEnds == phase = "running" ~> Ended

\* Entries reach the channel with their block, all of them, or not at all: they are
\* neither mixed up in the map the workers share nor left in it.
EntriesHandedOver == TypeOK /\ EntriesWithTheirBlock /\ NoEntriesPinned

\* The updates of a slot are sent in their order, and a replay that reports success has
\* sent those of every slot.
ReplayWhole == FinalizedLast /\ CompletedMeansWhole
=============================================================================
