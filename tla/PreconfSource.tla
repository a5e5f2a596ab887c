---------------------------- MODULE PreconfSource ----------------------------
(* crates/preconf-source: one stream per feed, each with a resubscriber    *)
(* (reconnect.rs) and a framer (framer.rs), merged by the loop of lib.rs   *)
(* into the runtime's channel.                                             *)
(*                                                                         *)
(* The loop polls the streams only while it waits for the next item; while *)
(* it waits for room in the channel nothing else of the source moves.      *)
(* Transactions are records of what the code looks at; of time only what   *)
(* is compared with it is kept: whether a stream that fails lived for      *)
(* STABLE.                                                                 *)
EXTENDS Integers, FiniteSets, Sequences

CONSTANTS Harmonic, Bam,    \* the regions of the two kinds
          Slots,
          Updates,          \* what the feeds may send
          VoteRules,        \* parser -> the Option of a vote rule
          SlotRetention,    \* SLOT_RETENTION
          MaxFrames,        \* MAX_FRAMES
          AutoReconnect,    \* policy.enabled
          MaxRetries,       \* the Option of policy.max_retries
          ChannelSize,      \* room in the runtime's channel
          MaxUpdates,       \* number of feeds -> bound on their updates
          MaxFailures       \* bound on the failures of streams

Feeds == Harmonic \cup Bam

ASSUME PreconfAssumption ==
    /\ Harmonic \cap Bam = {} /\ IsFiniteSet(Feeds)
    /\ Slots \subseteq Nat /\ SlotRetention \in Nat /\ MaxFrames \in Nat \ {0}
    /\ ChannelSize \in Nat \ {0}
    /\ MaxRetries \subseteq Nat
    /\ \A u \in Updates : u.slot \in Slots

VARIABLES feeds,        \* the regions configured, repeats removed
          phase,        \* "connecting", "running", or the exit
          subscribed,   \* feeds whose first subscribe was answered
          stream,       \* feed -> "open", "none" (in a back-off) or "done"
          attempt,      \* feed -> attempts since the last progress
          frames,       \* feed -> slot -> Option of a frame
          frontier,     \* feed -> Option of the newest slot that advanced it
          counts,       \* feed -> the counters
          hand,         \* the Option of the update or error being sent
          queued,       \* updates in the runtime's channel
          receiver,     \* the runtime still holds the receiver
          delivered,    \* feed -> the <<slot, index>> the channel took
          repeated,     \* feed -> the slots with an index delivered twice
          seen,         \* feed -> the slots that ever had a frame
          sent,         \* feed -> transactions the feed sent
          failures,     \* feed -> failures since progress or a stable stream
          budget        \* what the feeds may still do

vars == <<feeds, phase, subscribed, stream, attempt, frames, frontier, counts, hand,
          queued, receiver, delivered, repeated, seen, sent, failures, budget>>
source == <<feeds, phase, subscribed>>
connection == <<stream, attempt, failures>>
framing == <<frames, frontier, counts, delivered, repeated, seen, sent>>

None == {}
Some(v) == {v}

NoCounts == [delivered |-> 0, unknown_result |-> 0, vote_rule_dropped |-> 0, undecodable |-> 0,
             out_of_frame |-> 0, clipped |-> 0, restarts |-> 0, unknown_payload |-> 0,
             reconnects |-> 0]
NewFrame == [next |-> 0, open |-> FALSE, ended |-> FALSE]

----------------------------------------------------------------------------
(* The framer. It is a record of the feed's frames, frontier and counts.   *)

Framer(f) == [frames |-> frames[f], frontier |-> frontier[f], counts |-> counts[f]]

(* frames.entry(slot).or_default() *)
Entry(fr, slot) == IF fr.frames[slot] = None THEN NewFrame
                   ELSE CHOOSE e \in fr.frames[slot] : TRUE
SetEntry(fr, slot, e) == [fr EXCEPT !.frames[slot] = Some(e)]
Count(fr, c) == [fr EXCEPT !.counts[c] = @ + 1]

Held(fr) == {s \in Slots : fr.frames[s] # None}

(* A newer slot prunes the frames older than the retention. *)
Advance(fr, slot) ==
    IF \E s \in fr.frontier : slot <= s THEN fr
    ELSE [fr EXCEPT !.frontier = Some(slot),
                    !.frames = [s \in Slots |-> IF s < slot - SlotRetention THEN None ELSE @[s]]]

CapFramesNever(fr) == fr
(* Past the cap the oldest frames go. *)
CapFrames(fr) ==
    [fr EXCEPT !.frames = [s \in Slots |->
        IF Cardinality({t \in Held(fr) : t >= s}) > MaxFrames THEN None ELSE @[s]]]

(* The message of a transaction in the shape the runtime reads: V1 is the  *)
(* one with a config, legacy the one that is not versioned.                *)
Convert(version) == [versioned |-> version # "Legacy",
                     lookups |-> version = "V0", config |-> version = "V1"]

(* Framer::transaction: the framer after it and the Option of an update. *)
(* A transaction no parser wants is not counted. *)
FrameTransactionDroppedQuietly(fr, slot, tx, f) ==
    IF tx.result = None THEN Count(fr, "unknown_result")
    ELSE IF ~tx.decodes \/ ~tx.signed THEN Count(fr, "undecodable")
    ELSE fr
FrameTransactionDropped(fr, slot, tx, f) ==
    IF tx.result = None THEN Count(fr, "unknown_result")
    ELSE IF ~tx.decodes \/ ~tx.signed THEN Count(fr, "undecodable")
    ELSE IF tx.filters = {} THEN Count(fr, "unknown_payload")
    ELSE Count(fr, "vote_rule_dropped")
WantedBy(tx) == {p \in tx.filters : \A v \in VoteRules[p] : v = tx.vote}
FrameTransaction(fr, slot, tx, f) ==
    IF tx.result # None /\ tx.decodes /\ tx.signed /\ WantedBy(tx) # {}
    THEN LET e == Entry(fr, slot)
             counted == IF e.open THEN fr ELSE Count(fr, "out_of_frame")
         IN  [framer |-> SetEntry(counted, slot, [e EXCEPT !.next = @ + 1]),
              update |-> Some([feed |-> f, slot |-> slot, index |-> e.next,
                               filters |-> WantedBy(tx), vote |-> tx.vote,
                               failed |-> tx.result # Some("Success"),
                               message |-> Convert(tx.version)])]
    ELSE [framer |-> FrameTransactionDropped(fr, slot, tx, f), update |-> None]

(* One update of a Harmonic feed. *)
ApplyHarmonic(fr, u, f) ==
    LET e == Entry(fr, u.slot)
        quiet(x) == [framer |-> x, update |-> None]
    IN  CASE u.kind = "Transaction" -> FrameTransaction(fr, u.slot, u.tx, f)
          [] u.kind = "SlotStart" ->
                LET counted == IF e.ended THEN Count(fr, "restarts") ELSE fr
                IN  quiet(SetEntry(counted, u.slot, [e EXCEPT !.open = TRUE, !.ended = FALSE]))
          [] u.kind = "SlotEnd" ->
                quiet(Advance(SetEntry(fr, u.slot, [e EXCEPT !.open = FALSE, !.ended = TRUE]),
                              u.slot))
          [] u.kind = "Clip" -> quiet(Count(fr, "clipped"))
          [] u.kind = "Ping" -> quiet(fr)
          [] OTHER -> quiet(Count(fr, "unknown_payload"))

(* One update of a BAM feed: a transaction opens its slot and advances. *)
ApplyBam(fr, u, f) ==
    LET quiet(x) == [framer |-> x, update |-> None]
    IN  CASE u.kind = "Transaction" ->
                LET opened == SetEntry(fr, u.slot, [Entry(fr, u.slot) EXCEPT !.open = TRUE])
                    r == FrameTransaction(opened, u.slot, u.tx, f)
                IN  [r EXCEPT !.framer = Advance(@, u.slot)]
          [] u.kind = "Clip" -> quiet(Count(fr, "clipped"))
          [] u.kind = "Ping" -> quiet(fr)
          [] OTHER -> quiet(Count(fr, "unknown_payload"))

(* A reconnect that forgets which frames it had. *)
ReconnectedFresh(fr) ==
    Count([fr EXCEPT !.frames = [s \in Slots |-> None]], "reconnects")
(* Framer::reconnected: what was open ended on the lost stream. *)
Reconnected(fr) ==
    Count([fr EXCEPT !.frames = [s \in Slots |->
              {[e EXCEPT !.ended = @ \/ e.open, !.open = FALSE] : e \in @[s]}]], "reconnects")

(* Framer::apply *)
Apply(fr, u, f) ==
    LET r == IF f \in Harmonic THEN ApplyHarmonic(fr, u, f) ELSE ApplyBam(fr, u, f)
    IN  [r EXCEPT !.framer = CapFrames(@)]

SetFramer(f, fr) == /\ frames' = [frames EXCEPT ![f] = fr.frames]
                    /\ frontier' = [frontier EXCEPT ![f] = fr.frontier]
                    /\ counts' = [counts EXCEPT ![f] = fr.counts]

IsProgressAny(u, f) == TRUE
IsProgress(u, f) == \/ u.kind = "Transaction"
                    \/ f \in Harmonic /\ u.kind = "SlotStart"

----------------------------------------------------------------------------
(* PreconfSource::connect up to the loop. The feeds subscribe one after    *)
(* the other; a failure of any ends the source, without a retry.           *)

(* What the configuration may name: the endpoint, its token, and whether   *)
(* the prefilters make a request (Prefilters, PreconfTransactions) and the *)
(* server answers.                                                         *)
Configs == [scheme : {"https", "http", "unix", "other"}, loopback : BOOLEAN,
            token : {"none", "valid", "invalid"}, filters : BOOLEAN, answers : BOOLEAN]

(* connect::channel: a token goes over http to a loopback host only. *)
ChannelRefused(c) == \/ c.scheme \notin {"https", "http"}
                     \/ c.token # "none" /\ c.scheme = "http" /\ ~c.loopback
                     \/ ~c.answers
ConfigRefused(c) == feeds = {} \/ ~c.filters \/ c.token = "invalid" \/ ChannelRefused(c)

SetupFails ==
    /\ phase = "connecting" /\ subscribed = {}
    /\ \E c \in Configs : ConfigRefused(c)
    /\ phase' = "Err"
    /\ UNCHANGED <<feeds, subscribed, connection, framing, hand, queued, receiver, budget>>

FirstSubscribe(f) ==
    /\ phase = "connecting" /\ f \in feeds \ subscribed
    /\ \E c \in Configs : ~ConfigRefused(c)
    /\ subscribed' = subscribed \cup {f}
    /\ phase' = IF subscribed' = feeds THEN "running" ELSE phase
    /\ stream' = [stream EXCEPT ![f] = "open"]
    /\ UNCHANGED <<feeds, attempt, failures, framing, hand, queued, receiver, budget>>

FirstSubscribeFails ==
    /\ phase = "connecting" /\ feeds \ subscribed # {}
    /\ phase' = "Err"
    /\ UNCHANGED <<feeds, subscribed, connection, framing, hand, queued, receiver, budget>>

----------------------------------------------------------------------------
(* The loop. It takes an item when nothing is in hand; a closed channel    *)
(* comes first.                                                            *)

Waiting == phase = "running" /\ hand = None

(* Only the polling of an open stream notices. *)
ClosedSeenByOpenStream ==
    /\ Waiting /\ ~receiver /\ \A f \in feeds : stream[f] = "open"
    /\ phase' = "ReceiverDropped"
    /\ UNCHANGED <<feeds, subscribed, connection, framing, hand, queued, receiver, budget>>

ClosedSeen ==
    /\ Waiting /\ ~receiver
    /\ phase' = "ReceiverDropped"
    /\ UNCHANGED <<feeds, subscribed, connection, framing, hand, queued, receiver, budget>>

(* BAM feeds frame no slots. *)
Payloads(f) == {u \in Updates : u.kind \in {"SlotStart", "SlotEnd"} => f \in Harmonic}

(* An update of feed f, through the resubscriber and the framer. *)
TakeUpdate(f, u) ==
    /\ Waiting /\ receiver /\ stream[f] = "open" /\ budget.updates > 0
    /\ budget' = [budget EXCEPT !.updates = @ - 1]
    /\ attempt' = [attempt EXCEPT ![f] = IF IsProgress(u, f) THEN 0 ELSE @]
    /\ failures' = [failures EXCEPT ![f] =
                       IF u.kind \in {"Transaction", "SlotStart"} THEN 0 ELSE @]
    /\ LET r == Apply(Framer(f), u, f)
       IN  /\ SetFramer(f, r.framer)
           /\ hand' = {[ok |-> TRUE, update |-> v] : v \in r.update}
           /\ seen' = [seen EXCEPT ![f] = @ \cup Held(r.framer)]
    /\ sent' = [sent EXCEPT ![f] = @ + (IF u.kind = "Transaction" THEN 1 ELSE 0)]
    /\ UNCHANGED <<source, stream, queued, receiver, delivered, repeated>>

(* tx.send: the runtime took it, or is gone and the update is lost. *)
Send ==
    /\ phase = "running" /\ \E h \in hand : h.ok /\
          \/ LET f == h.update.feed
                 at == <<h.update.slot, h.update.index>>
             IN  /\ receiver /\ queued < ChannelSize
                 /\ queued' = queued + 1
                 /\ delivered' = [delivered EXCEPT ![f] = @ \cup {at}]
                 /\ repeated' = [repeated EXCEPT ![f] =
                                   @ \cup {s \in {h.update.slot} : at \in delivered[f]}]
                 /\ counts' = [counts EXCEPT ![f].delivered = @ + 1]
                 /\ hand' = None /\ UNCHANGED phase
          \/ /\ ~receiver
             /\ phase' = "ReceiverDropped"
             /\ UNCHANGED <<queued, delivered, repeated, counts, hand>>
    /\ UNCHANGED <<feeds, subscribed, connection, frames, frontier, seen, sent, receiver, budget>>

(* The error of a stream that is not retried goes to the runtime too. *)
SendError ==
    /\ phase = "running" /\ \E h \in hand : ~h.ok
    /\ \/ receiver /\ queued < ChannelSize /\ queued' = queued + 1
       \/ ~receiver /\ UNCHANGED queued
    /\ phase' = "StreamError" /\ hand' = None
    /\ UNCHANGED <<feeds, subscribed, connection, framing, receiver, budget>>

----------------------------------------------------------------------------
(* The resubscriber. *)

Codes == {"retryable", "fatal", "ended"}    \* a status, or the end of the stream

Retries(n, code) == /\ AutoReconnect /\ code # "fatal"
                    /\ \A max \in MaxRetries : n <= max

(* A stream that ended is left out and the others go on. *)
FailedLeavingOut(f, code, stable) ==
    /\ failures' = [failures EXCEPT ![f] = @ + 1]
    /\ attempt' = [attempt EXCEPT ![f] = @ + 1]
    /\ stream' = [stream EXCEPT ![f] = IF Retries(attempt[f] + 1, code) THEN "none" ELSE "done"]
    /\ UNCHANGED <<phase, hand>>

(* Resubscriber::failed: the stream is retried, or the item it ends with   *)
(* ends the source.                                                        *)
Failed(f, code, stable) ==
    LET before == IF stable THEN 0 ELSE attempt[f]
        n == before + 1
    IN  /\ failures' = [failures EXCEPT ![f] = IF stable THEN 1 ELSE @ + 1]
        /\ IF Retries(n, code)
           THEN /\ attempt' = [attempt EXCEPT ![f] = n]
                /\ stream' = [stream EXCEPT ![f] = "none"]
                /\ UNCHANGED <<phase, hand>>
           ELSE /\ attempt' = [attempt EXCEPT ![f] = before]
                /\ stream' = [stream EXCEPT ![f] = "done"]
                /\ IF code = "ended"
                   THEN phase' = "StreamEnded" /\ UNCHANGED hand
                   ELSE hand' = Some([ok |-> FALSE]) /\ UNCHANGED phase

StreamFails(f, code) ==
    /\ Waiting /\ receiver /\ stream[f] = "open" /\ budget.failures > 0
    /\ budget' = [budget EXCEPT !.failures = @ - 1]
    /\ \E stable \in BOOLEAN : Failed(f, code, stable)
    /\ UNCHANGED <<feeds, subscribed, framing, queued, receiver>>

(* After the back-off: the subscribe succeeds and the framer is told, or   *)
(* it fails or times out.                                                  *)
Resubscribe(f) ==
    /\ Waiting /\ receiver /\ stream[f] = "none"
    /\ stream' = [stream EXCEPT ![f] = "open"]
    /\ SetFramer(f, Reconnected(Framer(f)))
    /\ UNCHANGED <<source, attempt, failures, hand, queued, receiver, delivered, repeated, seen,
                   sent, budget>>
ResubscribeFails(f, code) ==
    /\ Waiting /\ receiver /\ stream[f] = "none" /\ budget.failures > 0 /\ code # "ended"
    /\ budget' = [budget EXCEPT !.failures = @ - 1]
    /\ Failed(f, code, FALSE)
    /\ UNCHANGED <<feeds, subscribed, framing, queued, receiver>>

----------------------------------------------------------------------------
(* The environment. *)

RuntimeReceives ==
    /\ receiver /\ queued > 0
    /\ queued' = queued - 1
    /\ UNCHANGED <<source, connection, framing, hand, receiver, budget>>

RuntimeDrops ==
    /\ receiver
    /\ receiver' = FALSE /\ queued' = 0
    /\ UNCHANGED <<source, connection, framing, hand, budget>>

Init ==
    /\ feeds \in SUBSET Feeds
    /\ phase = "connecting" /\ subscribed = {}
    /\ stream = [f \in Feeds |-> "closed"]
    /\ attempt = [f \in Feeds |-> 0] /\ failures = [f \in Feeds |-> 0]
    /\ frames = [f \in Feeds |-> [s \in Slots |-> None]]
    /\ frontier = [f \in Feeds |-> None]
    /\ counts = [f \in Feeds |-> NoCounts]
    /\ hand = None /\ queued = 0 /\ receiver = TRUE
    /\ delivered = [f \in Feeds |-> {}] /\ repeated = [f \in Feeds |-> {}]
    /\ seen = [f \in Feeds |-> {}]
    /\ sent = [f \in Feeds |-> 0]
    /\ budget = [updates |-> MaxUpdates[Cardinality(feeds)], failures |-> MaxFailures]

Loop == ClosedSeen \/ Send \/ SendError

Next ==
    \/ SetupFails \/ FirstSubscribeFails \/ \E f \in Feeds : FirstSubscribe(f)
    \/ Loop
    \/ \E f \in Feeds : \E u \in Payloads(f) : TakeUpdate(f, u)
    \/ \E f \in Feeds, code \in Codes : StreamFails(f, code) \/ ResubscribeFails(f, code)
    \/ \E f \in Feeds : Resubscribe(f)
    \/ RuntimeReceives \/ RuntimeDrops

Spec == Init /\ [][Next]_vars

(* The loop is polled by Tokio whenever it can move; nothing is assumed of *)
(* the feeds or of the runtime.                                            *)
FairSpec == Spec /\ WF_vars(Loop)

----------------------------------------------------------------------------
(* Properties *)

Running == phase = "running"

TypeOK ==
    /\ phase \in {"connecting", "running", "Err", "ReceiverDropped", "StreamError", "StreamEnded"}
    /\ subscribed \subseteq Feeds
    /\ stream \in [Feeds -> {"closed", "open", "none", "done"}]
    /\ attempt \in [Feeds -> Nat]
    /\ \A f \in Feeds : Cardinality({s \in Slots : frames[f][s] # None}) <= MaxFrames
    /\ queued <= ChannelSize

(* Two updates of one slot carry the same index only when the slot's frame *)
(* was given up in between: the slot is older than the retention behind    *)
(* the frontier, or as many newer slots as the cap have been seen. Late    *)
(* starts, restarts and reconnects keep counting (Framer::next_index,      *)
(* advance, reconnected and the cap in apply).                             *)
IndexRepeatsOnlyWhenForgotten ==
    \A f \in Feeds : \A slot \in repeated[f] :
        \/ \E s \in frontier[f] : slot < s - SlotRetention
        \/ Cardinality({s \in seen[f] : s > slot}) >= MaxFrames

(* Every transaction a feed sent is delivered or counted under exactly one *)
(* reason; one at most is in hand, or lost with the receiver               *)
(* (Framer::transaction, Framer::bam and the loop's send).                 *)
Dropped(c) == c.unknown_result + c.vote_rule_dropped + c.undecodable
EveryTransactionAccounted ==
    \A f \in Feeds :
        LET kept == Cardinality({h \in hand : h.ok /\ h.update.feed = f})
            c == counts[f]
        IN  /\ Cardinality(delivered[f]) <= c.delivered
            /\ c.delivered + Dropped(c) + kept <= sent[f]
            /\ sent[f] <= c.delivered + Dropped(c) + kept + c.unknown_payload

(* A stream that is gone for good stops the source: the runtime never goes *)
(* on with a part of the feeds and no signal (Item::Ended and Item::Update *)
(* with an error, in the loop).                                            *)
NoPartialFeed ==
    (Running /\ hand = None) => \A f \in feeds : stream[f] \in {"open", "none"}

(* A feed that fails again and again without a transaction or a slot start *)
(* in between, on streams that do not last, is retried max_retries times   *)
(* and no more; pings do not count as progress (Resubscriber::next and     *)
(* failed).                                                                *)
RetriesBounded ==
    \A f \in Feeds, max \in MaxRetries :
        (phase # "connecting" /\ stream[f] \in {"open", "none"}) => failures[f] <= max

(* Once the runtime has dropped its receiver the source ends, also when    *)
(* every stream waits in a back-off and nothing is ever sent (the closed   *)
(* branch of the loop).                                                    *)
ReceiverDropEndsSource == (Running /\ ~receiver) ~> ~Running

(* The frames of a feed stay within their cap, and giving one up is the    *)
(* only way in which an index repeats.                                     *)
FramesKept == TypeOK /\ IndexRepeatsOnlyWhenForgotten

(* A feed that fails is retried as often as configured, and then the       *)
(* source stops rather than go on with the other feeds.                    *)
FeedFailuresBounded == RetriesBounded /\ NoPartialFeed
=============================================================================
