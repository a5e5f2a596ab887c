------------------------ MODULE PreconfSourceProofs ------------------------
(***************************************************************************)
(* Theorems about PreconfSource, for every set of feeds, slots, updates    *)
(* and vote rules, every retention, cap and reconnection policy.           *)
(***************************************************************************)
EXTENDS PreconfSource, FiniteSetTheorems, TLAPS

-----------------------------------------------------------------------------
(* Framers                                                                 *)

Frame == [next : Nat, open : BOOLEAN, ended : BOOLEAN]
CounterNames == {"delivered", "unknown_result", "vote_rule_dropped", "undecodable",
                 "out_of_frame", "clipped", "restarts", "unknown_payload", "reconnects"}
Counters == [delivered : Nat, unknown_result : Nat, vote_rule_dropped : Nat, undecodable : Nat,
             out_of_frame : Nat, clipped : Nat, restarts : Nat, unknown_payload : Nat,
             reconnects : Nat]
Options(S) == {None} \cup {Some(x) : x \in S}
Framers == [frames : [Slots -> Options(Frame)], frontier : Options(Slots), counts : Counters]

(* The slot is older than the retention behind the framer's frontier. *)
Pruned(fr, s) == \E x \in fr.frontier : s < x - SlotRetention

(* From fr to p, a step that concerns the given slot: frames are given up  *)
(* only behind the frontier, no index is counted back, no other slot gets  *)
(* a frame.                                                                *)
Evolves(fr, p, slot) ==
    /\ fr \in Framers /\ p \in Framers
    /\ Held(p) \subseteq Held(fr) \cup {slot}
    /\ p.frontier = fr.frontier \/ (p.frontier = Some(slot) /\ \A x \in fr.frontier : x < slot)
    /\ \A s \in Held(fr) :
          Pruned(p, s) \/ (s \in Held(p) /\ Entry(p, s).next >= Entry(fr, s).next)

(* The counts that tell what became of a transaction. *)
SameAccount(fr, p) ==
    /\ p.counts.delivered = fr.counts.delivered
    /\ Dropped(p.counts) = Dropped(fr.counts)
    /\ p.counts.unknown_payload \in
          {fr.counts.unknown_payload, fr.counts.unknown_payload + 1}

LEMMA EntryType ==
    ASSUME NEW fr \in Framers, NEW s \in Slots
    PROVE  /\ Entry(fr, s) \in Frame
           /\ s \notin Held(fr) => Entry(fr, s).next = 0
<1>1. fr.frames[s] \in Options(Frame)
    BY DEF Framers
<1>2. CASE fr.frames[s] = None
    BY <1>2 DEF Entry, NewFrame, Frame
<1>3. CASE fr.frames[s] # None
    <2>1. PICK e \in Frame : fr.frames[s] = {e}
        BY <1>1, <1>3 DEF Options, Some
    <2>2. Entry(fr, s) = CHOOSE x \in {e} : TRUE
        BY <1>3, <2>1 DEF Entry
    <2>3. s \in Held(fr)
        BY <1>3 DEF Held
    <2>. QED BY <2>2, <2>3
<1>. QED BY <1>2, <1>3

LEMMA SetEntryFacts ==
    ASSUME NEW fr \in Framers, NEW slot \in Slots, NEW e \in Frame
    PROVE  LET p == SetEntry(fr, slot, e)
           IN  /\ p \in Framers /\ Held(p) = Held(fr) \cup {slot}
               /\ p.frontier = fr.frontier /\ p.counts = fr.counts
               /\ Entry(p, slot) = e
               /\ \A s \in Slots \ {slot} : Entry(p, s) = Entry(fr, s)
<1> DEFINE p == SetEntry(fr, slot, e)
<1>1. /\ p.frames = [fr.frames EXCEPT ![slot] = {e}]
      /\ p.frontier = fr.frontier /\ p.counts = fr.counts
    BY DEF SetEntry, Some, Framers
<1>2. {e} \in Options(Frame) /\ {e} # None
    BY DEF Options, Some, None
<1>3. p \in Framers
    <2>1. [fr.frames EXCEPT ![slot] = {e}] \in [Slots -> Options(Frame)]
        BY <1>2 DEF Framers
    <2>. QED BY <2>1 DEF SetEntry, Some, Framers
<1>4. /\ p.frames[slot] = {e}
      /\ \A s \in Slots \ {slot} : p.frames[s] = fr.frames[s]
    BY <1>1 DEF Framers
<1>5. Held(p) = Held(fr) \cup {slot}
    BY <1>2, <1>4 DEF Held
<1>6. Entry(p, slot) = e
    <2>1. Entry(p, slot) = CHOOSE x \in {e} : TRUE
        BY <1>2, <1>4 DEF Entry
    <2>. QED BY <2>1
<1>7. ASSUME NEW s \in Slots \ {slot} PROVE Entry(p, s) = Entry(fr, s)
    <2>1. p.frames[s] = fr.frames[s]
        BY <1>4
    <2>. QED BY <2>1 DEF Entry
<1>. QED BY <1>1, <1>3, <1>5, <1>6, <1>7

LEMMA CountFacts ==
    ASSUME NEW fr \in Framers, NEW c \in CounterNames
    PROVE  LET p == Count(fr, c)
           IN  /\ p \in Framers /\ p.frames = fr.frames /\ p.frontier = fr.frontier
               /\ p.counts = [fr.counts EXCEPT ![c] = @ + 1]
               /\ Held(p) = Held(fr) /\ \A s \in Slots : Entry(p, s) = Entry(fr, s)
<1> DEFINE p == Count(fr, c)
<1>1. /\ p.frames = fr.frames /\ p.frontier = fr.frontier
      /\ p.counts = [fr.counts EXCEPT ![c] = @ + 1]
    BY DEF Count, Framers
<1>2. [fr.counts EXCEPT ![c] = @ + 1] \in Counters
    BY DEF Framers, Counters, CounterNames
<1>3. p \in Framers
    BY <1>2 DEF Count, Framers
<1>. QED BY <1>1, <1>3 DEF Held, Entry

(* What is behind the frontier stays behind it. *)
LEMMA PrunedStays ==
    ASSUME NEW b, NEW c, NEW slot \in Slots, Evolves(b, c, slot), NEW s \in Slots, Pruned(b, s)
    PROVE  Pruned(c, s)
<1> USE PreconfAssumption
<1>1. PICK x \in b.frontier : s < x - SlotRetention
    BY DEF Pruned
<1>2. x \in Nat /\ s \in Nat /\ slot \in Nat
    BY DEF Evolves, Framers, Options, Some, None
<1>3. CASE c.frontier = b.frontier
    BY <1>1, <1>3 DEF Pruned
<1>4. CASE c.frontier = {slot} /\ x < slot
    <2>1. s < slot - SlotRetention
        BY <1>1, <1>2, <1>4
    <2>. QED BY <1>4, <2>1 DEF Pruned
<1>. QED BY <1>3, <1>4 DEF Evolves, Some

(* Evolves is closed under composition. *)
LEMMA EvolvesTrans ==
    ASSUME NEW a, NEW b, NEW c, NEW slot \in Slots, Evolves(a, b, slot), Evolves(b, c, slot)
    PROVE  Evolves(a, c, slot)
<1> USE PreconfAssumption
<1>1. a \in Framers /\ b \in Framers /\ c \in Framers
    BY DEF Evolves
<1>2. a.frontier \subseteq Nat /\ b.frontier \subseteq Nat /\ c.frontier \subseteq Nat /\ slot \in Nat
    BY <1>1 DEF Framers, Options, Some, None
<1>3. c.frontier = a.frontier \/ (c.frontier = Some(slot) /\ \A x \in a.frontier : x < slot)
    BY <1>2 DEF Evolves, Some
<1>4. \A s \in Slots : Pruned(b, s) => Pruned(c, s)
    BY PrunedStays
<1>5. ASSUME NEW s \in Held(a)
      PROVE  Pruned(c, s) \/ (s \in Held(c) /\ Entry(c, s).next >= Entry(a, s).next)
    <2>1. s \in Slots
        BY DEF Held
    <2>2. /\ Entry(a, s).next \in Nat /\ Entry(b, s).next \in Nat /\ Entry(c, s).next \in Nat
        BY <1>1, <2>1, EntryType DEF Frame
    <2>. QED BY <1>4, <2>1, <2>2 DEF Evolves
<1>. QED BY <1>1, <1>3, <1>5 DEF Evolves

LEMMA EvolvesSet ==
    ASSUME NEW fr \in Framers, NEW slot \in Slots, NEW e \in Frame,
           e.next >= Entry(fr, slot).next
    PROVE  Evolves(fr, SetEntry(fr, slot, e), slot)
<1> DEFINE p == SetEntry(fr, slot, e)
<1>1. /\ p \in Framers /\ Held(p) = Held(fr) \cup {slot} /\ p.frontier = fr.frontier
      /\ Entry(p, slot) = e /\ \A s \in Slots \ {slot} : Entry(p, s) = Entry(fr, s)
    BY SetEntryFacts
<1> HIDE DEF p
<1>2. ASSUME NEW s \in Held(fr)
      PROVE  s \in Held(p) /\ Entry(p, s).next >= Entry(fr, s).next
    <2>1. s \in Slots
        BY DEF Held
    <2>2. Entry(fr, s).next \in Nat
        BY <2>1, EntryType DEF Frame
    <2>. QED BY <1>1, <2>1, <2>2
<1>. QED BY <1>1, <1>2 DEF Evolves, p

LEMMA EvolvesCount ==
    ASSUME NEW fr \in Framers, NEW slot \in Slots, NEW c \in CounterNames
    PROVE  Evolves(fr, Count(fr, c), slot)
<1> DEFINE p == Count(fr, c)
<1>1. /\ p \in Framers /\ p.frontier = fr.frontier
      /\ Held(p) = Held(fr) /\ \A s \in Slots : Entry(p, s) = Entry(fr, s)
    BY CountFacts
<1> HIDE DEF p
<1>2. \A s \in Held(fr) : s \in Slots /\ Entry(fr, s).next \in Nat
    BY EntryType DEF Held, Frame
<1>3. \A s \in Held(fr) : s \in Held(p) /\ Entry(p, s).next >= Entry(fr, s).next
    BY <1>1, <1>2
<1>. QED BY <1>1, <1>3 DEF Evolves, p

LEMMA EvolvesSame ==
    ASSUME NEW fr \in Framers, NEW slot \in Slots
    PROVE  Evolves(fr, fr, slot)
<1>1. \A s \in Held(fr) : Entry(fr, s).next \in Nat
    BY EntryType DEF Held, Frame
<1>2. \A s \in Held(fr) : Entry(fr, s).next >= Entry(fr, s).next
    BY <1>1
<1>. QED BY <1>2 DEF Evolves

(* Framer::advance *)
LEMMA EvolvesAdvance ==
    ASSUME NEW fr \in Framers, NEW slot \in Slots
    PROVE  Evolves(fr, Advance(fr, slot), slot) /\ Advance(fr, slot).counts = fr.counts
<1> USE PreconfAssumption
<1> DEFINE p == Advance(fr, slot)
<1>1. CASE \E x \in fr.frontier : slot <= x
    BY <1>1, EvolvesSame DEF Advance
<1>2. CASE ~ \E x \in fr.frontier : slot <= x
    <2>1. /\ p.frontier = {slot} /\ p.counts = fr.counts
          /\ p.frames = [s \in Slots |-> IF s < slot - SlotRetention THEN None ELSE fr.frames[s]]
          /\ p \in Framers
        <3>1. [s \in Slots |-> IF s < slot - SlotRetention THEN None ELSE fr.frames[s]]
                 \in [Slots -> Options(Frame)]
            BY DEF Framers, Options
        <3>2. {slot} \in Options(Slots)
            BY DEF Options, Some
        <3>3. p = [fr EXCEPT !.frontier = {slot}, !.frames =
                     [s \in Slots |-> IF s < slot - SlotRetention THEN None ELSE fr.frames[s]]]
            BY <1>2 DEF Advance, Some
        <3>. QED BY <3>1, <3>2, <3>3 DEF Framers
    <2> HIDE DEF p
    <2>2. \A x \in fr.frontier : x \in Nat /\ x < slot
        BY <1>2 DEF Framers, Options, Some, None
    <2>3. Held(p) \subseteq Held(fr)
        BY <2>1 DEF Held
    <2>4. ASSUME NEW s \in Held(fr)
          PROVE  Pruned(p, s) \/ (s \in Held(p) /\ Entry(p, s).next >= Entry(fr, s).next)
        <3>1. s \in Slots /\ Entry(fr, s).next \in Nat
            BY EntryType DEF Held, Frame
        <3>2. CASE s < slot - SlotRetention
            BY <2>1, <3>2 DEF Pruned
        <3>3. CASE ~(s < slot - SlotRetention)
            <4>1. p.frames[s] = fr.frames[s]
                BY <2>1, <3>1, <3>3
            <4>. QED BY <3>1, <4>1 DEF Held, Entry
        <3>. QED BY <3>2, <3>3
    <2>5. Evolves(fr, p, slot)
        BY <2>1, <2>2, <2>3, <2>4 DEF Evolves, Some
    <2>. QED BY <2>1, <2>5 DEF p
<1>. QED BY <1>1, <1>2

-----------------------------------------------------------------------------
(* One update through the framer.                                          *)

(* The update v carries the next index of its slot, and that index will    *)
(* not be given again to the slot while p, or what p becomes, keeps it.    *)
Indexed(fr, p, v, f, slot) ==
    /\ v.feed = f /\ v.slot = slot /\ v.index = Entry(fr, slot).next
    /\ Pruned(p, slot) \/ (slot \in Held(p) /\ v.index < Entry(p, slot).next)

(* The Option of an update that leaves the framer. *)
Carried(fr, p, update, f, slot) ==
    update = None \/ \E v : update = Some(v) /\ Indexed(fr, p, v, f, slot)

(* What happened to a transaction: it is on its way, or it was counted. *)
Accounted(fr, p, update) ==
    \/ (\E v : update = Some(v)) /\ SameAccount(fr, p)
    \/ /\ update = None /\ p.counts.delivered = fr.counts.delivered
       /\ \/ /\ Dropped(p.counts) = Dropped(fr.counts) + 1
             /\ p.counts.unknown_payload = fr.counts.unknown_payload
          \/ /\ Dropped(p.counts) = Dropped(fr.counts)
             /\ p.counts.unknown_payload = fr.counts.unknown_payload + 1

(* Framer::transaction *)
LEMMA FrameTransactionFacts ==
    ASSUME NEW fr \in Framers, NEW slot \in Slots, NEW tx, NEW f,
           NEW r, r = FrameTransaction(fr, slot, tx, f)
    PROVE  /\ Evolves(fr, r.framer, slot) /\ Accounted(fr, r.framer, r.update)
           /\ Carried(fr, r.framer, r.update, f, slot)
           /\ r = [framer |-> r.framer, update |-> r.update]
<1> DEFINE e == Entry(fr, slot)
           wanted == tx.result # None /\ tx.decodes /\ tx.signed /\ WantedBy(tx) # {}
<1>0. e \in Frame
    BY EntryType
<1>1. CASE wanted
    <2> DEFINE c == IF e.open THEN fr ELSE Count(fr, "out_of_frame")
               n == [e EXCEPT !.next = @ + 1]
               p == SetEntry(c, slot, n)
               v == [feed |-> f, slot |-> slot, index |-> e.next,
                     filters |-> WantedBy(tx), vote |-> tx.vote,
                     failed |-> tx.result # Some("Success"),
                     message |-> Convert(tx.version)]
    <2>1. r = [framer |-> p, update |-> Some(v)]
        BY <1>1 DEF FrameTransaction
    <2>2. /\ c \in Framers /\ Evolves(fr, c, slot) /\ Entry(c, slot) = e
          /\ c.counts.delivered = fr.counts.delivered
          /\ c.counts.unknown_payload = fr.counts.unknown_payload
          /\ Dropped(c.counts) = Dropped(fr.counts)
        <3>1. CASE e.open
            BY <3>1, EvolvesSame
        <3>2. CASE ~e.open
            <4>1. "out_of_frame" \in CounterNames
                BY DEF CounterNames
            <4>2. Count(fr, "out_of_frame").counts = [fr.counts EXCEPT !["out_of_frame"] = @ + 1]
                BY <4>1, CountFacts
            <4>3. /\ Count(fr, "out_of_frame") \in Framers
                  /\ Entry(Count(fr, "out_of_frame"), slot) = e
                BY <4>1, CountFacts
            <4>4. Evolves(fr, Count(fr, "out_of_frame"), slot)
                BY <4>1, EvolvesCount
            <4>5. fr.counts \in Counters
                BY DEF Framers
            <4>6. c = Count(fr, "out_of_frame")
                BY <3>2
            <4> HIDE DEF c
            <4>7. c.counts = [fr.counts EXCEPT !["out_of_frame"] = @ + 1]
                BY <4>2, <4>6
            <4>8. /\ c.counts.delivered = fr.counts.delivered
                  /\ c.counts.unknown_payload = fr.counts.unknown_payload
                  /\ Dropped(c.counts) = Dropped(fr.counts)
                BY <4>5, <4>7 DEF Counters, Dropped
            <4>. QED BY <4>3, <4>4, <4>6, <4>8
        <3>. QED BY <3>1, <3>2
    <2>3. n \in Frame /\ n.next = e.next + 1 /\ n.next >= e.next
        BY <1>0 DEF Frame
    <2> HIDE DEF c, n
    <2>4. /\ p \in Framers /\ slot \in Held(p) /\ Entry(p, slot) = n /\ p.counts = c.counts
        BY <2>2, <2>3, SetEntryFacts
    <2>5. Evolves(c, p, slot)
        BY <2>2, <2>3, EvolvesSet
    <2>6. Evolves(fr, p, slot)
        BY <2>2, <2>5, EvolvesTrans
    <2>7. SameAccount(fr, p)
        BY <2>2, <2>4 DEF SameAccount
    <2>8. Indexed(fr, p, v, f, slot)
        BY <1>0, <2>3, <2>4 DEF Indexed, Frame
    <2> HIDE DEF p, v
    <2>9. r.framer = p /\ r.update = {v}
        BY <2>1 DEF Some
    <2>10. Carried(fr, r.framer, r.update, f, slot)
        BY <2>8, <2>9 DEF Carried, Some
    <2>11. r = [framer |-> r.framer, update |-> r.update]
        BY <2>1
    <2>. QED BY <2>6, <2>7, <2>9, <2>10, <2>11 DEF Accounted, Some
<1>2. CASE ~wanted
    <2> DEFINE p == FrameTransactionDropped(fr, slot, tx, f)
    <2>1. r = [framer |-> p, update |-> None]
        BY <1>2 DEF FrameTransaction
    <2>2. PICK c \in {"unknown_result", "undecodable", "unknown_payload", "vote_rule_dropped"} :
             p = Count(fr, c)
        BY DEF FrameTransactionDropped
    <2>3. c \in CounterNames
        BY DEF CounterNames
    <2>4. Evolves(fr, p, slot) /\ p.counts = [fr.counts EXCEPT ![c] = @ + 1]
        BY <2>2, <2>3, EvolvesCount, CountFacts
    <2>5. fr.counts \in Counters
        BY DEF Framers
    <2>6. /\ p.counts.delivered = fr.counts.delivered
          /\ \/ /\ Dropped(p.counts) = Dropped(fr.counts) + 1
                /\ p.counts.unknown_payload = fr.counts.unknown_payload
             \/ /\ Dropped(p.counts) = Dropped(fr.counts)
                /\ p.counts.unknown_payload = fr.counts.unknown_payload + 1
        <3> HIDE DEF p
        <3>1. CASE c = "unknown_result"
            BY <2>4, <2>5, <3>1 DEF Counters, Dropped
        <3>2. CASE c = "undecodable"
            BY <2>4, <2>5, <3>2 DEF Counters, Dropped
        <3>3. CASE c = "unknown_payload"
            BY <2>4, <2>5, <3>3 DEF Counters, Dropped
        <3>4. CASE c = "vote_rule_dropped"
            BY <2>4, <2>5, <3>4 DEF Counters, Dropped
        <3>. QED BY <3>1, <3>2, <3>3, <3>4
    <2> HIDE DEF p
    <2>7. r.framer = p /\ r.update = None
        BY <2>1
    <2>8. r = [framer |-> r.framer, update |-> r.update]
        BY <2>1
    <2>. QED BY <2>4, <2>6, <2>7, <2>8 DEF Accounted, Carried
<1>. QED BY <1>1, <1>2

(* What an update does to the framer before the cap. *)
Taken(fr, p, update, u, f) ==
    /\ Evolves(fr, p, u.slot) /\ Carried(fr, p, update, f, u.slot)
    /\ IF u.kind = "Transaction" THEN Accounted(fr, p, update)
       ELSE update = None /\ SameAccount(fr, p)

LEMMA TakenCount ==
    ASSUME NEW fr \in Framers, NEW u, u.slot \in Slots, u.kind # "Transaction", NEW f,
           NEW c \in {"clipped", "unknown_payload", "restarts"}
    PROVE  Taken(fr, Count(fr, c), None, u, f)
<1> DEFINE p == Count(fr, c)
<1>1. c \in CounterNames
    BY DEF CounterNames
<1>2. Evolves(fr, p, u.slot) /\ p.counts = [fr.counts EXCEPT ![c] = @ + 1]
    BY <1>1, EvolvesCount, CountFacts
<1>3. fr.counts \in Counters
    BY DEF Framers
<1> HIDE DEF p
<1>4. SameAccount(fr, p)
    <2>1. CASE c = "clipped"
        BY <1>2, <1>3, <2>1 DEF Counters, Dropped, SameAccount
    <2>2. CASE c = "unknown_payload"
        BY <1>2, <1>3, <2>2 DEF Counters, Dropped, SameAccount
    <2>3. CASE c = "restarts"
        BY <1>2, <1>3, <2>3 DEF Counters, Dropped, SameAccount
    <2>. QED BY <2>1, <2>2, <2>3
<1>5. Taken(fr, p, None, u, f)
    BY <1>2, <1>4 DEF Taken, Carried
<1>. QED BY <1>5 DEF p

LEMMA TakenSame ==
    ASSUME NEW fr \in Framers, NEW u, u.slot \in Slots, u.kind # "Transaction", NEW f
    PROVE  Taken(fr, fr, None, u, f)
BY EvolvesSame DEF Taken, Carried, SameAccount

(* A slot start or end: the frame is opened or closed and keeps its index. *)
LEMMA TakenMark ==
    ASSUME NEW fr \in Framers, NEW u, u.slot \in Slots, u.kind # "Transaction", NEW f,
           NEW b, Taken(fr, b, None, u, f), Entry(b, u.slot) = Entry(fr, u.slot),
           NEW e \in Frame, e.next = Entry(fr, u.slot).next
    PROVE  /\ Taken(fr, SetEntry(b, u.slot, e), None, u, f)
           /\ Taken(fr, Advance(SetEntry(b, u.slot, e), u.slot), None, u, f)
<1> DEFINE p == SetEntry(b, u.slot, e)
           q == Advance(p, u.slot)
<1>1. b \in Framers /\ Evolves(fr, b, u.slot) /\ SameAccount(fr, b)
    BY DEF Taken, Evolves
<1>2. e.next >= Entry(b, u.slot).next
    BY DEF Frame
<1>3. Evolves(b, p, u.slot) /\ p.counts = b.counts /\ p \in Framers
    BY <1>1, <1>2, EvolvesSet, SetEntryFacts
<1> HIDE DEF p
<1>4. Evolves(p, q, u.slot) /\ q.counts = p.counts
    BY <1>3, EvolvesAdvance
<1> HIDE DEF q
<1>5. Evolves(fr, p, u.slot)
    BY <1>1, <1>3, EvolvesTrans
<1>6. Evolves(fr, q, u.slot)
    BY <1>5, <1>4, EvolvesTrans
<1>7. Taken(fr, p, None, u, f) /\ Taken(fr, q, None, u, f)
    BY <1>1, <1>3, <1>4, <1>5, <1>6 DEF Taken, Carried, SameAccount
<1>. QED BY <1>7 DEF p, q

LEMMA HarmonicTaken ==
    ASSUME NEW fr \in Framers, NEW u, u.slot \in Slots, NEW f,
           NEW a, a = ApplyHarmonic(fr, u, f)
    PROVE  /\ a = [framer |-> a.framer, update |-> a.update]
           /\ Taken(fr, a.framer, a.update, u, f)
<1> DEFINE e == Entry(fr, u.slot)
<1>0. e \in Frame
    BY EntryType
<1>1. CASE u.kind = "Transaction"
    <2>1. a = FrameTransaction(fr, u.slot, u.tx, f)
        BY <1>1 DEF ApplyHarmonic
    <2>2. /\ Evolves(fr, a.framer, u.slot) /\ Accounted(fr, a.framer, a.update)
          /\ Carried(fr, a.framer, a.update, f, u.slot)
          /\ a = [framer |-> a.framer, update |-> a.update]
        BY <2>1, FrameTransactionFacts
    <2>. QED BY <1>1, <2>2 DEF Taken
<1>2. CASE u.kind = "SlotStart"
    <2> DEFINE b == IF e.ended THEN Count(fr, "restarts") ELSE fr
               n == [e EXCEPT !.open = TRUE, !.ended = FALSE]
    <2>1. a = [framer |-> SetEntry(b, u.slot, n), update |-> None]
        BY <1>2 DEF ApplyHarmonic
    <2>2. Taken(fr, b, None, u, f) /\ Entry(b, u.slot) = e
        <3>1. CASE e.ended
            <4>1. b = Count(fr, "restarts") /\ "restarts" \in CounterNames
                BY <3>1 DEF CounterNames
            <4> HIDE DEF b
            <4>. QED BY <1>2, <4>1, TakenCount, CountFacts
        <3>2. CASE ~e.ended
            BY <1>2, <3>2, TakenSame
        <3>. QED BY <3>1, <3>2
    <2>3. n \in Frame /\ n.next = e.next
        BY <1>0 DEF Frame
    <2> HIDE DEF b, n
    <2>4. Taken(fr, SetEntry(b, u.slot, n), None, u, f)
        BY <1>2, <2>2, <2>3, TakenMark
    <2>. QED BY <2>1, <2>4
<1>3. CASE u.kind = "SlotEnd"
    <2> DEFINE n == [e EXCEPT !.open = FALSE, !.ended = TRUE]
    <2>1. a = [framer |-> Advance(SetEntry(fr, u.slot, n), u.slot), update |-> None]
        BY <1>3 DEF ApplyHarmonic
    <2>2. n \in Frame /\ n.next = e.next
        BY <1>0 DEF Frame
    <2> HIDE DEF n
    <2>3. Taken(fr, fr, None, u, f)
        BY <1>3, TakenSame
    <2>4. Taken(fr, Advance(SetEntry(fr, u.slot, n), u.slot), None, u, f)
        BY <1>3, <2>2, <2>3, TakenMark
    <2>. QED BY <2>1, <2>4
<1>4. CASE u.kind = "Clip"
    <2>1. a = [framer |-> Count(fr, "clipped"), update |-> None]
        BY <1>4 DEF ApplyHarmonic
    <2>2. Taken(fr, Count(fr, "clipped"), None, u, f)
        BY <1>4, TakenCount
    <2>. QED BY <2>1, <2>2
<1>5. CASE u.kind = "Ping"
    <2>1. a = [framer |-> fr, update |-> None]
        BY <1>5 DEF ApplyHarmonic
    <2>2. Taken(fr, fr, None, u, f)
        BY <1>5, TakenSame
    <2>. QED BY <2>1, <2>2
<1>6. CASE u.kind \notin {"Transaction", "SlotStart", "SlotEnd", "Clip", "Ping"}
    <2>1. a = [framer |-> Count(fr, "unknown_payload"), update |-> None]
        BY <1>6 DEF ApplyHarmonic
    <2>2. Taken(fr, Count(fr, "unknown_payload"), None, u, f)
        BY <1>6, TakenCount
    <2>. QED BY <2>1, <2>2
<1>. QED BY <1>1, <1>2, <1>3, <1>4, <1>5, <1>6

LEMMA BamTaken ==
    ASSUME NEW fr \in Framers, NEW u, u.slot \in Slots, NEW f,
           NEW a, a = ApplyBam(fr, u, f)
    PROVE  /\ a = [framer |-> a.framer, update |-> a.update]
           /\ Taken(fr, a.framer, a.update, u, f)
<1>1. CASE u.kind = "Transaction"
    <2> DEFINE e == Entry(fr, u.slot)
               n == [e EXCEPT !.open = TRUE]
               o == SetEntry(fr, u.slot, n)
               r == FrameTransaction(o, u.slot, u.tx, f)
    <2>0. e \in Frame
        BY EntryType
    <2>2. a = [r EXCEPT !.framer = Advance(@, u.slot)]
        BY <1>1 DEF ApplyBam
    <2> HIDE DEF e
    <2>21. n \in Frame /\ n.next = e.next
        BY <2>0 DEF Frame
    <2> USE DEF e
    <2> HIDE DEF n
    <2>1. n \in Frame /\ n.next = e.next /\ n.next >= e.next
        BY <2>0, <2>21 DEF Frame
    <2>3. o \in Framers /\ o.counts = fr.counts /\ Entry(o, u.slot) = n /\ Evolves(fr, o, u.slot)
        BY <2>1, SetEntryFacts, EvolvesSet
    <2> HIDE DEF o
    <2>4. /\ Evolves(o, r.framer, u.slot) /\ Accounted(o, r.framer, r.update)
          /\ Carried(o, r.framer, r.update, f, u.slot)
          /\ r = [framer |-> r.framer, update |-> r.update]
        BY <2>3, FrameTransactionFacts
    <2> HIDE DEF r
    <2> DEFINE q == Advance(r.framer, u.slot)
    <2>5. r.framer \in Framers
        BY <2>4 DEF Evolves
    <2>6. Evolves(r.framer, q, u.slot) /\ q.counts = r.framer.counts
        BY <2>5, EvolvesAdvance
    <2> HIDE DEF q
    <2>7. a = [framer |-> q, update |-> r.update]
        BY <2>2, <2>4 DEF q
    <2>8. Evolves(fr, q, u.slot)
        BY <2>3, <2>4, <2>6, EvolvesTrans
    <2>9. Accounted(fr, q, r.update)
        BY <2>3, <2>4, <2>6 DEF Accounted, SameAccount
    <2>10. Carried(fr, q, r.update, f, u.slot)
        <3>1. ASSUME NEW v, Indexed(o, r.framer, v, f, u.slot)
              PROVE  Indexed(fr, q, v, f, u.slot)
            <4>1. v.feed = f /\ v.slot = u.slot /\ v.index = e.next
                BY <2>1, <2>3, <3>1 DEF Indexed
            <4>2. CASE Pruned(r.framer, u.slot)
                <5>1. Pruned(q, u.slot)
                    BY <2>6, <4>2, PrunedStays
                <5>. QED BY <4>1, <5>1 DEF Indexed
            <4>3. CASE u.slot \in Held(r.framer) /\ v.index < Entry(r.framer, u.slot).next
                <5>1. \/ Pruned(q, u.slot)
                      \/ (u.slot \in Held(q)
                             /\ Entry(q, u.slot).next >= Entry(r.framer, u.slot).next)
                    BY <2>6, <4>3 DEF Evolves
                <5>2. v.index \in Nat
                    BY <4>1, EntryType DEF Frame
                <5>3. q \in Framers
                    BY <2>6 DEF Evolves
                <5>4. Entry(q, u.slot).next \in Nat /\ Entry(r.framer, u.slot).next \in Nat
                    BY <2>5, <5>3, EntryType DEF Frame
                <5>. QED BY <4>1, <4>3, <5>1, <5>2, <5>4 DEF Indexed
            <4>. QED BY <3>1, <4>2, <4>3 DEF Indexed
        <3>. QED BY <2>4, <3>1 DEF Carried
    <2>. QED BY <1>1, <2>7, <2>8, <2>9, <2>10 DEF Taken
<1>2. CASE u.kind = "Clip"
    <2>1. a = [framer |-> Count(fr, "clipped"), update |-> None]
        BY <1>2 DEF ApplyBam
    <2>2. Taken(fr, Count(fr, "clipped"), None, u, f)
        BY <1>2, TakenCount
    <2>. QED BY <2>1, <2>2
<1>3. CASE u.kind = "Ping"
    <2>1. a = [framer |-> fr, update |-> None]
        BY <1>3 DEF ApplyBam
    <2>2. Taken(fr, fr, None, u, f)
        BY <1>3, TakenSame
    <2>. QED BY <2>1, <2>2
<1>4. CASE u.kind \notin {"Transaction", "Clip", "Ping"}
    <2>1. a = [framer |-> Count(fr, "unknown_payload"), update |-> None]
        BY <1>4 DEF ApplyBam
    <2>2. Taken(fr, Count(fr, "unknown_payload"), None, u, f)
        BY <1>4, TakenCount
    <2>. QED BY <2>1, <2>2
<1>. QED BY <1>1, <1>2, <1>3, <1>4

(* Framer::apply *)
LEMMA ApplyTaken ==
    ASSUME NEW fr \in Framers, NEW u, u.slot \in Slots, NEW f, NEW r, r = Apply(fr, u, f)
    PROVE  \E p : r.framer = CapFrames(p) /\ Taken(fr, p, r.update, u, f)
<1> DEFINE a == IF f \in Harmonic THEN ApplyHarmonic(fr, u, f) ELSE ApplyBam(fr, u, f)
<1>1. /\ a = [framer |-> a.framer, update |-> a.update]
      /\ Taken(fr, a.framer, a.update, u, f)
    <2>1. CASE f \in Harmonic
        BY <2>1, HarmonicTaken
    <2>2. CASE f \notin Harmonic
        BY <2>2, BamTaken
    <2>. QED BY <2>1, <2>2
<1>2. r = [a EXCEPT !.framer = CapFrames(@)]
    BY DEF Apply
<1> HIDE DEF a
<1>3. r.framer = CapFrames(a.framer) /\ r.update = a.update
    BY <1>1, <1>2
<1>. QED BY <1>1, <1>3

-----------------------------------------------------------------------------
(* The cap: what CapFrames leaves and what it gives up.                    *)

LEMMA CapHolds ==
    ASSUME NEW H \in SUBSET Nat, IsFiniteSet(H), NEW m \in Nat
    PROVE  LET K == {s \in H : ~(Cardinality({t \in H : t >= s}) > m)}
           IN  IsFiniteSet(K) /\ Cardinality(K) <= m
<1> DEFINE From(s) == {t \in H : t >= s}
           K == {s \in H : ~(Cardinality(From(s)) > m)}
<1>0. K \in SUBSET H
    OBVIOUS
<1> HIDE DEF K
<1>1. IsFiniteSet(K)
    BY <1>0, FS_Subset
<1>2. CASE K = {}
    <2>1. Cardinality(K) <= m
        BY <1>1, <1>2, FS_EmptySet
    <2>. QED BY <1>1, <2>1 DEF K
<1>3. CASE K # {}
    <2>1. PICK x \in K : \A y \in K : ~(<<y, x>> \in OpToRel(<, Nat))
        <3>1. K \subseteq Nat
            BY <1>0
        <3>. QED BY <1>3, <3>1, NatLessThanWellFounded, WFMin, Zenon
    <2>2. \A y \in K : y >= x
        <3>1. \A y \in K : ~(y < x)
            BY <1>0, <2>1 DEF OpToRel
        <3>. QED BY <1>0, <3>1
    <2>3. K \in SUBSET From(x) /\ From(x) \in SUBSET H
        BY <1>0, <2>2
    <2>6. ~(Cardinality(From(x)) > m)
        BY <2>1 DEF K
    <2> HIDE DEF From
    <2>4. IsFiniteSet(From(x)) /\ Cardinality(From(x)) \in Nat /\ Cardinality(K) \in Nat
        BY <1>1, <2>3, FS_Subset, FS_CardinalityType
    <2>5. Cardinality(K) <= Cardinality(From(x))
        BY <2>3, <2>4, FS_Subset
    <2>7. Cardinality(K) <= m
        BY <2>4, <2>5, <2>6
    <2>. QED BY <1>1, <2>7 DEF K, From
<1>. QED BY <1>2, <1>3

LEMMA CapGivesUp ==
    ASSUME NEW H \in SUBSET Nat, IsFiniteSet(H), NEW m \in Nat, NEW s \in H,
           Cardinality({t \in H : t >= s}) > m
    PROVE  Cardinality({t \in H : t > s}) >= m
<1> DEFINE A == {t \in H : t > s}
<1>1. {t \in H : t >= s} = A \cup {s}
    <2>1. \A t \in H : t >= s <=> (t > s \/ t = s)
        OBVIOUS
    <2>. QED BY <2>1
<1>2. IsFiniteSet(A) /\ s \notin A
    <2>1. A \in SUBSET H
        OBVIOUS
    <2>. QED BY <2>1, FS_Subset
<1>3. Cardinality(A \cup {s}) = Cardinality(A) + 1 /\ Cardinality(A) \in Nat
    BY <1>2, FS_AddElement, FS_CardinalityType
<1> HIDE DEF A
<1>4. Cardinality(A) >= m
    BY <1>1, <1>3
<1>. QED BY <1>4 DEF A

(* The slot's frame may have been given up: it is behind the retention, or *)
(* as many newer slots as the cap have been seen.                          *)
Lost(fr, S, s) == Pruned(fr, s) \/ Cardinality({t \in S : t > s}) >= MaxFrames

LEMMA MoreNewer ==
    ASSUME NEW S \in SUBSET Nat, NEW T, IsFiniteSet(T), S \subseteq T, NEW s \in Nat,
           NEW r \in Nat, s <= r, Cardinality({t \in S : t > r}) >= MaxFrames
    PROVE  Cardinality({t \in T : t > s}) >= MaxFrames
<1> DEFINE A == {t \in S : t > r}
           B == {t \in T : t > s}
<1>1. A \in SUBSET B
    <2>1. ASSUME NEW t \in S, t > r PROVE t \in T /\ t > s
        BY <2>1
    <2>. QED BY <2>1
<1>2. IsFiniteSet(B)
    <2>1. B \in SUBSET T
        OBVIOUS
    <2> HIDE DEF B
    <2>. QED BY <2>1, FS_Subset
<1>3. Cardinality(A) <= Cardinality(B) /\ IsFiniteSet(A)
    BY <1>1, <1>2, FS_Subset
<1>4. Cardinality(A) \in Nat /\ Cardinality(B) \in Nat
    BY <1>2, <1>3, FS_CardinalityType
<1> HIDE DEF A, B
<1>5. Cardinality(A) >= MaxFrames
    BY DEF A
<1>6. Cardinality(B) >= MaxFrames
    BY <1>3, <1>4, <1>5, PreconfAssumption
<1>. QED BY <1>6 DEF B

LEMMA CapFramesFacts ==
    ASSUME NEW p \in Framers, NEW q, q = CapFrames(p), IsFiniteSet(Held(p))
    PROVE  /\ q \in Framers /\ q.frontier = p.frontier /\ q.counts = p.counts
           /\ Held(q) \subseteq Held(p) /\ IsFiniteSet(Held(q)) /\ Cardinality(Held(q)) <= MaxFrames
           /\ \A s \in Held(q) : Entry(q, s) = Entry(p, s)
           /\ \A s \in Held(p) \ Held(q) : Cardinality({t \in Held(p) : t > s}) >= MaxFrames
<1> USE PreconfAssumption
<1> DEFINE Gone(s) == Cardinality({t \in Held(p) : t >= s}) > MaxFrames
<1>0. Held(p) \in SUBSET Nat
    BY DEF Held
<1>1. q = [p EXCEPT !.frames = [s \in Slots |-> IF Gone(s) THEN None ELSE p.frames[s]]]
    BY DEF CapFrames
<1> HIDE DEF Gone
<1>2. /\ q.frames = [s \in Slots |-> IF Gone(s) THEN None ELSE p.frames[s]]
      /\ q.frontier = p.frontier /\ q.counts = p.counts
    BY <1>1 DEF Framers
<1>3. q \in Framers
    <2>1. [s \in Slots |-> IF Gone(s) THEN None ELSE p.frames[s]] \in [Slots -> Options(Frame)]
        BY DEF Framers, Options
    <2>. QED BY <1>1, <2>1 DEF Framers
<1>4. Held(q) = {s \in Held(p) : ~Gone(s)}
    BY <1>2 DEF Held
<1>5. IsFiniteSet(Held(q)) /\ Cardinality(Held(q)) <= MaxFrames
    BY <1>0, <1>4, CapHolds DEF Gone
<1>6. ASSUME NEW s \in Held(q) PROVE Entry(q, s) = Entry(p, s)
    <2>1. s \in Slots /\ ~Gone(s)
        BY <1>4 DEF Held
    <2>2. q.frames[s] = p.frames[s]
        BY <1>2, <2>1
    <2>. QED BY <2>2 DEF Entry
<1>7. ASSUME NEW s \in Held(p) \ Held(q)
      PROVE  Cardinality({t \in Held(p) : t > s}) >= MaxFrames
    <2>1. Gone(s)
        BY <1>4
    <2>. QED BY <1>0, <2>1, CapGivesUp DEF Gone
<1>. QED BY <1>2, <1>3, <1>4, <1>5, <1>6, <1>7

-----------------------------------------------------------------------------
(* One feed: its framer, the slots it has seen, and what was delivered     *)
(* of it.                                                                  *)

(* A delivered index is below the next one of its slot for as long as the  *)
(* slot's frame is kept.                                                   *)
FeedKept(fr, S, D, R) ==
    /\ fr \in Framers /\ S \subseteq Slots /\ IsFiniteSet(S)
    /\ D \subseteq Slots \X Nat /\ IsFiniteSet(D) /\ R \subseteq Slots
    /\ Held(fr) \subseteq S /\ Cardinality(Held(fr)) <= MaxFrames
    /\ \A s \in Slots, i \in Nat : <<s, i>> \in D =>
          Lost(fr, S, s) \/ (s \in Held(fr) /\ i < Entry(fr, s).next)
    /\ \A s \in R : Lost(fr, S, s)

(* The update on its way has an index that was not delivered. *)
Fresh(fr, S, D, v) ==
    /\ v.slot \in Slots /\ v.index \in Nat
    /\ \/ Lost(fr, S, v.slot)
       \/ /\ v.slot \in Held(fr) /\ v.index < Entry(fr, v.slot).next
          /\ <<v.slot, v.index>> \notin D

LEMMA TakeKeeps ==
    ASSUME NEW fr, NEW S, NEW D, NEW R, FeedKept(fr, S, D, R),
           NEW u, u.slot \in Slots, NEW f, NEW r, r = Apply(fr, u, f),
           NEW T, T = S \cup Held(r.framer)
    PROVE  /\ FeedKept(r.framer, T, D, R)
           /\ r.update = None \/ \E v : r.update = Some(v) /\ v.feed = f /\ Fresh(r.framer, T, D, v)
           /\ IF u.kind = "Transaction" THEN Accounted(fr, r.framer, r.update)
              ELSE r.update = None /\ SameAccount(fr, r.framer)
<1> USE PreconfAssumption
<1> DEFINE slot == u.slot
           q == r.framer
<1>1. fr \in Framers /\ S \subseteq Slots /\ IsFiniteSet(S) /\ Held(fr) \subseteq S
    BY DEF FeedKept
<1>2. PICK p : q = CapFrames(p) /\ Taken(fr, p, r.update, u, f)
    BY <1>1, ApplyTaken
<1>3. Evolves(fr, p, slot) /\ p \in Framers /\ Held(p) \subseteq S \cup {slot}
    BY <1>1, <1>2 DEF Taken, Evolves
<1>4. IsFiniteSet(Held(p))
    <2>1. IsFiniteSet(S \cup {slot})
        BY <1>1, FS_AddElement
    <2>. QED BY <1>3, <2>1, FS_Subset
<1>5. /\ q \in Framers /\ q.frontier = p.frontier /\ q.counts = p.counts
      /\ Held(q) \subseteq Held(p) /\ IsFiniteSet(Held(q)) /\ Cardinality(Held(q)) <= MaxFrames
      /\ \A s \in Held(q) : Entry(q, s) = Entry(p, s)
      /\ \A s \in Held(p) \ Held(q) : Cardinality({t \in Held(p) : t > s}) >= MaxFrames
    BY <1>2, <1>3, <1>4, CapFramesFacts
<1> HIDE DEF q
<1>6. T = S \cup Held(q)
    BY DEF q
<1>7. T \subseteq Slots /\ IsFiniteSet(T) /\ Held(q) \subseteq T
    <2>1. Held(q) \subseteq Slots
        BY DEF Held
    <2>2. IsFiniteSet(S \cup Held(q))
        BY <1>1, <1>5, FS_Union
    <2>. QED BY <1>1, <1>6, <2>1, <2>2
<1>8. ASSUME NEW s \in Held(p) \ Held(q) PROVE Cardinality({t \in T : t > s}) >= MaxFrames
    <2>1. s \in Nat /\ slot \in Nat /\ Held(p) \in SUBSET Nat
        BY DEF Held
    <2>2. CASE slot \in T \/ slot \notin Held(p)
        <3>1. Held(p) \subseteq T
            BY <1>3, <1>6, <2>2
        <3>2. Cardinality({t \in Held(p) : t > s}) >= MaxFrames /\ s <= s
            BY <1>5, <1>8, <2>1
        <3>. QED BY <1>7, <2>1, <3>1, <3>2, MoreNewer
    <2>3. CASE slot \in Held(p) /\ slot \notin T
        <3> DEFINE A(x) == {t \in Held(p) : t > x}
        <3>1. slot \in Held(p) \ Held(q)
            BY <1>6, <2>3
        <3>2. CASE s <= slot
            <4>1. A(slot) \in SUBSET Nat /\ A(slot) \subseteq T
                BY <1>3, <1>6, <2>1
            <4>2. {t \in A(slot) : t > slot} = A(slot)
                OBVIOUS
            <4>3. Cardinality({t \in A(slot) : t > slot}) >= MaxFrames
                BY <1>5, <3>1, <4>2
            <4> HIDE DEF A
            <4>. QED BY <1>7, <2>1, <3>2, <4>1, <4>3, MoreNewer
        <3>3. CASE ~(s <= slot)
            <4>1. A(s) \in SUBSET Nat /\ A(s) \subseteq T
                BY <1>3, <1>6, <2>1, <3>3
            <4>2. {t \in A(s) : t > s} = A(s)
                OBVIOUS
            <4>3. Cardinality({t \in A(s) : t > s}) >= MaxFrames
                BY <1>5, <1>8, <4>2
            <4>4. s <= s
                BY <2>1
            <4> HIDE DEF A
            <4>. QED BY <1>7, <2>1, <4>1, <4>3, <4>4, MoreNewer
        <3>. QED BY <3>2, <3>3
    <2>. QED BY <2>2, <2>3
<1>9. ASSUME NEW s \in Slots, Lost(fr, S, s) PROVE Lost(q, T, s)
    <2>1. CASE Pruned(fr, s)
        <3>1. Pruned(p, s)
            BY <1>3, <2>1, PrunedStays
        <3>. QED BY <1>5, <3>1 DEF Lost, Pruned
    <2>2. CASE Cardinality({t \in S : t > s}) >= MaxFrames
        <3>1. S \in SUBSET Nat /\ S \subseteq T /\ s \in Nat /\ s <= s
            BY <1>1, <1>6
        <3>2. Cardinality({t \in T : t > s}) >= MaxFrames
            BY <1>7, <2>2, <3>1, MoreNewer
        <3>. QED BY <3>2 DEF Lost
    <2>. QED BY <1>9, <2>1, <2>2 DEF Lost
<1>10. ASSUME NEW s \in Slots, Pruned(p, s) \/ s \in Held(p)
       PROVE  Lost(q, T, s) \/ (s \in Held(q) /\ Entry(q, s) = Entry(p, s))
    BY <1>5, <1>8, <1>10 DEF Lost, Pruned
<1>11. ASSUME NEW s \in Slots, NEW i \in Nat, <<s, i>> \in D
       PROVE  Lost(q, T, s) \/ (s \in Held(q) /\ i < Entry(q, s).next)
    <2>1. CASE Lost(fr, S, s)
        BY <1>9, <2>1
    <2>2. CASE s \in Held(fr) /\ i < Entry(fr, s).next
        <3>1. Pruned(p, s) \/ (s \in Held(p) /\ Entry(p, s).next >= Entry(fr, s).next)
            BY <1>3, <2>2 DEF Evolves
        <3>2. Entry(p, s).next \in Nat /\ Entry(fr, s).next \in Nat
            BY <1>1, <1>3, EntryType DEF Frame
        <3>3. CASE Pruned(p, s)
            BY <1>5, <3>3 DEF Lost, Pruned
        <3>4. CASE s \in Held(p) /\ Entry(p, s).next >= Entry(fr, s).next
            <4>1. i < Entry(p, s).next
                BY <2>2, <3>2, <3>4
            <4>. QED BY <1>10, <3>4, <4>1
        <3>. QED BY <3>1, <3>3, <3>4
    <2>. QED BY <1>11, <2>1, <2>2 DEF FeedKept
<1>12. FeedKept(q, T, D, R)
    BY <1>5, <1>7, <1>9, <1>11 DEF FeedKept
<1>13. ASSUME NEW v, Indexed(fr, p, v, f, slot) PROVE v.feed = f /\ Fresh(q, T, D, v)
    <2>1. v.feed = f /\ v.slot = slot /\ v.index = Entry(fr, slot).next
        BY <1>13 DEF Indexed
    <2>2. v.index \in Nat /\ Entry(p, slot).next \in Nat
        BY <1>1, <1>3, <2>1, EntryType DEF Frame
    <2>3. SUFFICES ASSUME ~Lost(q, T, slot)
                   PROVE  /\ slot \in Held(q) /\ v.index < Entry(q, slot).next
                          /\ <<slot, v.index>> \notin D
        BY <2>1, <2>2 DEF Fresh
    <2>4. slot \in Held(p) /\ v.index < Entry(p, slot).next
        <3>1. ~Pruned(p, slot)
            BY <1>5, <2>3 DEF Lost, Pruned
        <3>. QED BY <1>13, <3>1 DEF Indexed
    <2>5. slot \in Held(q) /\ Entry(q, slot) = Entry(p, slot)
        BY <1>10, <2>3, <2>4
    <2>6. ~Lost(fr, S, slot)
        BY <1>9, <2>3
    <2>7. <<slot, v.index>> \notin D
        <3>1. SUFFICES ASSUME <<slot, v.index>> \in D PROVE FALSE
            OBVIOUS
        <3>2. v.index < Entry(fr, slot).next
            BY <2>2, <2>6, <3>1 DEF FeedKept
        <3>. QED BY <2>1, <2>2, <3>2
    <2>. QED BY <2>4, <2>5, <2>7
<1>14. r.update = None \/ \E v : r.update = Some(v) /\ v.feed = f /\ Fresh(q, T, D, v)
    BY <1>2, <1>13 DEF Taken, Carried
<1>15. IF u.kind = "Transaction" THEN Accounted(fr, q, r.update)
       ELSE r.update = None /\ SameAccount(fr, q)
    BY <1>2, <1>5 DEF Taken, Accounted, SameAccount
<1>. QED BY <1>12, <1>14, <1>15 DEF q

(* The channel took the update: an index is delivered twice only when its  *)
(* slot was lost.                                                          *)
LEMMA SendKeeps ==
    ASSUME NEW fr, NEW S, NEW D, NEW R, FeedKept(fr, S, D, R), NEW v, Fresh(fr, S, D, v),
           NEW E, E = D \cup {<<v.slot, v.index>>},
           NEW Q, Q = R \cup {s \in {v.slot} : <<v.slot, v.index>> \in D}
    PROVE  FeedKept(fr, S, E, Q) /\ Cardinality(E) <= Cardinality(D) + 1
<1> DEFINE at == <<v.slot, v.index>>
<1>1. v.slot \in Slots /\ v.index \in Nat /\ at \in Slots \X Nat
    BY DEF Fresh
<1>2. IsFiniteSet(D) /\ Cardinality(D) \in Nat
    BY FS_CardinalityType DEF FeedKept
<1>3. IsFiniteSet(E) /\ Cardinality(E) <= Cardinality(D) + 1
    <2>1. E = D \cup {at}
        OBVIOUS
    <2> HIDE DEF at
    <2>2. /\ IsFiniteSet(D \cup {at})
          /\ Cardinality(D \cup {at}) = IF at \in D THEN Cardinality(D) ELSE Cardinality(D) + 1
        BY <1>2, FS_AddElement
    <2>. QED BY <1>2, <2>1, <2>2
<1>4. ASSUME NEW s \in Slots, NEW i \in Nat, <<s, i>> \in E
      PROVE  Lost(fr, S, s) \/ (s \in Held(fr) /\ i < Entry(fr, s).next)
    <2>1. CASE <<s, i>> \in D
        BY <2>1 DEF FeedKept
    <2>2. CASE s = v.slot /\ i = v.index
        BY <2>2 DEF Fresh
    <2>. QED BY <1>4, <2>1, <2>2
<1>5. ASSUME NEW s \in Q PROVE s \in Slots /\ Lost(fr, S, s)
    <2>1. CASE s \in R
        BY <2>1 DEF FeedKept
    <2>2. CASE s = v.slot /\ at \in D
        BY <2>2 DEF Fresh
    <2>. QED BY <2>1, <2>2
<1>6. E \subseteq Slots \X Nat
    BY <1>1 DEF FeedKept
<1>7. FeedKept(fr, S, E, Q)
    BY <1>3, <1>4, <1>5, <1>6 DEF FeedKept
<1>. QED BY <1>3, <1>7

(* Framer::reconnected keeps the frames and their indexes. *)
LEMMA ReconnectedFacts ==
    ASSUME NEW fr \in Framers, NEW q, q = Reconnected(fr)
    PROVE  /\ q \in Framers /\ q.frontier = fr.frontier /\ SameAccount(fr, q)
           /\ Held(q) = Held(fr) /\ \A s \in Slots : Entry(q, s).next = Entry(fr, s).next
<1> DEFINE mark(e) == [e EXCEPT !.ended = @ \/ e.open, !.open = FALSE]
           g == [s \in Slots |-> {mark(e) : e \in fr.frames[s]}]
           p == [fr EXCEPT !.frames = g]
<1>1. q = Count(p, "reconnects")
    BY DEF Reconnected
<1>2. ASSUME NEW e \in Frame PROVE mark(e) \in Frame /\ mark(e).next = e.next
    BY DEF Frame
<1> HIDE DEF mark
<1>3. ASSUME NEW s \in Slots
      PROVE  /\ g[s] \in Options(Frame) /\ (g[s] = None <=> fr.frames[s] = None)
             /\ \A e \in Frame : fr.frames[s] = {e} => g[s] = {mark(e)}
    <2>1. fr.frames[s] = None \/ \E e \in Frame : fr.frames[s] = {e}
        BY DEF Framers, Options, Some
    <2>2. CASE fr.frames[s] = None
        BY <2>2 DEF Options, None
    <2>3. ASSUME NEW e \in Frame, fr.frames[s] = {e}
          PROVE  g[s] = {mark(e)} /\ mark(e) \in Frame
        BY <1>2, <2>3
    <2>. QED BY <2>1, <2>2, <2>3 DEF Options, None, Some
<1>4. g \in [Slots -> Options(Frame)]
    BY <1>3
<1> HIDE DEF g
<1>5. p \in Framers /\ p.frames = g /\ p.frontier = fr.frontier /\ p.counts = fr.counts
    BY <1>4 DEF Framers
<1> HIDE DEF p
<1>6. "reconnects" \in CounterNames
    BY DEF CounterNames
<1>7. /\ q \in Framers /\ q.frontier = p.frontier /\ Held(q) = Held(p)
      /\ q.counts = [p.counts EXCEPT !["reconnects"] = @ + 1]
      /\ \A s \in Slots : Entry(q, s) = Entry(p, s)
    BY <1>1, <1>5, <1>6, CountFacts
<1>8. Held(p) = Held(fr)
    BY <1>3, <1>5 DEF Held
<1>9. ASSUME NEW s \in Slots PROVE Entry(p, s).next = Entry(fr, s).next
    <2>1. CASE fr.frames[s] = None
        BY <1>3, <1>5, <2>1 DEF Entry
    <2>2. CASE fr.frames[s] # None
        <3>1. PICK e \in Frame : fr.frames[s] = {e}
            BY <2>2 DEF Framers, Options, Some
        <3>2. p.frames[s] = {mark(e)}
            BY <1>3, <1>5, <3>1
        <3>3. Entry(fr, s) = CHOOSE x \in {e} : TRUE
            BY <2>2, <3>1 DEF Entry
        <3>4. Entry(p, s) = CHOOSE x \in {mark(e)} : TRUE
            BY <3>2 DEF Entry, None
        <3>5. Entry(fr, s) = e /\ Entry(p, s) = mark(e)
            BY <3>3, <3>4
        <3>. QED BY <1>2, <3>5
    <2>. QED BY <2>1, <2>2
<1>10. SameAccount(fr, q)
    <2>1. fr.counts \in Counters /\ q.counts = [fr.counts EXCEPT !["reconnects"] = @ + 1]
        BY <1>5, <1>7 DEF Framers
    <2>. QED BY <2>1 DEF Counters, SameAccount, Dropped
<1>. QED BY <1>5, <1>7, <1>8, <1>9, <1>10

LEMMA ReconnectKeeps ==
    ASSUME NEW fr, NEW S, NEW D, NEW R, FeedKept(fr, S, D, R), NEW q, q = Reconnected(fr)
    PROVE  FeedKept(q, S, D, R) /\ SameAccount(fr, q)
<1>1. fr \in Framers
    BY DEF FeedKept
<1>2. /\ q \in Framers /\ q.frontier = fr.frontier /\ SameAccount(fr, q)
      /\ Held(q) = Held(fr) /\ \A s \in Slots : Entry(q, s).next = Entry(fr, s).next
    BY <1>1, ReconnectedFacts
<1>3. \A s : Lost(q, S, s) <=> Lost(fr, S, s)
    BY <1>2 DEF Lost, Pruned
<1>. QED BY <1>2, <1>3 DEF FeedKept

-----------------------------------------------------------------------------
(* The inductive invariant.                                                *)

Failure == [ok |-> FALSE]
Update(v) == [ok |-> TRUE, update |-> v]

Typed ==
    /\ feeds \subseteq Feeds /\ subscribed \subseteq feeds
    /\ phase \in {"connecting", "running", "Err", "ReceiverDropped", "StreamError", "StreamEnded"}
    /\ stream \in [Feeds -> {"closed", "open", "none", "done"}]
    /\ attempt \in [Feeds -> Nat] /\ failures \in [Feeds -> Nat]
    /\ DOMAIN frames = Feeds /\ DOMAIN frontier = Feeds /\ DOMAIN counts = Feeds
    /\ DOMAIN delivered = Feeds /\ DOMAIN repeated = Feeds /\ DOMAIN seen = Feeds
    /\ sent \in [Feeds -> Nat]
    /\ queued \in 0 .. ChannelSize

Kept == \A f \in Feeds : FeedKept(Framer(f), seen[f], delivered[f], repeated[f])

(* What the loop has in hand. *)
InHand ==
    \/ hand = None
    \/ hand = Some(Failure)
    \/ \E f \in Feeds : \E v : /\ hand = Some(Update(v)) /\ v.feed = f
                               /\ Fresh(Framer(f), seen[f], delivered[f], v)

(* The failures counted are the resubscriber's attempts, and the attempts  *)
(* of a stream that is not given up are within the policy.                 *)
Retried ==
    \A f \in Feeds : stream[f] # "done" =>
        failures[f] = attempt[f] /\ \A max \in MaxRetries : attempt[f] <= max

(* Before the loop nothing is in hand and the feeds subscribed are open;   *)
(* in the loop a stream that is given up has its error in hand.            *)
Phased ==
    /\ phase = "connecting" =>
          /\ hand = None
          /\ \A f \in Feeds : stream[f] = IF f \in subscribed THEN "open" ELSE "closed"
    /\ phase = "running" =>
          hand = Some(Failure) \/ \A f \in feeds : stream[f] \in {"open", "none"}

IInv == Typed /\ Kept /\ InHand /\ Retried /\ Phased /\ EveryTransactionAccounted

-----------------------------------------------------------------------------
(* The account of one feed: c its counts, D what was delivered, k what is  *)
(* in hand of it, n what it sent.                                          *)
Balanced(c, D, k, n) ==
    /\ Cardinality(D) <= c.delivered
    /\ c.delivered + Dropped(c) + k <= n
    /\ n <= c.delivered + Dropped(c) + k + c.unknown_payload
OnTheWay(H, f) == Cardinality({h \in H : h.ok /\ h.update.feed = f})

LEMMA AccountUnfolds ==
    EveryTransactionAccounted <=>
        \A f \in Feeds : Balanced(counts[f], delivered[f], OnTheWay(hand, f), sent[f])
BY DEF EveryTransactionAccounted, Balanced, OnTheWay

LEMMA NothingOnTheWay ==
    ASSUME NEW f
    PROVE  OnTheWay(None, f) = 0 /\ OnTheWay(Some(Failure), f) = 0
<1>1. {h \in None : h.ok /\ h.update.feed = f} = {}
    BY DEF None
<1>2. {h \in Some(Failure) : h.ok /\ h.update.feed = f} = {}
    BY DEF Some, Failure
<1>. QED BY <1>1, <1>2, FS_EmptySet DEF OnTheWay

LEMMA OneOnTheWay ==
    ASSUME NEW f, NEW v
    PROVE  OnTheWay(Some(Update(v)), f) = IF v.feed = f THEN 1 ELSE 0
<1> DEFINE A == {h \in Some(Update(v)) : h.ok /\ h.update.feed = f}
<1>1. CASE v.feed = f
    <2>1. A = {Update(v)}
        BY <1>1 DEF Some, Update
    <2>. QED BY <1>1, <2>1, FS_Singleton DEF OnTheWay
<1>2. CASE v.feed # f
    <2>1. A = {}
        BY <1>2 DEF Some, Update
    <2>. QED BY <1>2, <2>1, FS_EmptySet DEF OnTheWay
<1>. QED BY <1>1, <1>2

LEMMA KeptByFrames ==
    ASSUME NEW fr, NEW S, NEW D, NEW R, FeedKept(fr, S, D, R),
           NEW g \in Framers, g.frames = fr.frames, g.frontier = fr.frontier
    PROVE  FeedKept(g, S, D, R)
<1>1. Held(g) = Held(fr) /\ \A s : Entry(g, s) = Entry(fr, s)
    BY DEF Held, Entry
<1>2. \A s : Lost(g, S, s) <=> Lost(fr, S, s)
    BY DEF Lost, Pruned
<1>. QED BY <1>1, <1>2 DEF FeedKept

-----------------------------------------------------------------------------
(* The actions.                                                            *)

(* What is kept, in hand and accounted only depends on the framing and on  *)
(* the hand.                                                               *)
LEMMA FramingKeeps ==
    ASSUME IInv, UNCHANGED framing
    PROVE  /\ Kept'
           /\ hand' = hand => InHand' /\ EveryTransactionAccounted'
           /\ (hand \in {None, Some(Failure)} /\ hand' \in {None, Some(Failure)}) =>
                 InHand' /\ EveryTransactionAccounted'
<1> USE DEF framing
<1>1. Kept'
    BY DEF IInv, Kept, Framer
<1>2. ASSUME hand' = hand PROVE InHand' /\ EveryTransactionAccounted'
    BY <1>2 DEF IInv, InHand, EveryTransactionAccounted, Framer
<1>3. ASSUME hand \in {None, Some(Failure)}, hand' \in {None, Some(Failure)}
      PROVE  InHand' /\ EveryTransactionAccounted'
    <2>1. InHand'
        BY <1>3 DEF InHand
    <2>2. \A f \in Feeds : OnTheWay(hand, f) = OnTheWay(hand', f)
        BY <1>3, NothingOnTheWay
    <2>3. \A f \in Feeds : Balanced(counts[f], delivered[f], OnTheWay(hand, f), sent[f])
        BY AccountUnfolds DEF IInv
    <2>4. \A f \in Feeds : Balanced(counts[f]', delivered[f]', OnTheWay(hand', f), sent[f]')
        BY <2>2, <2>3
    <2>. QED BY <2>1, <2>4 DEF EveryTransactionAccounted, Balanced, OnTheWay
<1>. QED BY <1>1, <1>2, <1>3

LEMMA StopInv ==
    ASSUME IInv, SetupFails \/ FirstSubscribeFails \/ ClosedSeen
    PROVE  IInv'
<1>1. /\ UNCHANGED <<feeds, subscribed, connection, framing, hand, queued>>
      /\ phase' \in {"Err", "ReceiverDropped"}
    BY DEF SetupFails, FirstSubscribeFails, ClosedSeen
<1>2. Kept' /\ InHand' /\ EveryTransactionAccounted'
    BY <1>1, FramingKeeps
<1>3. Typed' /\ Retried' /\ Phased'
    BY <1>1 DEF IInv, Typed, Retried, Phased, connection, framing
<1>. QED BY <1>2, <1>3 DEF IInv

LEMMA FirstSubscribeInv ==
    ASSUME IInv, NEW f \in Feeds, FirstSubscribe(f)
    PROVE  IInv'
<1> USE DEF FirstSubscribe
<1>1. Kept' /\ InHand' /\ EveryTransactionAccounted'
    BY FramingKeeps
<1>2. Typed'
    BY DEF IInv, Typed, framing
<1>3. Retried'
    <2>1. SUFFICES ASSUME NEW g \in Feeds, stream'[g] # "done"
                   PROVE  failures[g] = attempt[g] /\ \A max \in MaxRetries : attempt[g] <= max
        BY DEF Retried
    <2>. QED BY <2>1 DEF IInv, Retried, Phased, Typed
<1>4. Phased'
    BY DEF IInv, Phased, Typed
<1>. QED BY <1>1, <1>2, <1>3, <1>4 DEF IInv

LEMMA RuntimeInv ==
    ASSUME IInv, RuntimeReceives \/ RuntimeDrops
    PROVE  IInv'
<1>1. /\ UNCHANGED <<source, connection, framing, hand>>
      /\ queued' \in 0 .. ChannelSize
    BY PreconfAssumption DEF RuntimeReceives, RuntimeDrops, IInv, Typed
<1>2. Kept' /\ InHand' /\ EveryTransactionAccounted'
    BY <1>1, FramingKeeps
<1>3. Typed' /\ Retried' /\ Phased'
    BY <1>1 DEF IInv, Typed, Retried, Phased, connection, framing, source
<1>. QED BY <1>2, <1>3 DEF IInv

(* The framer of one feed is replaced. *)
LEMMA SetFramerKeeps ==
    ASSUME IInv, NEW f \in Feeds, NEW q \in Framers, SetFramer(f, q)
    PROVE  /\ Framer(f)' = q /\ \A g \in Feeds \ {f} : Framer(g)' = Framer(g)
           /\ counts'[f] = q.counts /\ \A g \in Feeds \ {f} : counts'[g] = counts[g]
           /\ DOMAIN frames' = Feeds /\ DOMAIN frontier' = Feeds /\ DOMAIN counts' = Feeds
<1>1. /\ frames'[f] = q.frames /\ frontier'[f] = q.frontier /\ counts'[f] = q.counts
      /\ \A g \in Feeds \ {f} : /\ frames'[g] = frames[g] /\ frontier'[g] = frontier[g]
                                /\ counts'[g] = counts[g]
      /\ DOMAIN frames' = Feeds /\ DOMAIN frontier' = Feeds /\ DOMAIN counts' = Feeds
    BY DEF SetFramer, IInv, Typed
<1>2. q = [frames |-> q.frames, frontier |-> q.frontier, counts |-> q.counts]
    BY DEF Framers
<1>. QED BY <1>1, <1>2 DEF Framer

LEMMA TakeUpdateInv ==
    ASSUME IInv, NEW f \in Feeds, NEW u \in Payloads(f), TakeUpdate(f, u)
    PROVE  IInv'
<1> DEFINE fr == Framer(f)
           r == Apply(fr, u, f)
           T == seen[f] \cup Held(r.framer)
<1>0. /\ Waiting /\ receiver /\ stream[f] = "open"
      /\ attempt' = [attempt EXCEPT ![f] = IF IsProgress(u, f) THEN 0 ELSE @]
      /\ failures' = [failures EXCEPT ![f] =
                         IF u.kind \in {"Transaction", "SlotStart"} THEN 0 ELSE @]
      /\ SetFramer(f, r.framer)
      /\ hand' = {[ok |-> TRUE, update |-> v] : v \in r.update}
      /\ seen' = [seen EXCEPT ![f] = @ \cup Held(r.framer)]
      /\ sent' = [sent EXCEPT ![f] = @ + (IF u.kind = "Transaction" THEN 1 ELSE 0)]
      /\ UNCHANGED <<source, stream, queued, receiver, delivered, repeated>>
    BY DEF TakeUpdate
<1>1. u \in Updates /\ u.slot \in Slots /\ (u.kind = "SlotStart" => f \in Harmonic)
    BY PreconfAssumption DEF Payloads
<1>2. FeedKept(fr, seen[f], delivered[f], repeated[f])
    BY DEF IInv, Kept
<1>3. /\ FeedKept(r.framer, T, delivered[f], repeated[f])
      /\ \/ r.update = None
         \/ \E v : r.update = Some(v) /\ v.feed = f /\ Fresh(r.framer, T, delivered[f], v)
      /\ IF u.kind = "Transaction" THEN Accounted(fr, r.framer, r.update)
         ELSE r.update = None /\ SameAccount(fr, r.framer)
    BY <1>1, <1>2, TakeKeeps
<1>4. r.framer \in Framers
    BY <1>3 DEF FeedKept
<1>5. seen'[f] = T /\ \A g \in Feeds \ {f} : seen'[g] = seen[g]
    BY <1>0 DEF IInv, Typed
<1>6. fr.counts = counts[f] /\ fr.counts \in Counters
    BY <1>2 DEF Framer, FeedKept, Framers
<1> HIDE DEF r, T, fr
<1>7. /\ Framer(f)' = r.framer /\ \A g \in Feeds \ {f} : Framer(g)' = Framer(g)
      /\ counts'[f] = r.framer.counts /\ \A g \in Feeds \ {f} : counts'[g] = counts[g]
      /\ DOMAIN frames' = Feeds /\ DOMAIN frontier' = Feeds /\ DOMAIN counts' = Feeds
    BY <1>0, <1>4, SetFramerKeeps
<1>8. Typed'
    <2>1. sent' \in [Feeds -> Nat] /\ attempt' \in [Feeds -> Nat] /\ failures' \in [Feeds -> Nat]
        BY <1>0 DEF IInv, Typed
    <2>2. DOMAIN seen' = Feeds
        BY <1>0 DEF IInv, Typed
    <2>. QED BY <1>0, <1>7, <2>1, <2>2 DEF IInv, Typed, source
<1>9. Kept'
    <2>1. \A g \in Feeds : FeedKept(Framer(g)', seen'[g], delivered'[g], repeated'[g])
        BY <1>0, <1>3, <1>5, <1>7 DEF IInv, Kept
    <2>. QED BY <2>1 DEF Kept
<1>10. \/ r.update = None /\ hand' = None
       \/ \E v : /\ r.update = Some(v) /\ hand' = Some(Update(v)) /\ v.feed = f
                 /\ Fresh(Framer(f)', seen'[f], delivered'[f], v)
    <2>1. CASE r.update = None
        BY <1>0, <2>1 DEF None
    <2>2. CASE r.update # None
        <3>1. PICK v : r.update = Some(v) /\ v.feed = f /\ Fresh(r.framer, T, delivered[f], v)
            BY <1>3, <2>2
        <3>2. hand' = Some(Update(v))
            BY <1>0, <3>1 DEF Some, Update
        <3>. QED BY <1>0, <1>5, <1>7, <3>1, <3>2
    <2>. QED BY <2>1, <2>2
<1>11. InHand'
    BY <1>10 DEF InHand
<1>12. Retried'
    <2>1. SUFFICES ASSUME NEW g \in Feeds, stream[g] # "done"
                   PROVE  failures'[g] = attempt'[g] /\ \A max \in MaxRetries : attempt'[g] <= max
        BY <1>0 DEF Retried
    <2>2. failures[g] = attempt[g] /\ \A max \in MaxRetries : attempt[g] <= max
        BY <2>1 DEF IInv, Retried
    <2>3. CASE g # f
        BY <1>0, <2>2, <2>3 DEF IInv, Typed
    <2>4. CASE g = f
        <3>1. IsProgress(u, f) <=> u.kind \in {"Transaction", "SlotStart"}
            BY <1>1 DEF IsProgress
        <3>2. CASE IsProgress(u, f)
            <4>1. failures'[g] = 0 /\ attempt'[g] = 0
                BY <1>0, <2>4, <3>1, <3>2 DEF IInv, Typed
            <4>. QED BY <4>1, PreconfAssumption
        <3>3. CASE ~IsProgress(u, f)
            <4>1. failures'[g] = failures[g] /\ attempt'[g] = attempt[g]
                BY <1>0, <2>4, <3>1, <3>3 DEF IInv, Typed
            <4>. QED BY <2>2, <4>1
        <3>. QED BY <3>2, <3>3
    <2>. QED BY <2>3, <2>4
<1>13. Phased'
    <2>1. phase = "running" /\ phase' = phase /\ hand = None /\ hand # Some(Failure)
        BY <1>0 DEF Waiting, source, None, Some
    <2>. QED BY <1>0, <2>1 DEF IInv, Phased, source
<1>14. EveryTransactionAccounted'
    <2>1. SUFFICES ASSUME NEW g \in Feeds
                   PROVE  Balanced(counts'[g], delivered[g], OnTheWay(hand', g), sent'[g])
        BY <1>0 DEF EveryTransactionAccounted, Balanced, OnTheWay
    <2>2. Balanced(counts[g], delivered[g], 0, sent[g])
        <3>1. hand = None
            BY <1>0 DEF Waiting
        <3>2. Balanced(counts[g], delivered[g], OnTheWay(hand, g), sent[g])
            BY AccountUnfolds DEF IInv
        <3>. QED BY <3>1, <3>2, NothingOnTheWay
    <2>3. CASE g # f
        <3>1. OnTheWay(hand', g) = 0
            BY <1>10, <2>3, NothingOnTheWay, OneOnTheWay
        <3>2. counts'[g] = counts[g] /\ sent'[g] = sent[g]
            BY <1>0, <1>7, <2>3 DEF IInv, Typed
        <3>. QED BY <2>2, <3>1, <3>2
    <2>4. CASE g = f
        <3>1. \/ r.update = None /\ OnTheWay(hand', f) = 0
              \/ (\E v : r.update = Some(v)) /\ OnTheWay(hand', f) = 1
            BY <1>10, NothingOnTheWay, OneOnTheWay
        <3>2. /\ counts'[f] = r.framer.counts
              /\ sent'[f] = sent[f] + (IF u.kind = "Transaction" THEN 1 ELSE 0)
              /\ sent[f] \in Nat
            BY <1>0, <1>7 DEF IInv, Typed
        <3>3. r.framer.counts \in Counters
            BY <1>4 DEF Framers
        <3> DEFINE c == fr.counts
                   d == r.framer.counts
                   D == Dropped(fr.counts)
                   E == Dropped(r.framer.counts)
        <3>4. /\ c.delivered \in Nat /\ c.unknown_payload \in Nat /\ D \in Nat
              /\ d.delivered \in Nat /\ d.unknown_payload \in Nat /\ E \in Nat
            BY <1>6, <3>3 DEF Counters, Dropped
        <3>5. /\ Cardinality(delivered[f]) <= c.delivered /\ c.delivered + D <= sent[f]
              /\ sent[f] <= c.delivered + D + c.unknown_payload
            BY <1>6, <2>2, <2>4, <3>2, <3>4 DEF Balanced
        <3>7. CASE u.kind = "Transaction"
            <4>1. Accounted(fr, r.framer, r.update)
                BY <1>3, <3>7
            <4>2. sent'[f] = sent[f] + 1
                BY <3>2, <3>7
            <4>3. CASE r.update = None
                <5>1. /\ d.delivered = c.delivered
                      /\ \/ E = D + 1 /\ d.unknown_payload = c.unknown_payload
                         \/ E = D /\ d.unknown_payload = c.unknown_payload + 1
                    BY <4>1, <4>3 DEF Accounted, None, Some
                <5>2. OnTheWay(hand', f) = 0
                    BY <3>1, <4>3 DEF None, Some
                <5> HIDE DEF c, d, D, E
                <5>. QED BY <2>4, <3>2, <3>4, <3>5, <4>2, <5>1, <5>2 DEF Balanced, d, E
            <4>4. CASE r.update # None
                <5>1. /\ d.delivered = c.delivered /\ E = D
                      /\ d.unknown_payload \in {c.unknown_payload, c.unknown_payload + 1}
                    BY <4>1, <4>4 DEF Accounted, SameAccount
                <5>2. OnTheWay(hand', f) = 1
                    BY <3>1, <4>4
                <5> HIDE DEF c, d, D, E
                <5>. QED BY <2>4, <3>2, <3>4, <3>5, <4>2, <5>1, <5>2 DEF Balanced, d, E
            <4>. QED BY <4>3, <4>4
        <3>8. CASE u.kind # "Transaction"
            <4>1. /\ d.delivered = c.delivered /\ E = D
                  /\ d.unknown_payload \in {c.unknown_payload, c.unknown_payload + 1}
                BY <1>3, <3>8 DEF SameAccount
            <4>2. sent'[f] = sent[f] /\ OnTheWay(hand', f) = 0
                BY <1>3, <3>1, <3>2, <3>8 DEF None, Some
            <4> HIDE DEF c, d, D, E
            <4>. QED BY <2>4, <3>2, <3>4, <3>5, <4>1, <4>2 DEF Balanced, d, E
        <3>. QED BY <3>7, <3>8
    <2>. QED BY <2>3, <2>4
<1>. QED BY <1>8, <1>9, <1>11, <1>12, <1>13, <1>14 DEF IInv

LEMMA SendInv ==
    ASSUME IInv, Send
    PROVE  IInv'
<1>1. /\ phase = "running"
      /\ UNCHANGED <<feeds, subscribed, connection, frames, frontier, seen, sent, receiver>>
    BY DEF Send
<1>2. PICK h \in hand : /\ h.ok
        /\ \/ LET f == h.update.feed
                   at == <<h.update.slot, h.update.index>>
               IN  /\ receiver /\ queued < ChannelSize
                   /\ queued' = queued + 1
                   /\ delivered' = [delivered EXCEPT ![f] = @ \cup {at}]
                   /\ repeated' = [repeated EXCEPT ![f] =
                                     @ \cup {s \in {h.update.slot} : at \in delivered[f]}]
                   /\ counts' = [counts EXCEPT ![f].delivered = @ + 1]
                   /\ hand' = None /\ UNCHANGED phase
           \/ /\ ~receiver
              /\ phase' = "ReceiverDropped"
              /\ UNCHANGED <<queued, delivered, repeated, counts, hand>>
    BY DEF Send
<1>30. PICK f \in Feeds :
          \E v : /\ hand = Some(Update(v)) /\ v.feed = f
                /\ Fresh(Framer(f), seen[f], delivered[f], v)
    <2>1. hand # None /\ hand # Some(Failure)
        BY <1>2 DEF None, Some, Failure
    <2>. QED BY <2>1 DEF IInv, InHand
<1>3. PICK v : /\ hand = Some(Update(v)) /\ v.feed = f
               /\ Fresh(Framer(f), seen[f], delivered[f], v)
    BY <1>30
<1>4. h = Update(v) /\ h.update = v /\ h.update.feed = f
    BY <1>2, <1>3 DEF Some, Update
<1>5. CASE UNCHANGED <<queued, delivered, repeated, counts, hand>> /\ phase' = "ReceiverDropped"
    <2>1. UNCHANGED framing
        BY <1>1, <1>5 DEF framing
    <2>2. Kept' /\ InHand' /\ EveryTransactionAccounted'
        BY <1>5, <2>1, FramingKeeps
    <2>3. Typed' /\ Retried' /\ Phased'
        BY <1>1, <1>5 DEF IInv, Typed, Retried, Phased, connection
    <2>. QED BY <2>2, <2>3 DEF IInv
<1>6. CASE ~(UNCHANGED <<queued, delivered, repeated, counts, hand>> /\ phase' = "ReceiverDropped")
    <2> DEFINE fr == Framer(f)
               S == seen[f]
               D == delivered[f]
               R == repeated[f]
               at == <<v.slot, v.index>>
               E == D \cup {at}
               Q == R \cup {s \in {v.slot} : at \in D}
    <2>1. /\ queued < ChannelSize /\ queued' = queued + 1
          /\ delivered' = [delivered EXCEPT ![f] = E]
          /\ repeated' = [repeated EXCEPT ![f] = Q]
          /\ counts' = [counts EXCEPT ![f].delivered = @ + 1]
          /\ hand' = None /\ UNCHANGED phase
        BY <1>2, <1>4, <1>6
    <2>2. FeedKept(fr, S, D, R) /\ Fresh(fr, S, D, v)
        BY <1>3 DEF IInv, Kept
    <2>3. FeedKept(fr, S, E, Q) /\ Cardinality(E) <= Cardinality(D) + 1
        BY <2>2, SendKeeps
    <2>4. /\ delivered'[f] = E /\ repeated'[f] = Q /\ DOMAIN delivered' = Feeds
          /\ DOMAIN repeated' = Feeds
          /\ \A g \in Feeds \ {f} : delivered'[g] = delivered[g] /\ repeated'[g] = repeated[g]
        BY <2>1 DEF IInv, Typed
    <2>5. IsFiniteSet(D) /\ IsFiniteSet(E) /\ Cardinality(D) \in Nat /\ Cardinality(E) \in Nat
        BY <2>2, <2>3, FS_CardinalityType DEF FeedKept
    <2> HIDE DEF E, Q
    <2>6. fr \in Framers /\ counts[f] \in Counters /\ frames[f] = fr.frames
          /\ frontier[f] = fr.frontier /\ counts[f] = fr.counts
        BY <2>2 DEF FeedKept, Framer, Framers
    <2>7. /\ DOMAIN counts' = Feeds /\ counts'[f] = [counts[f] EXCEPT !.delivered = @ + 1]
          /\ \A g \in Feeds \ {f} : counts'[g] = counts[g]
        BY <2>1 DEF IInv, Typed
    <2>8. counts'[f] \in Counters
        BY <2>6, <2>7 DEF Counters
    <2>9. Kept'
        <3>1. SUFFICES ASSUME NEW g \in Feeds
                       PROVE  FeedKept(Framer(g)', seen'[g], delivered'[g], repeated'[g])
            BY DEF Kept
        <3>2. CASE g = f
            <4>1. /\ Framer(f)' \in Framers /\ Framer(f)'.frames = fr.frames
                  /\ Framer(f)'.frontier = fr.frontier
                BY <1>1, <2>6, <2>8 DEF Framer, Framers
            <4>2. FeedKept(Framer(f)', S, E, Q)
                BY <2>3, <4>1, KeptByFrames
            <4>. QED BY <1>1, <2>4, <3>2, <4>2
        <3>3. CASE g # f
            <4>1. Framer(g)' = Framer(g)
                BY <1>1, <2>7, <3>3 DEF Framer
            <4>2. FeedKept(Framer(g), seen[g], delivered[g], repeated[g])
                BY DEF IInv, Kept
            <4>. QED BY <1>1, <2>4, <3>3, <4>1, <4>2
        <3>. QED BY <3>2, <3>3
    <2>10. InHand'
        BY <2>1 DEF InHand
    <2>11. Typed'
        <3>1. queued' \in 0 .. ChannelSize
            BY <2>1, PreconfAssumption DEF IInv, Typed
        <3>. QED BY <1>1, <2>1, <2>4, <2>7, <3>1 DEF IInv, Typed, connection
    <2>12. Retried' /\ Phased'
        <3>1. hand # Some(Failure)
            BY <1>3 DEF Some, Update, Failure
        <3>. QED BY <1>1, <2>1, <3>1 DEF IInv, Retried, Phased, connection
    <2>13. EveryTransactionAccounted'
        <3>1. SUFFICES ASSUME NEW g \in Feeds
                       PROVE  Balanced(counts'[g], delivered'[g], 0, sent[g])
            BY <1>1, <2>1, NothingOnTheWay DEF EveryTransactionAccounted, Balanced, OnTheWay
        <3>2. Balanced(counts[g], delivered[g], OnTheWay(hand, g), sent[g])
            BY AccountUnfolds DEF IInv
        <3>3. CASE g # f
            <4>1. OnTheWay(hand, g) = 0
                BY <1>3, <3>3, OneOnTheWay
            <4>. QED BY <2>4, <2>7, <3>2, <3>3, <4>1
        <3>4. CASE g = f
            <4>1. OnTheWay(hand, f) = 1
                BY <1>3, OneOnTheWay
            <4>2. sent[f] \in Nat
                BY DEF IInv, Typed
            <4>3. /\ Cardinality(D) <= counts[f].delivered
                  /\ counts[f].delivered + Dropped(counts[f]) + 1 <= sent[f]
                  /\ sent[f] <= counts[f].delivered + Dropped(counts[f]) + 1
                                  + counts[f].unknown_payload
                BY <3>2, <3>4, <4>1 DEF Balanced
            <4>4. /\ counts'[f].delivered = counts[f].delivered + 1
                  /\ Dropped(counts'[f]) = Dropped(counts[f]) /\ Dropped(counts[f]) \in Nat
                  /\ counts'[f].unknown_payload = counts[f].unknown_payload
                  /\ counts[f].delivered \in Nat /\ counts[f].unknown_payload \in Nat
                BY <2>6, <2>7 DEF Counters, Dropped
            <4>5. Balanced(counts'[f], E, 0, sent[f])
                BY <2>3, <2>5, <4>2, <4>3, <4>4 DEF Balanced
            <4>. QED BY <2>4, <3>4, <4>5
        <3>. QED BY <3>3, <3>4
    <2>. QED BY <2>9, <2>10, <2>11, <2>12, <2>13 DEF IInv
<1>. QED BY <1>5, <1>6

LEMMA SendErrorInv ==
    ASSUME IInv, SendError
    PROVE  IInv'
<1>1. /\ phase' = "StreamError" /\ hand' = None
      /\ UNCHANGED <<feeds, subscribed, connection, framing>>
      /\ queued' \in 0 .. ChannelSize /\ \E h \in hand : ~h.ok
    BY PreconfAssumption DEF SendError, IInv, Typed
<1>2. hand = Some(Failure)
    BY <1>1 DEF IInv, InHand, None, Some, Update
<1>3. Kept' /\ InHand' /\ EveryTransactionAccounted'
    BY <1>1, <1>2, FramingKeeps
<1>4. Typed' /\ Retried' /\ Phased'
    BY <1>1 DEF IInv, Typed, Retried, Phased, connection, framing
<1>. QED BY <1>3, <1>4 DEF IInv

(* Resubscriber::failed, for a stream that failed and for a subscribe that *)
(* did.                                                                    *)
LEMMA FailedInv ==
    ASSUME IInv, NEW f \in Feeds, NEW code, NEW stable \in BOOLEAN, Waiting,
           stream[f] \in {"open", "none"}, Failed(f, code, stable),
           UNCHANGED <<feeds, subscribed, framing, queued>>
    PROVE  IInv'
<1> DEFINE before == IF stable THEN 0 ELSE attempt[f]
           n == before + 1
<1>1. /\ failures' = [failures EXCEPT ![f] = IF stable THEN 1 ELSE @ + 1]
      /\ IF Retries(n, code)
         THEN /\ attempt' = [attempt EXCEPT ![f] = n]
              /\ stream' = [stream EXCEPT ![f] = "none"]
              /\ UNCHANGED <<phase, hand>>
         ELSE /\ attempt' = [attempt EXCEPT ![f] = before]
              /\ stream' = [stream EXCEPT ![f] = "done"]
              /\ \/ phase' = "StreamEnded" /\ hand' = hand
                 \/ hand' = Some(Failure) /\ phase' = phase
    BY DEF Failed, Failure
<1>2. attempt[f] \in Nat /\ failures[f] = attempt[f] /\ failures[f] \in Nat
    BY DEF IInv, Typed, Retried
<1>3. before \in Nat /\ n \in Nat /\ (IF stable THEN 1 ELSE failures[f] + 1) = n
    BY <1>2
<1>4. phase = "running" /\ hand = None /\ hand \in {None, Some(Failure)}
    BY DEF Waiting
<1>5. hand' \in {None, Some(Failure)}
    BY <1>1, <1>4
<1>6. Kept' /\ InHand' /\ EveryTransactionAccounted'
    BY <1>4, <1>5, FramingKeeps
<1> HIDE DEF before, n
<1>7. failures' = [failures EXCEPT ![f] = n]
    BY <1>1, <1>3
<1>8. Typed'
    BY <1>1, <1>3, <1>4, <1>7 DEF IInv, Typed, framing
<1>9. Retried'
    <2>1. SUFFICES ASSUME NEW g \in Feeds, stream'[g] # "done"
                   PROVE  failures'[g] = attempt'[g] /\ \A max \in MaxRetries : attempt'[g] <= max
        BY DEF Retried
    <2>2. CASE g = f
        <3>1. Retries(n, code)
            BY <1>1, <2>1, <2>2 DEF IInv, Typed
        <3>2. failures'[g] = n /\ attempt'[g] = n
            BY <1>1, <1>7, <2>2, <3>1 DEF IInv, Typed
        <3>. QED BY <3>1, <3>2 DEF Retries
    <2>3. CASE g # f
        <3>1. stream'[g] = stream[g] /\ attempt'[g] = attempt[g] /\ failures'[g] = failures[g]
            BY <1>1, <1>7, <2>3 DEF IInv, Typed
        <3>. QED BY <2>1, <3>1 DEF IInv, Retried
    <2>. QED BY <2>2, <2>3
<1>10. Phased'
    <2>1. \A g \in feeds : stream[g] \in {"open", "none"}
        BY <1>4 DEF IInv, Phased, None, Some
    <2>2. CASE Retries(n, code)
        BY <1>1, <1>4, <2>1, <2>2 DEF IInv, Typed, Phased
    <2>3. CASE ~Retries(n, code)
        BY <1>1, <1>4, <2>3 DEF Phased
    <2>. QED BY <2>2, <2>3
<1>. QED BY <1>6, <1>8, <1>9, <1>10 DEF IInv

LEMMA ResubscribeInv ==
    ASSUME IInv, NEW f \in Feeds, Resubscribe(f)
    PROVE  IInv'
<1> DEFINE fr == Framer(f)
           q == Reconnected(fr)
<1>0. /\ Waiting /\ stream[f] = "none" /\ stream' = [stream EXCEPT ![f] = "open"]
      /\ SetFramer(f, q)
      /\ UNCHANGED <<source, attempt, failures, hand, queued, receiver, delivered, repeated, seen,
                     sent>>
    BY DEF Resubscribe
<1>1. FeedKept(fr, seen[f], delivered[f], repeated[f])
    BY DEF IInv, Kept
<1>2. FeedKept(q, seen[f], delivered[f], repeated[f]) /\ SameAccount(fr, q)
    BY <1>1, ReconnectKeeps
<1>3. fr \in Framers /\ q \in Framers /\ fr.counts = counts[f]
    BY <1>1, <1>2 DEF FeedKept, Framer
<1> HIDE DEF fr, q
<1>4. /\ Framer(f)' = q /\ \A g \in Feeds \ {f} : Framer(g)' = Framer(g)
      /\ counts'[f] = q.counts /\ \A g \in Feeds \ {f} : counts'[g] = counts[g]
      /\ DOMAIN frames' = Feeds /\ DOMAIN frontier' = Feeds /\ DOMAIN counts' = Feeds
    BY <1>0, <1>3, SetFramerKeeps
<1>5. Kept'
    <2>1. \A g \in Feeds : FeedKept(Framer(g)', seen'[g], delivered'[g], repeated'[g])
        BY <1>0, <1>2, <1>4 DEF IInv, Kept
    <2>. QED BY <2>1 DEF Kept
<1>6. phase = "running" /\ hand = None /\ hand # Some(Failure)
    BY <1>0 DEF Waiting, None, Some
<1>7. InHand'
    BY <1>0, <1>6 DEF InHand
<1>8. Typed'
    BY <1>0, <1>4 DEF IInv, Typed, source
<1>9. Retried'
    <2>1. SUFFICES ASSUME NEW g \in Feeds, stream'[g] # "done"
                   PROVE  failures[g] = attempt[g] /\ \A max \in MaxRetries : attempt[g] <= max
        BY <1>0 DEF Retried
    <2>2. stream[g] # "done"
        BY <1>0, <2>1 DEF IInv, Typed
    <2>. QED BY <2>2 DEF IInv, Retried
<1>10. Phased'
    BY <1>0, <1>6 DEF IInv, Typed, Phased, source
<1>11. EveryTransactionAccounted'
    <2>1. SUFFICES ASSUME NEW g \in Feeds
                   PROVE  Balanced(counts'[g], delivered[g], OnTheWay(hand, g), sent[g])
        BY <1>0 DEF EveryTransactionAccounted, Balanced, OnTheWay
    <2>2. Balanced(counts[g], delivered[g], 0, sent[g]) /\ OnTheWay(hand, g) = 0
        BY <1>6, AccountUnfolds, NothingOnTheWay DEF IInv
    <2>3. CASE g = f
        <3> DEFINE c == counts[f]
                   d == q.counts
        <3>1. c \in Counters /\ d \in Counters
            BY <1>3 DEF Framers
        <3>2. /\ d.delivered = c.delivered /\ Dropped(d) = Dropped(c)
              /\ d.unknown_payload \in {c.unknown_payload, c.unknown_payload + 1}
            BY <1>2, <1>3 DEF SameAccount
        <3>3. /\ c.delivered \in Nat /\ c.unknown_payload \in Nat /\ Dropped(c) \in Nat
            BY <3>1 DEF Counters, Dropped
        <3>4. sent[f] \in Nat
            BY DEF IInv, Typed
        <3>5. Balanced(c, delivered[f], 0, sent[f])
            BY <2>2, <2>3
        <3> HIDE DEF c, d
        <3>6. Balanced(d, delivered[f], 0, sent[f])
            BY <3>2, <3>3, <3>4, <3>5 DEF Balanced
        <3>. QED BY <1>4, <2>2, <2>3, <3>6 DEF d
    <2>4. CASE g # f
        BY <1>4, <2>2, <2>4
    <2>. QED BY <2>3, <2>4
<1>. QED BY <1>5, <1>7, <1>8, <1>9, <1>10, <1>11 DEF IInv

-----------------------------------------------------------------------------
(* The theorems.                                                           *)

LEMMA InitInv == Init => IInv
<1> USE PreconfAssumption
<1> SUFFICES ASSUME Init PROVE IInv
    OBVIOUS
<1>1. Typed
    BY DEF Init, Typed
<1>2. ASSUME NEW f \in Feeds
      PROVE  /\ FeedKept(Framer(f), seen[f], delivered[f], repeated[f])
             /\ Balanced(counts[f], delivered[f], OnTheWay(hand, f), sent[f])
    <2>1. /\ frames[f] = [s \in Slots |-> None] /\ frontier[f] = None /\ counts[f] = NoCounts
          /\ seen[f] = {} /\ delivered[f] = {} /\ repeated[f] = {} /\ sent[f] = 0 /\ hand = None
        BY DEF Init
    <2>2. NoCounts \in Counters
        BY DEF NoCounts, Counters
    <2>3. Framer(f) \in Framers
        BY <2>1, <2>2 DEF Framer, Framers, Options
    <2>4. Held(Framer(f)) = {}
        BY <2>1 DEF Framer, Held
    <2>5. FeedKept(Framer(f), {}, {}, {})
        BY <2>3, <2>4, FS_EmptySet DEF FeedKept
    <2>6. Balanced(NoCounts, {}, 0, 0)
        BY FS_EmptySet DEF Balanced, NoCounts, Dropped
    <2>. QED BY <2>1, <2>5, <2>6, NothingOnTheWay
<1>3. Kept /\ EveryTransactionAccounted
    BY <1>2, AccountUnfolds DEF Kept
<1>4. InHand /\ Retried /\ Phased
    BY DEF Init, InHand, Retried, Phased
<1>. QED BY <1>1, <1>3, <1>4 DEF IInv

LEMMA NextInv == IInv /\ [Next]_vars => IInv'
<1> SUFFICES ASSUME IInv, [Next]_vars PROVE IInv'
    OBVIOUS
<1>1. CASE SetupFails \/ FirstSubscribeFails \/ ClosedSeen
    BY <1>1, StopInv
<1>2. ASSUME NEW f \in Feeds, FirstSubscribe(f) PROVE IInv'
    BY <1>2, FirstSubscribeInv
<1>3. CASE Send
    BY <1>3, SendInv
<1>4. CASE SendError
    BY <1>4, SendErrorInv
<1>5. ASSUME NEW f \in Feeds, NEW u \in Payloads(f), TakeUpdate(f, u) PROVE IInv'
    BY <1>5, TakeUpdateInv
<1>6. ASSUME NEW f \in Feeds, NEW code \in Codes, StreamFails(f, code) PROVE IInv'
    <2>1. PICK stable \in BOOLEAN : Failed(f, code, stable)
        BY <1>6 DEF StreamFails
    <2>. QED BY <1>6, <2>1, FailedInv DEF StreamFails
<1>7. ASSUME NEW f \in Feeds, NEW code \in Codes, ResubscribeFails(f, code) PROVE IInv'
    BY <1>7, FailedInv DEF ResubscribeFails
<1>8. ASSUME NEW f \in Feeds, Resubscribe(f) PROVE IInv'
    BY <1>8, ResubscribeInv
<1>9. CASE RuntimeReceives \/ RuntimeDrops
    BY <1>9, RuntimeInv
<1>10. CASE UNCHANGED vars
    <2>1. UNCHANGED framing /\ hand' = hand
        BY <1>10 DEF vars, framing
    <2>2. Kept' /\ InHand' /\ EveryTransactionAccounted'
        BY <2>1, FramingKeeps
    <2>3. Typed' /\ Retried' /\ Phased'
        BY <1>10 DEF vars, IInv, Typed, Retried, Phased
    <2>. QED BY <2>2, <2>3 DEF IInv
<1>. QED BY <1>1, <1>2, <1>3, <1>4, <1>5, <1>6, <1>7, <1>8, <1>9, <1>10 DEF Next, Loop

LEMMA Invariance == Spec => []IInv
BY InitInv, NextInv, PTL DEF Spec

(* A framer holds at most MAX_FRAMES frames, and an index of a slot goes   *)
(* out twice only when the slot's frame may have been given up: behind     *)
(* the retention, or behind as many newer slots as the cap. Reconnects,    *)
(* restarts of a slot and late slot starts never count an index back       *)
(* (Framer::apply, next_index, advance and reconnected).                   *)
THEOREM IndexesAreKept == Spec => []FramesKept
<1>1. IInv => FramesKept
    <2>1. SUFFICES ASSUME IInv PROVE FramesKept
        OBVIOUS
    <2>2. \A f \in Feeds : FeedKept(Framer(f), seen[f], delivered[f], repeated[f])
        BY <2>1 DEF IInv, Kept
    <2>3. \A f \in Feeds : Cardinality({s \in Slots : frames[f][s] # None}) <= MaxFrames
        BY <2>2 DEF FeedKept, Held, Framer
    <2>4. TypeOK
        BY <2>1, <2>3, PreconfAssumption DEF IInv, Typed, TypeOK
    <2>5. IndexRepeatsOnlyWhenForgotten
        BY <2>2 DEF FeedKept, Lost, Pruned, Framer, IndexRepeatsOnlyWhenForgotten
    <2>. QED BY <2>4, <2>5 DEF FramesKept
<1>. QED BY <1>1, Invariance, PTL

(* Every transaction a feed sent is delivered, in hand, or counted under   *)
(* one reason, whatever streams failed and came back in between            *)
(* (Framer::transaction and the loop's send).                              *)
THEOREM TransactionsAreAccounted == Spec => []EveryTransactionAccounted
<1>1. IInv => EveryTransactionAccounted
    BY DEF IInv
<1>. QED BY <1>1, Invariance, PTL

(* A feed is retried max_retries times without progress and no more, and   *)
(* once it is given up the source does not go on with the others           *)
(* (Resubscriber::failed and the loop).                                    *)
THEOREM FailuresAreBounded == Spec => []FeedFailuresBounded
<1>1. IInv => FeedFailuresBounded
    <2>1. SUFFICES ASSUME IInv PROVE FeedFailuresBounded
        OBVIOUS
    <2>2. RetriesBounded
        BY <2>1 DEF IInv, Retried, RetriesBounded
    <2>3. NoPartialFeed
        BY <2>1 DEF IInv, Phased, NoPartialFeed, Running, None, Some
    <2>. QED BY <2>2, <2>3 DEF FeedFailuresBounded
<1>. QED BY <1>1, Invariance, PTL
=============================================================================
