------------------------ MODULE JetstreamSourceProofs ------------------------
(***************************************************************************)
(* Theorems about JetstreamSource, for every set of parsers and filters,   *)
(* number of workers, range, number of entries and channel size.           *)
(***************************************************************************)
EXTENDS JetstreamSource, FiniteSetTheorems, TLAPS

-----------------------------------------------------------------------------
(* What a slot's log may hold.  These operators take the filters F and the *)
(* log q as parameters.                                                    *)

Kinds == {"transaction", "block", "meta", "slot"}
Entries == Seq(Nat \X Nat)
Update == [kind : Kinds, to : SUBSET Parsers, entries : Entries]

(* The parsers an update of a kind goes to. *)
To(F, kind) ==
  {p \in Parsers :
     CASE kind = "transaction" -> F[p].transaction
       [] kind = "block" -> F[p].block # None /\ F[p].block # {}
       [] kind = "meta" -> F[p].block_meta
       [] kind = "slot" -> F[p].slot}

Asked(F) == \E p \in Parsers : F[p].block # None /\ "entries" \in F[p].block

(* q holds the n entries of slot s, in order. *)
Whole(q, s, n) == q \in Entries /\ Len(q) = n /\ \A k \in 1 .. n : q[k] = <<s, k>>

(* The updates in q are of the given kinds, in their order, each addressed *)
(* to the parsers that ask for it.                                         *)
Ordered(q) ==
  \A i, j \in 1 .. Len(q) : i < j => Before[q[i].kind] < Before[q[j].kind]
Addressed(F, q, s, kinds) ==
  \A i \in 1 .. Len(q) :
    /\ q[i].kind \in kinds /\ q[i].to = To(F, q[i].kind)
    /\ q[i].kind = "block" => Whole(q[i].entries, s, Len(q[i].entries))
(* None that somebody asks for is missing; a slot may have no transaction. *)
Present(F, q, kinds) ==
  \A kind \in kinds \ {"transaction"} :
    To(F, kind) # {} => \E i \in 1 .. Len(q) : q[i].kind = kind
Shape(F, q, s, kinds) ==
  q \in Seq(Update) /\ Ordered(q) /\ Addressed(F, q, s, kinds) /\ Present(F, q, kinds)

(* The block in q carries n entries. *)
Carries(q, n) == \A i \in 1 .. Len(q) : q[i].kind = "block" => Len(q[i].entries) = n

-----------------------------------------------------------------------------
(* The inductive invariant.                                                *)

Worker == [at : {"boundary", "contents", "block", "meta", "slot"}, slot : Slots, end : Slots,
           entries : Nat, read : Nat, tx : BOOLEAN, taken : Entries]

Typed ==
  /\ phase \in {"start", "running", "completed", "failed"}
  /\ filters \in [Parsers -> Prefilter]
  /\ worker \in [Workers -> Worker]
  /\ buffer \in [Slots -> Entries \cup {None}]
  /\ log \in [Slots -> Seq(Update)]
  /\ waiting \in 0 .. ChannelSize /\ open \in BOOLEAN /\ skipped \subseteq Slots
  /\ signalled \in BOOLEAN /\ subscribed \in BOOLEAN

(* The slot lies in what the worker has left of its share. *)
Holds(w, s) == worker[w].slot <= s /\ s < worker[w].end

(* Before the firehose is started no worker has a share; the range that    *)
(* was accepted is known from then on.                                     *)
Started ==
  /\ phase = "start" => ~subscribed
  /\ phase \in {"running", "completed"} => subscribed
  /\ subscribed => config \in RangeConfigs /\ ToSlotRange(config) # None
  /\ ~subscribed => \A w \in Workers : worker[w] = Idle(0, 0)

(* The shares stay disjoint, within the range that was named. *)
Shared ==
  /\ \A w \in Workers : /\ worker[w].slot <= worker[w].end
                        /\ worker[w].at # "boundary" => worker[w].slot < worker[w].end
                        /\ worker[w].read <= worker[w].entries
  /\ \A v, w \in Workers :
       v # w => worker[v].end <= worker[w].slot \/ worker[w].end <= worker[v].slot
  /\ subscribed => \A w \in Workers, s \in Slots : Holds(w, s) => Named(s)

(* A slot that a worker has not begun is untouched. *)
Ahead ==
  \A w \in Workers, s \in Slots :
    Holds(w, s) /\ (s = worker[w].slot => worker[w].at = "boundary") =>
      log[s] = <<>> /\ buffer[s] = None /\ s \notin skipped

(* What a worker has done of its slot, by the point it has reached. *)
Progress(x, s) ==
  LET n == IF Asked(filters) THEN x.entries ELSE 0
  IN /\ s \notin skipped
     /\ x.at = "contents" =>
          /\ x.tx => log[s] = <<>>
          /\ Shape(filters, log[s], s, {"transaction"})
          /\ IF ~Asked(filters) THEN buffer[s] = None
             ELSE IF buffer[s] = None THEN x.read = 0 ELSE Whole(buffer[s], s, x.read)
     /\ x.at # "contents" => buffer[s] = None
     /\ x.at = "block" => Shape(filters, log[s], s, {"transaction"}) /\ Whole(x.taken, s, n)
     /\ x.at = "meta" => Shape(filters, log[s], s, {"transaction", "block"}) /\ Carries(log[s], n)
     /\ x.at = "slot" => /\ Shape(filters, log[s], s, {"transaction", "block", "meta"})
                         /\ Carries(log[s], n)
InProgress == \A w \in Workers : worker[w].at # "boundary" => Progress(worker[w], worker[w].slot)

(* A slot no worker holds is finished: it is outside of the range, was     *)
(* skipped, or has all its updates.                                        *)
Settled ==
  \A s \in Slots : (\A w \in Workers : ~Holds(w, s)) =>
    /\ buffer[s] = None
    /\ IF ~subscribed \/ ~Named(s) THEN log[s] = <<>> /\ s \notin skipped
       ELSE IF s \in skipped THEN log[s] = <<>>
       ELSE Shape(filters, log[s], s, Kinds)

Finished ==
  phase = "completed" =>
    \A w \in Workers : worker[w].at = "boundary" /\ (signalled \/ worker[w].slot = worker[w].end)

IInv == Typed /\ Started /\ Shared /\ Ahead /\ InProgress /\ Settled /\ Finished

-----------------------------------------------------------------------------
(* Facts about the range and about logs.                                   *)

(* The slots of an epoch are those that divide to it. *)
LEMMA EpochSlots ==
  ASSUME NEW s \in Nat, NEW n \in Nat \ {0}, NEW e \in Nat
  PROVE  s \div n = e <=> e * n <= s /\ s < (e + 1) * n
<1>1. s = n * (s \div n) + (s % n) /\ (s % n) \in 0 .. n - 1 /\ s \div n \in Nat
  OBVIOUS
<1> DEFINE d == s \div n
<1>2. CASE d < e
  <2>1. (d + 1) * n <= e * n
    BY <1>1, <1>2
  <2>2. s < (d + 1) * n
    BY <1>1
  <2>. QED BY <1>1, <1>2, <2>1, <2>2
<1>3. CASE e < d
  <2>1. (e + 1) * n <= d * n
    BY <1>1, <1>3
  <2>. QED BY <1>1, <1>3, <2>1
<1>4. CASE d = e
  BY <1>1, <1>4
<1>. QED BY <1>1, <1>2, <1>3, <1>4

(* The range that to_slot_range accepts is the range the configuration     *)
(* names.                                                                  *)
LEMMA RangeIsNamed ==
  ASSUME NEW s \in Slots, NEW c \in RangeConfigs, ToSlotRange(c) # None
  PROVE  /\ ToSlotRange(c)[1] \in Nat /\ ToSlotRange(c)[2] \in Nat
         /\ (IF c.epoch # None THEN s \div SlotsPerEpoch = c.epoch
             ELSE c.slot_start <= s /\ s < c.slot_end)
              <=> ToSlotRange(c)[1] <= s /\ s < ToSlotRange(c)[2]
<1> USE JetstreamAssumption DEF Slots
<1>1. CASE c.slot_start # None /\ c.slot_end # None /\ c.epoch = None
  <2>1. ToSlotRange(c) = <<c.slot_start, c.slot_end>>
    BY <1>1 DEF ToSlotRange
  <2>2. c.slot_start \in Nat /\ c.slot_end \in Nat
    BY <1>1 DEF RangeConfigs
  <2>. QED BY <1>1, <2>1, <2>2
<1>2. CASE c.slot_start = None /\ c.slot_end = None /\ c.epoch # None
  <2>1. ToSlotRange(c) = EpochRange(c.epoch)
    BY <1>2 DEF ToSlotRange
  <2>2. c.epoch \in Nat
    BY <1>2 DEF RangeConfigs
  <2>3. /\ ToSlotRange(c)[1] = c.epoch * SlotsPerEpoch
        /\ ToSlotRange(c)[2] = (c.epoch + 1) * SlotsPerEpoch
    BY <2>1 DEF EpochRange
  <2>4. s \in Nat
    OBVIOUS
  <2>5. s \div SlotsPerEpoch = c.epoch <=>
          c.epoch * SlotsPerEpoch <= s /\ s < (c.epoch + 1) * SlotsPerEpoch
    BY <2>2, <2>4, EpochSlots
  <2>6. /\ c.epoch * SlotsPerEpoch \in Nat
        /\ (c.epoch + 1) * SlotsPerEpoch \in Nat
    BY <2>2
  <2>. QED BY <1>2, <2>3, <2>5, <2>6
<1>. QED BY <1>1, <1>2 DEF ToSlotRange

(* An update behind those sent so far keeps the log in shape. *)
LEMMA ShapeExtended ==
  ASSUME NEW F, NEW q, NEW s, NEW kinds \in SUBSET Kinds, NEW u \in Update,
         Shape(F, q, s, kinds), \A k \in kinds : Before[k] < Before[u.kind],
         u.to = To(F, u.kind),
         u.kind = "block" => Whole(u.entries, s, Len(u.entries))
  PROVE  /\ Shape(F, Append(q, u), s, kinds \cup {u.kind})
         /\ Len(Append(q, u)) = Len(q) + 1 /\ Append(q, u)[Len(q) + 1] = u
         /\ \A i \in 1 .. Len(q) : Append(q, u)[i] = q[i]
<1> DEFINE r == Append(q, u)
<1>1. q \in Seq(Update) /\ Len(q) \in Nat
  BY DEF Shape
<1>2. /\ r \in Seq(Update) /\ Len(r) = Len(q) + 1
      /\ \A i \in 1 .. Len(q) : r[i] = q[i]
      /\ r[Len(q) + 1] = u
  BY <1>1
<1> HIDE DEF r
<1>3. \A i \in 1 .. Len(r) : i = Len(q) + 1 \/ i \in 1 .. Len(q)
  BY <1>1, <1>2
<1>4. Ordered(r)
  <2> SUFFICES ASSUME NEW i \in 1 .. Len(r), NEW j \in 1 .. Len(r), i < j
               PROVE  Before[r[i].kind] < Before[r[j].kind]
    BY DEF Ordered
  <2>1. i \in 1 .. Len(q)
    BY <1>1, <1>2
  <2>2. CASE j = Len(q) + 1
    BY <1>2, <2>1, <2>2 DEF Shape, Addressed
  <2>3. CASE j \in 1 .. Len(q)
    BY <1>2, <2>1, <2>3 DEF Shape, Ordered
  <2>. QED BY <1>3, <2>2, <2>3
<1>5. Addressed(F, r, s, kinds \cup {u.kind})
  <2> SUFFICES ASSUME NEW i \in 1 .. Len(r)
               PROVE  /\ r[i].kind \in kinds \cup {u.kind} /\ r[i].to = To(F, r[i].kind)
                      /\ r[i].kind = "block" => Whole(r[i].entries, s, Len(r[i].entries))
    BY DEF Addressed
  <2>1. CASE i = Len(q) + 1
    BY <1>2, <2>1
  <2>2. CASE i \in 1 .. Len(q)
    BY <1>2, <2>2 DEF Shape, Addressed
  <2>. QED BY <1>3, <2>1, <2>2
<1>6. Present(F, r, kinds \cup {u.kind})
  <2> SUFFICES ASSUME NEW k \in (kinds \cup {u.kind}) \ {"transaction"}, To(F, k) # {}
               PROVE  \E i \in 1 .. Len(r) : r[i].kind = k
    BY DEF Present
  <2>1. CASE k = u.kind
    BY <1>1, <1>2, <2>1
  <2>2. CASE k \in kinds
    <3>1. PICK i \in 1 .. Len(q) : q[i].kind = k
      BY <2>2 DEF Shape, Present
    <3>. QED BY <1>1, <1>2, <3>1
  <2>. QED BY <2>1, <2>2
<1>. QED BY <1>2, <1>4, <1>5, <1>6 DEF Shape, r

(* An update nobody asks for is not missed. *)
LEMMA ShapeSkipped ==
  ASSUME NEW F, NEW q, NEW s, NEW kinds, NEW k, Shape(F, q, s, kinds), To(F, k) = {}
  PROVE  Shape(F, q, s, kinds \cup {k})
BY DEF Shape, Addressed, Present

(* The empty log has every shape that begins a slot. *)
LEMMA ShapeEmpty ==
  ASSUME NEW F, NEW s
  PROVE  Shape(F, <<>>, s, {"transaction"}) /\ \A n \in Nat : Carries(<<>>, n)
BY DEF Shape, Ordered, Addressed, Present, Carries

(* The source's sets of matches. *)
LEMMA MatchesAreTo ==
  /\ TransactionMatches = To(filters, "transaction")
  /\ BlockMatches = To(filters, "block")
  /\ BlockMetaMatches = To(filters, "meta")
  /\ SlotMatches = To(filters, "slot")
  /\ WantsEntries <=> Asked(filters)
BY DEF TransactionMatches, BlockMatches, BlockMetaMatches, SlotMatches, To, WantsEntries, Asked

-----------------------------------------------------------------------------
(* The steps of a worker.                                                  *)

(* A slot lies in the share of one worker at most. *)
LEMMA OneHolder ==
  ASSUME Typed, Shared, NEW v \in Workers, NEW w \in Workers, NEW s \in Slots,
         Holds(v, s), Holds(w, s)
  PROVE  v = w
<1>1. worker[v] \in Worker /\ worker[w] \in Worker
  BY DEF Typed
<1>. QED BY <1>1, JetstreamAssumption DEF Shared, Holds, Worker, Slots

(* A step of worker w that changes nothing but what is kept for its slot   *)
(* leaves the invariant, if it leaves that slot as the worker's new place  *)
(* demands, or finished when it goes on.                                   *)
LEMMA WorkerFrame ==
  ASSUME IInv, phase = "running", NEW w \in Workers, NEW s0 \in Slots,
         s0 = worker[w].slot, s0 < worker[w].end,
         Typed', UNCHANGED <<phase, config, filters, subscribed>>,
         \A v \in Workers \ {w} : worker'[v] = worker[v],
         worker'[w].end = worker[w].end, worker'[w].read <= worker'[w].entries,
         \A s \in Slots \ {s0} :
           log'[s] = log[s] /\ buffer'[s] = buffer[s] /\ (s \in skipped' <=> s \in skipped),
         \/ /\ worker'[w].slot = s0 /\ worker'[w].at # "boundary"
            /\ Progress(worker[w], s0)'
         \/ /\ worker'[w].slot = s0 + 1 /\ worker'[w].at = "boundary" /\ buffer'[s0] = None
            /\ IF s0 \in skipped' THEN log'[s0] = <<>>
               ELSE Shape(filters', log'[s0], s0, Kinds)
  PROVE  IInv'
<1> USE JetstreamAssumption
<1>1. /\ \A v \in Workers : worker[v] \in Worker /\ worker'[v] \in Worker
      /\ subscribed /\ subscribed'
  BY DEF IInv, Typed, Started
<1>2. Started'
  BY <1>1 DEF IInv, Started
<1>3. \A v \in Workers, s \in Slots :
        Holds(v, s)' <=> Holds(v, s) /\ ~(s = s0 /\ v = w /\ worker'[w].slot = s0 + 1)
  <2> SUFFICES ASSUME NEW v \in Workers, NEW s \in Slots
               PROVE  Holds(v, s)' <=>
                        Holds(v, s) /\ ~(s = s0 /\ v = w /\ worker'[w].slot = s0 + 1)
    OBVIOUS
  <2>1. CASE v # w
    BY <2>1 DEF Holds
  <2>2. CASE v = w
    <3>1. worker'[w].slot \in {s0, s0 + 1} /\ s0 \in Nat /\ s \in Nat
      BY DEF Slots
    <3>. QED BY <2>2, <3>1 DEF Holds
  <2>. QED BY <2>1, <2>2
<1>4. \A v \in Workers : Holds(v, s0) => v = w
  <2>1. Holds(w, s0)
    BY <1>1 DEF Holds, Worker, Slots
  <2>. QED BY <2>1, OneHolder DEF IInv
<1>5. \A s \in Slots : Named(s)' <=> Named(s)
  BY DEF Named
<1>6. Shared'
  <2>1. \A v \in Workers : /\ worker'[v].slot <= worker'[v].end
                           /\ worker'[v].at # "boundary" => worker'[v].slot < worker'[v].end
                           /\ worker'[v].read <= worker'[v].entries
    <3>0. worker[w].end \in Nat /\ s0 \in Nat
      BY <1>1 DEF Worker, Slots
    <3>1. worker'[w].slot = s0 \/ (worker'[w].slot = s0 + 1 /\ worker'[w].at = "boundary")
      OBVIOUS
    <3>2. /\ worker'[w].slot <= worker'[w].end
          /\ worker'[w].at # "boundary" => worker'[w].slot < worker'[w].end
      BY <3>0, <3>1
    <3>. QED BY <3>2 DEF IInv, Shared
  <2>2. ASSUME NEW u \in Workers, NEW v \in Workers, u # v
        PROVE  worker'[u].end <= worker'[v].slot \/ worker'[v].end <= worker'[u].slot
    <3>1. worker[u].end <= worker[v].slot \/ worker[v].end <= worker[u].slot
      BY <2>2 DEF IInv, Shared
    <3>2. /\ worker'[w].slot \in {s0, s0 + 1} /\ s0 \in Nat
          /\ worker[u].end \in Nat /\ worker[v].end \in Nat
      BY <1>1 DEF Worker, Slots
    <3>3. CASE u = w
      BY <2>2, <3>1, <3>2, <3>3
    <3>4. CASE v = w
      BY <2>2, <3>1, <3>2, <3>4
    <3>. QED BY <2>2, <3>1, <3>3, <3>4
  <2>3. \A v \in Workers, s \in Slots : Holds(v, s)' => Named(s)'
    BY <1>1, <1>3, <1>5 DEF IInv, Shared
  <2>. QED BY <2>1, <2>2, <2>3 DEF Shared
<1>7. Ahead'
  <2> SUFFICES ASSUME NEW v \in Workers, NEW s \in Slots, Holds(v, s)',
                      s = worker'[v].slot => worker'[v].at = "boundary"
               PROVE  log'[s] = <<>> /\ buffer'[s] = None /\ s \notin skipped'
    BY DEF Ahead
  <2>1. s # s0
    BY <1>1, <1>3, <1>4 DEF Holds
  <2>2. Holds(v, s) /\ (s = worker[v].slot => worker[v].at = "boundary")
    BY <1>3, <2>1
  <2>. QED BY <2>1, <2>2 DEF IInv, Ahead
<1>8. InProgress'
  <2> SUFFICES ASSUME NEW v \in Workers, worker'[v].at # "boundary"
               PROVE  Progress(worker[v], worker[v].slot)'
    BY DEF InProgress
  <2>1. CASE v = w
    BY <2>1
  <2>2. CASE v # w
    <3> DEFINE s == worker[v].slot
    <3>1. worker'[v] = worker[v] /\ worker[v].at # "boundary"
      BY <2>2
    <3>2. s \in Slots /\ Holds(v, s)
      BY <1>1, <3>1 DEF IInv, Shared, Holds, Worker, Slots
    <3>3. s # s0
      BY <1>4, <2>2, <3>2
    <3>4. Progress(worker[v], s)
      BY <3>1 DEF IInv, InProgress
    <3>. QED BY <3>1, <3>2, <3>3, <3>4 DEF Progress
  <2>. QED BY <2>1, <2>2
<1>9. Settled'
  <2> SUFFICES ASSUME NEW s \in Slots, \A v \in Workers : ~Holds(v, s)'
               PROVE  /\ buffer'[s] = None
                      /\ IF ~subscribed' \/ ~Named(s)' THEN log'[s] = <<>> /\ s \notin skipped'
                         ELSE IF s \in skipped' THEN log'[s] = <<>>
                         ELSE Shape(filters', log'[s], s, Kinds)
    BY DEF Settled
  <2>1. CASE s = s0
    <3>1. Holds(w, s0)
      BY <1>1 DEF Holds, Worker, Slots
    <3>2. Named(s0)'
      BY <1>1, <1>5, <3>1 DEF IInv, Shared
    <3>3. worker'[w].slot = s0 + 1
      BY <1>3, <2>1, <3>1
    <3>. QED BY <1>1, <2>1, <3>2, <3>3 DEF Slots
  <2>2. CASE s # s0
    <3>1. \A v \in Workers : ~Holds(v, s)
      BY <1>3, <2>2
    <3>. QED BY <1>1, <1>5, <2>2, <3>1 DEF IInv, Settled
  <2>. QED BY <2>1, <2>2
<1>10. Finished'
  BY DEF Finished
<1>. QED BY <1>2, <1>6, <1>7, <1>8, <1>9, <1>10 DEF IInv

-----------------------------------------------------------------------------
(* One lemma per action: it preserves the invariant.                       *)

(* What the invariant says of a worker that is in the middle of a slot. *)
LEMMA AtWork ==
  ASSUME IInv, NEW w \in Workers, worker[w].at # "boundary"
  PROVE  /\ worker[w] \in Worker /\ worker[w].slot \in Slots
         /\ worker[w].slot < worker[w].end /\ worker[w].read <= worker[w].entries
         /\ Progress(worker[w], worker[w].slot)
         /\ log[worker[w].slot] \in Seq(Update)
BY DEF IInv, Typed, Shared, InProgress, Worker

LEMMA BeginSlotInv ==
  ASSUME IInv, NEW w \in Workers, NEW n \in Nat, NEW tx \in BOOLEAN, BeginSlot(w, n, tx)
  PROVE  IInv'
<1> DEFINE s0 == worker[w].slot
<1>1. worker[w] \in Worker /\ s0 \in Slots
  BY DEF IInv, Typed, Worker
<1>2. log[s0] = <<>> /\ buffer[s0] = None /\ s0 \notin skipped
  <2>1. Holds(w, s0)
    BY <1>1, JetstreamAssumption DEF BeginSlot, Holds, Slots
  <2>. QED BY <1>1, <2>1 DEF BeginSlot, IInv, Ahead
<1>3. /\ worker' = [worker EXCEPT ![w] = worker'[w]]
      /\ worker'[w] = [worker[w] EXCEPT !.at = "contents", !.entries = n, !.read = 0,
                                        !.tx = tx, !.taken = <<>>]
  BY DEF BeginSlot, IInv, Typed
<1>4. Typed'
  <2>0. <<>> \in Entries
    BY DEF Entries
  <2>1. worker'[w] \in Worker
    <3> DEFINE x == worker[w]
    <3>1. x \in Worker
      BY <1>1
    <3> HIDE DEF x
    <3>2. [x EXCEPT !.at = "contents", !.entries = n, !.read = 0, !.tx = tx, !.taken = <<>>]
             \in Worker
      BY <2>0, <3>1 DEF Worker
    <3>. QED BY <1>3, <3>2 DEF x
  <2>2. worker' \in [Workers -> Worker]
    BY <1>3, <2>1 DEF IInv, Typed
  <2>. QED BY <2>2 DEF BeginSlot, IInv, Typed
<1>5. Progress(worker[w], s0)'
  <2>1. Shape(filters', log'[s0], s0, {"transaction"})
    BY <1>2, ShapeEmpty DEF BeginSlot
  <2>2. s0' = s0 /\ worker'[w].at = "contents" /\ worker'[w].read = 0
    BY <1>1, <1>3 DEF Worker
  <2>. QED BY <1>2, <2>1, <2>2 DEF BeginSlot, Progress
<1>6. /\ worker'[w].end = worker[w].end /\ worker'[w].slot = s0
      /\ worker'[w].at # "boundary" /\ worker'[w].read <= worker'[w].entries
      /\ \A v \in Workers \ {w} : worker'[v] = worker[v]
  BY <1>1, <1>3 DEF Worker, IInv, Typed
<1>7. /\ phase = "running" /\ s0 < worker[w].end
      /\ UNCHANGED <<phase, config, filters, subscribed, log, buffer, skipped>>
  BY DEF BeginSlot
<1>. QED BY <1>1, <1>4, <1>5, <1>6, <1>7, WorkerFrame

LEMMA LeaderSkippedInv ==
  ASSUME IInv, NEW w \in Workers, LeaderSkipped(w)
  PROVE  IInv'
<1> DEFINE s0 == worker[w].slot
<1>1. worker[w] \in Worker /\ s0 \in Slots /\ s0 \in Nat /\ worker[w].end \in Slots
  BY DEF IInv, Typed, Worker, Slots
<1>2. log[s0] = <<>> /\ buffer[s0] = None
  <2>1. Holds(w, s0)
    BY <1>1 DEF LeaderSkipped, Holds
  <2>. QED BY <1>1, <2>1 DEF LeaderSkipped, IInv, Ahead
<1>3. /\ worker' = [worker EXCEPT ![w] = worker'[w]]
      /\ worker'[w] = [worker[w] EXCEPT !.slot = s0 + 1]
  BY DEF LeaderSkipped, IInv, Typed
<1>4. Typed'
  <2>1. s0 + 1 \in Slots
    BY <1>1, JetstreamAssumption DEF LeaderSkipped, Slots
  <2>2. worker'[w] \in Worker
    <3> DEFINE x == worker[w]
    <3>1. x \in Worker
      BY <1>1
    <3> HIDE DEF x
    <3>2. \A t \in Slots : [x EXCEPT !.slot = t] \in Worker
      BY <3>1 DEF Worker
    <3>. QED BY <1>3, <2>1, <3>2 DEF x
  <2>3. worker' \in [Workers -> Worker]
    BY <1>3, <2>2 DEF IInv, Typed
  <2>. QED BY <1>1, <2>3 DEF LeaderSkipped, IInv, Typed
<1>5. /\ worker'[w].end = worker[w].end /\ worker'[w].slot = s0 + 1
      /\ worker'[w].at = "boundary" /\ worker'[w].read <= worker'[w].entries
      /\ \A v \in Workers \ {w} : worker'[v] = worker[v]
  BY <1>1, <1>3 DEF LeaderSkipped, Worker, IInv, Typed, Shared
<1>6. /\ phase = "running" /\ s0 < worker[w].end /\ skipped' = skipped \cup {s0}
      /\ UNCHANGED <<phase, config, filters, subscribed, log, buffer>>
  BY DEF LeaderSkipped
<1>. QED BY <1>1, <1>2, <1>4, <1>5, <1>6, WorkerFrame

LEMMA OnEntryInv ==
  ASSUME IInv, NEW w \in Workers, OnEntry(w)
  PROVE  IInv'
<1> DEFINE s0 == worker[w].slot
           n == worker[w].read
           old == IF buffer[s0] = None THEN <<>> ELSE buffer[s0]
           new == Append(old, <<s0, n + 1>>)
<1>1. /\ worker[w] \in Worker /\ s0 \in Slots /\ s0 \in Nat /\ n \in Nat
      /\ s0 < worker[w].end /\ Progress(worker[w], s0) /\ worker[w].at = "contents"
      /\ n < worker[w].entries /\ worker[w].entries \in Nat
  BY AtWork DEF OnEntry, Worker, Slots
<1>2. /\ worker' = [worker EXCEPT ![w] = worker'[w]]
      /\ worker'[w] = [worker[w] EXCEPT !.read = n + 1]
      /\ buffer' = IF Asked(filters) THEN [buffer EXCEPT ![s0] = new] ELSE buffer
  BY MatchesAreTo DEF OnEntry, IInv, Typed
<1>3. Asked(filters) => Whole(old, s0, n)
  <2>1. CASE buffer[s0] = None
    BY <1>1, <2>1 DEF Progress, Whole, Entries
  <2>2. CASE buffer[s0] # None
    BY <1>1, <2>2 DEF Progress
  <2>. QED BY <2>1, <2>2
<1>4. Asked(filters) => Whole(new, s0, n + 1) /\ new \in Entries /\ new # None
  <2> HIDE DEF old
  <2> SUFFICES ASSUME Asked(filters)
               PROVE  Whole(new, s0, n + 1) /\ new \in Entries /\ new # None
    OBVIOUS
  <2>1. old \in Entries /\ Len(old) = n /\ \A k \in 1 .. n : old[k] = <<s0, k>>
    BY <1>3 DEF Whole
  <2>2. <<s0, n + 1>> \in Nat \X Nat
    BY <1>1
  <2>3. /\ new \in Entries /\ Len(new) = n + 1
        /\ new[n + 1] = <<s0, n + 1>> /\ \A k \in 1 .. n : new[k] = old[k]
    BY <1>1, <2>1, <2>2 DEF Entries
  <2>4. \A k \in 1 .. n + 1 : new[k] = <<s0, k>>
    <3> SUFFICES ASSUME NEW k \in 1 .. n + 1
                 PROVE  new[k] = <<s0, k>>
      OBVIOUS
    <3>1. k = n + 1 \/ k \in 1 .. n
      BY <1>1
    <3>2. CASE k = n + 1
      BY <2>3, <3>2
    <3>3. CASE k \in 1 .. n
      BY <2>1, <2>3, <3>3
    <3>. QED BY <3>1, <3>2, <3>3
  <2>5. new # None
    BY <2>3, JetstreamAssumption DEF Entries
  <2>. QED BY <2>3, <2>4, <2>5 DEF Whole
<1> HIDE DEF new, old
<1>5. Typed'
  <2>1. worker'[w] \in Worker
    <3> DEFINE x == worker[w]
    <3>1. x \in Worker
      BY <1>1
    <3> HIDE DEF x
    <3>2. \A m \in Nat : [x EXCEPT !.read = m] \in Worker
      BY <3>1 DEF Worker
    <3>. QED BY <1>1, <1>2, <3>2 DEF x
  <2>2. worker' \in [Workers -> Worker]
    BY <1>2, <2>1 DEF IInv, Typed
  <2>3. buffer' \in [Slots -> Entries \cup {None}]
    BY <1>1, <1>2, <1>4 DEF IInv, Typed
  <2>. QED BY <2>2, <2>3 DEF OnEntry, IInv, Typed
<1>6. /\ phase = "running"
      /\ UNCHANGED <<phase, config, filters, subscribed, log, skipped>>
  BY DEF OnEntry
<1>7. /\ worker'[w].end = worker[w].end /\ worker'[w].slot = s0
      /\ worker'[w].at = "contents" /\ worker'[w].read = n + 1
      /\ worker'[w].tx = worker[w].tx /\ worker'[w].entries = worker[w].entries
      /\ \A v \in Workers \ {w} : worker'[v] = worker[v]
  BY <1>1, <1>2 DEF Worker, IInv, Typed
<1>8. Progress(worker[w], s0)'
  <2>1. CASE Asked(filters)
    <3>1. buffer'[s0] = new
      BY <1>1, <1>2, <2>1 DEF IInv, Typed
    <3>2. buffer'[s0] # None /\ Whole(buffer'[s0], s0, worker'[w].read) /\ Asked(filters')
      BY <1>4, <1>6, <1>7, <2>1, <3>1
    <3>3. /\ s0 \notin skipped' /\ (worker'[w].tx => log'[s0] = <<>>)
          /\ Shape(filters', log'[s0], s0, {"transaction"})
      BY <1>1, <1>6, <1>7 DEF Progress
    <3>. QED BY <1>7, <3>2, <3>3 DEF Progress
  <2>2. CASE ~Asked(filters)
    BY <1>1, <1>2, <1>6, <1>7, <2>2 DEF Progress
  <2>. QED BY <2>1, <2>2
<1>9. \A s \in Slots \ {s0} : buffer'[s] = buffer[s]
  BY <1>2 DEF IInv, Typed
<1>. QED BY <1>1, <1>5, <1>6, <1>7, <1>8, <1>9, WorkerFrame

(* The updates sent so far are followed by the one the step sends, unless  *)
(* nobody asks for it.                                                     *)
LEMMA SendOrSkipKeeps ==
  ASSUME IInv, NEW w \in Workers, worker[w].at # "boundary",
         NEW kind \in Kinds, NEW kinds \in SUBSET Kinds, NEW e \in Entries,
         SendOrSkip(w, kind, To(filters, kind), e),
         Shape(filters, log[worker[w].slot], worker[w].slot, kinds),
         \A k \in kinds : Before[k] < Before[kind],
         kind = "block" => Whole(e, worker[w].slot, Len(e))
  PROVE  /\ log' \in [Slots -> Seq(Update)] /\ waiting' \in 0 .. ChannelSize
         /\ \A s \in Slots \ {worker[w].slot} : log'[s] = log[s]
         /\ Shape(filters, log'[worker[w].slot], worker[w].slot, kinds \cup {kind})
         /\ \A n \in Nat : Carries(log[worker[w].slot], n) /\ (kind = "block" => Len(e) = n)
                             => Carries(log'[worker[w].slot], n)
<1> DEFINE s0 == worker[w].slot
           u == [kind |-> kind, to |-> To(filters, kind), entries |-> e]
<1>1. s0 \in Slots /\ log \in [Slots -> Seq(Update)] /\ waiting \in 0 .. ChannelSize
  BY AtWork DEF IInv, Typed
<1>2. CASE To(filters, kind) = {}
  <2>1. log' = log /\ waiting' = waiting
    BY <1>2 DEF SendOrSkip
  <2>2. Shape(filters, log[s0], s0, kinds \cup {kind})
    BY <1>2, ShapeSkipped
  <2>. QED BY <1>1, <2>1, <2>2
<1>3. CASE To(filters, kind) # {}
  <2>1. /\ log' = [log EXCEPT ![s0] = Append(log[s0], u)]
        /\ waiting' = waiting + 1 /\ waiting < ChannelSize
    BY <1>1, <1>3 DEF SendOrSkip, Send
  <2>2. u \in Update
    BY DEF Update, To
  <2>3. /\ Shape(filters, Append(log[s0], u), s0, kinds \cup {u.kind})
        /\ Len(Append(log[s0], u)) = Len(log[s0]) + 1
        /\ Append(log[s0], u)[Len(log[s0]) + 1] = u
        /\ \A i \in 1 .. Len(log[s0]) : Append(log[s0], u)[i] = log[s0][i]
    BY <2>2, ShapeExtended
  <2>4. log'[s0] = Append(log[s0], u) /\ \A s \in Slots \ {s0} : log'[s] = log[s]
    BY <1>1, <2>1
  <2>5. log' \in [Slots -> Seq(Update)]
    <3>1. Append(log[s0], u) \in Seq(Update)
      BY <2>3 DEF Shape
    <3>. QED BY <1>1, <2>1, <3>1
  <2>6. ASSUME NEW n \in Nat, Carries(log[s0], n), kind = "block" => Len(e) = n
        PROVE  Carries(log'[s0], n)
    <3> SUFFICES ASSUME NEW i \in 1 .. Len(log'[s0]), log'[s0][i].kind = "block"
                 PROVE  Len(log'[s0][i].entries) = n
      BY DEF Carries
    <3>0. Len(log[s0]) \in Nat
      BY <1>1
    <3>1. CASE i = Len(log[s0]) + 1
      BY <2>3, <2>4, <2>6, <3>1
    <3>2. CASE i \in 1 .. Len(log[s0])
      BY <2>3, <2>4, <2>6, <3>2 DEF Carries
    <3>. QED BY <2>3, <2>4, <3>0, <3>1, <3>2
  <2>7. waiting' \in 0 .. ChannelSize
    BY <1>1, <2>1, JetstreamAssumption
  <2>. QED BY <2>3, <2>4, <2>5, <2>6, <2>7
<1>. QED BY <1>2, <1>3

LEMMA OnTransactionInv ==
  ASSUME IInv, NEW w \in Workers, OnTransaction(w)
  PROVE  IInv'
<1> DEFINE s0 == worker[w].slot
<1>1. /\ worker[w] \in Worker /\ s0 \in Slots /\ s0 < worker[w].end
      /\ worker[w].read <= worker[w].entries
      /\ Progress(worker[w], s0) /\ worker[w].at = "contents" /\ worker[w].tx
  BY AtWork DEF OnTransaction
<1>2. /\ worker' = [worker EXCEPT ![w] = worker'[w]]
      /\ worker'[w] = [worker[w] EXCEPT !.tx = FALSE]
  BY DEF OnTransaction, IInv, Typed
<1>3. /\ log' \in [Slots -> Seq(Update)] /\ waiting' \in 0 .. ChannelSize
      /\ \A s \in Slots \ {s0} : log'[s] = log[s]
      /\ Shape(filters, log'[s0], s0, {"transaction"})
  <2>1. log[s0] = <<>>
    BY <1>1 DEF Progress
  <2>2. SendOrSkip(w, "transaction", To(filters, "transaction"), <<>>)
    BY MatchesAreTo DEF OnTransaction, SendOrSkip
  <2>3. <<>> \in Entries /\ "transaction" \in Kinds
    BY DEF Entries, Kinds
  <2>4. Shape(filters, log[s0], s0, {})
    BY <2>1 DEF Shape, Ordered, Addressed, Present
  <2>5. /\ worker[w].at # "boundary" /\ {} \in SUBSET Kinds
        /\ \A k \in {} : Before[k] < Before["transaction"]
    BY <1>1
  <2>6. /\ log' \in [Slots -> Seq(Update)] /\ waiting' \in 0 .. ChannelSize
        /\ \A s \in Slots \ {s0} : log'[s] = log[s]
        /\ Shape(filters, log'[s0], s0, {} \cup {"transaction"})
    BY <2>2, <2>3, <2>4, <2>5, SendOrSkipKeeps
  <2>7. {} \cup {"transaction"} = {"transaction"}
    OBVIOUS
  <2>. QED BY <2>6, <2>7
<1>4. Typed'
  <2>1. worker'[w] \in Worker
    <3> DEFINE x == worker[w]
    <3>1. x \in Worker
      BY <1>1
    <3> HIDE DEF x
    <3>2. [x EXCEPT !.tx = FALSE] \in Worker
      BY <3>1 DEF Worker
    <3>. QED BY <1>2, <3>2 DEF x
  <2>2. worker' \in [Workers -> Worker]
    BY <1>2, <2>1 DEF IInv, Typed
  <2>. QED BY <1>3, <2>2 DEF OnTransaction, IInv, Typed
<1>5. /\ phase = "running"
      /\ UNCHANGED <<phase, config, filters, subscribed, buffer, skipped>>
  BY DEF OnTransaction
<1>6. /\ worker'[w].end = worker[w].end /\ worker'[w].slot = s0
      /\ worker'[w].at = "contents" /\ worker'[w].read = worker[w].read
      /\ ~worker'[w].tx /\ worker'[w].entries = worker[w].entries
      /\ \A v \in Workers \ {w} : worker'[v] = worker[v]
  BY <1>1, <1>2 DEF Worker, IInv, Typed
<1>7. Progress(worker[w], s0)'
  <2>1. Shape(filters', log'[s0], s0, {"transaction"})
    BY <1>3, <1>5
  <2>2. /\ s0 \notin skipped'
        /\ IF ~Asked(filters') THEN buffer'[s0] = None
           ELSE IF buffer'[s0] = None THEN worker'[w].read = 0
                ELSE Whole(buffer'[s0], s0, worker'[w].read)
    BY <1>1, <1>5, <1>6 DEF Progress
  <2>. QED BY <1>6, <2>1, <2>2 DEF Progress
<1>. QED BY <1>1, <1>3, <1>4, <1>5, <1>6, <1>7, WorkerFrame

LEMMA OnBlockInv ==
  ASSUME IInv, NEW w \in Workers, OnBlock(w)
  PROVE  IInv'
<1> DEFINE s0 == worker[w].slot
           taken == IF Asked(filters) /\ buffer[s0] # None THEN buffer[s0] ELSE <<>>
<1>1. /\ worker[w] \in Worker /\ s0 \in Slots /\ s0 < worker[w].end
      /\ worker[w].read = worker[w].entries /\ worker[w].entries \in Nat
      /\ Progress(worker[w], s0) /\ worker[w].at = "contents"
  BY AtWork DEF OnBlock, Worker
<1>2. /\ worker' = [worker EXCEPT ![w] = worker'[w]]
      /\ worker'[w] = [worker[w] EXCEPT !.at = "block", !.taken = taken]
      /\ buffer' = IF Asked(filters) THEN [buffer EXCEPT ![s0] = None] ELSE buffer
  BY MatchesAreTo DEF OnBlock, Drain, IInv, Typed
<1>3. Whole(taken, s0, IF Asked(filters) THEN worker[w].entries ELSE 0)
  <2>1. Whole(<<>>, s0, 0)
    BY DEF Whole, Entries
  <2>2. CASE Asked(filters) /\ buffer[s0] # None
    BY <1>1, <2>2 DEF Progress
  <2>3. CASE Asked(filters) /\ buffer[s0] = None
    <3>1. worker[w].entries = 0
      BY <1>1, <2>3 DEF Progress
    <3>. QED BY <2>1, <2>3, <3>1
  <2>4. CASE ~Asked(filters)
    BY <2>1, <2>4
  <2>. QED BY <2>2, <2>3, <2>4
<1>4. taken \in Entries
  BY <1>3 DEF Whole
<1> HIDE DEF taken
<1>5. Typed'
  <2>1. worker'[w] \in Worker
    <3> DEFINE x == worker[w]
    <3>1. x \in Worker
      BY <1>1
    <3> HIDE DEF x
    <3>2. [x EXCEPT !.at = "block", !.taken = taken] \in Worker
      BY <1>4, <3>1 DEF Worker
    <3>. QED BY <1>2, <3>2 DEF x
  <2>2. worker' \in [Workers -> Worker]
    BY <1>2, <2>1 DEF IInv, Typed
  <2>3. buffer' \in [Slots -> Entries \cup {None}]
    BY <1>2 DEF IInv, Typed
  <2>. QED BY <2>2, <2>3 DEF OnBlock, IInv, Typed
<1>6. /\ phase = "running"
      /\ UNCHANGED <<phase, config, filters, subscribed, log, skipped>>
  BY DEF OnBlock
<1>7. /\ worker'[w].end = worker[w].end /\ worker'[w].slot = s0
      /\ worker'[w].at = "block" /\ worker'[w].read = worker[w].read
      /\ worker'[w].taken = taken /\ worker'[w].entries = worker[w].entries
      /\ \A v \in Workers \ {w} : worker'[v] = worker[v]
  BY <1>1, <1>2 DEF Worker, IInv, Typed
<1>8. buffer'[s0] = None /\ \A s \in Slots \ {s0} : buffer'[s] = buffer[s]
  BY <1>1, <1>2 DEF IInv, Typed, Progress
<1>9. Progress(worker[w], s0)'
  <2>1. /\ s0 \notin skipped' /\ Shape(filters', log'[s0], s0, {"transaction"})
    BY <1>1, <1>6 DEF Progress
  <2>2. Whole(worker'[w].taken, s0, IF Asked(filters') THEN worker'[w].entries ELSE 0)
    BY <1>3, <1>6, <1>7
  <2>. QED BY <1>7, <1>8, <2>1, <2>2 DEF Progress
<1>10. worker'[w].read <= worker'[w].entries
  BY <1>1, <1>7
<1>. QED BY <1>1, <1>5, <1>6, <1>7, <1>8, <1>9, <1>10, WorkerFrame

LEMMA SendBlockInv ==
  ASSUME IInv, NEW w \in Workers, SendBlock(w)
  PROVE  IInv'
<1> DEFINE s0 == worker[w].slot
           e == worker[w].taken
           n == IF Asked(filters) THEN worker[w].entries ELSE 0
<1>1. /\ worker[w] \in Worker /\ s0 \in Slots /\ s0 \in Nat /\ s0 < worker[w].end
      /\ worker[w].end \in Slots /\ worker[w].read <= worker[w].entries
      /\ Progress(worker[w], s0) /\ worker[w].at = "block" /\ n \in Nat
  BY AtWork DEF SendBlock, Worker, Slots
<1>2. /\ worker' = [worker EXCEPT ![w] = worker'[w]]
      /\ worker'[w] = [worker[w] EXCEPT !.at = "meta"]
  BY DEF SendBlock, IInv, Typed
<1>3. /\ log' \in [Slots -> Seq(Update)] /\ waiting' \in 0 .. ChannelSize
      /\ \A s \in Slots \ {s0} : log'[s] = log[s]
      /\ Shape(filters, log'[s0], s0, {"transaction", "block"})
      /\ Carries(log'[s0], n)
  <2>1. SendOrSkip(w, "block", To(filters, "block"), e)
    BY MatchesAreTo DEF SendBlock
  <2>2. e \in Entries /\ "block" \in Kinds
    BY <1>1 DEF Worker, Kinds
  <2>3. Shape(filters, log[s0], s0, {"transaction"}) /\ Whole(e, s0, n)
    BY <1>1 DEF Progress
  <2>4. Whole(e, s0, Len(e)) /\ Len(e) = n
    BY <2>3 DEF Whole
  <2>5. Carries(log[s0], n)
    BY <2>3 DEF Shape, Addressed, Carries
  <2>6. /\ worker[w].at # "boundary" /\ {"transaction"} \in SUBSET Kinds
        /\ \A k \in {"transaction"} : Before[k] < Before["block"]
    BY <1>1 DEF Before, Kinds
  <2>7. /\ log' \in [Slots -> Seq(Update)] /\ waiting' \in 0 .. ChannelSize
        /\ \A s \in Slots \ {s0} : log'[s] = log[s]
        /\ Shape(filters, log'[s0], s0, {"transaction"} \cup {"block"})
        /\ Carries(log'[s0], n)
    <3> HIDE DEF n, e
    <3>. QED BY <1>1, <2>1, <2>2, <2>3, <2>4, <2>5, <2>6, SendOrSkipKeeps
  <2>8. {"transaction"} \cup {"block"} = {"transaction", "block"}
    OBVIOUS
  <2>. QED BY <2>7, <2>8
<1>4. Typed'
  <2>1. worker'[w] \in Worker
    <3> DEFINE x == worker[w]
    <3>1. x \in Worker
      BY <1>1
    <3> HIDE DEF x
    <3>2. [x EXCEPT !.at = "meta"] \in Worker
      BY <3>1 DEF Worker
    <3>. QED BY <1>2, <3>2 DEF x
  <2>2. worker' \in [Workers -> Worker]
    BY <1>2, <2>1 DEF IInv, Typed
  <2>. QED BY <1>3, <2>2 DEF SendBlock, IInv, Typed
<1>5. /\ phase = "running"
      /\ UNCHANGED <<phase, config, filters, subscribed, buffer, skipped>>
  BY DEF SendBlock
<1>6. /\ worker'[w].end = worker[w].end /\ worker'[w].slot = s0
      /\ worker'[w].at = "meta" /\ worker'[w].read = worker[w].read
      /\ worker'[w].entries = worker[w].entries
      /\ \A v \in Workers \ {w} : worker'[v] = worker[v]
  BY <1>1, <1>2 DEF Worker, IInv, Typed
<1>7. buffer'[s0] = None /\ s0 \notin skipped' /\ Shape(filters', log'[s0], s0, {"transaction", "block"})
  BY <1>1, <1>3, <1>5 DEF Progress
<1>8. Progress(worker[w], s0)'
  <2>1. Carries(log'[s0], IF Asked(filters') THEN worker'[w].entries ELSE 0)
    BY <1>3, <1>5, <1>6
  <2>. QED BY <1>6, <1>7, <2>1 DEF Progress
<1>. QED BY <1>1, <1>3, <1>4, <1>5, <1>6, <1>8, WorkerFrame

LEMMA SendMetaInv ==
  ASSUME IInv, NEW w \in Workers, SendMeta(w)
  PROVE  IInv'
<1> DEFINE s0 == worker[w].slot
           e == <<>>
           n == IF Asked(filters) THEN worker[w].entries ELSE 0
<1>1. /\ worker[w] \in Worker /\ s0 \in Slots /\ s0 \in Nat /\ s0 < worker[w].end
      /\ worker[w].end \in Slots /\ worker[w].read <= worker[w].entries
      /\ Progress(worker[w], s0) /\ worker[w].at = "meta" /\ n \in Nat
  BY AtWork DEF SendMeta, Worker, Slots
<1>2. /\ worker' = [worker EXCEPT ![w] = worker'[w]]
      /\ worker'[w] = [worker[w] EXCEPT !.at = "slot"]
  BY DEF SendMeta, IInv, Typed
<1>3. /\ log' \in [Slots -> Seq(Update)] /\ waiting' \in 0 .. ChannelSize
      /\ \A s \in Slots \ {s0} : log'[s] = log[s]
      /\ Shape(filters, log'[s0], s0, {"transaction", "block", "meta"})
      /\ Carries(log'[s0], n)
  <2>1. SendOrSkip(w, "meta", To(filters, "meta"), e)
    BY MatchesAreTo DEF SendMeta
  <2>2. e \in Entries /\ "meta" \in Kinds
    BY DEF Entries, Kinds
  <2>3. Shape(filters, log[s0], s0, {"transaction", "block"})
    BY <1>1 DEF Progress
  <2>4. "meta" # "block"
    OBVIOUS
  <2>5. Carries(log[s0], n)
    BY <1>1 DEF Progress
  <2>6. /\ worker[w].at # "boundary" /\ {"transaction", "block"} \in SUBSET Kinds
        /\ \A k \in {"transaction", "block"} : Before[k] < Before["meta"]
    BY <1>1 DEF Before, Kinds
  <2>7. /\ log' \in [Slots -> Seq(Update)] /\ waiting' \in 0 .. ChannelSize
        /\ \A s \in Slots \ {s0} : log'[s] = log[s]
        /\ Shape(filters, log'[s0], s0, {"transaction", "block"} \cup {"meta"})
        /\ Carries(log'[s0], n)
    <3> HIDE DEF n, e
    <3>. QED BY <1>1, <2>1, <2>2, <2>3, <2>4, <2>5, <2>6, SendOrSkipKeeps
  <2>8. {"transaction", "block"} \cup {"meta"} = {"transaction", "block", "meta"}
    OBVIOUS
  <2>. QED BY <2>7, <2>8
<1>4. Typed'
  <2>1. worker'[w] \in Worker
    <3> DEFINE x == worker[w]
    <3>1. x \in Worker
      BY <1>1
    <3> HIDE DEF x
    <3>2. [x EXCEPT !.at = "slot"] \in Worker
      BY <3>1 DEF Worker
    <3>. QED BY <1>2, <3>2 DEF x
  <2>2. worker' \in [Workers -> Worker]
    BY <1>2, <2>1 DEF IInv, Typed
  <2>. QED BY <1>3, <2>2 DEF SendMeta, IInv, Typed
<1>5. /\ phase = "running"
      /\ UNCHANGED <<phase, config, filters, subscribed, buffer, skipped>>
  BY DEF SendMeta
<1>6. /\ worker'[w].end = worker[w].end /\ worker'[w].slot = s0
      /\ worker'[w].at = "slot" /\ worker'[w].read = worker[w].read
      /\ worker'[w].entries = worker[w].entries
      /\ \A v \in Workers \ {w} : worker'[v] = worker[v]
  BY <1>1, <1>2 DEF Worker, IInv, Typed
<1>7. buffer'[s0] = None /\ s0 \notin skipped' /\ Shape(filters', log'[s0], s0, {"transaction", "block", "meta"})
  BY <1>1, <1>3, <1>5 DEF Progress
<1>8. Progress(worker[w], s0)'
  <2>1. Carries(log'[s0], IF Asked(filters') THEN worker'[w].entries ELSE 0)
    BY <1>3, <1>5, <1>6
  <2>. QED BY <1>6, <1>7, <2>1 DEF Progress
<1>. QED BY <1>1, <1>3, <1>4, <1>5, <1>6, <1>8, WorkerFrame

LEMMA SendSlotInv ==
  ASSUME IInv, NEW w \in Workers, SendSlot(w)
  PROVE  IInv'
<1> DEFINE s0 == worker[w].slot
           e == <<>>
           n == IF Asked(filters) THEN worker[w].entries ELSE 0
<1>1. /\ worker[w] \in Worker /\ s0 \in Slots /\ s0 \in Nat /\ s0 < worker[w].end
      /\ worker[w].end \in Slots /\ worker[w].read <= worker[w].entries
      /\ Progress(worker[w], s0) /\ worker[w].at = "slot" /\ n \in Nat
  BY AtWork DEF SendSlot, Worker, Slots
<1>2. /\ worker' = [worker EXCEPT ![w] = worker'[w]]
      /\ worker'[w] = [worker[w] EXCEPT !.at = "boundary", !.slot = s0 + 1]
  BY DEF SendSlot, IInv, Typed
<1>3. /\ log' \in [Slots -> Seq(Update)] /\ waiting' \in 0 .. ChannelSize
      /\ \A s \in Slots \ {s0} : log'[s] = log[s]
      /\ Shape(filters, log'[s0], s0, Kinds)
      /\ Carries(log'[s0], n)
  <2>1. SendOrSkip(w, "slot", To(filters, "slot"), e)
    BY MatchesAreTo DEF SendSlot
  <2>2. e \in Entries /\ "slot" \in Kinds
    BY DEF Entries, Kinds
  <2>3. Shape(filters, log[s0], s0, {"transaction", "block", "meta"})
    BY <1>1 DEF Progress
  <2>4. "slot" # "block"
    OBVIOUS
  <2>5. Carries(log[s0], n)
    BY <1>1 DEF Progress
  <2>6. /\ worker[w].at # "boundary" /\ {"transaction", "block", "meta"} \in SUBSET Kinds
        /\ \A k \in {"transaction", "block", "meta"} : Before[k] < Before["slot"]
    BY <1>1 DEF Before, Kinds
  <2>7. /\ log' \in [Slots -> Seq(Update)] /\ waiting' \in 0 .. ChannelSize
        /\ \A s \in Slots \ {s0} : log'[s] = log[s]
        /\ Shape(filters, log'[s0], s0, {"transaction", "block", "meta"} \cup {"slot"})
        /\ Carries(log'[s0], n)
    <3> HIDE DEF n, e
    <3>. QED BY <1>1, <2>1, <2>2, <2>3, <2>4, <2>5, <2>6, SendOrSkipKeeps
  <2>8. {"transaction", "block", "meta"} \cup {"slot"} = Kinds
    BY DEF Kinds
  <2>. QED BY <2>7, <2>8
<1>4. Typed'
  <2>1. worker'[w] \in Worker
    <3> DEFINE x == worker[w]
    <3>1. x \in Worker
      BY <1>1
    <3> HIDE DEF x
    <3>2. \A t \in Slots : [x EXCEPT !.at = "boundary", !.slot = t] \in Worker
      BY <3>1 DEF Worker
    <3>3. s0 + 1 \in Slots
      BY <1>1, JetstreamAssumption DEF Slots
    <3>. QED BY <1>2, <3>2, <3>3 DEF x
  <2>2. worker' \in [Workers -> Worker]
    BY <1>2, <2>1 DEF IInv, Typed
  <2>. QED BY <1>3, <2>2 DEF SendSlot, IInv, Typed
<1>5. /\ phase = "running"
      /\ UNCHANGED <<phase, config, filters, subscribed, buffer, skipped>>
  BY DEF SendSlot
<1>6. /\ worker'[w].end = worker[w].end /\ worker'[w].slot = s0 + 1
      /\ worker'[w].at = "boundary" /\ worker'[w].read = worker[w].read
      /\ worker'[w].entries = worker[w].entries
      /\ \A v \in Workers \ {w} : worker'[v] = worker[v]
  BY <1>1, <1>2 DEF Worker, IInv, Typed
<1>7. buffer'[s0] = None /\ s0 \notin skipped' /\ Shape(filters', log'[s0], s0, Kinds)
  BY <1>1, <1>3, <1>5 DEF Progress
<1>. QED BY <1>1, <1>3, <1>4, <1>5, <1>6, <1>7, WorkerFrame

LEMMA WorkerStepInv ==
  ASSUME IInv, NEW w \in Workers, WorkerStep(w)
  PROVE  IInv'
<1>1. CASE \E n \in 0 .. MaxEntries, tx \in BOOLEAN : BeginSlot(w, n, tx)
  BY <1>1, BeginSlotInv, JetstreamAssumption
<1>2. CASE LeaderSkipped(w)
  BY <1>2, LeaderSkippedInv
<1>3. CASE OnEntry(w)
  BY <1>3, OnEntryInv
<1>4. CASE OnTransaction(w)
  BY <1>4, OnTransactionInv
<1>5. CASE OnBlock(w)
  BY <1>5, OnBlockInv
<1>6. CASE SendBlock(w)
  BY <1>6, SendBlockInv
<1>7. CASE SendMeta(w)
  BY <1>7, SendMetaInv
<1>8. CASE SendSlot(w)
  BY <1>8, SendSlotInv
<1>9. CASE SendFails(w)
  BY <1>9 DEF SendFails, IInv, Typed, Started, Shared, Holds, Named, Ahead, InProgress,
              Progress, Settled, Finished
<1>. QED BY <1>1, <1>2, <1>3, <1>4, <1>5, <1>6, <1>7, <1>8, <1>9 DEF WorkerStep

-----------------------------------------------------------------------------
(* The other actions.                                                      *)

(* A step that leaves the workers and what is kept for the slots. *)
LEMMA Elsewhere ==
  ASSUME IInv, UNCHANGED <<config, filters, worker, buffer, log, skipped, subscribed>>,
         Typed', Started', Finished'
  PROVE  IInv'
<1>1. Shared'
  BY DEF IInv, Shared, Holds, Named
<1>2. Ahead'
  BY DEF IInv, Ahead, Holds
<1>3. InProgress'
  BY DEF IInv, InProgress, Progress
<1>4. Settled'
  BY DEF IInv, Settled, Holds, Named
<1>. QED BY <1>1, <1>2, <1>3, <1>4 DEF IInv

LEMMA StreamLoopInv ==
  ASSUME IInv, NEW c \in RangeConfigs, StreamLoop(c)
  PROVE  IInv'
<1> USE JetstreamAssumption
<1> DEFINE r == ToSlotRange(c)
<1>1. PICK share \in Shares(r) :
        worker' = [w \in Workers |-> Idle(share[w][1], share[w][2])]
  BY DEF StreamLoop
<1>2. /\ ~subscribed /\ subscribed' = TRUE /\ phase' = "running" /\ config' = c
      /\ signalled' = FALSE
      /\ UNCHANGED <<filters, buffer, log, waiting, open, skipped>> /\ r # None
  BY DEF StreamLoop, IInv, Started
<1>3. share \in [Workers -> Slots \X Slots]
  BY <1>1 DEF Shares
<1>4. \A w \in Workers : /\ share[w][1] \in Slots /\ share[w][2] \in Slots
                         /\ share[w][1] <= share[w][2]
                         /\ r[1] <= share[w][1] /\ share[w][2] <= r[2]
  BY <1>1, <1>3 DEF Shares
<1>5. \A w \in Workers :
        /\ worker'[w] \in Worker /\ worker'[w].at = "boundary"
        /\ worker'[w].slot = share[w][1] /\ worker'[w].end = share[w][2]
        /\ worker'[w].read = 0 /\ worker'[w].entries = 0
  <2>1. <<>> \in Entries
    BY DEF Entries
  <2>2. \A a, b \in Slots : /\ Idle(a, b) \in Worker /\ Idle(a, b).at = "boundary"
                            /\ Idle(a, b).slot = a /\ Idle(a, b).end = b
                            /\ Idle(a, b).read = 0 /\ Idle(a, b).entries = 0
    BY <2>1 DEF Idle, Worker
  <2> SUFFICES ASSUME NEW w \in Workers
               PROVE  /\ worker'[w] \in Worker /\ worker'[w].at = "boundary"
                      /\ worker'[w].slot = share[w][1] /\ worker'[w].end = share[w][2]
                      /\ worker'[w].read = 0 /\ worker'[w].entries = 0
    OBVIOUS
  <2> DEFINE a == share[w][1]
             b == share[w][2]
  <2>3. worker'[w] = Idle(a, b) /\ a \in Slots /\ b \in Slots
    BY <1>1, <1>4
  <2> HIDE DEF a, b
  <2>4. /\ worker'[w] \in Worker /\ worker'[w].at = "boundary"
        /\ worker'[w].slot = a /\ worker'[w].end = b
        /\ worker'[w].read = 0 /\ worker'[w].entries = 0
    BY <2>2, <2>3
  <2>. QED BY <2>4 DEF a, b
<1>6. Typed'
  <2>1. worker' \in [Workers -> Worker]
    BY <1>1, <1>5
  <2>. QED BY <1>2, <2>1 DEF IInv, Typed
<1>7. Started'
  BY <1>2 DEF Started
<1>8. /\ r[1] \in Nat /\ r[2] \in Nat
      /\ \A s \in Slots : Named(s)' <=> r[1] <= s /\ s < r[2]
  <2>1. ASSUME NEW s \in Slots
        PROVE  r[1] \in Nat /\ r[2] \in Nat /\ (Named(s)' <=> r[1] <= s /\ s < r[2])
    <3>1. Named(s)' <=> IF c.epoch # None THEN s \div SlotsPerEpoch = c.epoch
                        ELSE c.slot_start <= s /\ s < c.slot_end
      BY <1>2 DEF Named
    <3>. QED BY <1>2, <3>1, RangeIsNamed
  <2>2. 0 \in Slots
    BY DEF Slots
  <2>. QED BY <2>1, <2>2
<1>9. \A s \in Slots : log[s] = <<>> /\ buffer[s] = None /\ s \notin skipped
  <2>1. \A s \in Slots, w \in Workers : ~Holds(w, s)
    BY <1>2 DEF IInv, Started, Holds, Idle, Slots
  <2>. QED BY <1>2, <2>1 DEF IInv, Settled
<1>10. Shared'
  <2>1. \A v, w \in Workers : v # w =>
          worker'[v].end <= worker'[w].slot \/ worker'[w].end <= worker'[v].slot
    BY <1>1, <1>5 DEF Shares
  <2>2. \A w \in Workers, s \in Slots : Holds(w, s)' => Named(s)'
    BY <1>4, <1>5, <1>8 DEF Holds, Slots
  <2>. QED BY <1>4, <1>5, <2>1, <2>2 DEF Shared
<1>11. Ahead'
  BY <1>2, <1>9 DEF Ahead
<1>12. InProgress'
  BY <1>5 DEF InProgress
<1>13. Settled'
  <2> SUFFICES ASSUME NEW s \in Slots, \A w \in Workers : ~Holds(w, s)'
               PROVE  ~Named(s)' /\ buffer'[s] = None /\ log'[s] = <<>> /\ s \notin skipped'
    BY DEF Settled
  <2>1. ASSUME Named(s)' PROVE FALSE
    <3>1. s \in r[1] .. r[2] - 1
      BY <1>8, <2>1 DEF Slots
    <3>2. \E w \in Workers : share[w][1] <= s /\ s < share[w][2]
      BY <1>1, <3>1 DEF Shares
    <3>. QED BY <1>5, <3>2 DEF Holds
  <2>. QED BY <1>2, <1>9, <2>1
<1>14. Finished'
  BY <1>2 DEF Finished
<1>. QED BY <1>6, <1>7, <1>10, <1>11, <1>12, <1>13, <1>14 DEF IInv

LEMMA InitInv == Init => IInv
<1> SUFFICES ASSUME Init PROVE IInv
  OBVIOUS
<1> USE JetstreamAssumption
<1>1. <<>> \in Entries /\ <<>> \in Seq(Update) /\ 0 \in Slots
  BY DEF Entries, Slots
<1>2. Idle(0, 0) \in Worker
  BY <1>1 DEF Idle, Worker
<1>3. Typed
  BY <1>1, <1>2, PrefilterAssumption DEF Init, Typed
<1>4. Started
  BY DEF Init, Started
<1>5. \A w \in Workers : /\ worker[w].at = "boundary" /\ worker[w].slot = 0
                         /\ worker[w].end = 0 /\ worker[w].read = 0 /\ worker[w].entries = 0
  BY DEF Init, Idle
<1>6. Shared
  BY <1>5 DEF Init, Shared
<1>7. Ahead
  BY <1>5 DEF Init, Ahead
<1>8. InProgress
  BY <1>5 DEF InProgress
<1>9. Settled
  BY DEF Init, Settled
<1>10. Finished
  BY DEF Init, Finished
<1>. QED BY <1>3, <1>4, <1>6, <1>7, <1>8, <1>9, <1>10 DEF IInv

LEMMA NextInv == IInv /\ [Next]_vars => IInv'
<1> SUFFICES ASSUME IInv, [Next]_vars PROVE IInv'
  OBVIOUS
<1>1. CASE \E c \in RangeConfigs, e \in BOOLEAN : ConnectFails(c, e)
  <2>1. PICK c \in RangeConfigs, e \in BOOLEAN : ConnectFails(c, e)
    BY <1>1
  <2>2. Typed' /\ Started' /\ Finished'
    BY <2>1 DEF ConnectFails, IInv, Typed, Started, Finished
  <2>. QED BY <2>1, <2>2, Elsewhere DEF ConnectFails
<1>2. CASE \E c \in RangeConfigs : StreamLoop(c)
  BY <1>2, StreamLoopInv
<1>3. CASE \E w \in Workers : WorkerStep(w)
  BY <1>3, WorkerStepInv
<1>4. CASE FirehoseFails
  <2>1. Typed' /\ Started' /\ Finished'
    BY <1>4 DEF FirehoseFails, IInv, Typed, Started, Finished
  <2>. QED BY <1>4, <2>1, Elsewhere DEF FirehoseFails
<1>5. CASE FirehoseDone
  <2>1. Typed' /\ Started' /\ Finished'
    BY <1>5 DEF FirehoseDone, IInv, Typed, Started, Finished
  <2>. QED BY <1>5, <2>1, Elsewhere DEF FirehoseDone
<1>6. CASE RuntimeTakes
  <2>1. waiting' \in 0 .. ChannelSize
    BY <1>6, JetstreamAssumption DEF RuntimeTakes, IInv, Typed
  <2>2. Typed' /\ Started' /\ Finished'
    BY <1>6, <2>1 DEF RuntimeTakes, IInv, Typed, Started, Finished
  <2>. QED BY <1>6, <2>2, Elsewhere DEF RuntimeTakes
<1>7. CASE RuntimeDrops
  <2>1. Typed' /\ Started' /\ Finished'
    BY <1>7 DEF RuntimeDrops, IInv, Typed, Started, Finished
  <2>. QED BY <1>7, <2>1, Elsewhere DEF RuntimeDrops
<1>8. CASE Shutdown
  <2>1. Typed' /\ Started' /\ Finished'
    BY <1>8 DEF Shutdown, IInv, Typed, Started, Finished
  <2>. QED BY <1>8, <2>1, Elsewhere DEF Shutdown
<1>9. CASE UNCHANGED vars
  <2>1. Typed' /\ Started' /\ Finished'
    BY <1>9 DEF vars, IInv, Typed, Started, Finished
  <2>. QED BY <1>9, <2>1, Elsewhere DEF vars
<1>. QED
  BY <1>1, <1>2, <1>3, <1>4, <1>5, <1>6, <1>7, <1>8, <1>9 DEF Next

LEMMA Invariance == Spec => []IInv
BY InitInv, NextInv, PTL DEF Spec

-----------------------------------------------------------------------------
(* What the invariant says.                                                *)

(* The log of a slot is ordered, and the blocks in it carry entries of     *)
(* that slot.                                                              *)
LEMMA LogsInShape ==
  ASSUME IInv, NEW s \in Slots
  PROVE  \E kinds \in SUBSET Kinds : Ordered(log[s]) /\ Addressed(filters, log[s], s, kinds)
<1>1. ASSUME log[s] = <<>>
      PROVE  Ordered(log[s]) /\ Addressed(filters, log[s], s, Kinds)
  BY <1>1 DEF Ordered, Addressed
<1>2. CASE \A w \in Workers : ~Holds(w, s)
  BY <1>1, <1>2 DEF IInv, Settled, Shape
<1>3. CASE \E w \in Workers : Holds(w, s)
  <2>1. PICK w \in Workers : Holds(w, s)
    BY <1>3
  <2>2. CASE s = worker[w].slot => worker[w].at = "boundary"
    BY <1>1, <2>1, <2>2 DEF IInv, Ahead
  <2>3. CASE s = worker[w].slot /\ worker[w].at # "boundary"
    <3>1. Progress(worker[w], s) /\ worker[w] \in Worker
      BY <2>3 DEF IInv, InProgress, Typed
    <3>2. \E kinds \in {{"transaction"}, {"transaction", "block"},
                        {"transaction", "block", "meta"}} : Shape(filters, log[s], s, kinds)
      BY <2>3, <3>1 DEF Progress, Worker
    <3>. QED BY <3>2 DEF Shape, Kinds
  <2>. QED BY <2>2, <2>3
<1>. QED BY <1>2, <1>3

(* Entries reach the channel with their block, whole and in order, for     *)
(* every interleaving of any number of workers' callbacks on the map they  *)
(* share, and none is left in the map.                                     *)
THEOREM EntriesAreHandedOver == Spec => []EntriesHandedOver
<1>1. ASSUME IInv PROVE TypeOK
  <2>1. \A w \in Workers : worker[w].slot \in Slots
    BY <1>1 DEF IInv, Typed, Worker
  <2>. QED BY <1>1, <2>1 DEF IInv, Typed, Shared, TypeOK
<1>2. ASSUME IInv PROVE NoEntriesPinned
  <2> SUFFICES ASSUME NEW s \in Slots, buffer[s] # None
               PROVE  /\ phase # "completed"
                      /\ \E w \in Workers : worker[w].slot = s /\ worker[w].at = "contents"
    BY DEF NoEntriesPinned
  <2>1. PICK w \in Workers : Holds(w, s)
    BY <1>2 DEF IInv, Settled
  <2>2. s = worker[w].slot /\ worker[w].at # "boundary"
    BY <1>2, <2>1 DEF IInv, Ahead
  <2>3. Progress(worker[w], s)
    BY <1>2, <2>2 DEF IInv, InProgress
  <2>4. worker[w].at = "contents"
    BY <2>3 DEF Progress
  <2>. QED BY <1>2, <2>2, <2>4 DEF IInv, Finished
<1>3. ASSUME IInv PROVE EntriesWithTheirBlock
  <2> SUFFICES ASSUME NEW s \in Slots, NEW i \in DOMAIN log[s], log[s][i].kind = "block"
               PROVE  /\ \A k \in DOMAIN log[s][i].entries : log[s][i].entries[k] = <<s, k>>
                      /\ \A w \in Workers :
                           worker[w].slot = s /\ worker[w].at \in {"meta", "slot"} =>
                             Len(log[s][i].entries)
                               = IF Asked(filters) THEN worker[w].entries ELSE 0
    BY DEF EntriesWithTheirBlock, Asked
  <2>1. i \in 1 .. Len(log[s])
    BY <1>3 DEF IInv, Typed
  <2>2. Whole(log[s][i].entries, s, Len(log[s][i].entries))
    BY <1>3, <2>1, LogsInShape DEF Addressed
  <2>3. ASSUME NEW k \in DOMAIN log[s][i].entries
        PROVE  log[s][i].entries[k] = <<s, k>>
    <3> DEFINE q == log[s][i].entries
    <3>1. q \in Seq(Nat \X Nat)
      BY <2>2 DEF Whole, Entries
    <3>2. k \in 1 .. Len(q)
      BY <2>3, <3>1
    <3>. QED BY <2>2, <3>2 DEF Whole
  <2>4. ASSUME NEW w \in Workers, worker[w].slot = s, worker[w].at \in {"meta", "slot"}
        PROVE  Len(log[s][i].entries) = IF Asked(filters) THEN worker[w].entries ELSE 0
    <3>1. Progress(worker[w], s)
      BY <1>3, <2>4 DEF IInv, InProgress
    <3>2. Carries(log[s], IF Asked(filters) THEN worker[w].entries ELSE 0)
      BY <2>4, <3>1 DEF Progress
    <3>. QED BY <2>1, <3>2 DEF Carries
  <2>. QED BY <2>3, <2>4
<1>4. IInv => EntriesHandedOver
  BY <1>1, <1>2, <1>3 DEF EntriesHandedOver
<1>. QED BY <1>4, Invariance, PTL

(* The updates of every slot are sent in their order, and a replay that    *)
(* reports success has sent each update of each slot it was configured     *)
(* with exactly once to each parser that asked for it, for every range,    *)
(* however it is shared among however many workers.                        *)
THEOREM ReplaysAreWhole == Spec => []ReplayWhole
<1>1. ASSUME IInv PROVE FinalizedLast
  <2> SUFFICES ASSUME NEW s \in Slots, NEW i \in DOMAIN log[s], NEW j \in DOMAIN log[s], i < j
               PROVE  Before[log[s][i].kind] < Before[log[s][j].kind]
    BY DEF FinalizedLast
  <2>1. i \in 1 .. Len(log[s]) /\ j \in 1 .. Len(log[s])
    BY <1>1 DEF IInv, Typed
  <2>. QED BY <1>1, <2>1, LogsInShape DEF Ordered
<1>2. ASSUME IInv PROVE CompletedMeansWhole
  <2> SUFFICES ASSUME phase = "completed", NEW s \in Slots
               PROVE  IF ~Named(s) \/ s \in skipped THEN log[s] = <<>>
                      ELSE \/ signalled /\ log[s] = <<>>
                           \/ \A p \in Parsers, kind \in {"block", "meta", "slot"} :
                                Cardinality({i \in DOMAIN log[s] :
                                  log[s][i].kind = kind /\ p \in log[s][i].to})
                                  = IF Wants(p, kind) THEN 1 ELSE 0
    BY DEF CompletedMeansWhole
  <2>0. subscribed
    BY <1>2 DEF IInv, Started
  <2>1. CASE \E w \in Workers : Holds(w, s)
    <3>1. PICK w \in Workers : Holds(w, s)
      BY <2>1
    <3>2. Named(s)
      BY <1>2, <2>0, <3>1 DEF IInv, Shared
    <3>3. worker[w].at = "boundary" /\ (signalled \/ worker[w].slot = worker[w].end)
      BY <1>2 DEF IInv, Finished
    <3>4. signalled
      BY <1>2, <3>1, <3>3 DEF IInv, Typed, Worker, Slots, Holds
    <3>5. log[s] = <<>> /\ s \notin skipped
      BY <1>2, <3>1, <3>3 DEF IInv, Ahead
    <3>. QED BY <3>2, <3>4, <3>5
  <2>2. CASE (\A w \in Workers : ~Holds(w, s)) /\ (~Named(s) \/ s \in skipped)
    BY <1>2, <2>2 DEF IInv, Settled
  <2>3. CASE (\A w \in Workers : ~Holds(w, s)) /\ Named(s) /\ s \notin skipped
    <3>1. Shape(filters, log[s], s, Kinds)
      BY <1>2, <2>0, <2>3 DEF IInv, Settled
    <3>2. ASSUME NEW p \in Parsers, NEW kind \in {"block", "meta", "slot"}
          PROVE  Cardinality({i \in DOMAIN log[s] :
                     log[s][i].kind = kind /\ p \in log[s][i].to})
                   = IF Wants(p, kind) THEN 1 ELSE 0
      <4> DEFINE I == {i \in DOMAIN log[s] : log[s][i].kind = kind /\ p \in log[s][i].to}
      <4>1. log[s] \in Seq(Update) /\ DOMAIN log[s] = 1 .. Len(log[s])
        BY <3>1 DEF Shape
      <4>2. Wants(p, kind) <=> p \in To(filters, kind)
        BY DEF Wants, To
      <4>3. CASE ~Wants(p, kind)
        <5>1. I = {}
          BY <3>1, <4>1, <4>2, <4>3 DEF Shape, Addressed
        <5>. QED BY <4>3, <5>1, FS_EmptySet
      <4>4. CASE Wants(p, kind)
        <5>1. PICK i \in 1 .. Len(log[s]) : log[s][i].kind = kind
          BY <3>1, <4>2, <4>4 DEF Shape, Present, Kinds
        <5>2. i \in I
          BY <3>1, <4>1, <4>2, <4>4, <5>1 DEF Shape, Addressed
        <5>3. ASSUME NEW j \in I PROVE j = i
          <6>1. j \in 1 .. Len(log[s]) /\ log[s][j].kind = log[s][i].kind
            BY <4>1, <5>1
          <6>2. Before[kind] \in Nat
            BY DEF Before
          <6>3. CASE i < j
            BY <3>1, <5>1, <6>1, <6>2, <6>3 DEF Shape, Ordered
          <6>4. CASE j < i
            BY <3>1, <5>1, <6>1, <6>2, <6>4 DEF Shape, Ordered
          <6>. QED BY <5>1, <6>1, <6>3, <6>4
        <5>4. I = {i}
          BY <5>2, <5>3
        <5>. QED BY <4>4, <5>4, FS_Singleton
      <4>. QED BY <4>3, <4>4
    <3>. QED BY <2>3, <3>2
  <2>. QED BY <2>1, <2>2, <2>3
<1>3. IInv => ReplayWhole
  BY <1>1, <1>2 DEF ReplayWhole
<1>. QED BY <1>3, Invariance, PTL
=============================================================================
