----------------------- MODULE BlockCoordinatorProofs -----------------------
(***************************************************************************)
(* Theorems about BlockCoordinator, for every block tree, every set of     *)
(* slots and keys, and every setting of the bounds.                        *)
(***************************************************************************)
EXTENDS BlockCoordinator, WellFoundedInduction, TLAPS

-----------------------------------------------------------------------------
(* Arithmetic of the frontier *)

(* A nonempty set of slots has a greatest element, and MaxSlot returns it. *)
LEMMA MaxSlotIsGreatest ==
    ASSUME NEW F \in SUBSET Slots, F # {}
    PROVE  MaxSlot(F) \in F /\ \A t \in F : t <= MaxSlot(F)
<1> DEFINE Upper == {n \in Nat : \A t \in F : t <= n}
<1>1. PICK m \in Slots : \A s \in Slots : s <= m
  BY SlotsAssumption
<1>2. m \in Upper
  BY <1>1, SlotsAssumption
<1>3. PICK u \in Upper : \A v \in Upper : <<v, u>> \notin OpToRel(<, Nat)
  <2>1. Upper # {} /\ Upper \subseteq Nat
    BY <1>2
  <2> QED
    BY <2>1, NatLessThanWellFounded, WFMin, Zenon
<1>4. \A v \in Upper : ~(v < u)
  BY <1>3 DEF OpToRel
<1>5. u \in F
  <2>1. SUFFICES ASSUME u \notin F PROVE FALSE
    OBVIOUS
  <2>2. \A t \in F : t \in Nat /\ t < u
    BY <2>1, SlotsAssumption
  <2>3. u - 1 \in Upper
    BY <2>2
  <2> QED
    BY <2>3, <1>4
<1>6. \E s \in F : \A t \in F : t <= s
  BY <1>5
<1> QED
  BY <1>6 DEF MaxSlot

-----------------------------------------------------------------------------
(* Type correctness: every operator of CoordinatorState maps States to     *)
(* States.                                                                 *)

(* The entry of a slot is created or replaced. *)
LEMMA WithEntryType ==
    ASSUME NEW c \in States, NEW s \in Slots, NEW b \in Buffers,
           NEW d, d = WithEntry(c, s, b)
    PROVE  /\ d \in States
           /\ d.pending = c.pending \cup {s}
           /\ d.buf[s] = b
           /\ \A t \in Slots \ {s} : d.buf[t] = c.buf[t]
           /\ d.discarded = c.discarded
           /\ d.lastIx = c.lastIx
           /\ d.lastAcct = c.lastAcct
           /\ d.counts = c.counts
BY DEF WithEntry, States

LEMMA DefaultBufferType == DefaultBuffer \in Buffers
BY DEF DefaultBuffer, Buffers, None

(* insert_account_record, then the processed count. *)
LEMMA BufferAccountRecord ==
    ASSUME NEW b \in Buffers, NEW k \in AcctKeys
    PROVE  [b EXCEPT !.acctRecords = @ \cup {k}, !.processedAcct = @ + 1] \in Buffers
<1> DEFINE m == [b EXCEPT !.acctRecords = @ \cup {k}]
<1>1. m \in Buffers /\ m.processedAcct = b.processedAcct
  BY DEF Buffers, None
<1> HIDE DEF m
<1>2. [m EXCEPT !.processedAcct = @ + 1] \in Buffers
  BY <1>1 DEF Buffers, None
<1> QED
  BY <1>1, <1>2 DEF m

(* increment_parse_stat, then the processed count. *)
LEMMA BufferAccountStat ==
    ASSUME NEW b \in Buffers
    PROVE  [b EXCEPT !.acctStats = @ + 1, !.processedAcct = @ + 1] \in Buffers
<1> DEFINE m == [b EXCEPT !.acctStats = @ + 1]
<1>1. m \in Buffers /\ m.processedAcct = b.processedAcct
  BY DEF Buffers, None
<1> HIDE DEF m
<1>2. [m EXCEPT !.processedAcct = @ + 1] \in Buffers
  BY <1>1 DEF Buffers, None
<1> QED
  BY <1>1, <1>2 DEF m

(* set_block_metadata. *)
LEMMA BufferMetadata ==
    ASSUME NEW b \in Buffers, NEW p \in Nat, NEW n \in Nat
    PROVE  [b EXCEPT !.parent = p, !.expectedTx = n] \in Buffers
<1> DEFINE m == [b EXCEPT !.parent = p]
<1>1. m \in Buffers /\ m.expectedTx = b.expectedTx
  BY DEF Buffers, None
<1> HIDE DEF m
<1>2. [m EXCEPT !.expectedTx = n] \in Buffers
  BY <1>1 DEF Buffers, None
<1> QED
  BY <1>1, <1>2 DEF m

(* drain_instruction_records. *)
LEMMA BufferInstructionsDrained ==
    ASSUME NEW b \in Buffers
    PROVE  [b EXCEPT !.ixRecords = {}, !.ixDrained = TRUE] \in Buffers
<1> DEFINE m == [b EXCEPT !.ixRecords = {}]
<1>1. m \in Buffers /\ m.ixDrained = b.ixDrained
  BY DEF Buffers, None
<1> HIDE DEF m
<1>2. [m EXCEPT !.ixDrained = TRUE] \in Buffers
  BY <1>1 DEF Buffers, None
<1> QED
  BY <1>1, <1>2 DEF m

(* drain_account_records. *)
LEMMA BufferAccountsDrained ==
    ASSUME NEW b \in Buffers
    PROVE  [b EXCEPT !.acctRecords = {}, !.acctDrained = TRUE] \in Buffers
<1> DEFINE m == [b EXCEPT !.acctRecords = {}]
<1>1. m \in Buffers /\ m.acctDrained = b.acctDrained
  BY DEF Buffers, None
<1> HIDE DEF m
<1>2. [m EXCEPT !.acctDrained = TRUE] \in Buffers
  BY <1>1 DEF Buffers, None
<1> QED
  BY <1>1, <1>2 DEF m

LEMMA InitialStateType == InitialState \in States
BY DefaultBufferType DEF InitialState, States, None

(* Pruning only forgets tombstones. *)
LEMMA PruneType ==
    ASSUME NEW c \in States
    PROVE  \E D \in SUBSET c.discarded :
              PruneDiscardedSlots(c) = [c EXCEPT !.discarded = D]
<1>1. c = [c EXCEPT !.discarded = c.discarded]
  BY DEF States
<1> QED
  BY <1>1 DEF PruneDiscardedSlots

-----------------------------------------------------------------------------
(* Events.  Whatever an event does, it touches the entry of one slot, and  *)
(* leaves the drain flags, the frontiers, the tombstones and an expected   *)
(* account count that is set alone.  Records are only added beyond the     *)
(* frontier.                                                               *)

Touched(c, d, s) ==
    /\ d \in States
    /\ d.pending = c.pending \cup {s}
    /\ \A t \in Slots \ {s} : d.buf[t] = c.buf[t] /\ d.counts[t] = c.counts[t]
    /\ d.counts[s] \in {0, c.counts[s]}
    /\ d.discarded = c.discarded
    /\ d.lastIx = c.lastIx /\ d.lastAcct = c.lastAcct
    /\ d.buf[s].ixDrained = c.buf[s].ixDrained
    /\ d.buf[s].acctDrained = c.buf[s].acctDrained
    /\ c.buf[s].expectedAcct # None =>
          d.buf[s].expectedAcct = c.buf[s].expectedAcct
    /\ c.buf[s].acctCommitted => d.buf[s].acctCommitted
    /\ s <= c.lastIx => d.buf[s].ixRecords = c.buf[s].ixRecords
    /\ s <= c.lastAcct => d.buf[s].acctRecords = c.buf[s].acctRecords

(* The commitment flags of s are as before. *)
SameCommitment(c, d, s) ==
    /\ d.buf[s].ixCommitted = c.buf[s].ixCommitted
    /\ d.buf[s].acctCommitted = c.buf[s].acctCommitted

(* Replacing an entry touches it when the new entry agrees with the old    *)
(* one on what an event may not change.                                    *)
LEMMA ReplacedIsTouched ==
    ASSUME NEW c \in States, NEW s \in Slots, NEW b \in Buffers,
           b.ixDrained = c.buf[s].ixDrained,
           b.acctDrained = c.buf[s].acctDrained,
           c.buf[s].expectedAcct # None => b.expectedAcct = c.buf[s].expectedAcct,
           c.buf[s].acctCommitted => b.acctCommitted,
           s <= c.lastIx => b.ixRecords = c.buf[s].ixRecords,
           s <= c.lastAcct => b.acctRecords = c.buf[s].acctRecords,
           NEW d, d = WithEntry(c, s, b)
    PROVE  Touched(c, d, s) /\ d.buf[s] = b /\ d.counts = c.counts
<1>1. /\ d \in States /\ d.pending = c.pending \cup {s} /\ d.buf[s] = b
      /\ \A t \in Slots \ {s} : d.buf[t] = c.buf[t]
      /\ d.discarded = c.discarded /\ d.lastIx = c.lastIx
      /\ d.lastAcct = c.lastAcct /\ d.counts = c.counts
  BY WithEntryType
<1> QED
  BY <1>1 DEF Touched

(* Instruction records, stats and TransactionParsed. *)
LEMMA InstructionEvents ==
    ASSUME NEW c \in States, NEW s \in Slots, NEW d,
           \/ \E k \in IxKeys : d = InstructionRecordParsed(c, s, k)
           \/ d = TransactionParsed(c, s)
           \/ d = InstructionStat(c, s)
    PROVE  \/ d = c
           \/ /\ ValidInstructionSlot(c, s)
              /\ Touched(c, d, s) /\ SameCommitment(c, d, s)
<1> DEFINE b0 == c.buf[s]
<1>1. b0 \in Buffers
  BY DEF States
<1>2. CASE ~ValidInstructionSlot(c, s)
  BY <1>2 DEF InstructionRecordParsed, TransactionParsed, InstructionStat
<1>3. CASE ValidInstructionSlot(c, s)
  <2>1. PICK b \in Buffers :
           /\ d = WithEntry(c, s, b)
           /\ b.ixDrained = b0.ixDrained /\ b.acctDrained = b0.acctDrained
           /\ b.expectedAcct = b0.expectedAcct /\ b.acctRecords = b0.acctRecords
           /\ b.ixCommitted = b0.ixCommitted /\ b.acctCommitted = b0.acctCommitted
    <3>1. CASE \E k \in IxKeys : d = InstructionRecordParsed(c, s, k)
      <4>1. PICK k \in IxKeys : d = InstructionRecordParsed(c, s, k)
        BY <3>1
      <4>2. [b0 EXCEPT !.ixRecords = @ \cup {k}] \in Buffers
        BY <1>1 DEF Buffers
      <4> QED
        BY <1>1, <1>3, <4>1, <4>2 DEF InstructionRecordParsed, Buffers
    <3>2. CASE d = TransactionParsed(c, s)
      <4>1. [b0 EXCEPT !.parsedTx = @ + 1] \in Buffers
        BY <1>1 DEF Buffers
      <4> QED
        BY <1>1, <1>3, <3>2, <4>1 DEF TransactionParsed, Buffers
    <3>3. CASE d = InstructionStat(c, s)
      <4>1. [b0 EXCEPT !.ixStats = @ + 1] \in Buffers
        BY <1>1 DEF Buffers
      <4> QED
        BY <1>1, <1>3, <3>3, <4>1 DEF InstructionStat, Buffers
    <3> QED
      BY <3>1, <3>2, <3>3
  <2>2. Touched(c, d, s) /\ d.buf[s] = b
    BY <1>3, <2>1, ReplacedIsTouched DEF ValidInstructionSlot
  <2> QED
    BY <1>3, <2>1, <2>2 DEF SameCommitment
<1> QED
  BY <1>2, <1>3

(* Account records and stats. *)
LEMMA AccountEvents ==
    ASSUME NEW c \in States, NEW s \in Slots, NEW d,
           \/ \E k \in AcctKeys : d = AccountRecordParsed(c, s, k)
           \/ d = AccountStat(c, s)
    PROVE  \/ d = c
           \/ /\ ValidAccountSlot(c, s)
              /\ Touched(c, d, s) /\ SameCommitment(c, d, s)
<1> DEFINE b0 == c.buf[s]
<1>1. b0 \in Buffers
  BY DEF States
<1>2. CASE ~ValidAccountSlot(c, s)
  BY <1>2 DEF AccountRecordParsed, AccountStat
<1>3. CASE ValidAccountSlot(c, s)
  <2>1. PICK b \in Buffers :
           /\ d = WithEntry(c, s, b)
           /\ b.ixDrained = b0.ixDrained /\ b.acctDrained = b0.acctDrained
           /\ b.expectedAcct = b0.expectedAcct /\ b.ixRecords = b0.ixRecords
           /\ b.ixCommitted = b0.ixCommitted /\ b.acctCommitted = b0.acctCommitted
    <3>1. CASE \E k \in AcctKeys : d = AccountRecordParsed(c, s, k)
      <4>1. PICK k \in AcctKeys : d = AccountRecordParsed(c, s, k)
        BY <3>1
      <4> DEFINE b1 == [b0 EXCEPT !.acctRecords = @ \cup {k}, !.processedAcct = @ + 1]
      <4>2. b1 \in Buffers
        BY <1>1, BufferAccountRecord
      <4>3. /\ b1.ixDrained = b0.ixDrained /\ b1.acctDrained = b0.acctDrained
             /\ b1.expectedAcct = b0.expectedAcct /\ b1.ixRecords = b0.ixRecords
             /\ b1.ixCommitted = b0.ixCommitted /\ b1.acctCommitted = b0.acctCommitted
        BY <1>1 DEF Buffers
      <4>4. d = WithEntry(c, s, b1)
        BY <1>3, <4>1 DEF AccountRecordParsed
      <4> HIDE DEF b1
      <4> QED
        BY <4>2, <4>3, <4>4
    <3>2. CASE d = AccountStat(c, s)
      <4> DEFINE b1 == [b0 EXCEPT !.acctStats = @ + 1, !.processedAcct = @ + 1]
      <4>1. b1 \in Buffers
        BY <1>1, BufferAccountStat
      <4>2. /\ b1.ixDrained = b0.ixDrained /\ b1.acctDrained = b0.acctDrained
             /\ b1.expectedAcct = b0.expectedAcct /\ b1.ixRecords = b0.ixRecords
             /\ b1.ixCommitted = b0.ixCommitted /\ b1.acctCommitted = b0.acctCommitted
        BY <1>1 DEF Buffers
      <4>3. d = WithEntry(c, s, b1)
        BY <1>3, <3>2 DEF AccountStat
      <4> HIDE DEF b1
      <4> QED
        BY <4>1, <4>2, <4>3
    <3> QED
      BY <3>1, <3>2
  <2>2. Touched(c, d, s) /\ d.buf[s] = b
    BY <1>3, <2>1, ReplacedIsTouched DEF ValidAccountSlot
  <2> QED
    BY <1>3, <2>1, <2>2 DEF SameCommitment
<1> QED
  BY <1>2, <1>3

LEMMA TouchedTwice ==
    ASSUME NEW c \in States, NEW s \in Slots, NEW m, NEW d,
           Touched(c, m, s), Touched(m, d, s)
    PROVE  Touched(c, d, s)
BY DEF Touched

(* freeze_account_gate: the gate is closed and an expected count is set. *)
LEMMA FreezeEvent ==
    ASSUME NEW c \in States, NEW s \in Slots, NEW d, d = FreezeAccountGate(c, s)
    PROVE  /\ Touched(c, d, s)
           /\ d.buf[s].ixCommitted = c.buf[s].ixCommitted
<1> DEFINE b0 == c.buf[s]
           b1 == SetExpectedAccountCount(b0, c.counts[s])
           b2 == [b1 EXCEPT !.acctCommitted = TRUE]
           m == WithEntry(c, s, b2)
<1>1. b0 \in Buffers /\ c.counts[s] \in Nat
  BY DEF States
<1>2. /\ b1 \in Buffers
      /\ b1.ixDrained = b0.ixDrained /\ b1.acctDrained = b0.acctDrained
      /\ b0.expectedAcct # None => b1.expectedAcct = b0.expectedAcct
      /\ b1.ixRecords = b0.ixRecords /\ b1.acctRecords = b0.acctRecords
      /\ b1.ixCommitted = b0.ixCommitted
  BY <1>1 DEF SetExpectedAccountCount, Buffers
<1> HIDE DEF b1
<1>3. /\ b2 \in Buffers
      /\ b2.ixDrained = b0.ixDrained /\ b2.acctDrained = b0.acctDrained
      /\ b0.expectedAcct # None => b2.expectedAcct = b0.expectedAcct
      /\ b2.ixRecords = b0.ixRecords /\ b2.acctRecords = b0.acctRecords
      /\ b2.ixCommitted = b0.ixCommitted /\ b2.acctCommitted
  BY <1>1, <1>2 DEF Buffers
<1> HIDE DEF b2
<1>4. Touched(c, m, s) /\ m.buf[s] = b2
  BY <1>3, ReplacedIsTouched
<1>5. d = [m EXCEPT !.counts[s] = 0]
  BY DEF FreezeAccountGate, b1, b2
<1> HIDE DEF m
<1>6. Touched(m, d, s) /\ d.buf = m.buf
  BY <1>4, <1>5 DEF Touched, States
<1> QED
  BY <1>3, <1>4, <1>6, TouchedTwice

LEMMA BlockFrozenEvent ==
    ASSUME NEW c \in States, NEW s \in Slots, NEW p \in Nat, NEW n \in Nat,
           NEW d, d = BlockFrozen(c, s, p, n)
    PROVE  \/ d = c /\ IsAlreadyFlushed(c, s)
           \/ /\ ~IsAlreadyFlushed(c, s)
              /\ Touched(c, d, s) /\ SameCommitment(c, d, s)
<1> DEFINE b0 == c.buf[s]
           b == [b0 EXCEPT !.parent = p, !.expectedTx = n]
<1>1. b0 \in Buffers
  BY DEF States
<1>2. b \in Buffers
  BY <1>1, BufferMetadata
<1>3. /\ b.ixDrained = b0.ixDrained /\ b.acctDrained = b0.acctDrained
      /\ b.expectedAcct = b0.expectedAcct
      /\ b.ixRecords = b0.ixRecords /\ b.acctRecords = b0.acctRecords
      /\ b.ixCommitted = b0.ixCommitted /\ b.acctCommitted = b0.acctCommitted
  BY <1>1 DEF Buffers
<1>4. CASE ~IsAlreadyFlushed(c, s)
  <2>1. d = WithEntry(c, s, b)
    BY <1>4 DEF BlockFrozen
  <2> HIDE DEF b
  <2>2. Touched(c, d, s) /\ d.buf[s] = b
    BY <1>2, <1>3, <2>1, ReplacedIsTouched
  <2> QED
    BY <1>3, <1>4, <2>2 DEF SameCommitment
<1> QED
  BY <1>4 DEF BlockFrozen

LEMMA SlotConfirmedEvent ==
    ASSUME NEW c \in States, NEW s \in Slots, NEW d, d = SlotConfirmed(c, s)
    PROVE  \/ d = c /\ IsAlreadyFlushed(c, s)
           \/ ~IsAlreadyFlushed(c, s) /\ Touched(c, d, s)
<1> DEFINE b == [c.buf[s] EXCEPT !.ixCommitted = TRUE]
           m == WithEntry(c, s, b)
<1>1. c.buf[s] \in Buffers
  BY DEF States
<1>2. /\ b \in Buffers
      /\ b.ixDrained = c.buf[s].ixDrained /\ b.acctDrained = c.buf[s].acctDrained
      /\ b.expectedAcct = c.buf[s].expectedAcct
      /\ b.acctCommitted = c.buf[s].acctCommitted
      /\ b.ixRecords = c.buf[s].ixRecords /\ b.acctRecords = c.buf[s].acctRecords
  BY <1>1 DEF Buffers
<1>3. \/ d = c /\ IsAlreadyFlushed(c, s)
      \/ ~IsAlreadyFlushed(c, s) /\ d \in {m, FreezeAccountGate(m, s)}
  BY DEF SlotConfirmed
<1> HIDE DEF b
<1>4. Touched(c, m, s)
  BY <1>2, ReplacedIsTouched
<1>5. m \in States
  BY <1>4 DEF Touched
<1> HIDE DEF m
<1>6. CASE d = FreezeAccountGate(m, s) /\ ~IsAlreadyFlushed(c, s)
  BY <1>4, <1>5, <1>6, FreezeEvent, TouchedTwice
<1> QED
  BY <1>3, <1>4, <1>6

LEMMA SlotFinalizedEvent ==
    ASSUME NEW c \in States, NEW s \in Slots, NEW d, d = SlotFinalized(c, s)
    PROVE  \/ d = c
           \/ /\ ~IsAlreadyFlushed(c, s) /\ Touched(c, d, s)
              /\ d.buf[s].ixCommitted = c.buf[s].ixCommitted
<1> DEFINE b == [c.buf[s] EXCEPT !.finalized = TRUE]
           m == WithEntry(c, s, b)
<1>1. c.buf[s] \in Buffers
  BY DEF States
<1>2. /\ b \in Buffers
      /\ b.ixDrained = c.buf[s].ixDrained /\ b.acctDrained = c.buf[s].acctDrained
      /\ b.expectedAcct = c.buf[s].expectedAcct
      /\ b.acctCommitted = c.buf[s].acctCommitted
      /\ b.ixRecords = c.buf[s].ixRecords /\ b.acctRecords = c.buf[s].acctRecords
      /\ b.ixCommitted = c.buf[s].ixCommitted
  BY <1>1 DEF Buffers
<1>3. d = c \/ (~IsAlreadyFlushed(c, s) /\ d = FreezeAccountGate(m, s))
  BY DEF SlotFinalized
<1> HIDE DEF b
<1>4. Touched(c, m, s) /\ m.buf[s] = b
  BY <1>2, ReplacedIsTouched
<1>5. m \in States
  BY <1>4 DEF Touched
<1> HIDE DEF m
<1>6. CASE d = FreezeAccountGate(m, s) /\ ~IsAlreadyFlushed(c, s)
  BY <1>2, <1>4, <1>5, <1>6, FreezeEvent, TouchedTwice
<1> QED
  BY <1>3, <1>6

(* discard_slot removes the entry and the count of its slot. *)
LEMMA SlotDiscardedEvent ==
    ASSUME NEW c \in States, NEW s \in Slots, NEW d, d = SlotDiscarded(c, s)
    PROVE  /\ d \in States
           /\ d.pending = c.pending \ {s}
           /\ d.buf[s] = DefaultBuffer
           /\ \A t \in Slots \ {s} : d.buf[t] = c.buf[t]
           /\ \A t \in Slots : d.counts[t] \in {0, c.counts[t]}
           /\ d.lastIx = c.lastIx /\ d.lastAcct = c.lastAcct
<1> DEFINE m == [c EXCEPT !.discarded = @ \cup {s}, !.counts[s] = 0]
           p == PruneDiscardedSlots(m)
<1>1. /\ m \in States
      /\ m.pending = c.pending /\ m.buf = c.buf
      /\ m.lastIx = c.lastIx /\ m.lastAcct = c.lastAcct
      /\ \A t \in Slots : m.counts[t] \in {0, c.counts[t]}
  BY DEF States
<1>2. d = [p EXCEPT !.pending = @ \ {s}, !.buf[s] = DefaultBuffer]
  BY DEF SlotDiscarded
<1> HIDE DEF m
<1>3. PICK D \in SUBSET m.discarded : p = [m EXCEPT !.discarded = D]
  BY <1>1, PruneType
<1> HIDE DEF p
<1>4. /\ p \in States
      /\ p.pending = c.pending /\ p.buf = c.buf
      /\ p.lastIx = c.lastIx /\ p.lastAcct = c.lastAcct
      /\ p.counts = m.counts
  BY <1>1, <1>3 DEF States
<1>5. /\ d \in States
      /\ d.pending = p.pending \ {s}
      /\ d.buf[s] = DefaultBuffer
      /\ \A t \in Slots \ {s} : d.buf[t] = p.buf[t]
      /\ d.counts = p.counts
      /\ d.lastIx = p.lastIx /\ d.lastAcct = p.lastAcct
  <2> DEFINE r == [p EXCEPT !.pending = @ \ {s}]
  <2>1. /\ r \in States /\ r.pending = p.pending \ {s} /\ r.buf = p.buf
        /\ r.lastIx = p.lastIx /\ r.lastAcct = p.lastAcct /\ r.counts = p.counts
    BY <1>4 DEF States
  <2>2. d = [r EXCEPT !.buf[s] = DefaultBuffer]
    BY <1>2
  <2> HIDE DEF r
  <2> QED
    BY <2>1, <2>2, DefaultBufferType DEF States
<1> QED
  BY <1>1, <1>4, <1>5

(* An account event changes one count or nothing. *)
LEMMA AccountEventSeenEvent ==
    ASSUME NEW c \in States, NEW s \in Slots, NEW d, d = AccountEventSeen(c, s)
    PROVE  /\ d \in States
           /\ d.pending = c.pending /\ d.buf = c.buf
           /\ d.lastIx = c.lastIx /\ d.lastAcct = c.lastAcct
           /\ \A t \in Slots \ {s} : d.counts[t] = c.counts[t]
           /\ d # c =>
                 ~IsAlreadyFlushed(c, s)
                    /\ ~(s \in c.pending /\ IsAccountGateFrozen(c.buf[s]))
<1>1. CASE d = c
  BY <1>1
<1>2. CASE d # c
  <2>1. /\ ~IsAlreadyFlushed(c, s)
        /\ ~(s \in c.pending /\ IsAccountGateFrozen(c.buf[s]))
        /\ d = [c EXCEPT !.counts[s] = @ + 1]
    BY <1>2 DEF AccountEventSeen
  <2>2. /\ d \in States
        /\ d.pending = c.pending /\ d.buf = c.buf
        /\ d.lastIx = c.lastIx /\ d.lastAcct = c.lastAcct
        /\ \A t \in Slots \ {s} : d.counts[t] = c.counts[t]
    BY <2>1 DEF States
  <2> QED
    BY <2>1, <2>2
<1> QED
  BY <1>1, <1>2

-----------------------------------------------------------------------------
(* Drains *)

(* cleanup_fully_drained removes the drained entries and the counts behind *)
(* the account frontier, nothing else but tombstones.                      *)
LEMMA CleanupFacts ==
    ASSUME NEW c \in States, NEW d, d = CleanupFullyDrained(c)
    PROVE  /\ d \in States
           /\ d.pending = {s \in c.pending : ~IsFullyDrained(c.buf[s])}
           /\ \A s \in Slots :
                 d.buf[s] = IF s \in c.pending /\ IsFullyDrained(c.buf[s])
                            THEN DefaultBuffer ELSE c.buf[s]
           /\ \A s \in Slots :
                 d.counts[s] = IF s <= c.lastAcct THEN 0 ELSE c.counts[s]
           /\ d.lastIx = c.lastIx /\ d.lastAcct = c.lastAcct
<1> DEFINE gone == {s \in c.pending : IsFullyDrained(c.buf[s])}
           buf == [s \in Slots |-> IF s \in gone THEN DefaultBuffer ELSE c.buf[s]]
           counts == [s \in Slots |-> IF s <= c.lastAcct THEN 0 ELSE c.counts[s]]
           kept == [c EXCEPT !.pending = @ \ gone, !.buf = buf, !.counts = counts]
<1>1. buf \in [Slots -> Buffers] /\ counts \in [Slots -> Nat]
  BY DefaultBufferType DEF States
<1>2. d = PruneDiscardedSlots(kept)
  BY DEF CleanupFullyDrained
<1>3. /\ \A s \in Slots : buf[s] = IF s \in gone THEN DefaultBuffer ELSE c.buf[s]
      /\ \A s \in Slots : counts[s] = IF s <= c.lastAcct THEN 0 ELSE c.counts[s]
  OBVIOUS
<1>4. gone \subseteq c.pending
  OBVIOUS
<1> HIDE DEF buf, counts, gone
<1>5. /\ kept \in States
      /\ kept.pending = c.pending \ gone
      /\ kept.buf = buf /\ kept.counts = counts
      /\ kept.lastIx = c.lastIx /\ kept.lastAcct = c.lastAcct
  BY <1>1 DEF States
<1> HIDE DEF kept
<1>6. PICK D \in SUBSET kept.discarded : d = [kept EXCEPT !.discarded = D]
  BY <1>2, <1>5, PruneType
<1>7. /\ d \in States
      /\ d.pending = kept.pending /\ d.buf = kept.buf /\ d.counts = kept.counts
      /\ d.lastIx = kept.lastIx /\ d.lastAcct = kept.lastAcct
  BY <1>5, <1>6 DEF States
<1> QED
  BY <1>3, <1>5, <1>7 DEF gone

(* What drain_instruction_flushable does to the entries when it flushes F. *)
LEMMA DrainInstructionFacts ==
    ASSUME NEW c \in States, NEW d, d = DrainInstructionFlushable(c),
           NEW F, F = InstructionFlushable(c), F # {}
    PROVE  /\ d \in States
           /\ F \subseteq c.pending
           /\ d.lastIx \in F /\ \A s \in F : s <= d.lastIx
           /\ d.lastAcct = c.lastAcct
           /\ d.pending = {s \in c.pending :
                             ~((s \in F \/ c.buf[s].ixDrained) /\ c.buf[s].acctDrained)}
           /\ \A s \in Slots \ c.pending : d.buf[s] = c.buf[s]
           /\ \A s \in c.pending \ d.pending : d.buf[s] = DefaultBuffer
           /\ \A s \in d.pending :
                 /\ d.buf[s].ixDrained <=> (s \in F \/ c.buf[s].ixDrained)
                 /\ d.buf[s].acctDrained = c.buf[s].acctDrained
                 /\ d.buf[s].ixCommitted = c.buf[s].ixCommitted
                 /\ d.buf[s].acctCommitted = c.buf[s].acctCommitted
                 /\ d.buf[s].expectedAcct = c.buf[s].expectedAcct
                 /\ d.buf[s].acctRecords = c.buf[s].acctRecords
                 /\ d.buf[s].ixRecords = IF s \in F THEN {} ELSE c.buf[s].ixRecords
           /\ \A s \in Slots :
                 d.counts[s] = IF s <= d.lastAcct THEN 0 ELSE c.counts[s]
<1> DEFINE Flush(b) == [b EXCEPT !.ixRecords = {}, !.ixDrained = TRUE]
           buf == [s \in Slots |-> IF s \in F THEN Flush(c.buf[s]) ELSE c.buf[s]]
           e == [c EXCEPT !.lastIx = MaxSlot(F), !.buf = buf]
<1>1. F \subseteq c.pending /\ F \subseteq Slots
  BY DEF InstructionFlushable, UndrainedIx, States
<1>2. MaxSlot(F) \in F /\ \A s \in F : s <= MaxSlot(F)
  BY <1>1, MaxSlotIsGreatest
<1>3. \A s \in Slots : c.buf[s] \in Buffers
  BY DEF States
<1>4. \A b \in Buffers :
         /\ Flush(b).ixDrained /\ Flush(b).acctDrained = b.acctDrained
         /\ Flush(b).ixCommitted = b.ixCommitted
         /\ Flush(b).acctCommitted = b.acctCommitted
         /\ Flush(b).expectedAcct = b.expectedAcct
         /\ Flush(b).acctRecords = b.acctRecords /\ Flush(b).ixRecords = {}
  BY DEF Buffers
<1>5. \A b \in Buffers : Flush(b) \in Buffers
  BY BufferInstructionsDrained
<1>6. d = CleanupFullyDrained(e)
  BY DEF DrainInstructionFlushable
<1> HIDE DEF Flush
<1>7. /\ buf \in [Slots -> Buffers]
      /\ \A s \in Slots : buf[s] = IF s \in F THEN Flush(c.buf[s]) ELSE c.buf[s]
  BY <1>3, <1>5
<1> HIDE DEF buf
<1>8. /\ e \in States /\ e.lastIx = MaxSlot(F) /\ e.lastAcct = c.lastAcct
      /\ e.pending = c.pending /\ e.buf = buf /\ e.counts = c.counts
  BY <1>1, <1>2, <1>7 DEF States
<1> HIDE DEF e
<1>9. \A s \in Slots :
        /\ e.buf[s].ixDrained <=> (s \in F \/ c.buf[s].ixDrained)
        /\ e.buf[s].acctDrained = c.buf[s].acctDrained
        /\ e.buf[s].ixCommitted = c.buf[s].ixCommitted
        /\ e.buf[s].acctCommitted = c.buf[s].acctCommitted
        /\ e.buf[s].expectedAcct = c.buf[s].expectedAcct
        /\ e.buf[s].acctRecords = c.buf[s].acctRecords
        /\ e.buf[s].ixRecords = IF s \in F THEN {} ELSE c.buf[s].ixRecords
  <2> TAKE s \in Slots
  <2>1. CASE s \in F
    <3>1. e.buf[s] = Flush(c.buf[s]) /\ c.buf[s] \in Buffers
      BY <1>3, <1>7, <1>8, <2>1
    <3> QED
      BY <1>4, <2>1, <3>1
  <2>2. CASE s \notin F
    <3>1. e.buf[s] = c.buf[s]
      BY <1>7, <1>8, <2>2
    <3> QED
      BY <2>2, <3>1
  <2> QED
    BY <2>1, <2>2
<1>10. \A s \in Slots \ c.pending : e.buf[s] = c.buf[s]
  BY <1>1, <1>7, <1>8
<1>11. \A s \in Slots : IsFullyDrained(e.buf[s]) <=>
                            (s \in F \/ c.buf[s].ixDrained) /\ c.buf[s].acctDrained
  BY <1>9 DEF IsFullyDrained
<1>12. c.pending \subseteq Slots
  BY DEF States
<1>13. /\ d \in States
       /\ d.pending = {s \in e.pending : ~IsFullyDrained(e.buf[s])}
       /\ \A s \in Slots :
             d.buf[s] = IF s \in e.pending /\ IsFullyDrained(e.buf[s])
                        THEN DefaultBuffer ELSE e.buf[s]
       /\ \A s \in Slots :
             d.counts[s] = IF s <= e.lastAcct THEN 0 ELSE e.counts[s]
       /\ d.lastIx = e.lastIx /\ d.lastAcct = e.lastAcct
  BY <1>6, <1>8, CleanupFacts
<1>14. d.pending = {s \in c.pending :
                       ~((s \in F \/ c.buf[s].ixDrained) /\ c.buf[s].acctDrained)}
  BY <1>8, <1>11, <1>12, <1>13
<1>15. /\ \A s \in Slots \ c.pending : d.buf[s] = c.buf[s]
       /\ \A s \in c.pending \ d.pending : d.buf[s] = DefaultBuffer
       /\ \A s \in d.pending : d.buf[s] = e.buf[s] /\ s \in Slots
  BY <1>8, <1>10, <1>12, <1>13
<1> QED
  BY <1>1, <1>2, <1>8, <1>9, <1>13, <1>14, <1>15

(* What drain_account_flushable does to the entries when it flushes F. *)
LEMMA DrainAccountFacts ==
    ASSUME NEW c \in States, NEW d, d = DrainAccountFlushable(c),
           NEW F, F = AccountFlushable(c), F # {}
    PROVE  /\ d \in States
           /\ F \subseteq c.pending
           /\ d.lastAcct \in F /\ \A s \in F : s <= d.lastAcct
           /\ d.lastIx = c.lastIx
           /\ d.pending = {s \in c.pending :
                             ~((s \in F \/ c.buf[s].acctDrained) /\ c.buf[s].ixDrained)}
           /\ \A s \in Slots \ c.pending : d.buf[s] = c.buf[s]
           /\ \A s \in c.pending \ d.pending : d.buf[s] = DefaultBuffer
           /\ \A s \in d.pending :
                 /\ d.buf[s].acctDrained <=> (s \in F \/ c.buf[s].acctDrained)
                 /\ d.buf[s].ixDrained = c.buf[s].ixDrained
                 /\ d.buf[s].ixCommitted = c.buf[s].ixCommitted
                 /\ d.buf[s].acctCommitted = c.buf[s].acctCommitted
                 /\ d.buf[s].expectedAcct = c.buf[s].expectedAcct
                 /\ d.buf[s].ixRecords = c.buf[s].ixRecords
                 /\ d.buf[s].acctRecords = IF s \in F THEN {} ELSE c.buf[s].acctRecords
           /\ \A s \in Slots :
                 d.counts[s] = IF s <= d.lastAcct THEN 0 ELSE c.counts[s]
<1> DEFINE Flush(b) == [b EXCEPT !.acctRecords = {}, !.acctDrained = TRUE]
           buf == [s \in Slots |-> IF s \in F THEN Flush(c.buf[s]) ELSE c.buf[s]]
           e == [c EXCEPT !.lastAcct = MaxSlot(F), !.buf = buf]
<1>1. F \subseteq c.pending /\ F \subseteq Slots
  BY DEF AccountFlushable, UndrainedAcct, States
<1>2. MaxSlot(F) \in F /\ \A s \in F : s <= MaxSlot(F)
  BY <1>1, MaxSlotIsGreatest
<1>3. \A s \in Slots : c.buf[s] \in Buffers
  BY DEF States
<1>4. \A b \in Buffers :
         /\ Flush(b).acctDrained /\ Flush(b).ixDrained = b.ixDrained
         /\ Flush(b).ixCommitted = b.ixCommitted
         /\ Flush(b).acctCommitted = b.acctCommitted
         /\ Flush(b).expectedAcct = b.expectedAcct
         /\ Flush(b).ixRecords = b.ixRecords /\ Flush(b).acctRecords = {}
  BY DEF Buffers
<1>5. \A b \in Buffers : Flush(b) \in Buffers
  BY BufferAccountsDrained
<1>6. d = CleanupFullyDrained(e)
  BY DEF DrainAccountFlushable
<1> HIDE DEF Flush
<1>7. /\ buf \in [Slots -> Buffers]
      /\ \A s \in Slots : buf[s] = IF s \in F THEN Flush(c.buf[s]) ELSE c.buf[s]
  BY <1>3, <1>5
<1> HIDE DEF buf
<1>8. /\ e \in States /\ e.lastAcct = MaxSlot(F) /\ e.lastIx = c.lastIx
      /\ e.pending = c.pending /\ e.buf = buf /\ e.counts = c.counts
  BY <1>1, <1>2, <1>7 DEF States
<1> HIDE DEF e
<1>9. \A s \in Slots :
        /\ e.buf[s].acctDrained <=> (s \in F \/ c.buf[s].acctDrained)
        /\ e.buf[s].ixDrained = c.buf[s].ixDrained
        /\ e.buf[s].ixCommitted = c.buf[s].ixCommitted
        /\ e.buf[s].acctCommitted = c.buf[s].acctCommitted
        /\ e.buf[s].expectedAcct = c.buf[s].expectedAcct
        /\ e.buf[s].ixRecords = c.buf[s].ixRecords
        /\ e.buf[s].acctRecords = IF s \in F THEN {} ELSE c.buf[s].acctRecords
  <2> TAKE s \in Slots
  <2>1. CASE s \in F
    <3>1. e.buf[s] = Flush(c.buf[s]) /\ c.buf[s] \in Buffers
      BY <1>3, <1>7, <1>8, <2>1
    <3> QED
      BY <1>4, <2>1, <3>1
  <2>2. CASE s \notin F
    <3>1. e.buf[s] = c.buf[s]
      BY <1>7, <1>8, <2>2
    <3> QED
      BY <2>2, <3>1
  <2> QED
    BY <2>1, <2>2
<1>10. \A s \in Slots \ c.pending : e.buf[s] = c.buf[s]
  BY <1>1, <1>7, <1>8
<1>11. \A s \in Slots : IsFullyDrained(e.buf[s]) <=>
                            (s \in F \/ c.buf[s].acctDrained) /\ c.buf[s].ixDrained
  BY <1>9 DEF IsFullyDrained
<1>12. c.pending \subseteq Slots
  BY DEF States
<1>13. /\ d \in States
       /\ d.pending = {s \in e.pending : ~IsFullyDrained(e.buf[s])}
       /\ \A s \in Slots :
             d.buf[s] = IF s \in e.pending /\ IsFullyDrained(e.buf[s])
                        THEN DefaultBuffer ELSE e.buf[s]
       /\ \A s \in Slots :
             d.counts[s] = IF s <= e.lastAcct THEN 0 ELSE e.counts[s]
       /\ d.lastIx = e.lastIx /\ d.lastAcct = e.lastAcct
  BY <1>6, <1>8, CleanupFacts
<1>14. d.pending = {s \in c.pending :
                       ~((s \in F \/ c.buf[s].acctDrained) /\ c.buf[s].ixDrained)}
  BY <1>8, <1>11, <1>12, <1>13
<1>15. /\ \A s \in Slots \ c.pending : d.buf[s] = c.buf[s]
       /\ \A s \in c.pending \ d.pending : d.buf[s] = DefaultBuffer
       /\ \A s \in d.pending : d.buf[s] = e.buf[s] /\ s \in Slots
  BY <1>8, <1>10, <1>12, <1>13
<1> QED
  BY <1>1, <1>2, <1>8, <1>9, <1>13, <1>14, <1>15

-----------------------------------------------------------------------------
(* The inductive invariant.  Its parts take the coordinator's state c, the *)
(* slots sent to the two outputs ix and ac, and the feed: frozen fr,       *)
(* confirmed cf, with a commitment status cn, discarded dd.                *)

FeedOK(fr, cf, cn, dd) ==
    /\ fr \subseteq Slots /\ dd \subseteq Slots
    /\ cf \subseteq cn /\ cn \subseteq fr \ dd
    /\ \A s \in fr : Ancestors[s] \subseteq fr \cup dd
    /\ \A s, t \in cn : SameBranch(s, t)

(* A slot that can no longer get a commitment status. *)
Abandoned(s, cn) == \E t \in cn : ~SameBranch(s, t)

(* An output: canonical slots up to the frontier, with their ancestors. *)
LogOK(last, done, fr, cn, dd) ==
    /\ done \subseteq cn
    /\ last # None => last \in done
    /\ \A s \in done : s <= last
    /\ \A s \in done : \A a \in (Ancestors[s] \cap fr) \ dd : a \in done

(* The drain flags of an entry agree with the outputs, its commitment      *)
(* flags with the feed; a drained half is empty and its gate stays closed. *)
EntryOK(b, s, ix, ac, cf, cn) ==
    /\ b.ixDrained <=> s \in ix
    /\ b.acctDrained <=> s \in ac
    /\ ~(s \in ix /\ s \in ac)
    /\ b.ixCommitted => s \in cf
    /\ b.acctCommitted => s \in cn
    /\ b.ixDrained => b.ixRecords = {}
    /\ b.acctDrained => b.acctRecords = {} /\ IsAccountGateFrozen(b)

(* Every live frozen block has an entry until both outputs have it. *)
EntriesOK(c, ix, ac, fr, cf, cn, dd) ==
    /\ c \in States
    /\ \A s \in Slots \ c.pending : c.buf[s] = DefaultBuffer
    /\ \A s \in c.pending : EntryOK(c.buf[s], s, ix, ac, cf, cn)
    /\ \A s \in fr \ dd :
          s \in c.pending \/ (s \in ix /\ s \in ac) \/ Abandoned(s, cn)
    /\ \A s \in ac : c.counts[s] = 0

CoordinatorOK(c, ix, ac, fr, cf, cn, dd) ==
    /\ FeedOK(fr, cf, cn, dd)
    /\ LogOK(c.lastIx, ix, fr, cn, dd)
    /\ LogOK(c.lastAcct, ac, fr, cn, dd)
    /\ EntriesOK(c, ix, ac, fr, cf, cn, dd)

IndInv ==
    CoordinatorOK(co, ixFlushed, acctFlushed, frozen, confirmed, Canonical, dead)

-----------------------------------------------------------------------------
(* Preservation of the invariant *)

(* An event that touches the entry of s keeps the invariant, if it does    *)
(* not recreate an entry for a slot that was sent, and if the feed did     *)
(* report the commitment it records.                                       *)
LEMMA TouchKeeps ==
    ASSUME NEW c, NEW d, NEW s \in Slots,
           NEW ix, NEW ac, NEW fr, NEW cf, NEW cn, NEW dd,
           CoordinatorOK(c, ix, ac, fr, cf, cn, dd),
           Touched(c, d, s),
           s \notin c.pending => s \notin ix /\ s \notin ac,
           d.buf[s].ixCommitted => s \in cf,
           d.buf[s].acctCommitted => s \in cn
    PROVE  CoordinatorOK(d, ix, ac, fr, cf, cn, dd)
<1>1. /\ FeedOK(fr, cf, cn, dd) /\ EntriesOK(c, ix, ac, fr, cf, cn, dd)
      /\ LogOK(c.lastIx, ix, fr, cn, dd) /\ LogOK(c.lastAcct, ac, fr, cn, dd)
  BY DEF CoordinatorOK
<1>2. c \in States /\ d \in States /\ d.pending = c.pending \cup {s}
  BY <1>1 DEF EntriesOK, Touched
<1>3. LogOK(d.lastIx, ix, fr, cn, dd) /\ LogOK(d.lastAcct, ac, fr, cn, dd)
  BY <1>1 DEF Touched
<1>4. EntryOK(d.buf[s], s, ix, ac, cf, cn)
  <2>1. CASE s \in c.pending
    <3>1. EntryOK(c.buf[s], s, ix, ac, cf, cn)
      BY <1>1, <2>1 DEF EntriesOK
    <3>2. /\ d.buf[s].ixDrained <=> s \in ix
          /\ d.buf[s].acctDrained <=> s \in ac
          /\ ~(s \in ix /\ s \in ac)
      BY <3>1 DEF EntryOK, Touched
    <3>3. d.buf[s].ixDrained => d.buf[s].ixRecords = {}
      BY <1>1, <3>1, <3>2 DEF EntryOK, Touched, LogOK
    <3>4. d.buf[s].acctDrained =>
             d.buf[s].acctRecords = {} /\ IsAccountGateFrozen(d.buf[s])
      BY <1>1, <3>1, <3>2 DEF EntryOK, Touched, LogOK, IsAccountGateFrozen
    <3> QED
      BY <3>2, <3>3, <3>4 DEF EntryOK
  <2>2. CASE s \notin c.pending
    <3>1. c.buf[s] = DefaultBuffer
      BY <1>1, <2>2 DEF EntriesOK
    <3>2. ~d.buf[s].ixDrained /\ ~d.buf[s].acctDrained
      BY <3>1 DEF Touched, DefaultBuffer
    <3> QED
      BY <2>2, <3>2 DEF EntryOK
  <2> QED
    BY <2>1, <2>2
<1>5. \A t \in d.pending : EntryOK(d.buf[t], t, ix, ac, cf, cn)
  <2> TAKE t \in d.pending
  <2>1. CASE t = s
    BY <1>4, <2>1
  <2>2. CASE t # s
    <3>1. t \in c.pending /\ t \in Slots
      BY <1>2, <2>2 DEF States
    <3>2. d.buf[t] = c.buf[t]
      BY <2>2, <3>1 DEF Touched
    <3> QED
      BY <1>1, <3>1, <3>2 DEF EntriesOK
  <2> QED
    BY <2>1, <2>2
<1>6. \A t \in Slots \ d.pending : d.buf[t] = DefaultBuffer
  BY <1>1, <1>2 DEF EntriesOK, Touched
<1>7. \A t \in ac : d.counts[t] = 0
  <2>1. ac \subseteq Slots
    BY <1>1 DEF LogOK, FeedOK
  <2> QED
    BY <1>1, <2>1 DEF EntriesOK, Touched
<1>8. EntriesOK(d, ix, ac, fr, cf, cn, dd)
  BY <1>1, <1>2, <1>5, <1>6, <1>7 DEF EntriesOK
<1> QED
  BY <1>1, <1>3, <1>8 DEF CoordinatorOK

(* A block is reported frozen: its ancestors were, so no slot that was     *)
(* sent gains an ancestor; and it has an entry or is abandoned.            *)
LEMMA FeedFrozenKeeps ==
    ASSUME NEW c, NEW s \in Slots,
           NEW ix, NEW ac, NEW fr, NEW cf, NEW cn, NEW dd,
           CoordinatorOK(c, ix, ac, fr, cf, cn, dd),
           s \notin fr \cup dd, Ancestors[s] \subseteq fr \cup dd,
           s \in c.pending \/ Abandoned(s, cn)
    PROVE  CoordinatorOK(c, ix, ac, fr \cup {s}, cf, cn, dd)
<1>1. /\ FeedOK(fr, cf, cn, dd) /\ EntriesOK(c, ix, ac, fr, cf, cn, dd)
      /\ LogOK(c.lastIx, ix, fr, cn, dd) /\ LogOK(c.lastAcct, ac, fr, cn, dd)
  BY DEF CoordinatorOK
<1>2. FeedOK(fr \cup {s}, cf, cn, dd)
  BY <1>1 DEF FeedOK
<1>3. \A t \in cn : s \notin Ancestors[t]
  BY <1>1 DEF FeedOK
<1>4. /\ LogOK(c.lastIx, ix, fr \cup {s}, cn, dd)
      /\ LogOK(c.lastAcct, ac, fr \cup {s}, cn, dd)
  BY <1>1, <1>3 DEF LogOK
<1>5. EntriesOK(c, ix, ac, fr \cup {s}, cf, cn, dd)
  BY <1>1 DEF EntriesOK
<1> QED
  BY <1>2, <1>4, <1>5 DEF CoordinatorOK

(* A slot of the canonical branch gets a commitment status. *)
LEMMA FeedCommitKeeps ==
    ASSUME NEW c, NEW s \in Slots,
           NEW ix, NEW ac, NEW fr, NEW cf, NEW cn, NEW dd, NEW cf2,
           CoordinatorOK(c, ix, ac, fr, cf, cn, dd),
           s \in fr \ dd, \A t \in cn : SameBranch(s, t),
           cf \subseteq cf2, cf2 \subseteq cf \cup {s}
    PROVE  CoordinatorOK(c, ix, ac, fr, cf2, cn \cup {s}, dd)
<1>1. /\ FeedOK(fr, cf, cn, dd) /\ EntriesOK(c, ix, ac, fr, cf, cn, dd)
      /\ LogOK(c.lastIx, ix, fr, cn, dd) /\ LogOK(c.lastAcct, ac, fr, cn, dd)
  BY DEF CoordinatorOK
<1>2. FeedOK(fr, cf2, cn \cup {s}, dd)
  BY <1>1 DEF FeedOK, SameBranch
<1>3. /\ LogOK(c.lastIx, ix, fr, cn \cup {s}, dd)
      /\ LogOK(c.lastAcct, ac, fr, cn \cup {s}, dd)
  BY <1>1 DEF LogOK
<1>4. \A t \in Slots : Abandoned(t, cn) => Abandoned(t, cn \cup {s})
  BY DEF Abandoned
<1>5. \A t \in c.pending : EntryOK(c.buf[t], t, ix, ac, cf2, cn \cup {s})
  BY <1>1 DEF EntriesOK, EntryOK
<1>6. EntriesOK(c, ix, ac, fr, cf2, cn \cup {s}, dd)
  BY <1>1, <1>4, <1>5 DEF EntriesOK, FeedOK
<1> QED
  BY <1>2, <1>3, <1>6 DEF CoordinatorOK

(* A slot without a commitment status is discarded. *)
LEMMA DiscardKeeps ==
    ASSUME NEW c, NEW d, NEW s \in Slots,
           NEW ix, NEW ac, NEW fr, NEW cf, NEW cn, NEW dd,
           CoordinatorOK(c, ix, ac, fr, cf, cn, dd),
           s \notin cn, d = SlotDiscarded(c, s)
    PROVE  CoordinatorOK(d, ix, ac, fr, cf, cn, dd \cup {s})
<1>1. /\ FeedOK(fr, cf, cn, dd) /\ EntriesOK(c, ix, ac, fr, cf, cn, dd)
      /\ LogOK(c.lastIx, ix, fr, cn, dd) /\ LogOK(c.lastAcct, ac, fr, cn, dd)
  BY DEF CoordinatorOK
<1>2. c \in States
  BY <1>1 DEF EntriesOK
<1>3. /\ d \in States
      /\ d.pending = c.pending \ {s}
      /\ d.buf[s] = DefaultBuffer
      /\ \A t \in Slots \ {s} : d.buf[t] = c.buf[t]
      /\ \A t \in Slots : d.counts[t] \in {0, c.counts[t]}
      /\ d.lastIx = c.lastIx /\ d.lastAcct = c.lastAcct
  BY <1>2, SlotDiscardedEvent
<1>4. FeedOK(fr, cf, cn, dd \cup {s})
  BY <1>1 DEF FeedOK
<1>5. /\ LogOK(d.lastIx, ix, fr, cn, dd \cup {s})
      /\ LogOK(d.lastAcct, ac, fr, cn, dd \cup {s})
  BY <1>1, <1>3 DEF LogOK
<1>6. \A t \in d.pending : EntryOK(d.buf[t], t, ix, ac, cf, cn)
  BY <1>1, <1>2, <1>3 DEF EntriesOK, States
<1>7. \A t \in Slots \ d.pending : d.buf[t] = DefaultBuffer
  BY <1>1, <1>3 DEF EntriesOK
<1>8. \A t \in ac : d.counts[t] = 0
  <2>1. ac \subseteq Slots
    BY <1>1 DEF LogOK, FeedOK
  <2> QED
    BY <1>1, <1>3, <2>1 DEF EntriesOK
<1>9. EntriesOK(d, ix, ac, fr, cf, cn, dd \cup {s})
  BY <1>1, <1>3, <1>6, <1>7, <1>8 DEF EntriesOK
<1> QED
  BY <1>4, <1>5, <1>9 DEF CoordinatorOK

(* Draining the instruction side.  A slot is sent after its live ancestors,  *)
(* and so beyond everything that was sent before: two sent slots lie on    *)
(* one branch, and the older of them cannot come last.                     *)
LEMMA DrainInstructionKeeps ==
    ASSUME NEW c, NEW d, NEW F,
           NEW ix, NEW ac, NEW fr, NEW cf, NEW cn, NEW dd,
           CoordinatorOK(c, ix, ac, fr, cf, cn, dd),
           d = DrainInstructionFlushable(c), F = InstructionFlushable(c)
    PROVE  /\ CoordinatorOK(d, ix \cup F, ac, fr, cf, cn, dd)
           /\ \A s \in F : \A t \in ix : t < s
<1>1. /\ FeedOK(fr, cf, cn, dd) /\ EntriesOK(c, ix, ac, fr, cf, cn, dd)
      /\ LogOK(c.lastIx, ix, fr, cn, dd) /\ LogOK(c.lastAcct, ac, fr, cn, dd)
  BY DEF CoordinatorOK
<1>2. c \in States /\ c.pending \subseteq Slots /\ cn \subseteq Slots
  BY <1>1 DEF EntriesOK, FeedOK, States
<1>3. CASE F = {}
  <2>1. d = c /\ ix \cup F = ix
    BY <1>3 DEF DrainInstructionFlushable
  <2> QED
    BY <1>3, <2>1
<1>4. \A s \in c.pending : EntryOK(c.buf[s], s, ix, ac, cf, cn)
  BY <1>1 DEF EntriesOK
<1>5. \A s \in F : s \in c.pending /\ s \in Slots /\ s \notin ix /\ s \in cn
  <2> TAKE s \in F
  <2>1. s \in c.pending /\ ~c.buf[s].ixDrained /\ InstructionGateReached(c.buf[s])
    <3>1. s \in UndrainedIx(c)
      BY DEF InstructionFlushable
    <3>2. s \in c.pending /\ ~c.buf[s].ixDrained
      BY <3>1 DEF UndrainedIx
    <3>3. s \in Nat
      BY <1>2, <3>2, SlotsAssumption
    <3>4. s <= s
      BY <3>3
    <3> QED
      BY <3>1, <3>2, <3>4 DEF InstructionFlushable
  <2> QED
    BY <1>1, <1>2, <1>4, <2>1 DEF EntryOK, FeedOK, InstructionGateReached
<1>6. \A s \in F : \A a \in (Ancestors[s] \cap fr) \ dd : a \in ix \cup F
  <2> TAKE s \in F
  <2> TAKE a \in (Ancestors[s] \cap fr) \ dd
  <2>1. a \in Slots /\ a < s
    BY <1>5, TreeAssumption
  <2>2. ~Abandoned(a, cn)
    <3>1. SUFFICES ASSUME NEW t \in cn PROVE SameBranch(a, t)
      BY DEF Abandoned
    <3>2. SameBranch(s, t) /\ t \in Slots
      BY <1>1, <1>2, <1>5 DEF FeedOK
    <3> QED
      BY <1>5, <2>1, <3>2, TreeAssumption DEF SameBranch
  <2>3. CASE a \in c.pending
    <3>1. CASE c.buf[a].ixDrained
      BY <1>4, <2>3, <3>1 DEF EntryOK
    <3>2. CASE ~c.buf[a].ixDrained
      <4>1. a \in UndrainedIx(c)
        BY <2>3, <3>2 DEF UndrainedIx
      <4>2. UndrainedIx(c) \subseteq Nat /\ s \in Nat
        BY <1>2, <1>5, SlotsAssumption DEF UndrainedIx
      <4>3. \A t \in UndrainedIx(c) : t <= a => t <= s
        BY <2>1, <4>1, <4>2
      <4> QED
        BY <4>1, <4>3 DEF InstructionFlushable
    <3> QED
      BY <3>1, <3>2
  <2> QED
    BY <1>1, <2>2, <2>3 DEF EntriesOK
<1>7. \A s \in F : \A t \in ix : t < s
  <2> TAKE s \in F
  <2> TAKE t \in ix
  <2>1. t \in cn /\ t \in Slots
    BY <1>1, <1>2 DEF LogOK
  <2>2. SameBranch(s, t)
    BY <1>1, <1>5, <2>1 DEF FeedOK
  <2>3. s \notin Ancestors[t]
    BY <1>1, <1>5 DEF LogOK, FeedOK
  <2> QED
    BY <1>5, <2>1, <2>2, <2>3, TreeAssumption DEF SameBranch
<1>8. CASE F # {}
  <2>1. /\ d \in States
        /\ F \subseteq c.pending
        /\ d.lastIx \in F /\ \A s \in F : s <= d.lastIx
        /\ d.lastAcct = c.lastAcct
        /\ d.pending = {s \in c.pending :
                          ~((s \in F \/ c.buf[s].ixDrained) /\ c.buf[s].acctDrained)}
        /\ \A s \in Slots \ c.pending : d.buf[s] = c.buf[s]
        /\ \A s \in c.pending \ d.pending : d.buf[s] = DefaultBuffer
        /\ \A s \in d.pending :
              /\ d.buf[s].ixDrained <=> (s \in F \/ c.buf[s].ixDrained)
              /\ d.buf[s].acctDrained = c.buf[s].acctDrained
              /\ d.buf[s].ixCommitted = c.buf[s].ixCommitted
              /\ d.buf[s].acctCommitted = c.buf[s].acctCommitted
              /\ d.buf[s].expectedAcct = c.buf[s].expectedAcct
              /\ d.buf[s].acctRecords = c.buf[s].acctRecords
              /\ d.buf[s].ixRecords = IF s \in F THEN {} ELSE c.buf[s].ixRecords
        /\ \A s \in Slots :
              d.counts[s] = IF s <= d.lastAcct THEN 0 ELSE c.counts[s]
    BY <1>2, <1>8, DrainInstructionFacts
  <2>2. LogOK(d.lastIx, ix \cup F, fr, cn, dd)
    <3>1. \A s \in ix \cup F : s <= d.lastIx
      <4>1. \A s \in ix : s < d.lastIx /\ s \in Nat
        BY <1>1, <1>2, <1>7, <2>1, SlotsAssumption DEF LogOK
      <4>2. d.lastIx \in Nat
        BY <1>5, <2>1, SlotsAssumption
      <4>3. \A s \in F : s <= d.lastIx
        BY <2>1
      <4> QED
        BY <4>1, <4>2, <4>3
    <3> QED
      BY <1>1, <1>5, <1>6, <2>1, <3>1 DEF LogOK
  <2>3. LogOK(d.lastAcct, ac, fr, cn, dd)
    BY <1>1, <2>1
  <2>4. \A s \in d.pending : EntryOK(d.buf[s], s, ix \cup F, ac, cf, cn)
    <3> TAKE s \in d.pending
    <3>1. s \in c.pending /\ EntryOK(c.buf[s], s, ix, ac, cf, cn)
      BY <1>4, <2>1
    <3>2. /\ d.buf[s].ixDrained <=> s \in ix \cup F
          /\ d.buf[s].acctDrained <=> s \in ac
          /\ ~(s \in ix \cup F /\ s \in ac)
      BY <2>1, <3>1 DEF EntryOK
    <3>3. (d.buf[s].ixCommitted => s \in cf) /\ (d.buf[s].acctCommitted => s \in cn)
      BY <2>1, <3>1 DEF EntryOK
    <3>4. d.buf[s].ixDrained => d.buf[s].ixRecords = {}
      BY <2>1, <3>1, <3>2 DEF EntryOK
    <3>5. d.buf[s].acctDrained =>
             d.buf[s].acctRecords = {} /\ IsAccountGateFrozen(d.buf[s])
      BY <2>1, <3>1, <3>2 DEF EntryOK, IsAccountGateFrozen
    <3> QED
      BY <3>2, <3>3, <3>4, <3>5 DEF EntryOK
  <2>5. \A s \in Slots \ d.pending : d.buf[s] = DefaultBuffer
    <3> TAKE s \in Slots \ d.pending
    <3>1. CASE s \in c.pending
      BY <2>1, <3>1
    <3>2. CASE s \notin c.pending
      <4>1. d.buf[s] = c.buf[s]
        BY <2>1, <3>2
      <4> QED
        BY <1>1, <3>2, <4>1 DEF EntriesOK
    <3> QED
      BY <3>1, <3>2
  <2>6. \A s \in fr \ dd :
           \/ s \in d.pending
           \/ s \in ix \cup F /\ s \in ac
           \/ Abandoned(s, cn)
    <3> TAKE s \in fr \ dd
    <3>1. CASE s \in c.pending /\ s \notin d.pending
      BY <1>4, <2>1, <3>1 DEF EntryOK
    <3> QED
      BY <1>1, <3>1 DEF EntriesOK
  <2>7. \A s \in ac : d.counts[s] = 0
    BY <1>1, <1>2, <1>5, <2>1 DEF EntriesOK, LogOK
  <2>8. EntriesOK(d, ix \cup F, ac, fr, cf, cn, dd)
    BY <2>1, <2>4, <2>5, <2>6, <2>7 DEF EntriesOK
  <2> QED
    BY <1>1, <1>7, <2>2, <2>3, <2>8 DEF CoordinatorOK
<1> QED
  BY <1>3, <1>8

(* Draining the account side.  A slot is sent after its live ancestors,  *)
(* and so beyond everything that was sent before: two sent slots lie on    *)
(* one branch, and the older of them cannot come last.                     *)
LEMMA DrainAccountKeeps ==
    ASSUME NEW c, NEW d, NEW F,
           NEW ix, NEW ac, NEW fr, NEW cf, NEW cn, NEW dd,
           CoordinatorOK(c, ix, ac, fr, cf, cn, dd),
           d = DrainAccountFlushable(c), F = AccountFlushable(c)
    PROVE  /\ CoordinatorOK(d, ix, ac \cup F, fr, cf, cn, dd)
           /\ \A s \in F : \A t \in ac : t < s
<1>1. /\ FeedOK(fr, cf, cn, dd) /\ EntriesOK(c, ix, ac, fr, cf, cn, dd)
      /\ LogOK(c.lastIx, ix, fr, cn, dd) /\ LogOK(c.lastAcct, ac, fr, cn, dd)
  BY DEF CoordinatorOK
<1>2. c \in States /\ c.pending \subseteq Slots /\ cn \subseteq Slots
  BY <1>1 DEF EntriesOK, FeedOK, States
<1>3. CASE F = {}
  <2>1. d = c /\ ac \cup F = ac
    BY <1>3 DEF DrainAccountFlushable
  <2> QED
    BY <1>3, <2>1
<1>4. \A s \in c.pending : EntryOK(c.buf[s], s, ix, ac, cf, cn)
  BY <1>1 DEF EntriesOK
<1>5. \A s \in F : s \in c.pending /\ s \in Slots /\ s \notin ac /\ s \in cn /\ IsAccountGateFrozen(c.buf[s])
  <2> TAKE s \in F
  <2>1. s \in c.pending /\ ~c.buf[s].acctDrained /\ AccountGateReached(c.buf[s])
    <3>1. s \in UndrainedAcct(c)
      BY DEF AccountFlushable
    <3>2. s \in c.pending /\ ~c.buf[s].acctDrained
      BY <3>1 DEF UndrainedAcct
    <3>3. s \in Nat
      BY <1>2, <3>2, SlotsAssumption
    <3>4. s <= s
      BY <3>3
    <3> QED
      BY <3>1, <3>2, <3>4 DEF AccountFlushable
  <2> QED
    BY <1>1, <1>2, <1>4, <2>1 DEF EntryOK, FeedOK, AccountGateReached, AccountParseComplete, IsAccountGateFrozen
<1>6. \A s \in F : \A a \in (Ancestors[s] \cap fr) \ dd : a \in ac \cup F
  <2> TAKE s \in F
  <2> TAKE a \in (Ancestors[s] \cap fr) \ dd
  <2>1. a \in Slots /\ a < s
    BY <1>5, TreeAssumption
  <2>2. ~Abandoned(a, cn)
    <3>1. SUFFICES ASSUME NEW t \in cn PROVE SameBranch(a, t)
      BY DEF Abandoned
    <3>2. SameBranch(s, t) /\ t \in Slots
      BY <1>1, <1>2, <1>5 DEF FeedOK
    <3> QED
      BY <1>5, <2>1, <3>2, TreeAssumption DEF SameBranch
  <2>3. CASE a \in c.pending
    <3>1. CASE c.buf[a].acctDrained
      BY <1>4, <2>3, <3>1 DEF EntryOK
    <3>2. CASE ~c.buf[a].acctDrained
      <4>1. a \in UndrainedAcct(c)
        BY <2>3, <3>2 DEF UndrainedAcct
      <4>2. UndrainedAcct(c) \subseteq Nat /\ s \in Nat
        BY <1>2, <1>5, SlotsAssumption DEF UndrainedAcct
      <4>3. \A t \in UndrainedAcct(c) : t <= a => t <= s
        BY <2>1, <4>1, <4>2
      <4> QED
        BY <4>1, <4>3 DEF AccountFlushable
    <3> QED
      BY <3>1, <3>2
  <2> QED
    BY <1>1, <2>2, <2>3 DEF EntriesOK
<1>7. \A s \in F : \A t \in ac : t < s
  <2> TAKE s \in F
  <2> TAKE t \in ac
  <2>1. t \in cn /\ t \in Slots
    BY <1>1, <1>2 DEF LogOK
  <2>2. SameBranch(s, t)
    BY <1>1, <1>5, <2>1 DEF FeedOK
  <2>3. s \notin Ancestors[t]
    BY <1>1, <1>5 DEF LogOK, FeedOK
  <2> QED
    BY <1>5, <2>1, <2>2, <2>3, TreeAssumption DEF SameBranch
<1>8. CASE F # {}
  <2>1. /\ d \in States
        /\ F \subseteq c.pending
        /\ d.lastAcct \in F /\ \A s \in F : s <= d.lastAcct
        /\ d.lastIx = c.lastIx
        /\ d.pending = {s \in c.pending :
                          ~((s \in F \/ c.buf[s].acctDrained) /\ c.buf[s].ixDrained)}
        /\ \A s \in Slots \ c.pending : d.buf[s] = c.buf[s]
        /\ \A s \in c.pending \ d.pending : d.buf[s] = DefaultBuffer
        /\ \A s \in d.pending :
              /\ d.buf[s].acctDrained <=> (s \in F \/ c.buf[s].acctDrained)
              /\ d.buf[s].ixDrained = c.buf[s].ixDrained
              /\ d.buf[s].ixCommitted = c.buf[s].ixCommitted
              /\ d.buf[s].acctCommitted = c.buf[s].acctCommitted
              /\ d.buf[s].expectedAcct = c.buf[s].expectedAcct
              /\ d.buf[s].ixRecords = c.buf[s].ixRecords
              /\ d.buf[s].acctRecords = IF s \in F THEN {} ELSE c.buf[s].acctRecords
        /\ \A s \in Slots :
              d.counts[s] = IF s <= d.lastAcct THEN 0 ELSE c.counts[s]
    BY <1>2, <1>8, DrainAccountFacts
  <2>2. LogOK(d.lastAcct, ac \cup F, fr, cn, dd)
    <3>1. \A s \in ac \cup F : s <= d.lastAcct
      <4>1. \A s \in ac : s < d.lastAcct /\ s \in Nat
        BY <1>1, <1>2, <1>7, <2>1, SlotsAssumption DEF LogOK
      <4>2. d.lastAcct \in Nat
        BY <1>5, <2>1, SlotsAssumption
      <4>3. \A s \in F : s <= d.lastAcct
        BY <2>1
      <4> QED
        BY <4>1, <4>2, <4>3
    <3> QED
      BY <1>1, <1>5, <1>6, <2>1, <3>1 DEF LogOK
  <2>3. LogOK(d.lastIx, ix, fr, cn, dd)
    BY <1>1, <2>1
  <2>4. \A s \in d.pending : EntryOK(d.buf[s], s, ix, ac \cup F, cf, cn)
    <3> TAKE s \in d.pending
    <3>1. s \in c.pending /\ EntryOK(c.buf[s], s, ix, ac, cf, cn)
      BY <1>4, <2>1
    <3>2. /\ d.buf[s].acctDrained <=> s \in ac \cup F
          /\ d.buf[s].ixDrained <=> s \in ix
          /\ ~(s \in ac \cup F /\ s \in ix)
      BY <2>1, <3>1 DEF EntryOK
    <3>3. (d.buf[s].ixCommitted => s \in cf) /\ (d.buf[s].acctCommitted => s \in cn)
      BY <2>1, <3>1 DEF EntryOK
    <3>4. d.buf[s].ixDrained => d.buf[s].ixRecords = {}
      BY <2>1, <3>1, <3>2 DEF EntryOK
    <3>5. d.buf[s].acctDrained =>
             d.buf[s].acctRecords = {} /\ IsAccountGateFrozen(d.buf[s])
      BY <1>5, <2>1, <3>1, <3>2 DEF EntryOK, IsAccountGateFrozen
    <3> QED
      BY <3>2, <3>3, <3>4, <3>5 DEF EntryOK
  <2>5. \A s \in Slots \ d.pending : d.buf[s] = DefaultBuffer
    <3> TAKE s \in Slots \ d.pending
    <3>1. CASE s \in c.pending
      BY <2>1, <3>1
    <3>2. CASE s \notin c.pending
      <4>1. d.buf[s] = c.buf[s]
        BY <2>1, <3>2
      <4> QED
        BY <1>1, <3>2, <4>1 DEF EntriesOK
    <3> QED
      BY <3>1, <3>2
  <2>6. \A s \in fr \ dd :
           \/ s \in d.pending
           \/ s \in ix /\ s \in ac \cup F
           \/ Abandoned(s, cn)
    <3> TAKE s \in fr \ dd
    <3>1. CASE s \in c.pending /\ s \notin d.pending
      BY <1>4, <2>1, <3>1 DEF EntryOK
    <3> QED
      BY <1>1, <3>1 DEF EntriesOK
  <2>7. \A s \in ac \cup F : d.counts[s] = 0
    <3>1. \A s \in ac \cup F : s \in Slots /\ s <= d.lastAcct
      BY <1>2, <2>2 DEF LogOK
    <3>2. \A s \in Slots :
             d.counts[s] = IF s <= d.lastAcct THEN 0 ELSE c.counts[s]
      BY <2>1
    <3> QED
      BY <3>1, <3>2
  <2>8. EntriesOK(d, ix, ac \cup F, fr, cf, cn, dd)
    BY <2>1, <2>4, <2>5, <2>6, <2>7 DEF EntriesOK
  <2> QED
    BY <1>1, <1>7, <2>2, <2>3, <2>8 DEF CoordinatorOK
<1> QED
  BY <1>3, <1>8

-----------------------------------------------------------------------------
(* The steps of the specification *)

(* What the two order properties say of one step. *)
Ordered ==
    /\ \A o \in ixOut' : \A t \in ixFlushed : t < o.slot
    /\ \A o \in acctOut' : \A t \in acctFlushed : t < o.slot

(* The end of an event: the state c it produced is drained, or held. *)
LEMMA EndEventKeeps ==
    ASSUME NEW c, NEW fr, NEW cf, NEW cn, NEW dd,
           CoordinatorOK(c, ixFlushed, acctFlushed, fr, cf, cn, dd),
           EndEvent(c)
    PROVE  /\ CoordinatorOK(co', ixFlushed', acctFlushed', fr, cf, cn, dd)
           /\ Ordered
<1>1. CASE Hold(c)
  BY <1>1 DEF Hold, Ordered
<1>2. CASE Drain(c)
  <2> DEFINE afterIx == DrainInstructionFlushable(c)
             F == InstructionFlushable(c)
             G == AccountFlushable(afterIx)
  <2>1. /\ co' = DrainAccountFlushable(afterIx)
        /\ ixOut' = {InstructionSlotOf(c, s) : s \in F}
        /\ acctOut' = {AccountSlotOf(afterIx, s) : s \in G}
        /\ ixFlushed' = ixFlushed \cup F /\ acctFlushed' = acctFlushed \cup G
    BY <1>2 DEF Drain
  <2> HIDE DEF afterIx, F, G
  <2>2. /\ CoordinatorOK(afterIx, ixFlushed \cup F, acctFlushed, fr, cf, cn, dd)
        /\ \A s \in F : \A t \in ixFlushed : t < s
    BY DrainInstructionKeeps DEF afterIx, F
  <2>3. /\ CoordinatorOK(co', ixFlushed \cup F, acctFlushed \cup G, fr, cf, cn, dd)
        /\ \A s \in G : \A t \in acctFlushed : t < s
    BY <2>1, <2>2, DrainAccountKeeps DEF G
  <2>4. \A o \in ixOut' : o.slot \in F
    BY <2>1 DEF InstructionSlotOf
  <2>5. \A o \in acctOut' : o.slot \in G
    BY <2>1 DEF AccountSlotOf
  <2> QED
    BY <2>1, <2>2, <2>3, <2>4, <2>5 DEF Ordered
<1> QED
  BY <1>1, <1>2 DEF EndEvent

(* An entry is only created for a slot that neither output has received. *)
LEMMA NewEntryIsUnsent ==
    ASSUME NEW c, NEW s \in Slots,
           NEW ix, NEW ac, NEW fr, NEW cf, NEW cn, NEW dd,
           CoordinatorOK(c, ix, ac, fr, cf, cn, dd),
           ~(s <= c.lastIx) \/ ~(s <= c.lastAcct),
           s \notin c.pending
    PROVE  s \notin ix /\ s \notin ac
<1>1. /\ FeedOK(fr, cf, cn, dd) /\ EntriesOK(c, ix, ac, fr, cf, cn, dd)
      /\ LogOK(c.lastIx, ix, fr, cn, dd) /\ LogOK(c.lastAcct, ac, fr, cn, dd)
  BY DEF CoordinatorOK
<1>2. SUFFICES ASSUME s \in ix \/ s \in ac PROVE FALSE
  OBVIOUS
<1>3. s \in cn
  BY <1>1, <1>2 DEF LogOK
<1>4. s \in fr \ dd /\ ~Abandoned(s, cn)
  BY <1>1, <1>3 DEF FeedOK, Abandoned
<1>5. s \in ix /\ s \in ac
  BY <1>1, <1>4 DEF EntriesOK
<1> QED
  BY <1>1, <1>5 DEF LogOK

(* A block that is frozen behind both frontiers is a fork of what was sent. *)
LEMMA LateBlockIsAbandoned ==
    ASSUME NEW c, NEW s \in Slots,
           NEW ix, NEW ac, NEW fr, NEW cf, NEW cn, NEW dd,
           CoordinatorOK(c, ix, ac, fr, cf, cn, dd),
           s \notin fr \cup dd, s <= c.lastIx
    PROVE  Abandoned(s, cn)
<1>1. FeedOK(fr, cf, cn, dd) /\ LogOK(c.lastIx, ix, fr, cn, dd) /\ c \in States
  BY DEF CoordinatorOK, EntriesOK
<1>2. c.lastIx # None
  BY SlotsAssumption DEF None
<1>3. c.lastIx \in cn /\ c.lastIx \in fr /\ c.lastIx \in Slots
  BY <1>1, <1>2 DEF LogOK, FeedOK
<1>4. s \notin Ancestors[c.lastIx]
  BY <1>1, <1>3 DEF FeedOK
<1>5. c.lastIx \notin Ancestors[s]
  <2>1. SUFFICES ASSUME c.lastIx \in Ancestors[s] PROVE FALSE
    OBVIOUS
  <2>2. c.lastIx < s
    BY <2>1, TreeAssumption
  <2>3. c.lastIx \in Nat /\ s \in Nat
    BY <1>3, SlotsAssumption
  <2> QED
    BY <2>2, <2>3
<1>6. ~SameBranch(s, c.lastIx)
  BY <1>3, <1>4, <1>5 DEF SameBranch
<1> QED
  BY <1>3, <1>6 DEF Abandoned

LEMMA InitInvariant == Init => IndInv
<1> SUFFICES ASSUME Init PROVE IndInv
  OBVIOUS
<1>1. FeedOK({}, {}, {}, {})
  BY DEF FeedOK
<1>2. LogOK(None, {}, {}, {}, {})
  BY DEF LogOK
<1>3. EntriesOK(InitialState, {}, {}, {}, {}, {}, {})
  BY InitialStateType DEF EntriesOK, InitialState
<1>4. InitialState.lastIx = None /\ InitialState.lastAcct = None
  BY DEF InitialState
<1>5. CoordinatorOK(InitialState, {}, {}, {}, {}, {}, {})
  BY <1>1, <1>2, <1>3, <1>4 DEF CoordinatorOK
<1> QED
  BY <1>5 DEF Init, IndInv, Canonical

(* Each action keeps the invariant and sends slots in order. *)
LEMMA LifecycleKeeps ==
    ASSUME IndInv, NEW s \in Slots, Lifecycle(s)
    PROVE  IndInv' /\ Ordered
<1> DEFINE OK(c, fr, cf, cn, dd) ==
              CoordinatorOK(c, ixFlushed, acctFlushed, fr, cf, cn, dd)
<1>1. OK(co, frozen, confirmed, Canonical, dead)
  BY DEF IndInv
<1>2. co \in States
  BY <1>1 DEF CoordinatorOK, EntriesOK
<1>3. \A t \in co.pending : EntryOK(co.buf[t], t, ixFlushed, acctFlushed, confirmed, Canonical)
  BY <1>1 DEF CoordinatorOK, EntriesOK
<1>4. \A t \in Slots \ co.pending : ~co.buf[t].ixCommitted /\ ~co.buf[t].acctCommitted
  BY <1>1 DEF CoordinatorOK, EntriesOK, DefaultBuffer
<1>5. /\ co.buf[s].ixCommitted => s \in confirmed
      /\ co.buf[s].acctCommitted => s \in Canonical
  BY <1>3, <1>4 DEF EntryOK
<1>6. CASE EmitBlockFrozen(s)
  <2>1. PICK n \in Nat : EndEvent(BlockFrozen(co, s, Parent[s], n))
    BY <1>6, BoundsAssumption DEF EmitBlockFrozen
  <2> DEFINE c == BlockFrozen(co, s, Parent[s], n)
  <2>2. /\ s \notin frozen \cup dead /\ Ancestors[s] \subseteq frozen \cup dead
        /\ frozen' = frozen \cup {s}
        /\ confirmed' = confirmed /\ finalized' = finalized /\ dead' = dead
    BY <1>6 DEF EmitBlockFrozen
  <2>3. Parent[s] \in Nat
    BY TreeAssumption
  <2>4. \/ c = co /\ IsAlreadyFlushed(co, s)
        \/ /\ ~IsAlreadyFlushed(co, s)
           /\ Touched(co, c, s) /\ SameCommitment(co, c, s)
    BY <1>2, <2>3, BlockFrozenEvent
  <2> HIDE DEF c
  <2>5. OK(c, frozen \cup {s}, confirmed, Canonical, dead)
    <3>1. CASE c = co /\ IsAlreadyFlushed(co, s)
      <4>1. Abandoned(s, Canonical)
        BY <1>1, <2>2, <3>1, LateBlockIsAbandoned DEF IsAlreadyFlushed
      <4> QED
        BY <1>1, <2>2, <3>1, <4>1, FeedFrozenKeeps
    <3>2. CASE /\ ~IsAlreadyFlushed(co, s)
               /\ Touched(co, c, s) /\ SameCommitment(co, c, s)
      <4>1. s \notin co.pending => s \notin ixFlushed /\ s \notin acctFlushed
        BY <1>1, <3>2, NewEntryIsUnsent DEF IsAlreadyFlushed
      <4>2. /\ c.buf[s].ixCommitted => s \in confirmed
            /\ c.buf[s].acctCommitted => s \in Canonical
        BY <1>5, <3>2 DEF SameCommitment
      <4>3. OK(c, frozen, confirmed, Canonical, dead)
        BY <1>1, <3>2, <4>1, <4>2, TouchKeeps
      <4>4. s \in c.pending
        BY <3>2 DEF Touched
      <4> QED
        BY <2>2, <4>3, <4>4, FeedFrozenKeeps
    <3> QED
      BY <2>4, <3>1, <3>2
  <2>6. OK(c, frozen', confirmed', Canonical', dead')
    BY <2>2, <2>5 DEF Canonical
  <2>7. EndEvent(c)
    BY <2>1 DEF c
  <2> QED
    BY <2>6, <2>7, EndEventKeeps DEF IndInv
<1>7. ASSUME NEW c, NEW cf,
             CommitmentAllowed(s), EndEvent(c),
             confirmed \subseteq cf, cf \subseteq confirmed \cup {s},
             confirmed' = cf, Canonical' = Canonical \cup {s},
             frozen' = frozen, dead' = dead,
             \/ c = co
             \/ ~IsAlreadyFlushed(co, s) /\ Touched(co, c, s),
             c.buf[s].ixCommitted => s \in cf
      PROVE  IndInv' /\ Ordered
  <2>1. OK(co, frozen, cf, Canonical \cup {s}, dead)
    BY <1>1, <1>7, FeedCommitKeeps DEF CommitmentAllowed
  <2>2. OK(c, frozen, cf, Canonical \cup {s}, dead)
    <3>1. CASE ~IsAlreadyFlushed(co, s) /\ Touched(co, c, s)
      <4>1. s \notin co.pending => s \notin ixFlushed /\ s \notin acctFlushed
        BY <1>1, <3>1, NewEntryIsUnsent DEF IsAlreadyFlushed
      <4> QED
        BY <1>7, <2>1, <3>1, <4>1, TouchKeeps
    <3> QED
      BY <1>7, <2>1, <3>1
  <2>3. OK(c, frozen', confirmed', Canonical', dead')
    BY <1>7, <2>2
  <2> QED
    BY <1>7, <2>3, EndEventKeeps DEF IndInv
<1>8. CASE EmitSlotConfirmed(s)
  <2> DEFINE c == SlotConfirmed(co, s)
  <2>1. /\ CommitmentAllowed(s) /\ EndEvent(c)
        /\ confirmed' = confirmed \cup {s} /\ Canonical' = Canonical \cup {s}
        /\ frozen' = frozen /\ dead' = dead
    BY <1>8 DEF EmitSlotConfirmed, Canonical
  <2>2. c = co \/ (~IsAlreadyFlushed(co, s) /\ Touched(co, c, s))
    BY <1>2, SlotConfirmedEvent
  <2> HIDE DEF c
  <2> QED
    BY <1>7, <2>1, <2>2
<1>9. CASE EmitSlotFinalized(s)
  <2> DEFINE c == SlotFinalized(co, s)
  <2>1. /\ CommitmentAllowed(s) /\ EndEvent(c)
        /\ confirmed' = confirmed /\ Canonical' = Canonical \cup {s}
        /\ frozen' = frozen /\ dead' = dead
    BY <1>9 DEF EmitSlotFinalized, Canonical
  <2>2. \/ c = co
        \/ /\ ~IsAlreadyFlushed(co, s) /\ Touched(co, c, s)
           /\ c.buf[s].ixCommitted = co.buf[s].ixCommitted
    BY <1>2, SlotFinalizedEvent
  <2> HIDE DEF c
  <2>3. c.buf[s].ixCommitted => s \in confirmed
    BY <1>5, <2>2
  <2> QED
    BY <1>7, <2>1, <2>2, <2>3
<1>10. CASE EmitSlotDiscarded(s)
  <2> DEFINE c == SlotDiscarded(co, s)
  <2>1. /\ s \notin Canonical /\ EndEvent(c)
        /\ dead' = dead \cup {s} /\ frozen' = frozen
        /\ confirmed' = confirmed /\ Canonical' = Canonical
    BY <1>10 DEF EmitSlotDiscarded, Canonical
  <2>2. OK(c, frozen, confirmed, Canonical, dead \cup {s})
    BY <1>1, <2>1, DiscardKeeps
  <2> HIDE DEF c
  <2> QED
    BY <2>1, <2>2, EndEventKeeps DEF IndInv
<1> QED
  BY <1>6, <1>8, <1>9, <1>10 DEF Lifecycle

LEMMA InputKeeps ==
    ASSUME IndInv, NEW s \in Slots, SeeAccountEvent(s) \/ Parsed(s)
    PROVE  IndInv' /\ Ordered
<1> DEFINE OK(c) == CoordinatorOK(c, ixFlushed, acctFlushed, frozen, confirmed,
                                  Canonical, dead)
<1>1. OK(co)
  BY DEF IndInv
<1>2. co \in States
  BY <1>1 DEF CoordinatorOK, EntriesOK
<1>3. \A t \in co.pending : EntryOK(co.buf[t], t, ixFlushed, acctFlushed, confirmed, Canonical)
  BY <1>1 DEF CoordinatorOK, EntriesOK
<1>4. \A t \in Slots \ co.pending : ~co.buf[t].ixCommitted /\ ~co.buf[t].acctCommitted
  BY <1>1 DEF CoordinatorOK, EntriesOK, DefaultBuffer
<1>5. /\ co.buf[s].ixCommitted => s \in confirmed
      /\ co.buf[s].acctCommitted => s \in Canonical
  BY <1>3, <1>4 DEF EntryOK
<1>6. /\ frozen' = frozen /\ confirmed' = confirmed
      /\ Canonical' = Canonical /\ dead' = dead
  BY DEF SeeAccountEvent, Parsed, ParseInstruction, ParseAccount, ParseTransaction,
         CountAccountStat, CountInstructionStat, feedVars, Canonical
<1>7. ASSUME NEW c, OK(c), Drain(c)
      PROVE  IndInv' /\ Ordered
  <2>1. EndEvent(c)
    BY <1>7 DEF EndEvent
  <2> QED
    BY <1>6, <1>7, <2>1, EndEventKeeps DEF IndInv
<1>8. ASSUME NEW c, Drain(c),
             \/ c = co
             \/ /\ ~(s <= co.lastIx) \/ ~(s <= co.lastAcct)
                /\ Touched(co, c, s) /\ SameCommitment(co, c, s)
      PROVE  IndInv' /\ Ordered
  <2>1. CASE c = co
    BY <1>1, <1>7, <1>8, <2>1
  <2>2. CASE /\ ~(s <= co.lastIx) \/ ~(s <= co.lastAcct)
             /\ Touched(co, c, s) /\ SameCommitment(co, c, s)
    <3>1. s \notin co.pending => s \notin ixFlushed /\ s \notin acctFlushed
      BY <1>1, <2>2, NewEntryIsUnsent
    <3>2. /\ c.buf[s].ixCommitted => s \in confirmed
          /\ c.buf[s].acctCommitted => s \in Canonical
      BY <1>5, <2>2 DEF SameCommitment
    <3>3. OK(c)
      BY <1>1, <2>2, <3>1, <3>2, TouchKeeps
    <3> QED
      BY <1>7, <1>8, <3>3
  <2> QED
    BY <1>8, <2>1, <2>2
<1>9. CASE ParseInstruction(s) \/ ParseTransaction(s) \/ CountInstructionStat(s)
  <2>1. PICK c : /\ Drain(c)
                 /\ \/ \E k \in IxKeys : c = InstructionRecordParsed(co, s, k)
                    \/ c = TransactionParsed(co, s)
                    \/ c = InstructionStat(co, s)
    BY <1>9 DEF ParseInstruction, ParseTransaction, CountInstructionStat
  <2>2. \/ c = co
        \/ /\ ValidInstructionSlot(co, s)
           /\ Touched(co, c, s) /\ SameCommitment(co, c, s)
    BY <1>2, <2>1, InstructionEvents
  <2> QED
    BY <1>8, <2>1, <2>2 DEF ValidInstructionSlot
<1>10. CASE ParseAccount(s) \/ CountAccountStat(s)
  <2>1. PICK c : /\ Drain(c)
                 /\ \/ \E k \in AcctKeys : c = AccountRecordParsed(co, s, k)
                    \/ c = AccountStat(co, s)
    BY <1>10 DEF ParseAccount, CountAccountStat
  <2>2. \/ c = co
        \/ /\ ValidAccountSlot(co, s)
           /\ Touched(co, c, s) /\ SameCommitment(co, c, s)
    BY <1>2, <2>1, AccountEvents
  <2> QED
    BY <1>8, <2>1, <2>2 DEF ValidAccountSlot
<1>11. CASE SeeAccountEvent(s)
  <2> DEFINE c == AccountEventSeen(co, s)
  <2>1. Drain(c)
    BY <1>11 DEF SeeAccountEvent
  <2>2. /\ c \in States
        /\ c.pending = co.pending /\ c.buf = co.buf
        /\ c.lastIx = co.lastIx /\ c.lastAcct = co.lastAcct
        /\ \A t \in Slots \ {s} : c.counts[t] = co.counts[t]
        /\ c # co =>
              ~IsAlreadyFlushed(co, s)
                 /\ ~(s \in co.pending /\ IsAccountGateFrozen(co.buf[s]))
    BY <1>2, AccountEventSeenEvent
  <2> HIDE DEF c
  <2>3. CASE c # co
    <3>1. s \notin acctFlushed
      <4>1. CASE s \in co.pending
        BY <1>3, <2>2, <2>3, <4>1 DEF EntryOK
      <4>2. CASE s \notin co.pending
        BY <1>1, <2>2, <2>3, <4>2, NewEntryIsUnsent DEF IsAlreadyFlushed
      <4> QED
        BY <4>1, <4>2
    <3>2. /\ FeedOK(frozen, confirmed, Canonical, dead)
          /\ LogOK(co.lastIx, ixFlushed, frozen, Canonical, dead)
          /\ LogOK(co.lastAcct, acctFlushed, frozen, Canonical, dead)
          /\ EntriesOK(co, ixFlushed, acctFlushed, frozen, confirmed, Canonical, dead)
      BY <1>1 DEF CoordinatorOK
    <3>3. acctFlushed \subseteq Slots
      BY <3>2 DEF LogOK, FeedOK
    <3>4. EntriesOK(c, ixFlushed, acctFlushed, frozen, confirmed, Canonical, dead)
      BY <2>2, <3>1, <3>2, <3>3 DEF EntriesOK
    <3>5. OK(c)
      BY <2>2, <3>2, <3>4 DEF CoordinatorOK
    <3> QED
      BY <1>7, <2>1, <3>5
  <2> QED
    BY <1>1, <1>7, <2>1, <2>3
<1> QED
  BY <1>9, <1>10, <1>11 DEF Parsed

LEMMA StepKeeps ==
    ASSUME IndInv, [Next]_vars
    PROVE  IndInv' /\ (vars' # vars => Ordered)
<1>1. CASE Next
  BY <1>1, LifecycleKeeps, InputKeeps DEF Next
<1>2. CASE UNCHANGED vars
  BY <1>2 DEF vars, outVars, feedVars, IndInv, Canonical
<1> QED
  BY <1>1, <1>2

(* IndInv is an invariant. *)
THEOREM Invariant == Spec => []IndInv
<1>1. IndInv /\ [Next]_vars => IndInv'
  BY StepKeeps
<1> QED
  BY InitInvariant, <1>1, PTL DEF Spec

(* A slot that was sent to the instruction output was preceded or          *)
(* accompanied by every live frozen ancestor: drain_instruction_flushable  *)
(* never lets a block overtake one it builds on.                           *)
THEOREM AncestorsFirst == Spec => []AncestorsFlushedFirst
<1>1. IndInv => AncestorsFlushedFirst
  BY DEF IndInv, CoordinatorOK, LogOK, AncestorsFlushedFirst
<1> QED
  BY Invariant, <1>1, PTL

(* The instruction output is strictly ascending over the whole run,        *)
(* although drain_instruction_flushable never compares a slot it flushes   *)
(* with the last one it flushed.                                           *)
THEOREM InstructionsAscend == Spec => InstructionOrder
<1>1. IndInv /\ [Next]_vars =>
         [\A o \in ixOut' : \A t \in ixFlushed : t < o.slot]_vars
  BY StepKeeps DEF Ordered
<1> QED
  BY Invariant, <1>1, PTL DEF Spec, InstructionOrder

(* The same for drain_account_flushable and the account output. *)
THEOREM AccountsAscend == Spec => AccountOrder
<1>1. IndInv /\ [Next]_vars =>
         [\A o \in acctOut' : \A t \in acctFlushed : t < o.slot]_vars
  BY StepKeeps DEF Ordered
<1> QED
  BY Invariant, <1>1, PTL DEF Spec, AccountOrder

(* A drained half of an entry holds no record: the validators refuse every *)
(* record that arrives after the drain.                                    *)
THEOREM NothingStranded == Spec => []NoStrandedRecords
<1>1. IndInv => NoStrandedRecords
  BY DEF IndInv, CoordinatorOK, EntriesOK, EntryOK, NoStrandedRecords
<1> QED
  BY Invariant, <1>1, PTL

(* A slot both outputs have received has no entry, and the account output  *)
(* leaves no event count behind.                                           *)
THEOREM FlushedForgotten == Spec => []FlushedSlotsForgotten
<1>1. IndInv => FlushedSlotsForgotten
  BY DEF IndInv, CoordinatorOK, EntriesOK, EntryOK, FlushedSlotsForgotten
<1> QED
  BY Invariant, <1>1, PTL

(* Type correctness. *)
THEOREM TypeCorrect == Spec => []TypeOK
<1> DEFINE TypeInv == IndInv /\ midUpdate \in BOOLEAN
<1>1. Init => TypeInv
  BY InitInvariant DEF Init
<1>2. TypeInv /\ [Next]_vars => TypeInv'
  <2> SUFFICES ASSUME TypeInv, [Next]_vars PROVE midUpdate' \in BOOLEAN
    BY StepKeeps
  <2>1. \A c : EndEvent(c) => midUpdate' \in BOOLEAN
    BY DEF EndEvent, Drain, Hold
  <2>2. \A c : Drain(c) => midUpdate' \in BOOLEAN
    BY DEF Drain
  <2>3. CASE UNCHANGED vars
    BY <2>3 DEF vars
  <2>4. ASSUME NEW s \in Slots, Lifecycle(s) PROVE midUpdate' \in BOOLEAN
    BY <2>1, <2>4 DEF Lifecycle, EmitBlockFrozen, EmitSlotConfirmed,
                      EmitSlotFinalized, EmitSlotDiscarded
  <2>5. ASSUME NEW s \in Slots, SeeAccountEvent(s) \/ Parsed(s)
        PROVE  midUpdate' \in BOOLEAN
    BY <2>2, <2>5 DEF SeeAccountEvent, Parsed, ParseInstruction, ParseAccount,
                      ParseTransaction, CountAccountStat, CountInstructionStat
  <2> QED
    BY <2>3, <2>4, <2>5 DEF Next
<1>3. TypeInv => TypeOK
  BY DEF IndInv, CoordinatorOK, FeedOK, LogOK, EntriesOK, TypeOK, Canonical
<1> QED
  BY <1>1, <1>2, <1>3, PTL DEF Spec

-----------------------------------------------------------------------------
(* The expected account count *)

(* The drains remove entries and leave the expected count of the others. *)
LEMMA EndEventExpectation ==
    ASSUME NEW c \in States, EndEvent(c)
    PROVE  \A s \in co'.pending :
              s \in c.pending /\ co'.buf[s].expectedAcct = c.buf[s].expectedAcct
<1>1. CASE Hold(c)
  BY <1>1 DEF Hold
<1>2. CASE Drain(c)
  <2> DEFINE afterIx == DrainInstructionFlushable(c)
  <2>1. co' = DrainAccountFlushable(afterIx)
    BY <1>2 DEF Drain
  <2>2. /\ afterIx \in States
        /\ \A s \in afterIx.pending :
              /\ s \in c.pending
              /\ afterIx.buf[s].expectedAcct = c.buf[s].expectedAcct
    <3>1. CASE InstructionFlushable(c) = {}
      BY <3>1 DEF DrainInstructionFlushable
    <3>2. CASE InstructionFlushable(c) # {}
      BY <3>2, DrainInstructionFacts
    <3> QED
      BY <3>1, <3>2
  <2> HIDE DEF afterIx
  <2>3. \A s \in co'.pending :
           /\ s \in afterIx.pending
           /\ co'.buf[s].expectedAcct = afterIx.buf[s].expectedAcct
    <3>1. CASE AccountFlushable(afterIx) = {}
      BY <2>1, <3>1 DEF DrainAccountFlushable
    <3>2. CASE AccountFlushable(afterIx) # {}
      BY <2>1, <2>2, <3>2, DrainAccountFacts
    <3> QED
      BY <3>1, <3>2
  <2> QED
    BY <2>2, <2>3
<1> QED
  BY <1>1, <1>2 DEF EndEvent

(* Duplicate and late commitment statuses leave the expected account count *)
(* of an entry alone once it is set.                                       *)
THEOREM ExpectationStable == Spec => AccountExpectationStable
<1> DEFINE Stable == \A s \in co.pending \cap co'.pending :
                        co.buf[s].expectedAcct # None =>
                           co'.buf[s].expectedAcct = co.buf[s].expectedAcct
<1>1. ASSUME IndInv, Next PROVE Stable
  <2>1. co \in States
    BY <1>1 DEF IndInv, CoordinatorOK, EntriesOK
  <2>2. PICK s \in Slots : Lifecycle(s) \/ SeeAccountEvent(s) \/ Parsed(s)
    BY <1>1 DEF Next
  <2>3. ASSUME NEW c, EndEvent(c), c \in States,
               \A t \in co.pending \cap c.pending :
                  co.buf[t].expectedAcct # None =>
                     c.buf[t].expectedAcct = co.buf[t].expectedAcct
        PROVE  Stable
    BY <2>3, EndEventExpectation
  <2>4. ASSUME NEW c, EndEvent(c), c = co \/ Touched(co, c, s)
        PROVE  Stable
    <3>1. c \in States
      BY <2>1, <2>4 DEF Touched
    <3>2. \A t \in co.pending : t \in Slots
      BY <2>1 DEF States
    <3>3. \A t \in co.pending \cap c.pending :
             co.buf[t].expectedAcct # None =>
                c.buf[t].expectedAcct = co.buf[t].expectedAcct
      BY <2>4, <3>2 DEF Touched
    <3> QED
      BY <2>3, <2>4, <3>1, <3>3
  <2>5. CASE EmitBlockFrozen(s)
    <3>1. PICK n \in Nat : EndEvent(BlockFrozen(co, s, Parent[s], n))
      BY <2>5, BoundsAssumption DEF EmitBlockFrozen
    <3>2. Parent[s] \in Nat
      BY TreeAssumption
    <3> QED
      BY <2>1, <2>4, <3>1, <3>2, BlockFrozenEvent
  <2>6. CASE EmitSlotConfirmed(s)
    BY <2>1, <2>4, <2>6, SlotConfirmedEvent DEF EmitSlotConfirmed
  <2>7. CASE EmitSlotFinalized(s)
    BY <2>1, <2>4, <2>7, SlotFinalizedEvent DEF EmitSlotFinalized
  <2>8. CASE EmitSlotDiscarded(s)
    <3> DEFINE c == SlotDiscarded(co, s)
    <3>1. EndEvent(c)
      BY <2>8 DEF EmitSlotDiscarded
    <3>2. /\ c \in States /\ c.pending = co.pending \ {s}
          /\ \A t \in Slots \ {s} : c.buf[t] = co.buf[t]
      BY <2>1, SlotDiscardedEvent
    <3> HIDE DEF c
    <3>3. \A t \in c.pending : t \in Slots \ {s}
      BY <2>1, <3>2 DEF States
    <3> QED
      BY <2>3, <3>1, <3>2, <3>3
  <2>9. CASE SeeAccountEvent(s)
    <3> DEFINE c == AccountEventSeen(co, s)
    <3>1. EndEvent(c)
      BY <2>9 DEF SeeAccountEvent, EndEvent
    <3>2. c \in States /\ c.buf = co.buf
      BY <2>1, AccountEventSeenEvent
    <3> HIDE DEF c
    <3> QED
      BY <2>3, <3>1, <3>2
  <2>10. CASE ParseInstruction(s) \/ ParseTransaction(s) \/ CountInstructionStat(s)
    <3>1. PICK c : /\ EndEvent(c)
                   /\ \/ \E k \in IxKeys : c = InstructionRecordParsed(co, s, k)
                      \/ c = TransactionParsed(co, s)
                      \/ c = InstructionStat(co, s)
      BY <2>10 DEF ParseInstruction, ParseTransaction, CountInstructionStat, EndEvent
    <3> QED
      BY <2>1, <2>4, <3>1, InstructionEvents
  <2>11. CASE ParseAccount(s) \/ CountAccountStat(s)
    <3>1. PICK c : /\ EndEvent(c)
                   /\ \/ \E k \in AcctKeys : c = AccountRecordParsed(co, s, k)
                      \/ c = AccountStat(co, s)
      BY <2>11 DEF ParseAccount, CountAccountStat, EndEvent
    <3> QED
      BY <2>1, <2>4, <3>1, AccountEvents
  <2> QED
    BY <2>2, <2>5, <2>6, <2>7, <2>8, <2>9, <2>10, <2>11 DEF Lifecycle, Parsed
<1>2. IndInv /\ [Next]_vars => [Stable]_vars
  BY <1>1
<1> QED
  BY Invariant, <1>2, PTL DEF Spec, AccountExpectationStable


(* state.rs:217 and state.rs:261, for every block tree and every order of  *)
(* inputs: neither output ever sends a slot at or behind one it has sent.  *)
THEOREM OutputsInOrder == Spec => OutputsAscend
BY InstructionsAscend, AccountsAscend, PTL DEF OutputsAscend
=============================================================================
