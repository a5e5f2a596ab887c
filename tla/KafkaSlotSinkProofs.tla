------------------------ MODULE KafkaSlotSinkProofs ------------------------
(***************************************************************************)
(* Theorems about KafkaSlotSink, for every set of processes, every number   *)
(* of slots and records and all retry limits.                               *)
(***************************************************************************)
EXTENDS KafkaSlotSink, TLAPS

(* Without transactions no process takes a step of the protocol.           *)
PlainOK(p) ==
    ~Transactional => /\ pc[p] \notin {"init", "begin", "commit", "abort"}
                      /\ txn[p] = "none" /\ owner # p

(* The state of the producer that each step of a process finds.            *)
TxnOK(p) ==
    Transactional =>
        /\ pc[p] = "off" => txn[p] = "none" /\ owner # p
        /\ pc[p] = "init" => txn[p] \in {"none", "ready"}
        /\ pc[p] \in {"scan", "idle"} => txn[p] = "ready"
        /\ pc[p] = "begin" => txn[p] # "none"
        /\ pc[p] \in {"publish", "checkpoint"} => txn[p] = "open"
        /\ pc[p] = "commit" => txn[p] \in {"open", "committing", "committed"}
        /\ pc[p] = "abort" => txn[p] \in {"open", "abortable"}

(* Where p stands: nothing is missing before n, and n is the next slot of   *)
(* the log unless p resumed from an older checkpoint.                      *)
PlaceAt(p, n) == Reached(n, Len(log)) /\ (p \notin behind => Latest(n))
Place(p) == PlaceAt(p, next[p])
PlaceAfter(p) == PlaceAt(p, next[p] + 1)

(* What the process that is not locked out has in its transaction.         *)
OwnerOK(p) ==
    Transactional /\ owner = p =>
        /\ txn[p] \in {"none", "ready", "committed"} => open = {}
        /\ txn[p] = "ready" /\ pc[p] \in {"idle", "begin"} => Place(p)
        /\ txn[p] \in {"open", "abortable", "committing"} =>
              Place(p) /\ open \subseteq Plan(next[p])
        /\ txn[p] = "committed" => PlaceAfter(p)
        /\ txn[p] = "committing" => open = Plan(next[p])
        /\ pc[p] = "checkpoint" => RecordsOf(next[p]) \subseteq open
        /\ pc[p] = "commit" /\ txn[p] = "open" => open = Plan(next[p])

InLog(item) == \E j \in 1..Len(log) : item \in log[j]

(* Without transactions: what a process has behind it is in the log.       *)
WrittenOK(p) ==
    ~Transactional =>
        /\ pc[p] \in {"idle", "publish", "checkpoint"} =>
              \A m \in 1..(next[p] - 1) : \A item \in RecordsOf(m) : InLog(item)
        /\ pc[p] = "checkpoint" => \A item \in RecordsOf(next[p]) : InLog(item)

(* The slot a process works on is one of the stream.                       *)
NextOK(p) ==
    pc[p] \in {"begin", "publish", "checkpoint", "commit", "abort"} =>
        next[p] \in Slots

TypeInv == TypeOK /\ \A p \in Processes : NextOK(p)

ProcOK(p) == PlainOK(p) /\ TxnOK(p) /\ OwnerOK(p) /\ WrittenOK(p)

IndInv ==
    /\ TypeInv /\ (\A p \in Processes : ProcOK(p))
    /\ EachSlotOnce /\ CheckpointCovers

-----------------------------------------------------------------------------
(* Items *)

LEMMA PlanFacts ==
    /\ \A m, n : CheckpointOf(m) \in Plan(n) => m = n
    /\ \A m, n : CheckpointOf(m) \notin RecordsOf(n)
    /\ \A m, n : CheckpointOf(m) = CheckpointOf(n) => m = n
<1>1. \A m, n : CheckpointOf(m) \notin RecordsOf(n)
  BY SinkAssumption DEF CheckpointOf, RecordsOf
<1>2. \A m, n : CheckpointOf(m) = CheckpointOf(n) => m = n
  BY DEF CheckpointOf
<1> QED
  BY <1>1, <1>2 DEF Plan

LEMMA PlanTypes ==
    \A n \in Slots : /\ RecordsOf(n) \in SUBSET Items
                     /\ CheckpointOf(n) \in Items
                     /\ Plan(n) \in SUBSET Items
<1> SUFFICES ASSUME NEW n \in Slots
             PROVE  /\ RecordsOf(n) \in SUBSET Items
                    /\ CheckpointOf(n) \in Items
                    /\ Plan(n) \in SUBSET Items
  OBVIOUS
<1>1. RecordsOf(n) \in SUBSET Items
  BY DEF RecordsOf, Items
<1>2. CheckpointOf(n) \in Items
  BY DEF CheckpointOf, Items
<1> QED
  BY <1>1, <1>2 DEF Plan

-----------------------------------------------------------------------------
(* What a step does to the variables of the processes *)

Moves(p) ==
    /\ pc' \in [Processes -> Labels]
    /\ next' \in [Processes -> 1..(MaxSlot + 1)]
    /\ attempt' \in [Processes -> 1..WriteAttempts]
    /\ op' \in [Processes -> 1..OpAttempts]
    /\ \A q \in Processes \ {p} : pc'[q] = pc[q] /\ next'[q] = next[q]

LEMMA GotoFacts ==
    ASSUME TypeOK, NEW p \in Processes, NEW l \in Labels, Goto(p, l)
    PROVE  /\ pc' \in [Processes -> Labels] /\ op' \in [Processes -> 1..OpAttempts]
           /\ pc'[p] = l /\ \A q \in Processes \ {p} : pc'[q] = pc[q]
<1>1. 1 \in 1..OpAttempts
  BY SinkAssumption
<1> QED
  BY <1>1 DEF Goto, TypeOK

LEMMA GotoMoves ==
    ASSUME TypeOK, NEW p \in Processes, NEW l \in Labels, Goto(p, l),
           UNCHANGED <<next, attempt>>
    PROVE  Moves(p) /\ pc'[p] = l /\ next' = next
BY GotoFacts DEF Moves, TypeOK

LEMMA FailMoves ==
    ASSUME TypeOK, NEW p \in Processes, FailAttempt(p)
    PROVE  /\ Moves(p) /\ next' = next
           /\ \/ Transactional /\ pc'[p] = "begin"
              \/ ~Transactional /\ pc'[p] = "publish"
              \/ pc'[p] = "failed"
<1> DEFINE again == IF Transactional THEN "begin" ELSE "publish"
<1>1. next' = next
  BY DEF FailAttempt
<1>2. CASE /\ attempt[p] < WriteAttempts
           /\ attempt' = [attempt EXCEPT ![p] = @ + 1]
           /\ Goto(p, again)
  <2>1. again \in Labels
    BY DEF Labels
  <2>2. attempt[p] + 1 \in 1..WriteAttempts
    BY <1>2, SinkAssumption DEF TypeOK
  <2>3. attempt' \in [Processes -> 1..WriteAttempts]
    BY <1>2, <2>2 DEF TypeOK
  <2> HIDE DEF again
  <2>4. /\ pc' \in [Processes -> Labels] /\ op' \in [Processes -> 1..OpAttempts]
        /\ pc'[p] = again /\ \A q \in Processes \ {p} : pc'[q] = pc[q]
    BY <1>2, <2>1, GotoFacts
  <2>5. Moves(p)
    BY <2>3, <2>4, <1>1 DEF Moves, TypeOK
  <2> QED
    BY <2>4, <2>5, <1>1 DEF again
<1>3. CASE Goto(p, "failed") /\ UNCHANGED attempt
  <2>1. "failed" \in Labels
    BY DEF Labels
  <2> QED
    BY <1>1, <1>3, <2>1, GotoMoves
<1> QED
  BY <1>2, <1>3 DEF FailAttempt

LEMMA RetryMoves ==
    ASSUME TypeOK, NEW p \in Processes, RetryOp(p)
    PROVE  Moves(p) /\ pc' = pc /\ next' = next
<1>1. op[p] + 1 \in 1..OpAttempts
  BY SinkAssumption DEF RetryOp, TypeOK
<1>2. op' \in [Processes -> 1..OpAttempts]
  BY <1>1 DEF RetryOp, TypeOK
<1> QED
  BY <1>2 DEF RetryOp, Moves, TypeOK

LEMMA WrittenMoves ==
    ASSUME TypeOK, NEW p \in Processes, next[p] \in Slots, SlotWritten(p)
    PROVE  Moves(p) /\ pc'[p] = "idle" /\ next'[p] = next[p] + 1
<1>1. "idle" \in Labels
  BY DEF Labels
<1>2. next[p] + 1 \in 1..(MaxSlot + 1)
  BY SinkAssumption DEF Slots
<1>3. /\ next' = [next EXCEPT ![p] = next[p] + 1] /\ UNCHANGED attempt
      /\ Goto(p, "idle")
  BY DEF SlotWritten
<1>4. next' \in [Processes -> 1..(MaxSlot + 1)] /\ next'[p] = next[p] + 1
  BY <1>2, <1>3 DEF TypeOK
<1>5. \A q \in Processes \ {p} : next'[q] = next[q]
  BY <1>3 DEF TypeOK
<1>6. /\ pc' \in [Processes -> Labels] /\ op' \in [Processes -> 1..OpAttempts]
      /\ pc'[p] = "idle" /\ \A q \in Processes \ {p} : pc'[q] = pc[q]
  BY <1>1, <1>3, GotoFacts
<1> QED
  BY <1>3, <1>4, <1>5, <1>6 DEF Moves, TypeOK

LEMMA TxnMoves ==
    ASSUME TypeOK, NEW p \in Processes, NEW s \in TxnStates, SetTxn(p, s)
    PROVE  /\ txn' \in [Processes -> TxnStates] /\ txn'[p] = s
           /\ \A q \in Processes \ {p} : txn'[q] = txn[q]
BY DEF SetTxn, TypeOK

-----------------------------------------------------------------------------
(* A step of p as the other processes see it *)

Isolated(p) ==
    /\ Moves(p) /\ delivery' = delivery
    /\ \A q \in Processes \ {p} : txn'[q] = txn[q]
    /\ owner' = owner \/ (Transactional /\ owner' = p)
    /\ Transactional /\ owner # p => log' = log /\ (owner' = owner => open' = open)
    /\ log' = log \/ \E batch \in SUBSET Items : log' = Append(log, batch)
    /\ behind' = behind \/ behind' = behind \cup {p}

(* Where a process stands depends on the log and its own scan only.        *)
LEMMA PlaceKept ==
    ASSUME NEW p, log' = log, next'[p] = next[p],
           p \in behind' <=> p \in behind
    PROVE  /\ Place(p) => Place(p)'
           /\ PlaceAfter(p) => PlaceAfter(p)'
BY DEF Place, PlaceAfter, PlaceAt, Reached, Latest

LEMMA PlaceNext ==
    ASSUME NEW p, PlaceAfter(p), log' = log, next'[p] = next[p] + 1,
           p \in behind' <=> p \in behind
    PROVE  Place(p)'
BY DEF Place, PlaceAfter, PlaceAt, Reached, Latest

LEMMA LogKept ==
    ASSUME TypeOK, NEW p, Isolated(p), NEW item, InLog(item)
    PROVE  InLog(item)'
<1>1. PICK j \in 1..Len(log) : item \in log[j]
  BY DEF InLog
<1>2. log \in Seq(SUBSET Items) /\ Len(log) \in Nat
  BY DEF TypeOK
<1>3. CASE log' = log
  BY <1>1, <1>3 DEF InLog
<1>4. ASSUME NEW batch \in SUBSET Items, log' = Append(log, batch)
      PROVE  InLog(item)'
  <2>1. j \in 1..Len(log') /\ log'[j] = log[j]
    BY <1>1, <1>2, <1>4
  <2> QED
    BY <1>1, <2>1 DEF InLog
<1> QED
  BY <1>3, <1>4 DEF Isolated

LEMMA OthersKept ==
    ASSUME IndInv, NEW p \in Processes, Isolated(p), NEW q \in Processes \ {p}
    PROVE  NextOK(q)' /\ ProcOK(q)'
<1>1. /\ pc'[q] = pc[q] /\ next'[q] = next[q] /\ txn'[q] = txn[q]
      /\ delivery' = delivery
  BY DEF Isolated, Moves
<1>2. NextOK(q) /\ ProcOK(q) /\ TypeOK
  BY DEF IndInv, TypeInv
<1>3. owner' = q => owner = q
  BY DEF Isolated
<1>4. Transactional /\ owner' = q => owner = q /\ open' = open /\ log' = log
  BY <1>3 DEF Isolated
<1>5. NextOK(q)' /\ TxnOK(q)' /\ PlainOK(q)'
  BY <1>1, <1>2, <1>3 DEF NextOK, ProcOK, TxnOK, PlainOK, Transactional
<1>6. OwnerOK(q)'
  <2> SUFFICES ASSUME Transactional, owner' = q
               PROVE  OwnerOK(q)'
    BY <1>1 DEF OwnerOK, Transactional
  <2>1. q \in behind' <=> q \in behind
    BY DEF Isolated
  <2>2. (Place(q) => Place(q)') /\ (PlaceAfter(q) => PlaceAfter(q)')
    BY <1>1, <1>4, <2>1, PlaceKept
  <2> QED
    BY <1>1, <1>2, <1>4, <2>2 DEF ProcOK, OwnerOK, Transactional
<1>7. WrittenOK(q)'
  <2>1. WrittenOK(q)
    BY <1>2 DEF ProcOK
  <2> QED
    BY <1>1, <1>2, <2>1, LogKept DEF WrittenOK, Transactional
<1> QED
  BY <1>5, <1>6, <1>7 DEF ProcOK

(* A step of p keeps the invariant if it keeps the parts about p and log.  *)
LEMMA Conclude ==
    ASSUME IndInv, NEW p \in Processes, Isolated(p),
           txn' \in [Processes -> TxnStates], owner' \in Processes \cup {0},
           open' \in SUBSET Items, NextOK(p)', ProcOK(p)',
           EachSlotOnce', CheckpointCovers'
    PROVE  IndInv'
<1>1. log' \in Seq(SUBSET Items)
  <2>1. log \in Seq(SUBSET Items)
    BY DEF IndInv, TypeInv, TypeOK
  <2> QED
    BY <2>1 DEF Isolated
<1>2. TypeOK'
  BY <1>1 DEF TypeOK, Isolated, Moves, IndInv, TypeInv
<1>3. \A q \in Processes : NextOK(q)' /\ ProcOK(q)'
  BY OthersKept
<1> QED
  BY <1>2, <1>3 DEF IndInv, TypeInv

LEMMA QuietLog ==
    ASSUME EachSlotOnce, CheckpointCovers, log' = log, delivery' = delivery,
           behind \subseteq behind'
    PROVE  EachSlotOnce' /\ CheckpointCovers'
<1>1. behind' = {} => behind = {}
  OBVIOUS
<1> QED
  BY <1>1 DEF EachSlotOnce, Reached, CheckpointCovers, Transactional

LEMMA Known ==
    ASSUME IndInv, NEW p \in Processes
    PROVE  /\ TypeOK /\ NextOK(p) /\ PlainOK(p) /\ TxnOK(p) /\ OwnerOK(p)
           /\ WrittenOK(p) /\ EachSlotOnce /\ CheckpointCovers
BY DEF IndInv, TypeInv, ProcOK

(* A step that leaves the log alone.                                       *)
LEMMA QuietStep ==
    ASSUME IndInv, NEW p \in Processes, Moves(p), delivery' = delivery,
           txn' \in [Processes -> TxnStates],
           \A q \in Processes \ {p} : txn'[q] = txn[q],
           log' = log, open' \in SUBSET Items,
           behind' = behind \/ behind' = behind \cup {p},
           \/ owner' = owner /\ (owner # p => open' = open)
           \/ Transactional /\ owner' = p,
           NextOK(p)', ProcOK(p)'
    PROVE  IndInv'
<1>1. owner' \in Processes \cup {0}
  BY Known DEF TypeOK
<1>2. owner = p \/ owner # p
  OBVIOUS
<1>3. Isolated(p)
  BY <1>2 DEF Isolated
<1>4. EachSlotOnce' /\ CheckpointCovers'
  BY Known, QuietLog
<1> QED
  BY <1>1, <1>3, <1>4, Conclude

(* The same when the producer is left alone as well.                       *)
LEMMA ControlStep ==
    ASSUME IndInv, NEW p \in Processes, Moves(p),
           UNCHANGED <<delivery, txn, owner, open, log>>,
           behind' = behind \/ behind' = behind \cup {p},
           NextOK(p)', ProcOK(p)'
    PROVE  IndInv'
<1>1. open \in SUBSET Items /\ txn \in [Processes -> TxnStates]
  BY Known DEF TypeOK
<1> QED
  BY <1>1, QuietStep

-----------------------------------------------------------------------------
(* The actions *)

LEMMA StartStep ==
    ASSUME IndInv, NEW p \in Processes, Start(p)
    PROVE  IndInv'
<1>1. /\ pc[p] = "off" /\ Goto(p, StartUpOrder.off)
      /\ UNCHANGED <<delivery, behind, next, attempt, txn, owner, open, log>>
  BY DEF Start, At
<1>2. StartUpOrder.off = IF Transactional THEN "init" ELSE "scan"
  BY DEF StartUpOrder
<1>3. StartUpOrder.off \in Labels
  BY <1>2 DEF Labels
<1>4. Moves(p) /\ pc'[p] = StartUpOrder.off /\ next' = next
  BY <1>1, <1>3, Known, GotoMoves
<1>5. NextOK(p)' /\ TxnOK(p)' /\ PlainOK(p)'
  BY <1>1, <1>2, <1>4, Known DEF NextOK, TxnOK, PlainOK, Transactional
<1>6. OwnerOK(p)' /\ WrittenOK(p)'
  BY <1>1, <1>2, <1>4, Known DEF TxnOK, OwnerOK, WrittenOK, Transactional
<1> QED
  BY <1>1, <1>4, <1>5, <1>6, ControlStep DEF ProcOK

LEMMA InitStep ==
    ASSUME IndInv, NEW p \in Processes, InitTransactions(p)
    PROVE  IndInv'
<1>1. /\ pc[p] = "init" /\ delivery' = delivery /\ log' = log
      /\ behind' = behind
      /\ Transactional /\ txn[p] \in {"none", "ready"}
  BY Known DEF InitTransactions, At, PlainOK, TxnOK
<1>2. /\ {} \in SUBSET Items /\ open \in SUBSET Items
      /\ txn \in [Processes -> TxnStates]
      /\ "ready" \in TxnStates /\ "scan" \in Labels /\ "failed" \in Labels
      /\ StartUpOrder.init = "scan"
  BY Known DEF TypeOK, TxnStates, Labels, StartUpOrder
<1>3. owner = p => open = {}
  BY <1>1, Known DEF OwnerOK
<1>4. /\ Moves(p) /\ pc'[p] \in {"scan", "init", "failed"}
      /\ pc'[p] = "scan" => txn'[p] = "ready"
      /\ \/ owner' = p /\ open' = {} /\ SetTxn(p, "ready")
         \/ UNCHANGED <<txn, owner, open>>
  <2>1. CASE /\ Fence(p) /\ SetTxn(p, "ready") /\ Goto(p, StartUpOrder.init)
             /\ UNCHANGED <<next, attempt>>
    BY <1>2, <2>1, Known, GotoMoves, TxnMoves DEF Fence
  <2>2. CASE /\ txn[p] = "ready" /\ Goto(p, StartUpOrder.init)
             /\ UNCHANGED <<next, attempt, txn, owner, open>>
    BY <1>2, <2>2, Known, GotoMoves
  <2>3. CASE /\ (Fence(p) /\ SetTxn(p, "ready")) \/ UNCHANGED <<txn, owner, open>>
             /\ \/ RetryOp(p)
                \/ Goto(p, "failed") /\ UNCHANGED <<next, attempt>>
    <3>1. Moves(p) /\ pc'[p] \in {"init", "failed"}
      BY <1>1, <1>2, <2>3, Known, RetryMoves, GotoMoves
    <3> QED
      BY <2>3, <3>1 DEF Fence
  <2> QED
    BY <2>1, <2>2, <2>3 DEF InitTransactions
<1>5. /\ txn' \in [Processes -> TxnStates] /\ txn'[p] \in {"none", "ready"}
      /\ \A q \in Processes \ {p} : txn'[q] = txn[q]
      /\ open' \in SUBSET Items /\ (owner' = p => open' = {})
      /\ owner' = p \/ (owner' = owner /\ open' = open)
  BY <1>1, <1>2, <1>3, <1>4, Known, TxnMoves
<1>6. NextOK(p)' /\ TxnOK(p)' /\ PlainOK(p)' /\ WrittenOK(p)'
  BY <1>1, <1>4, <1>5 DEF NextOK, TxnOK, PlainOK, WrittenOK, Transactional
<1>7. OwnerOK(p)'
  BY <1>1, <1>4, <1>5 DEF OwnerOK, Transactional
<1> QED
  BY <1>1, <1>4, <1>5, <1>6, <1>7, QuietStep DEF ProcOK

(* A batch of a log of whole slots is the slot its checkpoint names.       *)
LEMMA WholeBatch ==
    ASSUME EachSlotOnce, Transactional, NEW k \in 1..Len(log), NEW n \in Slots,
           CheckpointOf(n) \in log[k]
    PROVE  log[k] = Plan(n) /\ Reached(n, k - 1)
<1>1. PICK m \in Slots : log[k] = Plan(m) /\ Reached(m, k - 1)
  BY DEF EachSlotOnce
<1>2. m = n
  BY <1>1, PlanFacts
<1> QED
  BY <1>1, <1>2

(* So is the last checkpoint found in its first batches: no slot up to it  *)
(* is missing, and in the whole log it is that of the last batch.          *)
LEMMA WholeScan ==
    ASSUME TypeOK, EachSlotOnce, Transactional, NEW k \in 0..Len(log),
           NEW n \in Slots \cup {0}, LastCheckpoint(k, n)
    PROVE  /\ Reached(n + 1, Len(log))
           /\ k = Len(log) => Latest(n + 1)
<1> DEFINE L == Len(log)
<1>1. L \in Nat /\ log \in Seq(SUBSET Items) /\ n \in Nat /\ k \in Nat
      /\ n + 1 - 1 = n
  BY SinkAssumption DEF TypeOK, Slots
<1>2. \A i \in 1..L : \E m \in Slots : CheckpointOf(m) \in log[i]
  BY DEF EachSlotOnce, Plan
<1>3. CASE n = 0 /\ NoCheckpointIn(1, k)
  <2>1. Reached(n + 1, L)
    BY <1>1, <1>3 DEF Reached
  <2>2. ASSUME k = L
        PROVE  log = <<>>
    <3>1. L \notin 1..L
      BY <1>2, <1>3, <2>2 DEF NoCheckpointIn
    <3> QED
      BY <1>1, <3>1
  <2> QED
    BY <1>3, <2>1, <2>2 DEF Latest
<1>4. ASSUME NEW j \in 1..k, n \in Slots, CheckpointOf(n) \in log[j],
             NoCheckpointIn(j + 1, k)
      PROVE  Reached(n + 1, L) /\ (k = L => Latest(n + 1))
  <2>1. j \in 1..L
    BY <1>1
  <2>2. log[j] = Plan(n) /\ Reached(n, j - 1)
    BY <1>4, <2>1, WholeBatch
  <2>3. Reached(n + 1, L)
    <3> SUFFICES ASSUME NEW m \in 1..n
                 PROVE  \E i \in 1..L : log[i] = Plan(m)
      BY <1>1 DEF Reached
    <3>1. CASE m = n
      BY <2>1, <2>2, <3>1
    <3>2. CASE m \in 1..(n - 1)
      <4>1. PICK i \in 1..(j - 1) : log[i] = Plan(m)
        BY <2>2, <3>2 DEF Reached
      <4>2. i \in 1..L
        BY <1>1, <2>1, <4>1
      <4> QED
        BY <4>1, <4>2
    <3> QED
      BY <1>1, <3>1, <3>2
  <2>4. ASSUME k = L
        PROVE  Latest(n + 1)
    <3>1. L \notin (j + 1)..L
      <4> SUFFICES ASSUME L \in (j + 1)..L PROVE FALSE
        OBVIOUS
      <4>1. L \in 1..L
        BY <1>1, <2>1
      <4> QED
        BY <1>2, <1>4, <2>4, <4>1 DEF NoCheckpointIn
    <3>2. j = L
      BY <1>1, <2>1, <3>1
    <3>3. log # <<>>
      BY <1>1, <2>1
    <3> QED
      BY <1>1, <2>2, <3>2, <3>3 DEF Latest
  <2> QED
    BY <2>3, <2>4
<1> QED
  BY <1>3, <1>4 DEF LastCheckpoint

LEMMA ReadStep ==
    ASSUME IndInv, NEW p \in Processes, ReadCheckpoint(p)
    PROVE  IndInv'
<1>1. /\ pc[p] = "scan"
      /\ UNCHANGED <<delivery, attempt, txn, owner, open, log>>
  BY DEF ReadCheckpoint, At
<1>2. "idle" \in Labels /\ "failed" \in Labels /\ StartUpOrder.scan = "idle"
  BY DEF Labels, StartUpOrder
<1>3. ASSUME NEW k \in 0..Len(log), NEW n \in Slots \cup {0},
             LastCheckpoint(k, n), n = 0 => LastCheckpoint(Len(log), 0),
             next' = [next EXCEPT ![p] = n + 1],
             behind' = IF LastCheckpoint(Len(log), n)
                       THEN behind ELSE behind \cup {p},
             Goto(p, StartUpOrder.scan)
      PROVE  IndInv'
  <2>1. /\ pc' \in [Processes -> Labels] /\ op' \in [Processes -> 1..OpAttempts]
        /\ pc'[p] = "idle" /\ \A q \in Processes \ {p} : pc'[q] = pc[q]
    BY <1>2, <1>3, Known, GotoFacts
  <2>2. n + 1 \in 1..(MaxSlot + 1) /\ n \in Nat
    BY SinkAssumption DEF Slots
  <2>3. /\ next' \in [Processes -> 1..(MaxSlot + 1)] /\ next'[p] = n + 1
        /\ \A q \in Processes \ {p} : next'[q] = next[q]
    BY <1>3, <2>2, Known DEF TypeOK
  <2>4. Moves(p)
    BY <1>1, <2>1, <2>3, Known DEF Moves, TypeOK
  <2>5. NextOK(p)' /\ TxnOK(p)' /\ PlainOK(p)'
    BY <1>1, <2>1, Known DEF NextOK, TxnOK, PlainOK, Transactional
  <2>6. /\ behind' = behind \/ behind' = behind \cup {p}
        /\ p \notin behind' => LastCheckpoint(Len(log), n)
    BY <1>3
  <2>7. Transactional => Place(p)'
    <3> SUFFICES ASSUME Transactional
                 PROVE  Place(p)'
      OBVIOUS
    <3>1. Len(log) \in 0..Len(log)
      BY Known DEF TypeOK
    <3>2. Reached(n + 1, Len(log))
      BY <1>3, Known, WholeScan
    <3>3. LastCheckpoint(Len(log), n) => Latest(n + 1)
      BY <3>1, Known, WholeScan
    <3> QED
      BY <1>1, <2>3, <2>6, <3>2, <3>3 DEF Place, PlaceAt, Reached, Latest
  <2>8. OwnerOK(p)'
    BY <1>1, <2>1, <2>7, Known DEF TxnOK, OwnerOK, Transactional
  <2>9. WrittenOK(p)'
    <3> SUFFICES ASSUME ~Transactional, NEW m \in 1..n, NEW item \in RecordsOf(m)
                 PROVE  InLog(item)
      BY <1>1, <2>1, <2>2, <2>3 DEF WrittenOK, InLog, Transactional
    <3>1. n # 0
      BY <2>2
    <3>2. PICK j \in 1..k : n \in Slots /\ CheckpointOf(n) \in log[j]
      BY <1>3, <3>1 DEF LastCheckpoint
    <3>3. j \in 1..Len(log)
      BY Known DEF TypeOK
    <3>4. PICK i \in 1..j : item \in log[i]
      BY <3>2, <3>3, Known DEF CheckpointCovers
    <3>5. i \in 1..Len(log)
      BY <3>3, <3>4
    <3> QED
      BY <3>4, <3>5 DEF InLog
  <2> QED
    BY <1>1, <2>4, <2>5, <2>6, <2>8, <2>9, ControlStep DEF ProcOK
<1>4. CASE Goto(p, "failed") /\ UNCHANGED <<next, behind>>
  <2>1. Moves(p) /\ pc'[p] = "failed" /\ next' = next
    BY <1>1, <1>2, <1>4, Known, GotoMoves
  <2>2. NextOK(p)' /\ TxnOK(p)' /\ PlainOK(p)' /\ WrittenOK(p)'
    BY <1>1, <2>1, Known DEF NextOK, TxnOK, PlainOK, WrittenOK, Transactional
  <2>3. OwnerOK(p)'
    BY <1>1, <1>4, <2>1, Known, PlaceKept DEF TxnOK, OwnerOK, Transactional
  <2> QED
    BY <1>1, <1>4, <2>1, <2>2, <2>3, ControlStep DEF ProcOK
<1> QED
  BY <1>3, <1>4 DEF ReadCheckpoint

LEMMA TakeStep ==
    ASSUME IndInv, NEW p \in Processes, TakeSlot(p)
    PROVE  IndInv'
<1> DEFINE l == IF Transactional THEN "begin" ELSE "publish"
<1>1. /\ pc[p] = "idle" /\ next[p] \in Slots /\ Goto(p, l)
      /\ attempt' = [attempt EXCEPT ![p] = 1]
      /\ UNCHANGED <<delivery, behind, next, txn, owner, open, log>>
  BY DEF TakeSlot, At
<1>2. l \in Labels /\ 1 \in 1..WriteAttempts
  BY SinkAssumption DEF Labels
<1>3. attempt' \in [Processes -> 1..WriteAttempts]
  BY <1>1, <1>2, Known DEF TypeOK
<1> HIDE DEF l
<1>4. /\ pc' \in [Processes -> Labels] /\ op' \in [Processes -> 1..OpAttempts]
      /\ pc'[p] = l /\ \A q \in Processes \ {p} : pc'[q] = pc[q]
  BY <1>1, <1>2, Known, GotoFacts
<1>5. Moves(p)
  BY <1>1, <1>3, <1>4, Known DEF Moves, TypeOK
<1>6. NextOK(p)' /\ TxnOK(p)' /\ PlainOK(p)'
  BY <1>1, <1>4, Known DEF NextOK, TxnOK, PlainOK, Transactional, l
<1>7. OwnerOK(p)'
  BY <1>1, <1>4, Known, PlaceKept DEF TxnOK, OwnerOK, Transactional, l
<1>8. WrittenOK(p)'
  BY <1>1, <1>4, Known DEF WrittenOK, InLog, Transactional, l
<1> QED
  BY <1>1, <1>5, <1>6, <1>7, <1>8, ControlStep DEF ProcOK

(* The end of a process, orderly or not.                                   *)
LEMMA EndStep ==
    ASSUME IndInv, NEW p \in Processes, ChannelClosed(p) \/ Crash(p)
    PROVE  IndInv'
<1>1. PICK l \in {"done", "crashed"} : Goto(p, l)
  BY DEF ChannelClosed, Crash
<1>2. UNCHANGED <<delivery, behind, next, attempt, txn, owner, open, log>>
  BY DEF ChannelClosed, Crash
<1>3. l \in Labels
  BY DEF Labels
<1>4. Moves(p) /\ pc'[p] = l /\ next' = next
  BY <1>1, <1>2, <1>3, Known, GotoMoves
<1>5. NextOK(p)' /\ TxnOK(p)' /\ PlainOK(p)' /\ WrittenOK(p)'
  BY <1>2, <1>4, Known DEF NextOK, TxnOK, PlainOK, WrittenOK, Transactional
<1>6. OwnerOK(p)'
  BY <1>2, <1>4, Known, PlaceKept DEF OwnerOK, Transactional
<1> QED
  BY <1>2, <1>4, <1>5, <1>6, ControlStep DEF ProcOK

LEMMA BeginStep ==
    ASSUME IndInv, NEW p \in Processes, Begin(p)
    PROVE  IndInv'
<1>1. /\ pc[p] = "begin" /\ Transactional /\ next[p] \in Slots
      /\ UNCHANGED <<delivery, behind, owner, open, log>>
  BY Known DEF Begin, At, PlainOK, NextOK
<1>2. CASE /\ txn[p] = "ready" /\ SetTxn(p, "open") /\ Goto(p, "publish")
           /\ UNCHANGED <<next, attempt>>
  <2>1. "open" \in TxnStates /\ "publish" \in Labels /\ open \in SUBSET Items
    BY Known DEF TxnStates, Labels, TypeOK
  <2>2. Moves(p) /\ pc'[p] = "publish" /\ next' = next
    BY <1>2, <2>1, Known, GotoMoves
  <2>3. /\ txn' \in [Processes -> TxnStates] /\ txn'[p] = "open"
        /\ \A q \in Processes \ {p} : txn'[q] = txn[q]
    BY <1>2, <2>1, Known, TxnMoves
  <2>4. NextOK(p)' /\ TxnOK(p)' /\ PlainOK(p)' /\ WrittenOK(p)'
    BY <1>1, <2>2, <2>3 DEF NextOK, TxnOK, PlainOK, WrittenOK, Transactional
  <2>5. OwnerOK(p)'
    BY <1>1, <1>2, <2>2, <2>3, Known, PlaceKept DEF OwnerOK, Transactional
  <2> QED
    BY <1>1, <2>1, <2>2, <2>3, <2>4, <2>5, QuietStep DEF ProcOK
<1>3. CASE (RetryOp(p) \/ FailAttempt(p)) /\ UNCHANGED txn
  <2>1. Moves(p) /\ pc'[p] \in {"begin", "failed"} /\ next' = next
    BY <1>1, <1>3, Known, RetryMoves, FailMoves
  <2>2. NextOK(p)' /\ TxnOK(p)' /\ PlainOK(p)' /\ WrittenOK(p)'
    BY <1>1, <1>3, <2>1, Known DEF NextOK, TxnOK, PlainOK, WrittenOK, Transactional
  <2>3. OwnerOK(p)'
    BY <1>1, <1>3, <2>1, Known, PlaceKept DEF OwnerOK, Transactional
  <2> QED
    BY <1>1, <1>3, <2>1, <2>2, <2>3, ControlStep DEF ProcOK
<1> QED
  BY <1>2, <1>3 DEF Begin

(* A batch appended to the log without transactions.                       *)
LEMMA AppendCovers ==
    ASSUME TypeOK, CheckpointCovers, NEW sent \in SUBSET Items,
           log' = Append(log, sent),
           \A n \in Slots : CheckpointOf(n) \in sent =>
              \A m \in 1..n : \A item \in RecordsOf(m) : InLog(item)
    PROVE  CheckpointCovers'
<1>1. /\ log \in Seq(SUBSET Items) /\ Len(log) \in Nat
      /\ Len(log') = Len(log) + 1 /\ log'[Len(log) + 1] = sent
      /\ \A k \in 1..Len(log) : log'[k] = log[k]
  BY DEF TypeOK
<1> SUFFICES ASSUME NEW k \in 1..(Len(log) + 1), NEW n \in Slots,
                    CheckpointOf(n) \in log'[k],
                    NEW m \in 1..n, NEW item \in RecordsOf(m)
             PROVE  \E j \in 1..k : item \in log'[j]
  BY <1>1 DEF CheckpointCovers
<1>2. CASE k \in 1..Len(log)
  <2>1. PICK j \in 1..k : item \in log[j]
    BY <1>1, <1>2 DEF CheckpointCovers
  <2>2. log'[j] = log[j]
    BY <1>1, <1>2, <2>1
  <2> QED
    BY <2>1, <2>2
<1>3. CASE k = Len(log) + 1
  <2>1. PICK j \in 1..Len(log) : item \in log[j]
    BY <1>1, <1>3 DEF InLog
  <2>2. log'[j] = log[j] /\ j \in 1..k
    BY <1>1, <1>3, <2>1
  <2> QED
    BY <2>1, <2>2
<1> QED
  BY <1>1, <1>2, <1>3

(* A step without transactions that delivers sent.                         *)
LEMMA PlainStep ==
    ASSUME IndInv, ~Transactional, NEW p \in Processes, Moves(p),
           NEW sent \in SUBSET Items, Deliver(p, sent),
           UNCHANGED <<delivery, behind, txn, owner>>,
           \A n \in Slots : CheckpointOf(n) \in sent =>
              \A m \in 1..n : \A item \in RecordsOf(m) : InLog(item),
           NextOK(p)', ProcOK(p)'
    PROVE  IndInv'
<1>1. open' = open /\ (log' = log \/ log' = Append(log, sent))
  BY DEF Deliver
<1>2. CheckpointCovers'
  BY <1>1, Known, AppendCovers, QuietLog
<1>3. EachSlotOnce'
  BY DEF EachSlotOnce, Transactional
<1>4. Isolated(p)
  BY <1>1 DEF Isolated
<1>5. /\ txn' \in [Processes -> TxnStates] /\ owner' \in Processes \cup {0}
      /\ open' \in SUBSET Items
  BY <1>1, Known DEF TypeOK
<1> QED
  BY <1>2, <1>3, <1>4, <1>5, Conclude

(* After a delivery of sent, what was in the log and sent itself are in it. *)
LEMMA Delivered ==
    ASSUME TypeOK, ~Transactional, NEW p, NEW sent \in SUBSET Items,
           Deliver(p, sent), NEW item, InLog(item) \/ item \in sent
    PROVE  InLog(item)'
<1>1. log \in Seq(SUBSET Items) /\ Len(log) \in Nat
  BY DEF TypeOK
<1>2. CASE log' = log /\ sent = {}
  BY <1>2 DEF InLog
<1>3. CASE log' = Append(log, sent)
  <2>1. /\ Len(log') = Len(log) + 1 /\ log'[Len(log) + 1] = sent
        /\ \A k \in 1..Len(log) : log'[k] = log[k] /\ k \in 1..Len(log')
        /\ Len(log) + 1 \in 1..Len(log')
    BY <1>1, <1>3
  <2>2. CASE InLog(item)
    <3>1. PICK j \in 1..Len(log) : item \in log[j]
      BY <2>2 DEF InLog
    <3>2. j \in 1..Len(log') /\ item \in log'[j]
      BY <2>1, <3>1
    <3> QED
      BY <3>2 DEF InLog
  <2>3. CASE item \in sent
    <3>1. item \in log'[Len(log) + 1]
      BY <2>1, <2>3
    <3> QED
      BY <2>1, <3>1 DEF InLog
  <2> QED
    BY <2>2, <2>3
<1> QED
  BY <1>2, <1>3 DEF Deliver

LEMMA PublishLabels ==
    /\ {"publish", "checkpoint", "commit", "abort", "idle", "begin", "failed"}
          \subseteq Labels
    /\ {"ready", "open", "abortable", "committing", "committed"} \subseteq TxnStates
BY DEF Labels, TxnStates

(* A delivery with transactions.                                           *)
LEMMA TxnPublish ==
    ASSUME IndInv, Transactional, NEW p \in Processes, Moves(p), next' = next,
           pc[p] \in {"publish", "checkpoint"},
           NEW sent \in SUBSET Plan(next[p]), Deliver(p, sent),
           UNCHANGED <<delivery, behind, txn, owner>>,
           \/ pc'[p] = "abort"
           \/ pc'[p] = "checkpoint" /\ RecordsOf(next[p]) \subseteq sent
           \/ /\ pc[p] = "checkpoint" /\ pc'[p] = "commit"
              /\ CheckpointOf(next[p]) \in sent
    PROVE  IndInv'
<1>1. next[p] \in Slots /\ txn[p] = "open"
  BY Known DEF NextOK, TxnOK
<1>2. /\ log' = log /\ (owner # p => open' = open)
      /\ (owner = p => open' = open \cup sent)
  BY DEF Deliver
<1>3. open' \in SUBSET Items /\ txn \in [Processes -> TxnStates]
  <2>1. sent \in SUBSET Items /\ open \in SUBSET Items
    BY <1>1, PlanTypes, Known DEF TypeOK
  <2>2. owner = p \/ owner # p
    OBVIOUS
  <2> QED
    BY <1>2, <2>1, <2>2, Known DEF TypeOK
<1>4. NextOK(p)' /\ TxnOK(p)' /\ PlainOK(p)' /\ WrittenOK(p)'
  BY <1>1 DEF NextOK, TxnOK, PlainOK, WrittenOK, Transactional
<1>5. OwnerOK(p)'
  <2> SUFFICES ASSUME owner = p
               PROVE  OwnerOK(p)'
    BY DEF OwnerOK
  <2>1. /\ Place(p) /\ open \subseteq Plan(next[p])
        /\ pc[p] = "checkpoint" => RecordsOf(next[p]) \subseteq open
    BY <1>1, Known DEF OwnerOK
  <2>5. Place(p)'
    BY <1>2, <2>1, PlaceKept
  <2>2. open' = open \cup sent /\ open' \subseteq Plan(next[p])
    BY <1>2, <2>1
  <2>3. pc'[p] = "checkpoint" => RecordsOf(next[p]) \subseteq open'
    BY <2>2
  <2>4. pc'[p] = "commit" => open' = Plan(next[p])
    BY <2>1, <2>2 DEF Plan
  <2> QED
    BY <1>1, <1>2, <2>2, <2>3, <2>4, <2>5 DEF OwnerOK, RecordsOf, Plan, CheckpointOf
<1> QED
  BY <1>2, <1>3, <1>4, <1>5, QuietStep DEF ProcOK

(* A delivery without.                                                     *)
LEMMA PlainPublish ==
    ASSUME IndInv, ~Transactional, NEW p \in Processes, Moves(p),
           pc[p] \in {"publish", "checkpoint"},
           NEW sent \in SUBSET Plan(next[p]), Deliver(p, sent),
           CheckpointOf(next[p]) \in sent => pc[p] = "checkpoint",
           UNCHANGED <<delivery, behind, txn, owner>>,
           \/ pc'[p] \in {"publish", "failed"} /\ next' = next
           \/ /\ pc'[p] = "checkpoint" /\ next' = next
              /\ RecordsOf(next[p]) \subseteq sent
           \/ /\ pc[p] = "checkpoint" /\ pc'[p] = "idle"
              /\ next'[p] = next[p] + 1
    PROVE  IndInv'
<1>1. next[p] \in Slots /\ next[p] \in Nat \ {0} /\ TypeOK
  BY Known DEF NextOK, Slots
<1>2. sent \in SUBSET Items
  BY <1>1, PlanTypes
<1>3. /\ \A m \in 1..(next[p] - 1) : \A item \in RecordsOf(m) : InLog(item)
      /\ pc[p] = "checkpoint" => \A item \in RecordsOf(next[p]) : InLog(item)
  BY Known DEF WrittenOK
<1>4. pc[p] = "checkpoint" =>
          \A m \in 1..next[p] : \A item \in RecordsOf(m) : InLog(item)
  <2>1. \A m \in 1..next[p] : m = next[p] \/ m \in 1..(next[p] - 1)
    BY <1>1
  <2> QED
    BY <1>3, <2>1
<1>5. \A n \in Slots : CheckpointOf(n) \in sent =>
          \A m \in 1..n : \A item \in RecordsOf(m) : InLog(item)
  <2> SUFFICES ASSUME NEW n \in Slots, CheckpointOf(n) \in sent
               PROVE  \A m \in 1..n : \A item \in RecordsOf(m) : InLog(item)
    OBVIOUS
  <2>1. n = next[p]
    BY PlanFacts
  <2> QED
    BY <1>4, <2>1
<1>6. \A item : InLog(item) \/ item \in sent => InLog(item)'
  BY <1>1, <1>2, Delivered
<1>7. NextOK(p)' /\ TxnOK(p)' /\ PlainOK(p)' /\ OwnerOK(p)'
  BY <1>1, Known DEF NextOK, TxnOK, PlainOK, OwnerOK, Transactional
<1>8. WrittenOK(p)'
  <2>1. CASE pc'[p] \in {"publish", "failed"} /\ next' = next
    BY <1>3, <1>6, <2>1 DEF WrittenOK
  <2>2. CASE /\ pc'[p] = "checkpoint" /\ next' = next
             /\ RecordsOf(next[p]) \subseteq sent
    BY <1>3, <1>6, <2>2 DEF WrittenOK
  <2>3. CASE /\ pc[p] = "checkpoint" /\ pc'[p] = "idle"
             /\ next'[p] = next[p] + 1
    <3>1. next'[p] - 1 = next[p]
      BY <1>1, <2>3
    <3> QED
      BY <1>4, <1>6, <2>3, <3>1 DEF WrittenOK
  <2> QED
    BY <2>1, <2>2, <2>3
<1> QED
  BY <1>2, <1>5, <1>7, <1>8, PlainStep DEF ProcOK

LEMMA FailedMoves ==
    ASSUME TypeOK, NEW p \in Processes, PublishFailed(p)
    PROVE  /\ Moves(p) /\ next' = next
           /\ Transactional => pc'[p] = "abort"
           /\ ~Transactional => pc'[p] \in {"publish", "failed"}
BY PublishLabels, GotoMoves, FailMoves DEF PublishFailed

LEMMA PublishStep ==
    ASSUME IndInv, NEW p \in Processes, Publish(p)
    PROVE  IndInv'
<1>1. pc[p] = "publish" /\ UNCHANGED <<delivery, behind, txn, owner>>
  BY DEF Publish, At
<1>2. PICK sent \in SUBSET RecordsOf(next[p]) :
          /\ Deliver(p, sent)
          /\ \/ /\ Goto(p, "checkpoint") /\ UNCHANGED <<next, attempt>>
                /\ sent = RecordsOf(next[p])
             \/ PublishFailed(p)
  BY DEF Publish
<1>3. sent \in SUBSET Plan(next[p]) /\ CheckpointOf(next[p]) \notin sent
  BY PlanFacts DEF Plan
<1>4. /\ Moves(p) /\ next' = next
      /\ \/ Transactional /\ pc'[p] = "abort"
         \/ ~Transactional /\ pc'[p] \in {"publish", "failed"}
         \/ pc'[p] = "checkpoint" /\ RecordsOf(next[p]) \subseteq sent
  BY <1>2, Known, PublishLabels, GotoMoves, FailedMoves
<1>5. CASE Transactional
  BY <1>1, <1>2, <1>3, <1>4, <1>5, TxnPublish
<1>6. CASE ~Transactional
  BY <1>1, <1>2, <1>3, <1>4, <1>6, PlainPublish
<1> QED
  BY <1>5, <1>6

LEMMA CheckpointStep ==
    ASSUME IndInv, NEW p \in Processes, PublishCheckpoint(p)
    PROVE  IndInv'
<1>1. /\ pc[p] = "checkpoint" /\ next[p] \in Slots
      /\ UNCHANGED <<delivery, behind, txn, owner>>
  BY Known DEF PublishCheckpoint, At, NextOK
<1>2. PICK sent \in SUBSET {CheckpointOf(next[p])} :
          /\ Deliver(p, sent)
          /\ \/ /\ sent = {CheckpointOf(next[p])}
                /\ \/ Transactional /\ Goto(p, "commit") /\ UNCHANGED <<next, attempt>>
                   \/ ~Transactional /\ SlotWritten(p)
             \/ PublishFailed(p)
  BY DEF PublishCheckpoint
<1>3. sent \in SUBSET Plan(next[p])
  BY DEF Plan
<1>4. CASE Transactional
  <2>1. /\ Moves(p) /\ next' = next
        /\ \/ pc'[p] = "abort"
           \/ pc'[p] = "commit" /\ CheckpointOf(next[p]) \in sent
    BY <1>2, <1>4, Known, PublishLabels, GotoMoves, FailedMoves
  <2> QED
    BY <1>1, <1>2, <1>3, <1>4, <2>1, TxnPublish
<1>5. CASE ~Transactional
  <2>1. /\ Moves(p)
        /\ \/ pc'[p] \in {"publish", "failed"} /\ next' = next
           \/ pc'[p] = "idle" /\ next'[p] = next[p] + 1
    BY <1>1, <1>2, <1>5, Known, WrittenMoves, FailedMoves
  <2> QED
    BY <1>1, <1>2, <1>3, <1>5, <2>1, PlainPublish
<1> QED
  BY <1>4, <1>5

LEMMA RequestStep ==
    ASSUME IndInv, NEW p \in Processes, RequestCommit(p)
    PROVE  IndInv'
<1>1. /\ pc[p] = "commit" /\ txn[p] = "open" /\ SetTxn(p, "committing")
      /\ Transactional /\ next[p] \in Slots
      /\ UNCHANGED <<delivery, behind, procVars, owner, open, log>>
  BY Known DEF RequestCommit, At, PlainOK, NextOK
<1>2. /\ txn' \in [Processes -> TxnStates] /\ txn'[p] = "committing"
      /\ \A q \in Processes \ {p} : txn'[q] = txn[q]
  BY <1>1, Known, PublishLabels, TxnMoves
<1>3. Moves(p) /\ open' \in SUBSET Items
  BY <1>1, Known DEF Moves, TypeOK, procVars
<1>4. NextOK(p)' /\ TxnOK(p)' /\ PlainOK(p)' /\ WrittenOK(p)'
  BY <1>1, <1>2 DEF NextOK, TxnOK, PlainOK, WrittenOK, Transactional, procVars
<1>5. OwnerOK(p)'
  BY <1>1, <1>2, Known, PlaceKept DEF OwnerOK, Transactional, procVars
<1> QED
  BY <1>1, <1>2, <1>3, <1>4, <1>5, QuietStep DEF ProcOK

(* A log of whole slots has no checkpoint ahead of its records.            *)
LEMMA WholeCovers ==
    ASSUME Transactional, EachSlotOnce
    PROVE  CheckpointCovers
<1> SUFFICES ASSUME NEW k \in 1..Len(log), NEW n \in Slots,
                    CheckpointOf(n) \in log[k],
                    NEW m \in 1..n, NEW item \in RecordsOf(m)
             PROVE  \E j \in 1..k : item \in log[j]
  BY DEF CheckpointCovers
<1>1. log[k] = Plan(n) /\ Reached(n, k - 1)
  BY WholeBatch
<1>2. CASE m = n
  BY <1>1, <1>2 DEF Plan
<1>3. CASE m \in 1..(n - 1)
  <2>1. PICK j \in 1..(k - 1) : log[j] = Plan(m)
    BY <1>1, <1>3 DEF Reached
  <2>2. j \in 1..k
    BY <2>1
  <2> QED
    BY <2>1, <2>2 DEF Plan
<1> QED
  BY <1>2, <1>3 DEF Slots

(* Slot n appended to a log of whole slots in which none before it misses. *)
LEMMA AppendWhole ==
    ASSUME TypeOK, EachSlotOnce, Transactional, NEW p, NEW n \in Slots,
           PlaceAt(p, n), log' = Append(log, Plan(n)), behind' = behind,
           delivery' = delivery
    PROVE  EachSlotOnce' /\ PlaceAt(p, n + 1)'
<1>0. PICK L \in Nat : L = Len(log)
  BY DEF TypeOK
<1>1. /\ Len(log') = L + 1 /\ log'[L + 1] = Plan(n)
      /\ \A k \in 1..L : log'[k] = log[k]
      /\ n \in Nat \ {0} /\ n + 1 - 1 = n /\ L + 1 - 1 = L /\ log' # <<>>
  <2>1. log \in Seq(SUBSET Items) /\ Plan(n) \in SUBSET Items
    BY PlanTypes DEF TypeOK
  <2> QED
    BY <1>0, <2>1 DEF Slots
<1>2. \A k \in 1..(L + 1) : k = L + 1 \/ k \in 1..L
  BY <1>1
<1>3. ASSUME NEW m, NEW k \in 0..L, Reached(m, k)
      PROVE  Reached(m, k)'
  BY <1>1, <1>3 DEF Reached
<1>4. Reached(n, L)'
  <2>1. L \in 0..L /\ Reached(n, L)
    BY <1>0 DEF PlaceAt
  <2> QED
    BY <1>3, <2>1
<1>5. ASSUME NEW k \in 1..(L + 1)
      PROVE  \E m \in Slots : log'[k] = Plan(m) /\ Reached(m, k - 1)'
  <2>1. CASE k = L + 1
    BY <1>1, <1>4, <2>1
  <2>2. CASE k \in 1..L
    <3>1. PICK m \in Slots : log[k] = Plan(m) /\ Reached(m, k - 1)
      BY <1>0, <2>2 DEF EachSlotOnce
    <3>2. k - 1 \in 0..L
      BY <1>1, <2>2
    <3>3. Reached(m, k - 1)'
      BY <1>3, <3>1, <3>2
    <3> QED
      BY <1>1, <2>2, <3>1, <3>3
  <2> QED
    BY <1>2, <2>1, <2>2
<1>6. ASSUME behind = {}
      PROVE  \A k \in 1..(L + 1) : log'[k] = Plan(k)
  <2>1. \A k \in 1..L : log[k] = Plan(k)
    BY <1>0, <1>6 DEF EachSlotOnce
  <2>2. Latest(n)
    BY <1>6 DEF PlaceAt
  <2>3. n = L + 1
    <3>1. CASE log = <<>>
      BY <1>0, <2>2, <3>1 DEF Latest
    <3>2. CASE log # <<>>
      <4>1. L \in 1..L
        BY <1>0, <3>2 DEF TypeOK
      <4>2. Plan(L) = Plan(n - 1)
        BY <1>0, <2>1, <2>2, <3>2, <4>1 DEF Latest
      <4>3. CheckpointOf(n - 1) \in Plan(L)
        BY <4>2 DEF Plan
      <4>4. n - 1 = L
        BY <4>3, PlanFacts
      <4> QED
        BY <1>1, <4>4
    <3> QED
      BY <3>1, <3>2
  <2> QED
    BY <1>1, <1>2, <2>1, <2>3
<1>7. EachSlotOnce'
  BY <1>1, <1>5, <1>6 DEF EachSlotOnce
<1>8. Reached(n + 1, L + 1)'
  <2> SUFFICES ASSUME NEW m \in 1..n
               PROVE  \E i \in 1..(L + 1) : log'[i] = Plan(m)
    BY <1>1 DEF Reached
  <2>1. CASE m = n
    BY <1>1, <2>1
  <2>2. CASE m \in 1..(n - 1)
    <3>1. PICK i \in 1..L : log'[i] = Plan(m)
      BY <1>4, <2>2 DEF Reached
    <3>2. i \in 1..(L + 1)
      BY <1>1, <3>1
    <3> QED
      BY <3>1, <3>2
  <2> QED
    BY <1>1, <2>1, <2>2
<1>9. Latest(n + 1)'
  BY <1>1 DEF Latest
<1> QED
  BY <1>1, <1>7, <1>8, <1>9 DEF PlaceAt

LEMMA BrokersStep ==
    ASSUME IndInv, NEW p \in Processes, BrokersCommit(p)
    PROVE  IndInv'
<1>1. /\ txn[p] = "committing" /\ owner = p /\ Transactional
      /\ SetTxn(p, "committed") /\ log' = Append(log, open) /\ open' = {}
      /\ UNCHANGED <<delivery, behind, procVars, owner>>
  BY Known DEF BrokersCommit, PlainOK
<1>2. /\ txn' \in [Processes -> TxnStates] /\ txn'[p] = "committed"
      /\ \A q \in Processes \ {p} : txn'[q] = txn[q]
  BY <1>1, Known, PublishLabels, TxnMoves
<1>3. /\ Place(p) /\ open = Plan(next[p]) /\ open \in SUBSET Items
      /\ owner \in Processes \cup {0} /\ Moves(p)
  BY <1>1, Known DEF OwnerOK, TypeOK, Moves, procVars
<1>4. Isolated(p)
  BY <1>1, <1>2, <1>3 DEF Isolated
<1>5. next[p] \in Slots
  <2>1. CheckpointOf(next[p]) \in Items
    BY <1>3 DEF Plan
  <2> QED
    BY <2>1 DEF CheckpointOf, Items
<1>6. EachSlotOnce' /\ PlaceAt(p, next[p] + 1)'
  <2>1. PICK n \in Slots : n = next[p]
    BY <1>5
  <2>2. PlaceAt(p, n) /\ log' = Append(log, Plan(n))
    BY <1>1, <1>3, <2>1 DEF Place
  <2>3. EachSlotOnce' /\ PlaceAt(p, n + 1)'
    BY <1>1, <2>2, Known, AppendWhole
  <2>4. next'[p] = n
    BY <1>1, <2>1 DEF procVars
  <2> QED
    BY <2>1, <2>3, <2>4 DEF PlaceAt, Reached, Latest
<1>7. CheckpointCovers'
  <2>1. Transactional'
    BY <1>1 DEF Transactional
  <2> QED
    BY <1>6, <2>1, WholeCovers, PTL
<1>8. NextOK(p)' /\ TxnOK(p)' /\ PlainOK(p)' /\ WrittenOK(p)'
  BY <1>1, <1>2, Known DEF NextOK, TxnOK, PlainOK, WrittenOK, Transactional, procVars
<1>9. OwnerOK(p)'
  <2>1. pc'[p] = pc[p] /\ next'[p] = next[p] /\ pc[p] # "checkpoint"
    BY <1>1, Known DEF procVars, TxnOK
  <2>2. PlaceAfter(p)'
    BY <1>6, <2>1 DEF PlaceAfter, PlaceAt, Reached, Latest
  <2> QED
    BY <1>1, <1>2, <2>1, <2>2 DEF OwnerOK
<1> QED
  BY <1>1, <1>2, <1>3, <1>4, <1>6, <1>7, <1>8, <1>9, Conclude DEF ProcOK

LEMMA ReplyStep ==
    ASSUME IndInv, NEW p \in Processes, CommitReply(p)
    PROVE  IndInv'
<1>1. /\ pc[p] = "commit" /\ txn[p] \in {"committing", "committed"}
      /\ Transactional /\ next[p] \in Slots
      /\ UNCHANGED <<delivery, behind, owner, open, log>> /\ open' \in SUBSET Items
  BY Known DEF CommitReply, At, PlainOK, NextOK, TypeOK
<1>2. CASE txn[p] = "committed" /\ SetTxn(p, "ready") /\ SlotWritten(p)
  <2>1. Moves(p) /\ pc'[p] = "idle" /\ next'[p] = next[p] + 1
    BY <1>1, <1>2, Known, WrittenMoves
  <2>2. /\ txn' \in [Processes -> TxnStates] /\ txn'[p] = "ready"
        /\ \A q \in Processes \ {p} : txn'[q] = txn[q]
    BY <1>2, Known, PublishLabels, TxnMoves
  <2>3. NextOK(p)' /\ TxnOK(p)' /\ PlainOK(p)' /\ WrittenOK(p)'
    BY <1>1, <2>1, <2>2 DEF NextOK, TxnOK, PlainOK, WrittenOK, Transactional
  <2>4. OwnerOK(p)'
    BY <1>1, <1>2, <2>1, <2>2, Known, PlaceNext DEF OwnerOK, Transactional
  <2> QED
    BY <1>1, <2>1, <2>2, <2>3, <2>4, QuietStep DEF ProcOK
<1>3. CASE /\ txn[p] = "committing" /\ SetTxn(p, "abortable")
           /\ Goto(p, "abort") /\ UNCHANGED <<next, attempt>>
  <2>1. Moves(p) /\ pc'[p] = "abort" /\ next' = next
    BY <1>3, Known, PublishLabels, GotoMoves
  <2>2. /\ txn' \in [Processes -> TxnStates] /\ txn'[p] = "abortable"
        /\ \A q \in Processes \ {p} : txn'[q] = txn[q]
    BY <1>3, Known, PublishLabels, TxnMoves
  <2>3. NextOK(p)' /\ TxnOK(p)' /\ PlainOK(p)' /\ WrittenOK(p)'
    BY <1>1, <2>1, <2>2 DEF NextOK, TxnOK, PlainOK, WrittenOK, Transactional
  <2>4. OwnerOK(p)'
    BY <1>1, <1>3, <2>1, <2>2, Known, PlaceKept DEF OwnerOK, Transactional
  <2> QED
    BY <1>1, <2>1, <2>2, <2>3, <2>4, QuietStep DEF ProcOK
<1>4. CASE (RetryOp(p) \/ FailAttempt(p)) /\ UNCHANGED txn
  <2>1. Moves(p) /\ pc'[p] \in {"commit", "begin", "failed"} /\ next' = next
    BY <1>1, <1>4, Known, RetryMoves, FailMoves
  <2>2. NextOK(p)' /\ TxnOK(p)' /\ PlainOK(p)' /\ WrittenOK(p)'
    BY <1>1, <1>4, <2>1, Known DEF NextOK, TxnOK, PlainOK, WrittenOK, Transactional
  <2>3. OwnerOK(p)'
    BY <1>1, <1>4, <2>1, Known, PlaceKept DEF OwnerOK, Transactional
  <2> QED
    BY <1>1, <1>4, <2>1, <2>2, <2>3, ControlStep DEF ProcOK
<1> QED
  BY <1>2, <1>3, <1>4 DEF CommitReply

LEMMA AbortStep ==
    ASSUME IndInv, NEW p \in Processes, AbortTransaction(p)
    PROVE  IndInv'
<1>1. /\ pc[p] = "abort" /\ txn[p] \in {"open", "abortable"}
      /\ Transactional /\ next[p] \in Slots
      /\ UNCHANGED <<delivery, behind, owner, log>>
      /\ open \in SUBSET Items /\ {} \in SUBSET Items
      /\ txn \in [Processes -> TxnStates]
  BY Known DEF AbortTransaction, At, PlainOK, TxnOK, NextOK, TypeOK
<1>2. owner = p => Place(p) /\ open \subseteq Plan(next[p])
  BY <1>1, Known DEF OwnerOK
<1>3. CASE /\ owner = p /\ open' = {}
           /\ SetTxn(p, "ready") /\ FailAttempt(p)
  <2>1. Moves(p) /\ pc'[p] \in {"begin", "failed"} /\ next' = next
    BY <1>1, <1>3, Known, FailMoves
  <2>2. /\ txn' \in [Processes -> TxnStates] /\ txn'[p] = "ready"
        /\ \A q \in Processes \ {p} : txn'[q] = txn[q]
    BY <1>3, Known, PublishLabels, TxnMoves
  <2>3. NextOK(p)' /\ TxnOK(p)' /\ PlainOK(p)' /\ WrittenOK(p)'
    BY <1>1, <2>1, <2>2 DEF NextOK, TxnOK, PlainOK, WrittenOK, Transactional
  <2>4. OwnerOK(p)'
    BY <1>1, <1>2, <1>3, <2>1, <2>2, PlaceKept DEF OwnerOK, Transactional
  <2> QED
    BY <1>1, <1>3, <2>1, <2>2, <2>3, <2>4, QuietStep DEF ProcOK
<1>4. CASE /\ UNCHANGED <<open, txn>> \/ (owner = p /\ open' = {} /\ UNCHANGED txn)
           /\ RetryOp(p) \/ FailAttempt(p)
  <2>1. Moves(p) /\ pc'[p] \in {"abort", "begin", "failed"} /\ next' = next
    BY <1>1, <1>4, Known, RetryMoves, FailMoves
  <2>2. /\ txn' = txn /\ (owner # p => open' = open) /\ open' \in SUBSET Items
        /\ owner = p => open' \subseteq Plan(next[p])
    BY <1>1, <1>2, <1>4
  <2>3. NextOK(p)' /\ TxnOK(p)' /\ PlainOK(p)' /\ WrittenOK(p)'
    BY <1>1, <2>1, <2>2 DEF NextOK, TxnOK, PlainOK, WrittenOK, Transactional
  <2>4. OwnerOK(p)'
    BY <1>1, <1>2, <2>1, <2>2, PlaceKept DEF OwnerOK, Transactional
  <2> QED
    BY <1>1, <2>1, <2>2, <2>3, <2>4, QuietStep DEF ProcOK
<1> QED
  BY <1>3, <1>4 DEF AbortTransaction

-----------------------------------------------------------------------------
(* The invariant *)

LEMMA InvInit ==
    ASSUME Init
    PROVE  IndInv
<1>1. log = <<>> /\ Len(log) = 0 /\ log \in Seq(SUBSET Items)
  BY DEF Init
<1>2. /\ 1 \in 1..WriteAttempts /\ 1 \in 1..OpAttempts /\ 1 \in 1..(MaxSlot + 1)
      /\ "off" \in Labels /\ "none" \in TxnStates
  BY SinkAssumption DEF Labels, TxnStates
<1>3. TypeOK
  BY <1>1, <1>2 DEF Init, TypeOK
<1>4. ASSUME NEW p \in Processes
      PROVE  NextOK(p) /\ ProcOK(p)
  <2>1. pc[p] = "off" /\ txn[p] = "none" /\ owner # p /\ open = {}
    BY SinkAssumption DEF Init
  <2> QED
    BY <2>1 DEF NextOK, ProcOK, PlainOK, TxnOK, OwnerOK, WrittenOK
<1>5. EachSlotOnce /\ CheckpointCovers
  BY <1>1 DEF EachSlotOnce, CheckpointCovers
<1> QED
  BY <1>3, <1>4, <1>5 DEF IndInv, TypeInv

LEMMA InvStep ==
    ASSUME IndInv, [Next]_vars
    PROVE  IndInv'
<1>1. ASSUME NEW p \in Processes, StartUp(p)
      PROVE  IndInv'
  BY <1>1, StartStep, InitStep, ReadStep DEF StartUp
<1>2. ASSUME NEW p \in Processes, Write(p)
      PROVE  IndInv'
  BY <1>2, TakeStep, BeginStep, PublishStep, CheckpointStep, RequestStep,
     ReplyStep, AbortStep DEF Write
<1>3. ASSUME NEW p \in Processes,
             BrokersCommit(p) \/ ChannelClosed(p) \/ Crash(p)
      PROVE  IndInv'
  BY <1>3, BrokersStep, EndStep
<1>4. CASE UNCHANGED vars
  BY <1>4 DEF vars, procVars, IndInv, TypeInv, TypeOK, NextOK, ProcOK, PlainOK,
     TxnOK, OwnerOK, Place, PlaceAfter, PlaceAt, Reached, Latest, WrittenOK, InLog,
     EachSlotOnce, CheckpointCovers, Transactional
<1> QED
  BY <1>1, <1>2, <1>3, <1>4 DEF Next

(* In every reachable state each process's producer is in the state its     *)
(* step expects, the transaction that can still be committed holds part of *)
(* a slot no earlier one is missing before, and the log is made of whole   *)
(* slots: the inductive invariant of the slot writers of kafka_sink.rs and *)
(* the start-up of producer.rs, wherever the scan of topics.rs ended.      *)
THEOREM SinkInvariant ==
    Spec => []IndInv
<1>1. Init => IndInv
  BY InvInit
<1>2. IndInv /\ [Next]_vars => IndInv'
  BY InvStep
<1> QED
  BY <1>1, <1>2, PTL DEF Spec

(* No variable leaves its type; with_retry and run_transactional_op never  *)
(* exceed their attempts, whatever limits are configured.                  *)
THEOREM SinkTypeCorrect ==
    Spec => []TypeOK
<1>1. IndInv => TypeOK
  BY DEF IndInv, TypeInv
<1> QED
  BY <1>1, SinkInvariant, PTL

(* Any number of processes under one transactional.id, crashing, replaced  *)
(* while they run, retrying commits whose replies are lost, resuming from  *)
(* whatever checkpoint the scan of topics.rs had read at its deadline:     *)
(* consumers see whole slots only and none before all earlier ones, and    *)
(* each slot once and in order while no process resumed from an older      *)
(* checkpoint than the last.                                               *)
THEOREM SinkEachSlotOnce ==
    Spec => []EachSlotOnce
<1>1. IndInv => EachSlotOnce
  BY DEF IndInv
<1> QED
  BY <1>1, SinkInvariant, PTL

(* A checkpoint in the slots topic is never ahead of the records it vouches *)
(* for, with transactions or without, whatever part of a batch fails.      *)
THEOREM SinkCheckpointCovers ==
    Spec => []CheckpointCovers
<1>1. IndInv => CheckpointCovers
  BY DEF IndInv
<1> QED
  BY <1>1, SinkInvariant, PTL

(* The process that holds the transactional.id never leaves out a slot,    *)
(* wherever the scan of topics.rs ended; and initialising the producer     *)
(* before the slots topic is read gives it, when the scan read up to the   *)
(* last checkpoint, a position right after the last slot, which it keeps.  *)
THEOREM SinkResumesAfterLast ==
    Spec => []ResumePointCurrent
<1>1. IndInv => ResumePointCurrent
  BY DEF IndInv, ProcOK, TxnOK, OwnerOK, Place, PlaceAt, ResumePointCurrent, At
<1> QED
  BY <1>1, SinkInvariant, PTL
=============================================================================
