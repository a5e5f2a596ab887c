------------------------- MODULE SlotPipelineProofs -------------------------
(***************************************************************************)
(* Theorems about SlotPipeline, for every stream (slots, forks, updates),  *)
(* every number of permits and every channel capacity.                     *)
(***************************************************************************)
EXTENDS SlotPipeline, FiniteSetTheorems, SequenceTheorems, WellFoundedInduction, TLAPS

-----------------------------------------------------------------------------
(* Sequences *)

IsSequence(q) == \E S : q \in Seq(S)

LEMMA AppendFacts ==
    ASSUME NEW q, IsSequence(q), NEW e
    PROVE  /\ IsSequence(Append(q, e)) /\ Len(q) \in Nat
           /\ Len(Append(q, e)) = Len(q) + 1 /\ Append(q, e)[Len(q) + 1] = e
           /\ \A i \in 1 .. Len(q) : Append(q, e)[i] = q[i]
<1>1. PICK S : q \in Seq(S)
  BY DEF IsSequence
<1>2. q \in Seq(S \cup {e})
  BY <1>1
<1>3. Append(q, e) \in Seq(S \cup {e})
  BY <1>2
<1> QED
  BY <1>2, <1>3 DEF IsSequence

LEMMA TailFacts ==
    ASSUME NEW q, IsSequence(q), q # <<>>
    PROVE  /\ IsSequence(Tail(q)) /\ Len(q) \in Nat \ {0}
           /\ Head(q) = q[1] /\ Len(Tail(q)) = Len(q) - 1
           /\ \A i \in 1 .. Len(q) - 1 : Tail(q)[i] = q[i + 1]
<1>1. PICK S : q \in Seq(S)
  BY DEF IsSequence
<1>2. Tail(q) \in Seq(S)
  BY <1>1
<1> QED
  BY <1>1, <1>2 DEF IsSequence

LEMMA EmptyFacts == IsSequence(<<>>) /\ Len(<<>>) = 0
<1>1. <<>> \in Seq({})
  OBVIOUS
<1> QED
  BY <1>1 DEF IsSequence

LEMMA LenFacts ==
    ASSUME NEW q, IsSequence(q)
    PROVE  Len(q) \in Nat /\ DOMAIN q = 1 .. Len(q) /\ (Len(q) = 0 <=> q = <<>>)
BY DEF IsSequence

FirstOf(log, n) == [i \in 1 .. n |-> log[i]]

(* A prefix followed by the next k elements is a longer prefix. *)
LEMMA PrefixGrows ==
    ASSUME NEW log, NEW n \in Nat, NEW k \in Nat, NEW next,
           next = [i \in 1 .. k |-> log[n + i]]
    PROVE  FirstOf(log, n) \o next = FirstOf(log, n + k)
<1> DEFINE S == {log[i] : i \in 1 .. n + k}
           a == FirstOf(log, n)
<1>1. a \in Seq(S) /\ Len(a) = n /\ \A i \in 1 .. n : a[i] = log[i]
  BY DEF FirstOf
<1>2. next \in Seq(S) /\ Len(next) = k /\ \A i \in 1 .. k : next[i] = log[n + i]
  <2>1. \A i \in 1 .. k : n + i \in 1 .. n + k
    OBVIOUS
  <2> QED
    BY <2>1
<1> HIDE DEF S, a
<1>3. /\ a \o next \in Seq(S) /\ Len(a \o next) = n + k
      /\ \A i \in 1 .. n + k :
            (a \o next)[i] = IF i <= n THEN a[i] ELSE next[i - n]
  <2>1. /\ a \o next \in Seq(S) /\ Len(a \o next) = Len(a) + Len(next)
        /\ \A i \in 1 .. Len(a) + Len(next) :
              (a \o next)[i] = IF i <= Len(a) THEN a[i] ELSE next[i - Len(a)]
    <3>1. a \in Seq(S) /\ next \in Seq(S)
      BY <1>1, <1>2
    <3> HIDE <1>1, <1>2
    <3> QED
      BY <3>1, ConcatProperties
  <2> QED
    BY <1>1, <1>2, <2>1
<1>4. \A i \in 1 .. n + k : (a \o next)[i] = log[i]
  <2> TAKE i \in 1 .. n + k
  <2>1. CASE i <= n
    BY <2>1, <1>1, <1>3
  <2>2. CASE ~(i <= n)
    <3>1. i - n \in 1 .. k /\ n + (i - n) = i
      BY <2>2
    <3> QED
      BY <2>2, <3>1, <1>2, <1>3
  <2> QED
    BY <2>1, <2>2
<1>5. a \o next = [i \in 1 .. n + k |-> (a \o next)[i]]
  BY <1>3
<1> QED
  BY <1>4, <1>5 DEF a, FirstOf

-----------------------------------------------------------------------------
(* Slots *)

LEMMA SlotsFinite ==
    /\ Slots \subseteq Nat /\ Canon \subseteq Slots
    /\ IsFiniteSet(Slots) /\ IsFiniteSet(Canon)
<1>1. PICK m \in Slots : \A s \in Slots : s <= m
  BY SlotsAssumption
<1>2. Slots \subseteq Nat /\ Canon \subseteq Slots
  BY SlotsAssumption, PipelineAssumption
<1>3. IsFiniteSet(Slots)
  BY <1>1, <1>2, FS_BoundedSetOfNaturals
<1> QED
  BY <1>2, <1>3, FS_Subset

LEMMA LeastOf ==
    ASSUME NEW F, F \subseteq Slots, F # {}
    PROVE  \E s \in F : \A t \in F : s <= t
<1>1. F \subseteq Nat
  BY SlotsAssumption
<1>2. PICK s \in F : \A t \in F : <<t, s>> \notin OpToRel(<, Nat)
  BY <1>1, NatLessThanWellFounded, WFMin, Zenon
<1>3. \A t \in F : ~(t < s)
  BY <1>1, <1>2 DEF OpToRel
<1> QED
  BY <1>1, <1>3

LEMMA MaxSlotIsGreatest ==
    ASSUME NEW F, F \subseteq Slots, F # {}
    PROVE  MaxSlot(F) \in F /\ \A t \in F : t <= MaxSlot(F)
<1>1. PICK m \in Slots : \A s \in Slots : s <= m
  BY SlotsAssumption
<1> DEFINE G == {m - t : t \in F}
<1>2. G \subseteq Nat /\ G # {}
  <2>1. \A t \in F : m - t \in Nat
    BY <1>1, SlotsAssumption
  <2> QED
    BY <2>1
<1>3. PICK z \in G : \A y \in G : <<y, z>> \notin OpToRel(<, Nat)
  BY <1>2, NatLessThanWellFounded, WFMin
<1>4. PICK s \in F : z = m - s
  OBVIOUS
<1>5. ASSUME NEW t \in F PROVE t <= s
  <2>1. m - t \in G /\ m - t \in Nat /\ z \in Nat
    BY <1>2
  <2>2. ~(m - t < z)
    BY <1>3, <2>1 DEF OpToRel
  <2> QED
    BY <1>4, <2>2, SlotsAssumption
<1> QED
  BY <1>5 DEF MaxSlot

LEMMA DisjointUnion ==
    ASSUME NEW S, NEW T, IsFiniteSet(S), IsFiniteSet(T), S \cap T = {}
    PROVE  /\ IsFiniteSet(S \cup T)
           /\ Cardinality(S) \in Nat /\ Cardinality(T) \in Nat
           /\ Cardinality(S \cup T) = Cardinality(S) + Cardinality(T)
<1>1. Cardinality(S) \in Nat /\ Cardinality(T) \in Nat
  BY FS_CardinalityType
<1>2. /\ IsFiniteSet(S \cup T)
      /\ Cardinality(S \cup T) = Cardinality(S) + Cardinality(T) - Cardinality(S \cap T)
  BY FS_Union
<1>3. Cardinality(S \cap T) = 0
  BY FS_EmptySet
<1> QED
  BY <1>1, <1>2, <1>3

-----------------------------------------------------------------------------
(* Ascending lists a finite set of slots by rank. *)

Below(S, s) == {t \in S : t < s}

LEMMA IntervalSize ==
    ASSUME NEW n \in Nat
    PROVE  IsFiniteSet(0 .. n - 1) /\ Cardinality(0 .. n - 1) = n
<1>1. 0 \in Int /\ n - 1 \in Int
  OBVIOUS
<1>2. PICK m \in Int : m = n - 1
  BY <1>1, Zenon
<1>3. IsFiniteSet(0 .. m) /\ Cardinality(0 .. m) = IF 0 > m THEN 0 ELSE m - 0 + 1
  BY <1>1, FS_Interval, Zenon
<1>4. (IF 0 > m THEN 0 ELSE m - 0 + 1) = n
  BY <1>2
<1> QED
  BY <1>2, <1>3, <1>4, Zenon

(* The ranks of a finite set of naturals are 0 .. n - 1, each taken once. *)
LEMMA RankFacts ==
    ASSUME NEW S, S \subseteq Nat, IsFiniteSet(S)
    PROVE  /\ Cardinality(S) \in Nat
           /\ \A s \in S : Cardinality(Below(S, s)) \in 0 .. Cardinality(S) - 1
           /\ \A s, t \in S : Cardinality(Below(S, s)) = Cardinality(Below(S, t)) => s = t
           /\ \A i \in 1 .. Cardinality(S) :
                 \E s \in S : Cardinality(Below(S, s)) = i - 1
<1> DEFINE n == Cardinality(S)
           rank == [s \in S |-> Cardinality(Below(S, s))]
<1>1. n \in Nat
  BY FS_CardinalityType
<1>2. \A s \in S : IsFiniteSet(Below(S, s)) /\ Cardinality(Below(S, s)) \in Nat
  BY FS_Subset, FS_CardinalityType DEF Below
<1>3. ASSUME NEW s \in S PROVE Cardinality(Below(S, s)) <= n - 1
  <2>1. IsFiniteSet(S \ {s}) /\ Cardinality(S \ {s}) = n - 1
    BY FS_RemoveElement
  <2>2. Below(S, s) \in SUBSET (S \ {s})
    BY DEF Below
  <2> QED
    BY <2>1, <2>2, FS_Subset
<1>4. ASSUME NEW s \in S, NEW t \in S, s < t
      PROVE  Cardinality(Below(S, s)) < Cardinality(Below(S, t))
  <2>1. s \notin Below(S, s) /\ Below(S, s) \cup {s} \in SUBSET Below(S, t)
    <3>1. ~(s < s) /\ \A r \in S : r < s => r < t
      BY <1>4
    <3> QED
      BY <1>4, <3>1, Zenon DEF Below
  <2>2. Cardinality(Below(S, s) \cup {s}) = Cardinality(Below(S, s)) + 1
    BY <1>2, <2>1, FS_AddElement
  <2>3. Cardinality(Below(S, s) \cup {s}) <= Cardinality(Below(S, t))
    BY <1>2, <2>1, FS_Subset
  <2> QED
    BY <1>2, <2>2, <2>3
<1>5. \A s, t \in S : Cardinality(Below(S, s)) = Cardinality(Below(S, t)) => s = t
  <2> SUFFICES ASSUME NEW s \in S, NEW t \in S, s # t
               PROVE  Cardinality(Below(S, s)) # Cardinality(Below(S, t))
    OBVIOUS
  <2>1. s < t \/ t < s
    OBVIOUS
  <2>2. CASE s < t
    BY <1>2, <1>4, <2>2
  <2>3. CASE t < s
    BY <1>2, <1>4, <2>3
  <2> QED
    BY <2>1, <2>2, <2>3
<1>6. rank \in Injection(S, 0 .. n - 1)
  <2>1. rank \in [S -> 0 .. n - 1]
    BY <1>1, <1>2, <1>3
  <2> QED
    <3>1. \A s, t \in S : rank[s] = rank[t] => s = t
      BY <1>5, Zenon
    <3> HIDE DEF rank
    <3> QED
      BY <2>1, <3>1, Zenon DEF Injection, IsInjective
<1>7. IsFiniteSet(0 .. n - 1) /\ Cardinality(0 .. n - 1) = n
  BY <1>1, IntervalSize, Zenon
<1>8. rank \in Surjection(S, 0 .. n - 1)
  BY <1>6, <1>7, FS_Injection
<1>9. ASSUME NEW i \in 1 .. n PROVE \E s \in S : Cardinality(Below(S, s)) = i - 1
  <2>1. i - 1 \in 0 .. n - 1
    BY <1>1
  <2> QED
    BY <1>8, <2>1 DEF Surjection
<1> QED
  BY <1>1, <1>2, <1>3, <1>5, <1>9

(* Ascending lists every member once, at its rank. *)
LEMMA AscendingFacts ==
    ASSUME NEW S, S \subseteq Nat, IsFiniteSet(S)
    PROVE  /\ DOMAIN Ascending(S) = 1 .. Cardinality(S)
           /\ \A i \in 1 .. Cardinality(S) :
                 /\ Ascending(S)[i] \in S
                 /\ Cardinality(Below(S, Ascending(S)[i])) = i - 1
           /\ \A s \in S : \A i \in 1 .. Cardinality(S) :
                 Cardinality(Below(S, s)) = i - 1 => Ascending(S)[i] = s
<1>1. Ascending(S) = [i \in 1 .. Cardinality(S) |->
                        CHOOSE s \in S : Cardinality(Below(S, s)) = i - 1]
  BY DEF Ascending, Below
<1>2. \A i \in 1 .. Cardinality(S) :
         /\ Ascending(S)[i] \in S
         /\ Cardinality(Below(S, Ascending(S)[i])) = i - 1
  <2> TAKE i \in 1 .. Cardinality(S)
  <2>1. \E s \in S : Cardinality(Below(S, s)) = i - 1
    BY RankFacts
  <2>2. Ascending(S)[i] = CHOOSE s \in S : Cardinality(Below(S, s)) = i - 1
    BY <1>1
  <2> QED
    BY <2>1, <2>2, Zenon
<1> QED
  BY <1>1, <1>2, RankFacts

-----------------------------------------------------------------------------
(* The canonical chain *)

Upto(last) == {s \in Canon : s <= last}

(* The slots between two frontiers are the next ones of the chain. *)
LEMMA ChainBetween ==
    ASSUME NEW l \in Int, NEW m \in Int, l <= m,
           NEW F, F = {s \in Canon : l < s /\ s <= m}
    PROVE  /\ Cardinality(Upto(l)) \in Nat /\ Cardinality(F) \in Nat
           /\ Cardinality(Upto(m)) = Cardinality(Upto(l)) + Cardinality(F)
           /\ Cardinality(Upto(m)) <= Cardinality(Canon)
           /\ Cardinality(Canon) \in Nat /\ DOMAIN Chain = 1 .. Cardinality(Canon)
           /\ DOMAIN Ascending(F) = 1 .. Cardinality(F)
           /\ \A i \in 1 .. Cardinality(F) :
                 /\ Ascending(F)[i] \in F
                 /\ Ascending(F)[i] = Chain[Cardinality(Upto(l)) + i]
                 /\ Cardinality(Upto(l)) + i \in 1 .. Cardinality(Canon)
<1> DEFINE U == Upto(l)
<1>1. Canon \subseteq Nat /\ IsFiniteSet(Canon)
  BY SlotsFinite
<1>2. /\ U \in SUBSET Canon /\ F \in SUBSET Canon /\ Upto(m) \in SUBSET Canon
      /\ Upto(m) = U \cup F /\ U \cap F = {}
  <2>1. \A s \in Canon : (s <= m <=> s <= l \/ (l < s /\ s <= m)) /\ ~(s <= l /\ l < s)
    BY <1>1
  <2> QED
    BY <2>1, Zenon DEF Upto
<1>3. IsFiniteSet(U) /\ IsFiniteSet(F) /\ IsFiniteSet(Upto(m))
  BY <1>1, <1>2, FS_Subset
<1>4. /\ Cardinality(U) \in Nat /\ Cardinality(F) \in Nat
      /\ Cardinality(Canon) \in Nat /\ Cardinality(Upto(m)) \in Nat
  BY <1>1, <1>3, FS_CardinalityType
<1>5. Cardinality(Upto(m)) = Cardinality(U) + Cardinality(F)
  BY <1>2, <1>3, DisjointUnion
<1>6. Cardinality(Upto(m)) <= Cardinality(Canon)
  BY <1>1, <1>2, FS_Subset
<1>7. F \subseteq Nat
  BY <1>1, <1>2
<1>8. ASSUME NEW i \in 1 .. Cardinality(F)
      PROVE  /\ Ascending(F)[i] \in F
             /\ Ascending(F)[i] = Chain[Cardinality(U) + i]
             /\ Cardinality(U) + i \in 1 .. Cardinality(Canon)
  <2> DEFINE s == Ascending(F)[i]
  <2>1. s \in F /\ Cardinality(Below(F, s)) = i - 1
    BY <1>3, <1>7, AscendingFacts
  <2> HIDE DEF s
  <2>2. Below(Canon, s) = U \cup Below(F, s) /\ U \cap Below(F, s) = {}
    <3>1. l < s /\ s <= m /\ s \in Nat
      BY <1>1, <1>7, <2>1
    <3>2. \A t \in Canon : (t < s <=> t <= l \/ ((l < t /\ t <= m) /\ t < s)) /\ ~(t <= l /\ l < t)
      BY <1>1, <3>1
    <3> QED
      BY <3>2, Zenon DEF Below, Upto
  <2>3. IsFiniteSet(Below(F, s))
    BY <1>3, FS_Subset DEF Below
  <2>4. Cardinality(Below(Canon, s)) = Cardinality(U) + (i - 1)
    BY <1>3, <2>1, <2>2, <2>3, DisjointUnion
  <2>5. Cardinality(U) + i \in 1 .. Cardinality(Canon)
    BY <1>4, <1>5, <1>6
  <2>6. s \in Canon /\ Cardinality(Below(Canon, s)) = (Cardinality(U) + i) - 1
    BY <1>2, <1>4, <2>1, <2>4
  <2>7. Chain[Cardinality(U) + i] = s
    <3>1. \A r \in Canon : \A j \in 1 .. Cardinality(Canon) :
             Cardinality(Below(Canon, r)) = j - 1 => Ascending(Canon)[j] = r
      BY <1>1, AscendingFacts
    <3> QED
      BY <2>5, <2>6, <3>1 DEF Chain
  <2> QED
    BY <2>1, <2>5, <2>7 DEF s
<1> QED
  BY <1>1, <1>3, <1>4, <1>5, <1>6, <1>7, <1>8, AscendingFacts DEF Chain

-----------------------------------------------------------------------------
(* The inductive invariant.  The state does not say which update a message *)
(* belongs to (two AccountEventSeen of a slot are equal, so are two        *)
(* ParseStats), so the invariant says that there are                       *)
(*                                                                         *)
(*   sent, app   for each update, how many messages of its handler were    *)
(*               sent, and how many of them the coordinator has applied    *)
(*   g           the update and the position of each message on `parsed`   *)
(*   done        the items of the stream the coordinator has applied       *)
(*   h           the items on `input`                                      *)
(*                                                                         *)
(* with the state what they make it.  An item is a lifecycle event or an   *)
(* account update.                                                         *)

TxUpdate(t) == Update("Transaction", t, TxSlot[t])
AcctUpdate(a) == Update("Account", a, AcctSlot[a])

Updates == {TxUpdate(t) : t \in Txs} \cup {AcctUpdate(a) : a \in Accts}

Items == {Lifecycle(kind, s) : kind \in Kinds, s \in Slots} \cup {AcctUpdate(a) : a \in Accts}

Frozen(s) == Lifecycle("Frozen", s)
Confirmed(s) == Lifecycle("Confirmed", s)
Committed(s) == Lifecycle(CommitEvent, s)
Discarded(s) == Lifecycle("Discarded", s)

(* A job of which k messages were sent. *)
Job(u, k) ==
    [job |-> u, todo |-> SubSeq(HandlerMessages(u), k + 1, Len(HandlerMessages(u)))]

Waiting(u, em, hd, q) == u \notin em \/ u \in hd \/ \E i \in 1 .. Len(q) : q[i] = u

JobsOK(em, hd, q, rn, pk, sent) ==
    /\ em \subseteq Updates \cup Items
    /\ hd \subseteq Updates \cap em /\ (\A u, v \in hd : u = v)
    /\ IsSequence(q)
    /\ \A i \in 1 .. Len(q) : q[i] \in Updates \cap em /\ q[i] \notin hd
    /\ \A i, j \in 1 .. Len(q) : q[i] = q[j] => i = j
    /\ \A u \in Updates : Waiting(u, em, hd, q) => sent[u] = 0 /\ Job(u, 0) \notin rn
    /\ \A r \in rn : \E u \in Updates \cap em :
          sent[u] < Len(HandlerMessages(u)) /\ r = Job(u, sent[u])
    /\ ~pk => \A u \in Updates :
          \/ Waiting(u, em, hd, q)
          \/ Job(u, sent[u]) \in rn
          \/ sent[u] = Len(HandlerMessages(u))

CountsOK(sent, app) ==
    /\ sent \in [Updates -> Nat] /\ app \in [Updates -> Nat]
    /\ \A u \in Updates : app[u] <= sent[u] /\ sent[u] <= Len(HandlerMessages(u))

(* The messages of an update are applied in the order of its handler. *)
ParsedOK(pd, g, sent, app) ==
    /\ IsSequence(pd) /\ IsSequence(g) /\ Len(g) = Len(pd)
    /\ \A p \in 1 .. Len(pd) :
          /\ g[p][1] \in Updates /\ g[p][2] \in Nat
          /\ pd[p] = HandlerMessages(g[p][1])[g[p][2]]
          /\ app[g[p][1]] < g[p][2] /\ g[p][2] <= sent[g[p][1]]
    /\ \A p, r \in 1 .. Len(pd) : p < r /\ g[p][1] = g[r][1] => g[p][2] < g[r][2]
    /\ \A u \in Updates : \A k \in app[u] + 1 .. sent[u] :
          \E p \in 1 .. Len(pd) : g[p][1] = u /\ g[p][2] = k

(* What the source makes of an item. *)
Wire(x) == IF x.type = "Account" THEN Lifecycle("AccountEventSeen", x.slot) ELSE x

(* What precedes x on the stream, D being what came before it. *)
Ready(x, D) ==
    /\ x.type = "Frozen" /\ x.slot \in Canon =>
          \A s \in Canon : s < x.slot => Frozen(s) \in D
    /\ x.type = "Confirmed" => x.slot \in Canon /\ Frozen(x.slot) \in D
    /\ x.type = "Finalized" => x.slot \in Canon /\ Confirmed(x.slot) \in D
    /\ x.type = CommitEvent => \A a \in AcctsOf(x.slot) : AcctUpdate(a) \in D
    /\ x.type = "Discarded" => x.slot \notin Canon

Fresh(x, D) == x.type = "Frozen" => Discarded(x.slot) \notin D

InOrder(D) == \A x \in D : Ready(x, D)

(* The items before the p-th on the channel. *)
Before(p, done, h) == done \cup {h[i] : i \in 1 .. p - 1}

FeedOK(em, inp, h, done) ==
    /\ IsSequence(inp) /\ IsSequence(h) /\ Len(h) = Len(inp)
    /\ \A p \in 1 .. Len(h) : inp[p] = Wire(h[p]) /\ h[p] \notin done
    /\ \A p, r \in 1 .. Len(h) : h[p] = h[r] => p = r
    /\ em \cap Items = Before(Len(h) + 1, done, h)
    /\ InOrder(done)
    /\ \A p \in 1 .. Len(h) :
          Ready(h[p], Before(p, done, h)) /\ Fresh(h[p], Before(p, done, h))

-----------------------------------------------------------------------------
(* The coordinator's state, as what was applied makes it. *)

Handled(u, app) == app[u] = Len(HandlerMessages(u))

IxRecords(s, app) ==
    {t \in TxsOf(s) : \E i \in 1 .. app[TxUpdate(t)] :
        HandlerMessages(TxUpdate(t))[i].type = "InstructionParsed"}

IxStats(s, app) ==
    {p \in TxsOf(s) \X (1 .. 4) :
        /\ p[2] <= app[TxUpdate(p[1])]
        /\ HandlerMessages(TxUpdate(p[1]))[p[2]].type = "InstructionStat"}

TxsHandled(s, app) == {t \in TxsOf(s) : Handled(TxUpdate(t), app)}

AcctsHandled(s, app) == {a \in AcctsOf(s) : Handled(AcctUpdate(a), app)}

(* The instruction half of the entry of a canonical slot not yet flushed. *)
IxOpen(b, s, done, app) ==
    /\ ~b.ixDrained
    /\ b.ixRecords = IxRecords(s, app)
    /\ b.ixStats = Cardinality(IxStats(s, app))
    /\ b.parsedTx = Cardinality(TxsHandled(s, app))
    /\ b.expectedTx = IF Frozen(s) \in done THEN Cardinality(TxsOf(s)) ELSE None
    /\ Frozen(s) \in done => b.parent = Parent[s]
    /\ b.ixCommitted <=> Confirmed(s) \in done

IxFlushed(s, done, app) ==
    /\ Frozen(s) \in done /\ Confirmed(s) \in done
    /\ TxsHandled(s, app) = TxsOf(s)

(* Its account half, n being the running count of its account events. *)
AcctOpen(b, n, s, done, app) ==
    /\ ~b.acctDrained
    /\ b.acctRecords = {a \in AcctsHandled(s, app) : AcctKind[a] = "record"}
    /\ b.acctStats = Cardinality({a \in AcctsHandled(s, app) : AcctKind[a] = "stat"})
    /\ b.processedAcct = Cardinality(AcctsHandled(s, app))
    /\ b.acctCommitted <=> Committed(s) \in done
    /\ b.expectedAcct = IF Committed(s) \in done THEN Cardinality(AcctsOf(s)) ELSE None
    /\ n = IF Committed(s) \in done
           THEN 0 ELSE Cardinality({a \in AcctsOf(s) : AcctUpdate(a) \in done})

AcctFlushed(n, s, done, app) ==
    /\ Frozen(s) \in done /\ Committed(s) \in done
    /\ AcctsHandled(s, app) = AcctsOf(s)
    /\ n = 0

CanonOK(c, s, done, app) ==
    /\ s \notin c.discarded
    /\ IF s <= c.lastIx
       THEN IxFlushed(s, done, app) /\ (s \in c.pending => c.buf[s].ixDrained)
       ELSE IxOpen(c.buf[s], s, done, app)
    /\ IF s <= c.lastAcct
       THEN AcctFlushed(c.counts[s], s, done, app) /\ (s \in c.pending => c.buf[s].acctDrained)
       ELSE AcctOpen(c.buf[s], c.counts[s], s, done, app)
    /\ IF s <= c.lastIx /\ s <= c.lastAcct
       THEN s \notin c.pending
       ELSE Frozen(s) \in done => s \in c.pending

(* The tombstones of the forks outlive the stream. *)
WideRetention == \A s \in Slots \ Canon : s > 0 /\ \A t \in Slots : t - s < Retention

ForkOK(c, s, done) ==
    /\ ~c.buf[s].ixCommitted /\ ~c.buf[s].acctCommitted
    /\ ~c.buf[s].ixDrained /\ ~c.buf[s].acctDrained
    /\ WideRetention /\ Discarded(s) \in done =>
          s \in c.discarded /\ s \notin c.pending /\ c.counts[s] = 0

CoordinatorOK(c, done, app) ==
    /\ c \in States
    /\ c.lastIx \in Canon \cup {None} /\ c.lastAcct \in Canon \cup {None}
    /\ \A s \in Canon : CanonOK(c, s, done, app)
    /\ \A s \in Slots \ Canon : ForkOK(c, s, done)

(* The walks have gone as far as they can. *)
WalkedOut(c) == InstructionFlushable(c) = {} /\ AccountFlushable(c) = {}

(* The outputs: the canonical slots up to the frontier, complete. *)
InstructionChain == [i \in DOMAIN Chain |-> CompleteInstructionSlot(Chain[i])]
AccountChain == [i \in DOMAIN Chain |-> CompleteAccountSlot(Chain[i])]

LogOK(log, last, chain) == log = FirstOf(chain, Cardinality(Upto(last)))

LogsOK ==
    /\ LogOK(ixLog, co.lastIx, InstructionChain)
    /\ LogOK(acctLog, co.lastAcct, AccountChain)

Explained(em, hd, inp, q, rn, pk, pd, c) ==
    \E sent, app, g, h, done :
       /\ CountsOK(sent, app)
       /\ JobsOK(em, hd, q, rn, pk, sent)
       /\ ParsedOK(pd, g, sent, app)
       /\ FeedOK(em, inp, h, done)
       /\ CoordinatorOK(c, done, app)

Inv ==
    /\ Explained(emitted, held, input, queue, running, panicked, parsed, co)
    /\ WalkedOut(co)
    /\ LogsOK
-----------------------------------------------------------------------------
(* What a handler sends *)

LEMMA KindsDiffer ==
    /\ \A t, r \in Txs : TxUpdate(t) = TxUpdate(r) => t = r
    /\ \A a, b \in Accts : AcctUpdate(a) = AcctUpdate(b) => a = b
    /\ \A t \in Txs, a \in Accts : TxUpdate(t) # AcctUpdate(a)
    /\ \A t \in Txs : TxUpdate(t).type = "Transaction" /\ TxUpdate(t).id = t
                        /\ TxUpdate(t).slot = TxSlot[t] /\ TxUpdate(t) \in Updates
    /\ \A a \in Accts : AcctUpdate(a).type = "Account" /\ AcctUpdate(a).id = a
                        /\ AcctUpdate(a).slot = AcctSlot[a] /\ AcctUpdate(a) \in Updates
<1>1. /\ \A t \in Txs : TxUpdate(t).type = "Transaction" /\ TxUpdate(t).id = t
                        /\ TxUpdate(t).slot = TxSlot[t]
      /\ \A a \in Accts : AcctUpdate(a).type = "Account" /\ AcctUpdate(a).id = a
                        /\ AcctUpdate(a).slot = AcctSlot[a]
  BY DEF TxUpdate, AcctUpdate, Update
<1>2. /\ \A t \in Txs : TxUpdate(t) \in Updates
      /\ \A a \in Accts : AcctUpdate(a) \in Updates
  BY DEF Updates
<1> QED
  BY <1>1, <1>2

(* The messages of a transaction are its own, TransactionParsed is the     *)
(* last, and the stats and the record stand where its kind puts them.      *)
TxShape(t, M) ==
    /\ IsSequence(M) /\ Len(M) \in 1 .. 4
    /\ \A i \in 1 .. Len(M) :
          /\ M[i].slot = TxSlot[t] /\ M[i].key = t
          /\ M[i].type \in {"InstructionStat", "InstructionParsed", "TransactionParsed"}
          /\ M[i].type = "TransactionParsed" <=> i = Len(M)
          /\ M[i].type = "InstructionStat" <=>
                \/ i = 1 /\ TxKind[t] # "absent"
                \/ i = 2 /\ TxKind[t] = "filtered"
                \/ i = 3 /\ TxKind[t] = "fallback"
    /\ TxKind[t] \in {"decoded", "fallback"} <=>
          \E i \in 1 .. Len(M) : M[i].type = "InstructionParsed"
    /\ TxKind[t] # "absent" => Len(M) >= 2
    /\ TxKind[t] = "filtered" => Len(M) = 3
    /\ TxKind[t] = "fallback" => Len(M) = 4

(* What BufferingHandler sends for each kind of transaction. *)
LEMMA TxMessages ==
    ASSUME NEW t \in Txs
    PROVE  TxShape(t, HandlerMessages(TxUpdate(t)))
<1> DEFINE u == TxUpdate(t)
           Stat == Message("InstructionStat", u)
           Record == Message("InstructionParsed", u)
           Done == Message("TransactionParsed", u)
           M == HandlerMessages(u)
<1>1. u.type = "Transaction" /\ u.id = t /\ u.slot = TxSlot[t]
  BY KindsDiffer
<1>2. TxKind[t] \in {"absent", "failed", "decoded", "filtered", "fallback"}
  BY PipelineAssumption
<1>3. M = CASE TxKind[t] = "absent"   -> <<Done>>
            [] TxKind[t] = "failed"   -> <<Stat, Done>>
            [] TxKind[t] = "decoded"  -> <<Stat, Record, Done>>
            [] TxKind[t] = "filtered" -> <<Stat, Stat, Done>>
            [] TxKind[t] = "fallback" -> <<Stat, Record, Stat, Done>>
  BY <1>1 DEF HandlerMessages
<1>4. /\ Stat.type = "InstructionStat" /\ Stat.key = t /\ Stat.slot = TxSlot[t]
      /\ Record.type = "InstructionParsed" /\ Record.key = t /\ Record.slot = TxSlot[t]
      /\ Done.type = "TransactionParsed" /\ Done.key = t /\ Done.slot = TxSlot[t]
  BY <1>1 DEF Message
<1> SUFFICES TxShape(t, M)
  OBVIOUS
<1> HIDE DEF u, Stat, Record, Done, M
<1>5. CASE TxKind[t] = "absent"
  <2>1. M = <<Done>>
    BY <1>3, <1>5
  <2>2. M \in Seq({Done}) /\ Len(M) = 1 /\ M[1] = Done
    BY <2>1
  <2> QED
    BY <1>4, <1>5, <2>2 DEF IsSequence, TxShape
<1>6. CASE TxKind[t] = "failed"
  <2>1. M = <<Stat, Done>>
    BY <1>3, <1>6
  <2>2. M \in Seq({Stat, Done}) /\ Len(M) = 2 /\ M[1] = Stat /\ M[2] = Done
    BY <2>1
  <2> QED
    BY <1>4, <1>6, <2>2 DEF IsSequence, TxShape
<1>7. CASE TxKind[t] = "decoded"
  <2>1. M = <<Stat, Record, Done>>
    BY <1>3, <1>7
  <2>2. /\ M \in Seq({Stat, Record, Done}) /\ Len(M) = 3
        /\ M[1] = Stat /\ M[2] = Record /\ M[3] = Done
    BY <2>1
  <2> QED
    BY <1>4, <1>7, <2>2 DEF IsSequence, TxShape
<1>8. CASE TxKind[t] = "filtered"
  <2>1. M = <<Stat, Stat, Done>>
    BY <1>3, <1>8
  <2>2. /\ M \in Seq({Stat, Done}) /\ Len(M) = 3
        /\ M[1] = Stat /\ M[2] = Stat /\ M[3] = Done
    BY <2>1
  <2> QED
    BY <1>4, <1>8, <2>2 DEF IsSequence, TxShape
<1>9. CASE TxKind[t] = "fallback"
  <2>1. M = <<Stat, Record, Stat, Done>>
    BY <1>3, <1>9
  <2>2. /\ M \in Seq({Stat, Record, Done}) /\ Len(M) = 4
        /\ M[1] = Stat /\ M[2] = Record /\ M[3] = Stat /\ M[4] = Done
    BY <2>1
  <2> QED
    BY <1>4, <1>9, <2>2 DEF IsSequence, TxShape
<1> QED
  BY <1>2, <1>5, <1>6, <1>7, <1>8, <1>9

LEMMA OneTxMessage ==
    ASSUME NEW t \in Txs, NEW i \in 1 .. Len(HandlerMessages(TxUpdate(t))),
           NEW m, m = HandlerMessages(TxUpdate(t))[i]
    PROVE  /\ m.slot = TxSlot[t] /\ m.key = t
           /\ m.type \in {"InstructionStat", "InstructionParsed", "TransactionParsed"}
           /\ m.type = "TransactionParsed" <=> i = Len(HandlerMessages(TxUpdate(t)))
BY TxMessages DEF TxShape

(* An account update has one message, a record or a stat. *)
LEMMA AcctMessages ==
    ASSUME NEW a \in Accts, NEW M, M = HandlerMessages(AcctUpdate(a))
    PROVE  /\ IsSequence(M) /\ Len(M) = 1
           /\ M[1].slot = AcctSlot[a] /\ M[1].key = a
           /\ M[1].type = IF AcctKind[a] = "record" THEN "AccountParsed" ELSE "AccountStat"
<1> DEFINE u == AcctUpdate(a)
           m == Message(IF AcctKind[a] = "record" THEN "AccountParsed" ELSE "AccountStat", u)
<1>1. u.type = "Account" /\ u.id = a /\ u.slot = AcctSlot[a]
  BY KindsDiffer
<1>2. M = <<m>>
  BY <1>1 DEF HandlerMessages
<1>3. /\ m.key = a /\ m.slot = AcctSlot[a]
      /\ m.type = IF AcctKind[a] = "record" THEN "AccountParsed" ELSE "AccountStat"
  BY <1>1 DEF Message
<1> HIDE DEF m
<1>4. M \in Seq({m}) /\ Len(M) = 1 /\ M[1] = m
  BY <1>2
<1> QED
  BY <1>3, <1>4 DEF IsSequence

LEMMA MessagesLength ==
    ASSUME NEW u \in Updates
    PROVE  IsSequence(HandlerMessages(u)) /\ Len(HandlerMessages(u)) \in 1 .. 4
<1>1. CASE \E t \in Txs : u = TxUpdate(t)
  BY <1>1, TxMessages DEF TxShape
<1>2. CASE \E a \in Accts : u = AcctUpdate(a)
  BY <1>2, AcctMessages
<1> QED
  BY <1>1, <1>2 DEF Updates

LEMMA OfSlotFinite ==
    ASSUME NEW s
    PROVE  /\ IsFiniteSet(TxsOf(s)) /\ Cardinality(TxsOf(s)) \in Nat
           /\ IsFiniteSet(AcctsOf(s)) /\ Cardinality(AcctsOf(s)) \in Nat
           /\ TxsOf(s) \subseteq Txs /\ AcctsOf(s) \subseteq Accts
<1>1. TxsOf(s) \in SUBSET Txs /\ AcctsOf(s) \in SUBSET Accts
  BY DEF TxsOf, AcctsOf
<1>2. IsFiniteSet(TxsOf(s)) /\ IsFiniteSet(AcctsOf(s))
  BY <1>1, FS_Subset, PipelineAssumption
<1> QED
  BY <1>1, <1>2, FS_CardinalityType

-----------------------------------------------------------------------------
(* One more message applied: what it adds to the sets of its slot. *)

SameTxs(s, app, app2) == \A t \in TxsOf(s) : app2[TxUpdate(t)] = app[TxUpdate(t)]
SameAccts(s, app, app2) == \A a \in AcctsOf(s) : app2[AcctUpdate(a)] = app[AcctUpdate(a)]

LEMMA SetsFinite ==
    ASSUME NEW s, NEW app
    PROVE  /\ IsFiniteSet(IxStats(s, app)) /\ Cardinality(IxStats(s, app)) \in Nat
           /\ IsFiniteSet(TxsHandled(s, app)) /\ Cardinality(TxsHandled(s, app)) \in Nat
           /\ IsFiniteSet(AcctsHandled(s, app)) /\ Cardinality(AcctsHandled(s, app)) \in Nat
<1>1. IsFiniteSet(1 .. 4)
  <2>1. 1 \in Int /\ 4 \in Int
    OBVIOUS
  <2> QED
    BY <2>1, FS_Interval, Zenon
<1>2. IsFiniteSet(TxsOf(s) \X (1 .. 4))
  <2>1. IsFiniteSet(TxsOf(s))
    BY OfSlotFinite
  <2> HIDE DEF TxsOf
  <2> QED
    BY <1>1, <2>1, FS_Product, Zenon
<1>3. /\ IxStats(s, app) \in SUBSET (TxsOf(s) \X (1 .. 4))
      /\ TxsHandled(s, app) \in SUBSET TxsOf(s)
      /\ AcctsHandled(s, app) \in SUBSET AcctsOf(s)
  BY DEF IxStats, TxsHandled, AcctsHandled
<1>4. /\ IsFiniteSet(IxStats(s, app)) /\ IsFiniteSet(TxsHandled(s, app))
      /\ IsFiniteSet(AcctsHandled(s, app))
  BY <1>2, <1>3, OfSlotFinite, FS_Subset
<1> QED
  BY <1>4, FS_CardinalityType

LEMMA SameTxSets ==
    ASSUME NEW s, NEW app, NEW app2, SameTxs(s, app, app2)
    PROVE  /\ IxRecords(s, app2) = IxRecords(s, app)
           /\ IxStats(s, app2) = IxStats(s, app)
           /\ TxsHandled(s, app2) = TxsHandled(s, app)
<1>1. \A t \in TxsOf(s) : app2[TxUpdate(t)] = app[TxUpdate(t)]
  BY DEF SameTxs
<1>2. IxRecords(s, app2) = IxRecords(s, app)
  BY <1>1 DEF IxRecords
<1>3. IxStats(s, app2) = IxStats(s, app)
  BY <1>1 DEF IxStats
<1>4. TxsHandled(s, app2) = TxsHandled(s, app)
  BY <1>1 DEF TxsHandled, Handled
<1> QED
  BY <1>2, <1>3, <1>4

LEMMA SameAcctSets ==
    ASSUME NEW s, NEW app, NEW app2, SameAccts(s, app, app2)
    PROVE  AcctsHandled(s, app2) = AcctsHandled(s, app)
BY DEF SameAccts, AcctsHandled, Handled

LEMMA NextWithin ==
    ASSUME NEW n \in 1 .. 4, NEW j \in Nat, NEW k, k = j + 1, k <= n
    PROVE  k \in Nat /\ k \in 1 .. n /\ k \in 1 .. 4
OBVIOUS

(* m, the k-th message of t, is applied. *)
TxGrows(s, t, k, m, app, app2) ==
    /\ app2 \in [Updates -> Nat]
    /\ \A r : SameAccts(r, app, app2) /\ (r # s => SameTxs(r, app, app2))
    /\ IxRecords(s, app2) =
          IxRecords(s, app) \cup (IF m.type = "InstructionParsed" THEN {t} ELSE {})
    /\ <<t, k>> \notin IxStats(s, app)
    /\ IxStats(s, app2) =
          IxStats(s, app) \cup (IF m.type = "InstructionStat" THEN {<<t, k>>} ELSE {})
    /\ t \notin TxsHandled(s, app)
    /\ TxsHandled(s, app2) =
          TxsHandled(s, app) \cup (IF m.type = "TransactionParsed" THEN {t} ELSE {})

(* The next message of a transaction adds what it stands for to the sets   *)
(* of its slot, and to no other.                                           *)
LEMMA TxApplied ==
    ASSUME NEW app \in [Updates -> Nat], NEW t \in Txs, NEW s, s = TxSlot[t],
           NEW M, M = HandlerMessages(TxUpdate(t)),
           NEW k, k = app[TxUpdate(t)] + 1, k <= Len(M),
           NEW app2, app2 = [app EXCEPT ![TxUpdate(t)] = k]
    PROVE  k \in 1 .. Len(M) /\ TxGrows(s, t, k, M[k], app, app2)
<1> DEFINE u == TxUpdate(t)
<1>1. /\ u \in Updates /\ app[u] \in Nat /\ k \in Nat
      /\ Len(M) \in 1 .. 4 /\ k \in 1 .. Len(M) /\ k \in 1 .. 4
  <2>1. u \in Updates
    BY KindsDiffer
  <2>2. Len(M) \in 1 .. 4
    BY <2>1, MessagesLength
  <2> HIDE DEF u
  <2>3. app[u] \in Nat
    BY <2>1
  <2>4. k = app[u] + 1
    BY DEF u
  <2>5. k \in Nat /\ k \in 1 .. Len(M) /\ k \in 1 .. 4
    BY <2>2, <2>3, <2>4, NextWithin
  <2> QED
    BY <2>1, <2>2, <2>3, <2>5
<1>2. app2 \in [Updates -> Nat] /\ app2[u] = k
  BY <1>1
<1>3. \A v \in Updates : v # u => app2[v] = app[v]
  BY <1>1
<1>4. \A r \in Txs : r # t => app2[TxUpdate(r)] = app[TxUpdate(r)] /\ app[TxUpdate(r)] \in Nat
  BY <1>3, KindsDiffer
<1>5. \A a \in Accts : app2[AcctUpdate(a)] = app[AcctUpdate(a)]
  BY <1>3, KindsDiffer
<1>6. \A r : SameAccts(r, app, app2) /\ (r # s => SameTxs(r, app, app2))
  <2>1. \A r : TxsOf(r) \subseteq Txs /\ AcctsOf(r) \subseteq Accts /\ (r # s => t \notin TxsOf(r))
    BY DEF TxsOf, AcctsOf
  <2> QED
    BY <1>4, <1>5, <2>1 DEF SameAccts, SameTxs
<1>7. t \in TxsOf(s) /\ TxsOf(s) \subseteq Txs
  BY DEF TxsOf
<1> HIDE DEF u
<1>8. IxRecords(s, app2) =
         IxRecords(s, app) \cup (IF M[k].type = "InstructionParsed" THEN {t} ELSE {})
  <2>1. ASSUME NEW r \in TxsOf(s)
        PROVE  r \in IxRecords(s, app2) <=>
                  \/ r \in IxRecords(s, app)
                  \/ M[k].type = "InstructionParsed" /\ r = t
    <3>1. CASE r # t
      BY <1>4, <1>7, <3>1 DEF IxRecords
    <3>2. CASE r = t
      <4>1. \A j : j \in 1 .. k <=> j \in 1 .. app[u] \/ j = k
        BY <1>1 DEF u
      <4> QED
        BY <1>2, <3>2, <4>1 DEF IxRecords, u
    <3> QED
      BY <3>1, <3>2
  <2>2. IxRecords(s, app2) \subseteq TxsOf(s) /\ IxRecords(s, app) \subseteq TxsOf(s)
    BY DEF IxRecords
  <2> QED
    BY <1>7, <2>1, <2>2
<1>9. /\ <<t, k>> \notin IxStats(s, app)
      /\ IxStats(s, app2) =
            IxStats(s, app) \cup (IF M[k].type = "InstructionStat" THEN {<<t, k>>} ELSE {})
  <2>1. ASSUME NEW r \in TxsOf(s), NEW j \in 1 .. 4
        PROVE  <<r, j>> \in IxStats(s, app2) <=>
                  \/ <<r, j>> \in IxStats(s, app)
                  \/ M[k].type = "InstructionStat" /\ <<r, j>> = <<t, k>>
    <3>1. CASE r # t
      BY <1>4, <1>7, <3>1 DEF IxStats
    <3>2. CASE r = t
      <4>1. j <= k <=> j <= app[u] \/ j = k
        BY <1>1 DEF u
      <4> QED
        BY <1>2, <3>2, <4>1 DEF IxStats, u
    <3> QED
      BY <3>1, <3>2
  <2>2. /\ IxStats(s, app2) \subseteq TxsOf(s) \X (1 .. 4)
        /\ IxStats(s, app) \subseteq TxsOf(s) \X (1 .. 4)
    BY DEF IxStats
  <2>3. <<t, k>> \in TxsOf(s) \X (1 .. 4)
    BY <1>1, <1>7, Zenon
  <2>4. <<t, k>> \notin IxStats(s, app)
    <3>1. ~(k <= app[u])
      BY <1>1 DEF u
    <3> QED
      BY <3>1 DEF IxStats, u
  <2>5. \A p \in TxsOf(s) \X (1 .. 4) : p \in IxStats(s, app2) <=>
                  \/ p \in IxStats(s, app)
                  \/ M[k].type = "InstructionStat" /\ p = <<t, k>>
    <3> TAKE p \in TxsOf(s) \X (1 .. 4)
    <3>1. PICK r \in TxsOf(s), j \in 1 .. 4 : p = <<r, j>>
      OBVIOUS
    <3> QED
      BY <2>1, <3>1
  <2> QED
    BY <2>2, <2>3, <2>4, <2>5
<1>10. /\ t \notin TxsHandled(s, app)
       /\ TxsHandled(s, app2) =
             TxsHandled(s, app) \cup (IF M[k].type = "TransactionParsed" THEN {t} ELSE {})
  <2>1. t \notin TxsHandled(s, app)
    BY <1>1 DEF TxsHandled, Handled, u
  <2>2. M[k].type = "TransactionParsed" <=> k = Len(M)
    BY <1>1, OneTxMessage
  <2>3. ASSUME NEW r \in TxsOf(s)
        PROVE  r \in TxsHandled(s, app2) <=>
                  r \in TxsHandled(s, app) \/ (M[k].type = "TransactionParsed" /\ r = t)
    <3>1. CASE r # t
      BY <1>4, <1>7, <3>1 DEF TxsHandled, Handled
    <3>2. CASE r = t
      BY <1>2, <2>1, <2>2, <3>2 DEF TxsHandled, Handled, u
    <3> QED
      BY <3>1, <3>2
  <2>4. TxsHandled(s, app2) \subseteq TxsOf(s) /\ TxsHandled(s, app) \subseteq TxsOf(s)
    BY DEF TxsHandled
  <2> QED
    BY <1>7, <2>1, <2>3, <2>4
<1> QED
  BY <1>1, <1>2, <1>6, <1>8, <1>9, <1>10 DEF TxGrows

AcctGrows(s, a, app, app2) ==
    /\ \A r : SameTxs(r, app, app2) /\ (r # s => SameAccts(r, app, app2))
    /\ a \notin AcctsHandled(s, app)
    /\ AcctsHandled(s, app2) = AcctsHandled(s, app) \cup {a}

(* The message of an account update makes the update handled, and nothing  *)
(* else.                                                                   *)
LEMMA AcctApplied ==
    ASSUME NEW app \in [Updates -> Nat], NEW a \in Accts, app[AcctUpdate(a)] = 0
    PROVE  AcctGrows(AcctSlot[a], a, app, [app EXCEPT ![AcctUpdate(a)] = 1])
<1> DEFINE u == AcctUpdate(a)
<1>0. PICK s, app2 : s = AcctSlot[a] /\ app2 = [app EXCEPT ![AcctUpdate(a)] = 1]
  OBVIOUS
<1>1. u \in Updates /\ Len(HandlerMessages(u)) = 1
  BY KindsDiffer, AcctMessages
<1>2. app2 \in [Updates -> Nat] /\ app2[u] = 1
  BY <1>0, <1>1
<1>3. \A v \in Updates : v # u => app2[v] = app[v]
  BY <1>0, <1>1
<1>4. \A b \in Accts : b # a => app2[AcctUpdate(b)] = app[AcctUpdate(b)]
  BY <1>3, KindsDiffer
<1>5. \A t \in Txs : app2[TxUpdate(t)] = app[TxUpdate(t)]
  BY <1>3, KindsDiffer
<1>6. \A r : SameTxs(r, app, app2) /\ (r # s => SameAccts(r, app, app2))
  BY <1>0, <1>4, <1>5 DEF SameAccts, SameTxs, TxsOf, AcctsOf
<1>7. a \in AcctsOf(s) /\ AcctsOf(s) \subseteq Accts
  BY <1>0 DEF AcctsOf
<1>8. a \notin AcctsHandled(s, app) /\ a \in AcctsHandled(s, app2)
  BY <1>1, <1>2, <1>7 DEF AcctsHandled, Handled
<1>9. \A b \in AcctsOf(s) : b # a => (b \in AcctsHandled(s, app2) <=> b \in AcctsHandled(s, app))
  BY <1>4, <1>7 DEF AcctsHandled, Handled
<1>10. AcctsHandled(s, app2) \subseteq AcctsOf(s) /\ AcctsHandled(s, app) \subseteq AcctsOf(s)
  BY DEF AcctsHandled
<1>11. AcctsHandled(s, app2) = AcctsHandled(s, app) \cup {a}
  BY <1>7, <1>8, <1>9, <1>10
<1> QED
  BY <1>0, <1>6, <1>8, <1>11 DEF AcctGrows

-----------------------------------------------------------------------------
(* The coordinator's operators *)

(* Agreement of two entries on their instruction half, on what the account *)
(* half holds.                                                             *)
SameIxHalf(b, e) ==
    /\ e.ixDrained = b.ixDrained /\ e.ixRecords = b.ixRecords /\ e.ixStats = b.ixStats
    /\ e.parsedTx = b.parsedTx /\ e.expectedTx = b.expectedTx
    /\ e.parent = b.parent /\ e.ixCommitted = b.ixCommitted

SameAcctData(b, e) ==
    /\ e.acctRecords = b.acctRecords /\ e.acctStats = b.acctStats
    /\ e.processedAcct = b.processedAcct

SameAcctHalf(b, e) ==
    /\ SameAcctData(b, e)
    /\ e.acctDrained = b.acctDrained /\ e.acctCommitted = b.acctCommitted
    /\ e.expectedAcct = b.expectedAcct

LEMMA WithEntryType ==
    ASSUME NEW c \in States, NEW s \in Slots, NEW b \in Buffers,
           NEW d, d = WithEntry(c, s, b)
    PROVE  /\ d \in States
           /\ d.pending = c.pending \cup {s}
           /\ d.buf[s] = b
           /\ \A t \in Slots \ {s} : d.buf[t] = c.buf[t]
           /\ d.discarded = c.discarded
           /\ d.lastIx = c.lastIx
           /\ d.lastAcct = c.lastAcct
           /\ d.counts = c.counts
BY DEF WithEntry, States

LEMMA DefaultBufferType == DefaultBuffer \in Buffers
BY DEF DefaultBuffer, Buffers, None

LEMMA BufferAccountRecord ==
    ASSUME NEW b \in Buffers, NEW k \in AcctKeys
    PROVE  [b EXCEPT !.acctRecords = @ \cup {k}, !.processedAcct = @ + 1] \in Buffers
<1> DEFINE m == [b EXCEPT !.acctRecords = @ \cup {k}]
<1>1. m \in Buffers /\ m.processedAcct = b.processedAcct
  BY DEF Buffers, None
<1> HIDE DEF m
<1>2. [m EXCEPT !.processedAcct = @ + 1] \in Buffers
  BY <1>1 DEF Buffers, None
<1> QED
  BY <1>1, <1>2 DEF m

LEMMA BufferAccountStat ==
    ASSUME NEW b \in Buffers
    PROVE  [b EXCEPT !.acctStats = @ + 1, !.processedAcct = @ + 1] \in Buffers
<1> DEFINE m == [b EXCEPT !.acctStats = @ + 1]
<1>1. m \in Buffers /\ m.processedAcct = b.processedAcct
  BY DEF Buffers, None
<1> HIDE DEF m
<1>2. [m EXCEPT !.processedAcct = @ + 1] \in Buffers
  BY <1>1 DEF Buffers, None
<1> QED
  BY <1>1, <1>2 DEF m

LEMMA BufferMetadata ==
    ASSUME NEW b \in Buffers, NEW p \in Nat, NEW n \in Nat
    PROVE  [b EXCEPT !.parent = p, !.expectedTx = n] \in Buffers
<1> DEFINE m == [b EXCEPT !.parent = p]
<1>1. m \in Buffers /\ m.expectedTx = b.expectedTx
  BY DEF Buffers, None
<1> HIDE DEF m
<1>2. [m EXCEPT !.expectedTx = n] \in Buffers
  BY <1>1 DEF Buffers, None
<1> QED
  BY <1>1, <1>2 DEF m

LEMMA BufferInstructionsDrained ==
    ASSUME NEW b \in Buffers
    PROVE  [b EXCEPT !.ixRecords = {}, !.ixDrained = TRUE] \in Buffers
<1> DEFINE m == [b EXCEPT !.ixRecords = {}]
<1>1. m \in Buffers /\ m.ixDrained = b.ixDrained
  BY DEF Buffers, None
<1> HIDE DEF m
<1>2. [m EXCEPT !.ixDrained = TRUE] \in Buffers
  BY <1>1 DEF Buffers, None
<1> QED
  BY <1>1, <1>2 DEF m

LEMMA BufferAccountsDrained ==
    ASSUME NEW b \in Buffers
    PROVE  [b EXCEPT !.acctRecords = {}, !.acctDrained = TRUE] \in Buffers
<1> DEFINE m == [b EXCEPT !.acctRecords = {}]
<1>1. m \in Buffers /\ m.acctDrained = b.acctDrained
  BY DEF Buffers, None
<1> HIDE DEF m
<1>2. [m EXCEPT !.acctDrained = TRUE] \in Buffers
  BY <1>1 DEF Buffers, None
<1> QED
  BY <1>1, <1>2 DEF m

LEMMA InitialStateType == InitialState \in States
BY DefaultBufferType DEF InitialState, States, None

(* Pruning only forgets tombstones, and none of a fork if the retention is *)
(* wide enough.                                                            *)
LEMMA PruneFacts ==
    ASSUME NEW c \in States, NEW d, d = PruneDiscardedSlots(c)
    PROVE  /\ d \in States
           /\ d.pending = c.pending /\ d.buf = c.buf /\ d.counts = c.counts
           /\ d.lastIx = c.lastIx /\ d.lastAcct = c.lastAcct
           /\ d.discarded \subseteq c.discarded
           /\ WideRetention => c.discarded \ Canon \subseteq d.discarded
<1> DEFINE last == LastFlushedSlot(c)
           minRetained == IF last > Retention THEN last - Retention ELSE 0
           D == {s \in c.discarded : s > minRetained}
<1>1. last \in Slots \cup {None}
  BY DEF LastFlushedSlot, States
<1>2. d = c \/ d = [c EXCEPT !.discarded = D]
  BY DEF PruneDiscardedSlots
<1>3. D \subseteq c.discarded /\ c.discarded \subseteq Slots
  BY DEF States
<1>4. ASSUME WideRetention, NEW s \in c.discarded \ Canon PROVE s \in D
  <2>1. s \in Slots /\ s \in Nat /\ s > 0 /\ \A t \in Slots : t - s < Retention
    BY <1>3, <1>4, SlotsAssumption DEF WideRetention
  <2> HIDE DEF last
  <2>2. last \in Int /\ (last # None => last - s < Retention) /\ Retention \in Nat
    BY <1>1, <2>1, SlotsAssumption, ConfigAssumption DEF None
  <2>3. s > minRetained
    <3>1. CASE last > Retention
      <4>1. last # None
        BY <2>2, <3>1 DEF None
      <4> QED
        BY <2>1, <2>2, <3>1, <4>1
    <3>2. CASE ~(last > Retention)
      BY <2>1, <3>2
    <3> QED
      BY <3>1, <3>2
  <2> HIDE DEF minRetained
  <2> QED
    BY <1>4, <2>3
<1> HIDE DEF D
<1>5. CASE d = c
  BY <1>5
<1>6. CASE d = [c EXCEPT !.discarded = D]
  <2>1. /\ d \in States /\ d.discarded = D
        /\ d.pending = c.pending /\ d.buf = c.buf /\ d.counts = c.counts
        /\ d.lastIx = c.lastIx /\ d.lastAcct = c.lastAcct
    BY <1>3, <1>6 DEF States
  <2> QED
    BY <1>3, <1>4, <2>1
<1> QED
  BY <1>2, <1>5, <1>6

(* freeze_account_gate. *)
LEMMA FreezeFacts ==
    ASSUME NEW c \in States, NEW s \in Slots, NEW d, d = FreezeAccountGate(c, s)
    PROVE  /\ d \in States
           /\ d.pending = c.pending \cup {s}
           /\ d.discarded = c.discarded
           /\ d.lastIx = c.lastIx /\ d.lastAcct = c.lastAcct
           /\ \A t \in Slots \ {s} : d.buf[t] = c.buf[t] /\ d.counts[t] = c.counts[t]
           /\ d.counts[s] = 0
           /\ d.buf[s].acctCommitted
           /\ d.buf[s].expectedAcct = IF c.buf[s].expectedAcct = None
                                      THEN c.counts[s] ELSE c.buf[s].expectedAcct
           /\ SameIxHalf(c.buf[s], d.buf[s])
           /\ d.buf[s].acctDrained = c.buf[s].acctDrained
           /\ SameAcctData(c.buf[s], d.buf[s])
<1> DEFINE b0 == c.buf[s]
           b1 == SetExpectedAccountCount(b0, c.counts[s])
           b2 == [b1 EXCEPT !.acctCommitted = TRUE]
           m == WithEntry(c, s, b2)
<1>1. b0 \in Buffers /\ c.counts[s] \in Nat
  BY DEF States
<1>2. /\ b1 \in Buffers
      /\ b1.expectedAcct = IF b0.expectedAcct = None THEN c.counts[s] ELSE b0.expectedAcct
      /\ SameIxHalf(b0, b1) /\ SameAcctData(b0, b1) /\ b1.acctDrained = b0.acctDrained
  <2>1. CASE b0.expectedAcct = None
    <3>1. b1 = [b0 EXCEPT !.expectedAcct = c.counts[s]]
      BY <2>1 DEF SetExpectedAccountCount
    <3> HIDE DEF b1, b0
    <3> QED
      BY <1>1, <2>1, <3>1 DEF SameIxHalf, SameAcctData, Buffers
  <2>2. CASE b0.expectedAcct # None
    <3>1. b1 = b0
      BY <2>2 DEF SetExpectedAccountCount
    <3> HIDE DEF b1, b0
    <3> QED
      BY <1>1, <2>2, <3>1 DEF SameIxHalf, SameAcctData
  <2> QED
    BY <2>1, <2>2
<1> HIDE DEF b1, b0
<1>3. /\ b2 \in Buffers /\ b2.acctCommitted /\ b2.expectedAcct = b1.expectedAcct
      /\ SameIxHalf(b1, b2) /\ SameAcctData(b1, b2) /\ b2.acctDrained = b1.acctDrained
  BY <1>2 DEF SameIxHalf, SameAcctData, Buffers
<1> HIDE DEF b2
<1>4. /\ m \in States /\ m.pending = c.pending \cup {s} /\ m.buf[s] = b2
      /\ \A t \in Slots \ {s} : m.buf[t] = c.buf[t]
      /\ m.discarded = c.discarded /\ m.lastIx = c.lastIx
      /\ m.lastAcct = c.lastAcct /\ m.counts = c.counts
  BY <1>3, WithEntryType
<1>5. d = [m EXCEPT !.counts[s] = 0]
  BY DEF FreezeAccountGate, b1, b2, b0
<1> HIDE DEF m
<1>6. /\ d \in States /\ d.pending = m.pending /\ d.buf = m.buf
      /\ d.discarded = m.discarded /\ d.lastIx = m.lastIx /\ d.lastAcct = m.lastAcct
      /\ d.counts[s] = 0 /\ \A t \in Slots \ {s} : d.counts[t] = m.counts[t]
  BY <1>4, <1>5 DEF States
<1>7. SameIxHalf(b0, b2) /\ SameAcctData(b0, b2) /\ b2.acctDrained = b0.acctDrained
  BY <1>2, <1>3 DEF SameIxHalf, SameAcctData
<1> QED
  BY <1>2, <1>3, <1>4, <1>6, <1>7 DEF b0

(* discard_slot. *)
LEMMA DiscardFacts ==
    ASSUME NEW c \in States, NEW s \in Slots, NEW d, d = SlotDiscarded(c, s)
    PROVE  /\ d \in States
           /\ d.pending = c.pending \ {s}
           /\ d.buf[s] = DefaultBuffer /\ d.counts[s] = 0
           /\ \A t \in Slots \ {s} : d.buf[t] = c.buf[t] /\ d.counts[t] = c.counts[t]
           /\ d.lastIx = c.lastIx /\ d.lastAcct = c.lastAcct
           /\ d.discarded \subseteq c.discarded \cup {s}
           /\ WideRetention => (c.discarded \cup {s}) \ Canon \subseteq d.discarded
<1> DEFINE m0 == [c EXCEPT !.discarded = @ \cup {s}]
           m == [m0 EXCEPT !.counts[s] = 0]
           p == PruneDiscardedSlots(m)
           r == [p EXCEPT !.pending = @ \ {s}]
<1>1. /\ m0 \in States /\ m0.discarded = c.discarded \cup {s}
      /\ m0.pending = c.pending /\ m0.buf = c.buf /\ m0.counts = c.counts
      /\ m0.lastIx = c.lastIx /\ m0.lastAcct = c.lastAcct
  BY DEF States
<1>2. d = [r EXCEPT !.buf[s] = DefaultBuffer]
  BY DEF SlotDiscarded
<1> HIDE DEF m0
<1>3. /\ m \in States /\ m.discarded = m0.discarded
      /\ m.pending = m0.pending /\ m.buf = m0.buf
      /\ m.lastIx = m0.lastIx /\ m.lastAcct = m0.lastAcct
      /\ m.counts[s] = 0 /\ \A t \in Slots \ {s} : m.counts[t] = m0.counts[t]
  BY <1>1 DEF States
<1> HIDE DEF m
<1>4. /\ p \in States
      /\ p.pending = m.pending /\ p.buf = m.buf /\ p.counts = m.counts
      /\ p.lastIx = m.lastIx /\ p.lastAcct = m.lastAcct
      /\ p.discarded \subseteq m.discarded
      /\ WideRetention => m.discarded \ Canon \subseteq p.discarded
  BY <1>3, PruneFacts
<1> HIDE DEF p
<1>5. /\ r \in States /\ r.pending = p.pending \ {s} /\ r.buf = p.buf
      /\ r.counts = p.counts /\ r.discarded = p.discarded
      /\ r.lastIx = p.lastIx /\ r.lastAcct = p.lastAcct
  BY <1>4 DEF States
<1> HIDE DEF r
<1>6. /\ d \in States /\ d.pending = r.pending
      /\ d.buf[s] = DefaultBuffer /\ \A t \in Slots \ {s} : d.buf[t] = r.buf[t]
      /\ d.counts = r.counts /\ d.discarded = r.discarded
      /\ d.lastIx = r.lastIx /\ d.lastAcct = r.lastAcct
  BY <1>2, <1>5, DefaultBufferType DEF States
<1> QED
  BY <1>1, <1>3, <1>4, <1>5, <1>6

-----------------------------------------------------------------------------
(* What a step of the coordinator leaves alone. *)

SameItems(s, D, E) ==
    /\ Frozen(s) \in E <=> Frozen(s) \in D
    /\ Confirmed(s) \in E <=> Confirmed(s) \in D
    /\ Committed(s) \in E <=> Committed(s) \in D
    /\ Discarded(s) \in E <=> Discarded(s) \in D
    /\ \A a \in AcctsOf(s) : AcctUpdate(a) \in E <=> AcctUpdate(a) \in D

LEMMA SlotOfItem ==
    ASSUME NEW s
    PROVE  /\ Frozen(s).slot = s /\ Confirmed(s).slot = s
           /\ Committed(s).slot = s /\ Discarded(s).slot = s
           /\ \A a \in AcctsOf(s) : AcctUpdate(a).slot = s /\ AcctUpdate(a).type = "Account"
           /\ Frozen(s).type = "Frozen" /\ Confirmed(s).type = "Confirmed"
           /\ Committed(s).type = CommitEvent /\ Discarded(s).type = "Discarded"
           /\ CommitEvent \in {"Confirmed", "Finalized"}
<1>1. \A a \in AcctsOf(s) : AcctUpdate(a).slot = s /\ AcctUpdate(a).type = "Account"
  BY KindsDiffer DEF AcctsOf
<1>2. CommitEvent \in {"Confirmed", "Finalized"}
  BY DEF CommitEvent
<1>3. /\ Frozen(s).slot = s /\ Confirmed(s).slot = s
      /\ Committed(s).slot = s /\ Discarded(s).slot = s
      /\ Frozen(s).type = "Frozen" /\ Confirmed(s).type = "Confirmed"
      /\ Committed(s).type = CommitEvent /\ Discarded(s).type = "Discarded"
  BY DEF Frozen, Confirmed, Committed, Discarded, Lifecycle
<1> QED
  BY <1>1, <1>2, <1>3

LEMMA ItemElsewhere ==
    ASSUME NEW x, NEW s, x.slot # s, NEW D
    PROVE  SameItems(s, D, D \cup {x})
<1>1. /\ Frozen(s) # x /\ Confirmed(s) # x /\ Committed(s) # x /\ Discarded(s) # x
      /\ \A a \in AcctsOf(s) : AcctUpdate(a) # x
  BY SlotOfItem
<1> QED
  BY <1>1 DEF SameItems

LEMMA IxOpenFrame ==
    ASSUME NEW b, NEW e, NEW s, NEW done, NEW done2, NEW app, NEW app2,
           SameIxHalf(b, e), SameTxs(s, app, app2),
           Frozen(s) \in done2 <=> Frozen(s) \in done,
           Confirmed(s) \in done2 <=> Confirmed(s) \in done,
           IxOpen(b, s, done, app)
    PROVE  IxOpen(e, s, done2, app2)
<1>1. /\ IxRecords(s, app2) = IxRecords(s, app) /\ IxStats(s, app2) = IxStats(s, app)
      /\ TxsHandled(s, app2) = TxsHandled(s, app)
  BY SameTxSets
<1> QED
  BY <1>1 DEF IxOpen, SameIxHalf

LEMMA AcctOpenFrame ==
    ASSUME NEW b, NEW e, NEW n, NEW s, NEW done, NEW done2, NEW app, NEW app2,
           SameAcctHalf(b, e), SameAccts(s, app, app2),
           Committed(s) \in done2 <=> Committed(s) \in done,
           \A a \in AcctsOf(s) : AcctUpdate(a) \in done2 <=> AcctUpdate(a) \in done,
           AcctOpen(b, n, s, done, app)
    PROVE  AcctOpen(e, n, s, done2, app2)
<1>1. AcctsHandled(s, app2) = AcctsHandled(s, app)
  BY SameAcctSets
<1>2. {a \in AcctsOf(s) : AcctUpdate(a) \in done2} = {a \in AcctsOf(s) : AcctUpdate(a) \in done}
  OBVIOUS
<1> QED
  BY <1>1, <1>2 DEF AcctOpen, SameAcctHalf, SameAcctData

LEMMA FlushedFrame ==
    ASSUME NEW n, NEW s, NEW done, NEW done2, done \subseteq done2, NEW app, NEW app2
    PROVE  /\ IxFlushed(s, done, app) /\ SameTxs(s, app, app2) => IxFlushed(s, done2, app2)
           /\ AcctFlushed(n, s, done, app) /\ SameAccts(s, app, app2) =>
                 AcctFlushed(n, s, done2, app2)
BY SameTxSets, SameAcctSets DEF IxFlushed, AcctFlushed

(* The slots other than s are as they were. *)
OnlyAt(c, d, s) ==
    /\ \A t \in Slots \ {s} :
          /\ d.buf[t] = c.buf[t] /\ d.counts[t] = c.counts[t]
          /\ t \in d.pending <=> t \in c.pending
    /\ d.lastIx = c.lastIx /\ d.lastAcct = c.lastAcct
    /\ d.discarded \subseteq c.discarded \cup {s}
    /\ WideRetention => c.discarded \ Canon \subseteq d.discarded

(* An event about one slot leaves what is said of the others. *)
LEMMA OtherCanon ==
    ASSUME NEW c \in States, NEW d \in States, NEW s \in Slots, NEW t \in Canon, t # s,
           NEW done, NEW done2, done \subseteq done2, NEW app, NEW app2,
           OnlyAt(c, d, s), CanonOK(c, t, done, app), SameItems(t, done, done2),
           SameTxs(t, app, app2), SameAccts(t, app, app2)
    PROVE  CanonOK(d, t, done2, app2)
<1>1. /\ d.buf[t] = c.buf[t] /\ d.counts[t] = c.counts[t]
      /\ t \in d.pending <=> t \in c.pending
      /\ d.lastIx = c.lastIx /\ d.lastAcct = c.lastAcct
      /\ t \in d.discarded => t \in c.discarded
  BY SlotsFinite DEF OnlyAt
<1>2. SameIxHalf(c.buf[t], c.buf[t]) /\ SameAcctHalf(c.buf[t], c.buf[t])
  BY DEF SameIxHalf, SameAcctHalf, SameAcctData
<1>3. IxOpen(c.buf[t], t, done, app) => IxOpen(c.buf[t], t, done2, app2)
  BY <1>2, IxOpenFrame DEF SameItems
<1>4. AcctOpen(c.buf[t], c.counts[t], t, done, app) =>
         AcctOpen(c.buf[t], c.counts[t], t, done2, app2)
  BY <1>2, AcctOpenFrame DEF SameItems
<1>5. /\ IxFlushed(t, done, app) => IxFlushed(t, done2, app2)
      /\ AcctFlushed(c.counts[t], t, done, app) => AcctFlushed(c.counts[t], t, done2, app2)
  BY FlushedFrame
<1>6. Frozen(t) \in done2 <=> Frozen(t) \in done
  BY DEF SameItems
<1> QED
  BY <1>1, <1>3, <1>4, <1>5, <1>6 DEF CanonOK

(* A step at one slot is right if it is right at that slot. *)
LEMMA OneSlotStep ==
    ASSUME NEW c \in States, NEW d \in States, NEW s \in Slots,
           NEW done, NEW done2, done \subseteq done2, NEW app, NEW app2,
           CoordinatorOK(c, done, app), OnlyAt(c, d, s),
           \A t \in Slots \ {s} : /\ SameItems(t, done, done2)
                                  /\ SameTxs(t, app, app2) /\ SameAccts(t, app, app2),
           s \in Canon => CanonOK(d, s, done2, app2),
           s \notin Canon => ForkOK(d, s, done2)
    PROVE  CoordinatorOK(d, done2, app2)
<1>1. d.lastIx \in Canon \cup {None} /\ d.lastAcct \in Canon \cup {None}
  BY DEF CoordinatorOK, OnlyAt
<1>2. ASSUME NEW t \in Canon PROVE CanonOK(d, t, done2, app2)
  <2>1. CASE t = s
    BY <2>1
  <2>2. CASE t # s
    <3>1. t \in Slots \ {s} /\ CanonOK(c, t, done, app)
      BY <2>2, SlotsFinite DEF CoordinatorOK
    <3> QED
      BY <2>2, <3>1, OtherCanon
  <2> QED
    BY <2>1, <2>2
<1>3. ASSUME NEW t \in Slots \ Canon PROVE ForkOK(d, t, done2)
  <2>1. CASE t = s
    BY <1>3, <2>1
  <2>2. CASE t # s
    <3>1. ForkOK(c, t, done)
      BY <1>3 DEF CoordinatorOK
    <3>2. /\ d.buf[t] = c.buf[t] /\ d.counts[t] = c.counts[t]
          /\ t \in d.pending <=> t \in c.pending
          /\ WideRetention => (t \in c.discarded => t \in d.discarded)
      BY <1>3, <2>2 DEF OnlyAt
    <3>3. Discarded(t) \in done2 <=> Discarded(t) \in done
      BY <1>3, <2>2 DEF SameItems
    <3> QED
      BY <3>1, <3>2, <3>3 DEF ForkOK
  <2> QED
    BY <2>1, <2>2
<1> QED
  BY <1>1, <1>2, <1>3 DEF CoordinatorOK

(* A replaced entry, and nothing, are steps at one slot. *)
LEMMA EntryAtOnly ==
    ASSUME NEW c \in States, NEW s \in Slots, NEW b \in Buffers,
           NEW d, d = WithEntry(c, s, b)
    PROVE  /\ OnlyAt(c, d, s) /\ d \in States
           /\ d.buf[s] = b /\ d.counts[s] = c.counts[s] /\ s \in d.pending
           /\ d.discarded = c.discarded
BY WithEntryType DEF OnlyAt

-----------------------------------------------------------------------------
(* Messages of the handlers *)

(* An instruction message that arrives at a canonical slot is always in    *)
(* time: the slot is not flushed before all its transactions are handled.  *)
LEMMA TxMessageInTime ==
    ASSUME NEW c \in States, NEW done, NEW app, NEW t \in Txs,
           app[TxUpdate(t)] # Len(HandlerMessages(TxUpdate(t))),
           TxSlot[t] \in Canon, CanonOK(c, TxSlot[t], done, app)
    PROVE  ValidInstructionSlot(c, TxSlot[t])
<1>1. t \in TxsOf(TxSlot[t]) /\ t \notin TxsHandled(TxSlot[t], app)
  BY DEF TxsOf, TxsHandled, Handled
<1> QED
  BY <1>1 DEF CanonOK, IxFlushed, ValidInstructionSlot

(* The message of an account update of a canonical slot finds the slot     *)
(* open.                                                                   *)
LEMMA AcctMessageInTime ==
    ASSUME NEW c \in States, NEW done, NEW app, NEW a \in Accts,
           app[AcctUpdate(a)] = 0,
           AcctSlot[a] \in Canon, CanonOK(c, AcctSlot[a], done, app)
    PROVE  ValidAccountSlot(c, AcctSlot[a]) /\ ~(AcctSlot[a] <= c.lastAcct)
<1>1. a \in AcctsOf(AcctSlot[a]) /\ a \notin AcctsHandled(AcctSlot[a], app)
  BY AcctMessages DEF AcctsOf, AcctsHandled, Handled
<1> QED
  BY <1>1 DEF CanonOK, AcctFlushed, AcctOpen, ValidAccountSlot

(* The entry after a message of t. *)
TxMessageEntry(b, m, t) ==
    CASE m.type = "InstructionParsed" -> [b EXCEPT !.ixRecords = @ \cup {t}]
      [] m.type = "InstructionStat" -> [b EXCEPT !.ixStats = @ + 1]
      [] OTHER -> [b EXCEPT !.parsedTx = @ + 1]

LEMMA TxMessageEntryFacts ==
    ASSUME NEW b \in Buffers, NEW m, NEW t \in Txs, NEW e, e = TxMessageEntry(b, m, t),
           m.type \in {"InstructionStat", "InstructionParsed", "TransactionParsed"}
    PROVE  /\ e \in Buffers /\ SameAcctHalf(b, e)
           /\ e.ixDrained = b.ixDrained /\ e.expectedTx = b.expectedTx
           /\ e.parent = b.parent /\ e.ixCommitted = b.ixCommitted
           /\ e.ixRecords = b.ixRecords \cup (IF m.type = "InstructionParsed" THEN {t} ELSE {})
           /\ e.ixStats = b.ixStats + (IF m.type = "InstructionStat" THEN 1 ELSE 0)
           /\ e.parsedTx = b.parsedTx + (IF m.type = "TransactionParsed" THEN 1 ELSE 0)
<1>1. CASE m.type = "InstructionParsed"
  <2>1. e = [b EXCEPT !.ixRecords = @ \cup {t}] /\ t \in IxKeys
    BY <1>1, PipelineAssumption DEF TxMessageEntry
  <2> QED
    BY <1>1, <2>1 DEF Buffers, SameAcctHalf, SameAcctData
<1>2. CASE m.type = "InstructionStat"
  <2>1. e = [b EXCEPT !.ixStats = @ + 1]
    BY <1>2 DEF TxMessageEntry
  <2> QED
    BY <1>2, <2>1 DEF Buffers, SameAcctHalf, SameAcctData
<1>3. CASE m.type = "TransactionParsed"
  <2>1. e = [b EXCEPT !.parsedTx = @ + 1]
    BY <1>3 DEF TxMessageEntry
  <2> QED
    BY <1>3, <2>1 DEF Buffers, SameAcctHalf, SameAcctData
<1> QED
  BY <1>1, <1>2, <1>3

LEMMA TxMessageStep ==
    ASSUME NEW c \in States, NEW t \in Txs, NEW m, NEW s \in Slots,
           m.slot = s, m.key = t,
           m.type \in {"InstructionStat", "InstructionParsed", "TransactionParsed"},
           NEW d, d = ApplyParsed(c, m)
    PROVE  d = IF ValidInstructionSlot(c, s)
               THEN WithEntry(c, s, TxMessageEntry(c.buf[s], m, t)) ELSE c
<1>1. CASE m.type = "InstructionParsed"
  BY <1>1 DEF ApplyParsed, InstructionRecordParsed, TxMessageEntry
<1>2. CASE m.type = "InstructionStat"
  BY <1>2 DEF ApplyParsed, InstructionStat, TxMessageEntry
<1>3. CASE m.type = "TransactionParsed"
  BY <1>3 DEF ApplyParsed, TransactionParsed, TxMessageEntry
<1> QED
  BY <1>1, <1>2, <1>3

(* The instruction half after it. *)
LEMMA TxMessageOpen ==
    ASSUME NEW b \in Buffers, NEW e, NEW s, NEW done, NEW app, NEW app2,
           NEW t \in Txs, NEW k, NEW m, e = TxMessageEntry(b, m, t),
           m.type \in {"InstructionStat", "InstructionParsed", "TransactionParsed"},
           TxGrows(s, t, k, m, app, app2), IxOpen(b, s, done, app)
    PROVE  IxOpen(e, s, done, app2)
<1>1. /\ e.ixDrained = b.ixDrained /\ e.expectedTx = b.expectedTx
      /\ e.parent = b.parent /\ e.ixCommitted = b.ixCommitted
      /\ e.ixRecords = b.ixRecords \cup (IF m.type = "InstructionParsed" THEN {t} ELSE {})
      /\ e.ixStats = b.ixStats + (IF m.type = "InstructionStat" THEN 1 ELSE 0)
      /\ e.parsedTx = b.parsedTx + (IF m.type = "TransactionParsed" THEN 1 ELSE 0)
  BY TxMessageEntryFacts
<1>2. /\ IsFiniteSet(IxStats(s, app)) /\ Cardinality(IxStats(s, app)) \in Nat
      /\ IsFiniteSet(TxsHandled(s, app)) /\ Cardinality(TxsHandled(s, app)) \in Nat
  BY SetsFinite
<1>3. e.ixRecords = IxRecords(s, app2)
  BY <1>1 DEF TxGrows, IxOpen
<1>4. e.ixStats = Cardinality(IxStats(s, app2))
  <2>1. CASE m.type = "InstructionStat"
    <3>1. IxStats(s, app2) = IxStats(s, app) \cup {<<t, k>>} /\ <<t, k>> \notin IxStats(s, app)
      BY <2>1 DEF TxGrows
    <3>2. Cardinality(IxStats(s, app2)) = Cardinality(IxStats(s, app)) + 1
      BY <1>2, <3>1, FS_AddElement
    <3> QED
      BY <1>1, <2>1, <3>2 DEF IxOpen
  <2>2. CASE m.type # "InstructionStat"
    <3>1. IxStats(s, app2) = IxStats(s, app)
      BY <2>2 DEF TxGrows
    <3> QED
      BY <1>1, <1>2, <2>2, <3>1 DEF IxOpen
  <2> QED
    BY <2>1, <2>2
<1>5. e.parsedTx = Cardinality(TxsHandled(s, app2))
  <2>1. CASE m.type = "TransactionParsed"
    <3>1. TxsHandled(s, app2) = TxsHandled(s, app) \cup {t} /\ t \notin TxsHandled(s, app)
      BY <2>1 DEF TxGrows
    <3>2. Cardinality(TxsHandled(s, app2)) = Cardinality(TxsHandled(s, app)) + 1
      BY <1>2, <3>1, FS_AddElement
    <3> QED
      BY <1>1, <2>1, <3>2 DEF IxOpen
  <2>2. CASE m.type # "TransactionParsed"
    <3>1. TxsHandled(s, app2) = TxsHandled(s, app)
      BY <2>2 DEF TxGrows
    <3> QED
      BY <1>1, <1>2, <2>2, <3>1 DEF IxOpen
  <2> QED
    BY <2>1, <2>2
<1> QED
  BY <1>1, <1>3, <1>4, <1>5 DEF IxOpen

(* A message of a transaction's handler, applied, is counted in its slot's *)
(* entry.                                                                  *)
LEMMA TxMessageOK ==
    ASSUME NEW c \in States, NEW done, NEW app, NEW app2,
           NEW t \in Txs, NEW s, s = TxSlot[t], NEW k, NEW m,
           CoordinatorOK(c, done, app), TxGrows(s, t, k, m, app, app2),
           app[TxUpdate(t)] # Len(HandlerMessages(TxUpdate(t))),
           m.slot = s, m.key = t,
           m.type \in {"InstructionStat", "InstructionParsed", "TransactionParsed"},
           NEW d, d = ApplyParsed(c, m)
    PROVE  CoordinatorOK(d, done, app2)
<1>1. s \in Slots
  BY PipelineAssumption
<1>2. PICK b \in Buffers : b = c.buf[s]
  BY <1>1 DEF States
<1>3. PICK e : e = TxMessageEntry(b, m, t)
  OBVIOUS
<1>4. d = IF ValidInstructionSlot(c, s) THEN WithEntry(c, s, e) ELSE c
  BY <1>1, <1>2, <1>3, TxMessageStep
<1>5. /\ e \in Buffers /\ SameAcctHalf(b, e)
      /\ e.ixDrained = b.ixDrained /\ e.ixCommitted = b.ixCommitted
  BY <1>3, TxMessageEntryFacts
<1>6. \A r \in Slots \ {s} : /\ SameItems(r, done, done)
                             /\ SameTxs(r, app, app2) /\ SameAccts(r, app, app2)
  BY DEF SameItems, TxGrows
<1>7. ASSUME s \in Canon PROVE CoordinatorOK(d, done, app2)
  <2>1. CanonOK(c, s, done, app)
    BY <1>7 DEF CoordinatorOK
  <2>2. ValidInstructionSlot(c, s)
    BY <1>7, <2>1, TxMessageInTime
  <2>3. /\ OnlyAt(c, d, s) /\ d \in States
        /\ d.buf[s] = e /\ d.counts[s] = c.counts[s] /\ s \in d.pending
        /\ d.discarded = c.discarded
    BY <1>1, <1>4, <1>5, <2>2, EntryAtOnly
  <2>4. ~(s <= c.lastIx) /\ d.lastIx = c.lastIx /\ d.lastAcct = c.lastAcct
    BY <2>2, <2>3 DEF ValidInstructionSlot, OnlyAt
  <2>5. IxOpen(b, s, done, app)
    BY <1>2, <2>1, <2>4 DEF CanonOK
  <2>6. IxOpen(e, s, done, app2)
    BY <1>3, <2>5, TxMessageOpen
  <2>7. SameAccts(s, app, app2)
    BY DEF TxGrows
  <2>8. CASE s <= c.lastAcct
    <3>1. /\ AcctFlushed(c.counts[s], s, done, app)
          /\ s \in c.pending => b.acctDrained
          /\ Frozen(s) \in done => s \in c.pending
      BY <1>2, <2>1, <2>4, <2>8 DEF CanonOK
    <3>2. AcctFlushed(c.counts[s], s, done, app2)
      BY <2>7, <3>1, FlushedFrame
    <3>3. e.acctDrained
      BY <1>5, <3>1 DEF SameAcctHalf, AcctFlushed
    <3> QED
      BY <1>1, <1>6, <1>7, <2>1, <2>3, <2>4, <2>6, <2>8, <3>2, <3>3, OneSlotStep DEF CanonOK
  <2>9. CASE ~(s <= c.lastAcct)
    <3>1. AcctOpen(b, c.counts[s], s, done, app)
      BY <1>2, <2>1, <2>9 DEF CanonOK
    <3>2. AcctOpen(e, c.counts[s], s, done, app2)
      BY <1>5, <2>7, <3>1, AcctOpenFrame
    <3> QED
      BY <1>1, <1>6, <1>7, <2>1, <2>3, <2>4, <2>6, <2>9, <3>2, OneSlotStep DEF CanonOK
  <2> QED
    BY <2>8, <2>9
<1>8. ASSUME s \notin Canon PROVE CoordinatorOK(d, done, app2)
  <2>1. ForkOK(c, s, done)
    BY <1>1, <1>8 DEF CoordinatorOK
  <2>2. CASE ~ValidInstructionSlot(c, s)
    <3>1. d = c /\ OnlyAt(c, c, s)
      BY <1>4, <2>2 DEF OnlyAt
    <3> QED
      BY <1>1, <1>6, <1>8, <2>1, <3>1, OneSlotStep
  <2>3. CASE ValidInstructionSlot(c, s)
    <3>1. /\ OnlyAt(c, d, s) /\ d \in States
          /\ d.buf[s] = e /\ d.counts[s] = c.counts[s] /\ s \in d.pending
          /\ d.discarded = c.discarded
      BY <1>1, <1>4, <1>5, <2>3, EntryAtOnly
    <3>2. ForkOK(d, s, done)
      BY <1>2, <1>5, <2>1, <2>3, <3>1 DEF ForkOK, SameAcctHalf, ValidInstructionSlot
    <3> QED
      BY <1>1, <1>6, <1>8, <3>1, <3>2, OneSlotStep
  <2> QED
    BY <2>2, <2>3
<1> QED
  BY <1>7, <1>8

(* The same for an account's message. *)
AcctMessageEntry(b, a) ==
    IF AcctKind[a] = "record"
    THEN [b EXCEPT !.acctRecords = @ \cup {a}, !.processedAcct = @ + 1]
    ELSE [b EXCEPT !.acctStats = @ + 1, !.processedAcct = @ + 1]

LEMMA AcctMessageEntryFacts ==
    ASSUME NEW b \in Buffers, NEW a \in Accts, NEW e, e = AcctMessageEntry(b, a)
    PROVE  /\ e \in Buffers /\ SameIxHalf(b, e)
           /\ e.acctDrained = b.acctDrained /\ e.acctCommitted = b.acctCommitted
           /\ e.expectedAcct = b.expectedAcct
           /\ e.processedAcct = b.processedAcct + 1
           /\ AcctKind[a] = "record" =>
                 e.acctRecords = b.acctRecords \cup {a} /\ e.acctStats = b.acctStats
           /\ AcctKind[a] # "record" =>
                 e.acctRecords = b.acctRecords /\ e.acctStats = b.acctStats + 1
<1>1. CASE AcctKind[a] = "record"
  <2> DEFINE m == [b EXCEPT !.acctRecords = @ \cup {a}]
  <2>1. a \in AcctKeys
    BY PipelineAssumption
  <2>2. /\ m \in Buffers /\ SameIxHalf(b, m)
        /\ m.acctDrained = b.acctDrained /\ m.acctCommitted = b.acctCommitted
        /\ m.expectedAcct = b.expectedAcct /\ m.processedAcct = b.processedAcct
        /\ m.acctRecords = b.acctRecords \cup {a} /\ m.acctStats = b.acctStats
    BY <2>1 DEF Buffers, SameIxHalf
  <2>3. e = [m EXCEPT !.processedAcct = @ + 1]
    BY <1>1 DEF AcctMessageEntry
  <2> HIDE DEF m
  <2> QED
    BY <1>1, <2>2, <2>3 DEF Buffers, SameIxHalf
<1>2. CASE AcctKind[a] # "record"
  <2> DEFINE m == [b EXCEPT !.acctStats = @ + 1]
  <2>1. /\ m \in Buffers /\ SameIxHalf(b, m)
        /\ m.acctDrained = b.acctDrained /\ m.acctCommitted = b.acctCommitted
        /\ m.expectedAcct = b.expectedAcct /\ m.processedAcct = b.processedAcct
        /\ m.acctRecords = b.acctRecords /\ m.acctStats = b.acctStats + 1
    BY DEF Buffers, SameIxHalf
  <2>2. e = [m EXCEPT !.processedAcct = @ + 1]
    BY <1>2 DEF AcctMessageEntry
  <2> HIDE DEF m
  <2> QED
    BY <1>2, <2>1, <2>2 DEF Buffers, SameIxHalf
<1> QED
  BY <1>1, <1>2

LEMMA AcctMessageStep ==
    ASSUME NEW c \in States, NEW a \in Accts, NEW m, NEW s \in Slots,
           m.slot = s, m.key = a,
           m.type = IF AcctKind[a] = "record" THEN "AccountParsed" ELSE "AccountStat",
           NEW d, d = ApplyParsed(c, m)
    PROVE  d = IF ValidAccountSlot(c, s)
               THEN WithEntry(c, s, AcctMessageEntry(c.buf[s], a)) ELSE c
<1>1. CASE AcctKind[a] = "record"
  BY <1>1 DEF ApplyParsed, AccountRecordParsed, AcctMessageEntry
<1>2. CASE AcctKind[a] # "record"
  BY <1>2 DEF ApplyParsed, AccountStat, AcctMessageEntry
<1> QED
  BY <1>1, <1>2

LEMMA AcctMessageOpen ==
    ASSUME NEW b \in Buffers, NEW e, NEW n, NEW s, NEW done, NEW app, NEW app2,
           NEW a \in Accts, e = AcctMessageEntry(b, a),
           a \notin AcctsHandled(s, app),
           AcctsHandled(s, app2) = AcctsHandled(s, app) \cup {a},
           AcctOpen(b, n, s, done, app)
    PROVE  AcctOpen(e, n, s, done, app2)
<1> DEFINE H == AcctsHandled(s, app)
           StatsIn(S) == {x \in S : AcctKind[x] = "stat"}
           RecordsIn(S) == {x \in S : AcctKind[x] = "record"}
<1>1. /\ e.acctDrained = b.acctDrained /\ e.acctCommitted = b.acctCommitted
      /\ e.expectedAcct = b.expectedAcct
      /\ e.processedAcct = b.processedAcct + 1
      /\ AcctKind[a] = "record" =>
            e.acctRecords = b.acctRecords \cup {a} /\ e.acctStats = b.acctStats
      /\ AcctKind[a] # "record" =>
            e.acctRecords = b.acctRecords /\ e.acctStats = b.acctStats + 1
  BY AcctMessageEntryFacts
<1>2. AcctKind[a] \in {"record", "stat"}
  BY PipelineAssumption
<1>3. IsFiniteSet(H) /\ Cardinality(H) \in Nat
  BY SetsFinite
<1>4. Cardinality(H \cup {a}) = Cardinality(H) + 1
  BY <1>3, FS_AddElement
<1>5. IsFiniteSet(StatsIn(H)) /\ Cardinality(StatsIn(H)) \in Nat
  BY <1>3, FS_Subset, FS_CardinalityType
<1>6. e.processedAcct = Cardinality(H \cup {a})
  BY <1>1, <1>4 DEF AcctOpen
<1>7. e.acctRecords = RecordsIn(H \cup {a})
  <2>1. b.acctRecords = RecordsIn(H)
    BY DEF AcctOpen
  <2> HIDE DEF H
  <2> QED
    BY <1>1, <1>2, <2>1
<1>8. e.acctStats = Cardinality(StatsIn(H \cup {a}))
  <2>1. b.acctStats = Cardinality(StatsIn(H))
    BY DEF AcctOpen
  <2>2. CASE AcctKind[a] = "record"
    <3>1. StatsIn(H \cup {a}) = StatsIn(H)
      BY <2>2
    <3> QED
      BY <1>1, <2>1, <2>2, <3>1
  <2>3. CASE AcctKind[a] = "stat"
    <3>1. StatsIn(H \cup {a}) = StatsIn(H) \cup {a} /\ a \notin StatsIn(H)
      BY <2>3
    <3> HIDE DEF StatsIn
    <3>2. Cardinality(StatsIn(H \cup {a})) = Cardinality(StatsIn(H)) + 1
      BY <1>5, <3>1, FS_AddElement
    <3> QED
      BY <1>1, <2>1, <2>3, <3>2
  <2> QED
    BY <1>2, <2>2, <2>3
<1> QED
  BY <1>1, <1>6, <1>7, <1>8 DEF AcctOpen

(* A message of an account's handler, applied, is counted in its slot's    *)
(* entry.                                                                  *)
LEMMA AcctMessageOK ==
    ASSUME NEW c \in States, NEW done, NEW app, NEW app2,
           NEW a \in Accts, NEW s, s = AcctSlot[a], NEW m,
           CoordinatorOK(c, done, app), app[AcctUpdate(a)] = 0,
           \A r : SameTxs(r, app, app2) /\ (r # s => SameAccts(r, app, app2)),
           a \notin AcctsHandled(s, app),
           AcctsHandled(s, app2) = AcctsHandled(s, app) \cup {a},
           m.slot = s, m.key = a,
           m.type = IF AcctKind[a] = "record" THEN "AccountParsed" ELSE "AccountStat",
           NEW d, d = ApplyParsed(c, m)
    PROVE  CoordinatorOK(d, done, app2)
<1>1. s \in Slots
  BY PipelineAssumption
<1>2. PICK b \in Buffers : b = c.buf[s]
  BY <1>1 DEF States
<1>3. PICK e : e = AcctMessageEntry(b, a)
  OBVIOUS
<1>4. d = IF ValidAccountSlot(c, s) THEN WithEntry(c, s, e) ELSE c
  BY <1>1, <1>2, <1>3, AcctMessageStep
<1>5. /\ e \in Buffers /\ SameIxHalf(b, e)
      /\ e.acctDrained = b.acctDrained /\ e.acctCommitted = b.acctCommitted
  BY <1>3, AcctMessageEntryFacts
<1>6. \A r \in Slots \ {s} : /\ SameItems(r, done, done)
                             /\ SameTxs(r, app, app2) /\ SameAccts(r, app, app2)
  BY DEF SameItems
<1>7. ASSUME s \in Canon PROVE CoordinatorOK(d, done, app2)
  <2>1. CanonOK(c, s, done, app)
    BY <1>7 DEF CoordinatorOK
  <2>2. ValidAccountSlot(c, s) /\ ~(s <= c.lastAcct)
    BY <1>7, <2>1, AcctMessageInTime
  <2>3. /\ OnlyAt(c, d, s) /\ d \in States
        /\ d.buf[s] = e /\ d.counts[s] = c.counts[s] /\ s \in d.pending
        /\ d.discarded = c.discarded
    BY <1>1, <1>4, <1>5, <2>2, EntryAtOnly
  <2>4. d.lastIx = c.lastIx /\ d.lastAcct = c.lastAcct
    BY <2>3 DEF OnlyAt
  <2>5. AcctOpen(b, c.counts[s], s, done, app)
    BY <1>2, <2>1, <2>2 DEF CanonOK
  <2>6. AcctOpen(e, c.counts[s], s, done, app2)
    BY <1>3, <2>5, AcctMessageOpen
  <2>7. SameTxs(s, app, app2)
    OBVIOUS
  <2>8. CASE s <= c.lastIx
    <3>1. /\ IxFlushed(s, done, app)
          /\ s \in c.pending => b.ixDrained
          /\ Frozen(s) \in done => s \in c.pending
      BY <1>2, <2>1, <2>2, <2>8 DEF CanonOK
    <3>2. IxFlushed(s, done, app2)
      BY <2>7, <3>1, FlushedFrame
    <3>3. e.ixDrained
      BY <1>5, <3>1 DEF SameIxHalf, IxFlushed
    <3> QED
      BY <1>1, <1>6, <1>7, <2>1, <2>2, <2>3, <2>4, <2>6, <2>8, <3>2, <3>3, OneSlotStep DEF CanonOK
  <2>9. CASE ~(s <= c.lastIx)
    <3>1. IxOpen(b, s, done, app)
      BY <1>2, <2>1, <2>9 DEF CanonOK
    <3>2. IxOpen(e, s, done, app2)
      BY <1>5, <2>7, <3>1, IxOpenFrame
    <3> QED
      BY <1>1, <1>6, <1>7, <2>1, <2>2, <2>3, <2>4, <2>6, <2>9, <3>2, OneSlotStep DEF CanonOK
  <2> QED
    BY <2>8, <2>9
<1>8. ASSUME s \notin Canon PROVE CoordinatorOK(d, done, app2)
  <2>1. ForkOK(c, s, done)
    BY <1>1, <1>8 DEF CoordinatorOK
  <2>2. CASE ~ValidAccountSlot(c, s)
    <3>1. d = c /\ OnlyAt(c, c, s)
      BY <1>4, <2>2 DEF OnlyAt
    <3> QED
      BY <1>1, <1>6, <1>8, <2>1, <3>1, OneSlotStep
  <2>3. CASE ValidAccountSlot(c, s)
    <3>1. /\ OnlyAt(c, d, s) /\ d \in States
          /\ d.buf[s] = e /\ d.counts[s] = c.counts[s] /\ s \in d.pending
          /\ d.discarded = c.discarded
      BY <1>1, <1>4, <1>5, <2>3, EntryAtOnly
    <3>2. ForkOK(d, s, done)
      BY <1>2, <1>5, <2>1, <2>3, <3>1 DEF ForkOK, SameIxHalf, ValidAccountSlot
    <3> QED
      BY <1>1, <1>6, <1>8, <3>1, <3>2, OneSlotStep
  <2> QED
    BY <2>2, <2>3
<1> QED
  BY <1>7, <1>8

(* The same two facts, in the form ParsedStep needs them. *)
TxMessageOf(m, t) ==
    /\ m.slot = TxSlot[t] /\ m.key = t
    /\ m.type \in {"InstructionStat", "InstructionParsed", "TransactionParsed"}

AcctMessageOf(m, a) ==
    /\ m.slot = AcctSlot[a] /\ m.key = a
    /\ m.type = IF AcctKind[a] = "record" THEN "AccountParsed" ELSE "AccountStat"

LEMMA TxMessageApplies ==
    ASSUME NEW c \in States, NEW done, NEW app, NEW app2, NEW t \in Txs, NEW k, NEW m,
           CoordinatorOK(c, done, app), TxGrows(TxSlot[t], t, k, m, app, app2),
           ~Handled(TxUpdate(t), app), TxMessageOf(m, t)
    PROVE  CoordinatorOK(ApplyParsed(c, m), done, app2)
<1>1. PICK s : s = TxSlot[t]
  OBVIOUS
<1>2. /\ TxGrows(s, t, k, m, app, app2) /\ m.slot = s /\ m.key = t
      /\ m.type \in {"InstructionStat", "InstructionParsed", "TransactionParsed"}
      /\ app[TxUpdate(t)] # Len(HandlerMessages(TxUpdate(t)))
  BY <1>1 DEF TxMessageOf, Handled
<1> QED
  BY <1>1, <1>2, TxMessageOK

LEMMA AcctMessageApplies ==
    ASSUME NEW c \in States, NEW done, NEW app, NEW app2, NEW a \in Accts, NEW m,
           CoordinatorOK(c, done, app), AcctGrows(AcctSlot[a], a, app, app2),
           app[AcctUpdate(a)] = 0, AcctMessageOf(m, a)
    PROVE  CoordinatorOK(ApplyParsed(c, m), done, app2)
<1>1. PICK s : s = AcctSlot[a]
  OBVIOUS
<1>2. /\ \A r : SameTxs(r, app, app2) /\ (r # s => SameAccts(r, app, app2))
      /\ a \notin AcctsHandled(s, app)
      /\ AcctsHandled(s, app2) = AcctsHandled(s, app) \cup {a}
      /\ m.slot = s /\ m.key = a
      /\ m.type = IF AcctKind[a] = "record" THEN "AccountParsed" ELSE "AccountStat"
  BY <1>1 DEF AcctMessageOf, AcctGrows
<1> QED
  BY <1>1, <1>2, AcctMessageOK

(* The next message of an update's handler is applied. *)
LEMMA ParsedStep ==
    ASSUME NEW c \in States, NEW done, NEW app \in [Updates -> Nat],
           CoordinatorOK(c, done, app), NEW u \in Updates,
           app[u] + 1 <= Len(HandlerMessages(u))
    PROVE  CoordinatorOK(ApplyParsed(c, HandlerMessages(u)[app[u] + 1]), done,
                         [app EXCEPT ![u] = app[u] + 1])
<1>1. app[u] \in Nat /\ Len(HandlerMessages(u)) \in 1 .. 4
  BY MessagesLength
<1>2. ~Handled(u, app)
  BY <1>1 DEF Handled
<1>3. ASSUME NEW t \in Txs, u = TxUpdate(t)
      PROVE  CoordinatorOK(ApplyParsed(c, HandlerMessages(u)[app[u] + 1]), done,
                           [app EXCEPT ![u] = app[u] + 1])
  <2>1. PICK k, m, app2 : /\ k = app[u] + 1 /\ m = HandlerMessages(u)[app[u] + 1]
                          /\ app2 = [app EXCEPT ![u] = app[u] + 1]
    OBVIOUS
  <2>2. k \in 1 .. Len(HandlerMessages(TxUpdate(t))) /\ TxGrows(TxSlot[t], t, k, m, app, app2)
    BY <1>3, <2>1, TxApplied
  <2>3. TxMessageOf(m, t)
    BY <1>3, <2>1, <2>2, OneTxMessage DEF TxMessageOf
  <2>4. CoordinatorOK(ApplyParsed(c, m), done, app2)
    BY <1>2, <1>3, <2>2, <2>3, TxMessageApplies, Zenon
  <2> QED
    BY <2>1, <2>4, Zenon
<1>4. ASSUME NEW a \in Accts, u = AcctUpdate(a)
      PROVE  CoordinatorOK(ApplyParsed(c, HandlerMessages(u)[app[u] + 1]), done,
                           [app EXCEPT ![u] = app[u] + 1])
  <2>1. PICK m, app2 : m = HandlerMessages(u)[1] /\ app2 = [app EXCEPT ![u] = 1]
    OBVIOUS
  <2>2. Len(HandlerMessages(u)) = 1 /\ AcctMessageOf(m, a)
    BY <1>4, <2>1, AcctMessages DEF AcctMessageOf
  <2>3. app[u] = 0 /\ app[u] + 1 = 1
    BY <1>1, <2>2
  <2>4. AcctGrows(AcctSlot[a], a, app, app2)
    BY <1>4, <2>1, <2>3, AcctApplied, Zenon
  <2>5. CoordinatorOK(ApplyParsed(c, m), done, app2)
    BY <1>4, <2>2, <2>3, <2>4, AcctMessageApplies, Zenon
  <2> QED
    BY <2>1, <2>3, <2>5, Zenon
<1> QED
  BY <1>3, <1>4 DEF Updates

-----------------------------------------------------------------------------
(* Inputs: the next item of the stream reaches the coordinator. *)

LEMMA ReadyGrows ==
    ASSUME NEW x, NEW D, NEW E, D \subseteq E, Ready(x, D)
    PROVE  Ready(x, E)
BY DEF Ready

LEMMA InOrderGrows ==
    ASSUME NEW D, NEW x, InOrder(D), Ready(x, D)
    PROVE  InOrder(D \cup {x})
<1>1. ASSUME NEW y \in D \cup {x} PROVE Ready(y, D \cup {x})
  <2>1. Ready(y, D)
    BY <1>1 DEF InOrder
  <2> QED
    BY <2>1, ReadyGrows
<1> QED
  BY <1>1 DEF InOrder

(* The items of one slot differ; the account commitment is the one or the  *)
(* other of Confirmed and Finalized.                                       *)
LEMMA ItemsDiffer ==
    ASSUME NEW s
    PROVE  /\ Frozen(s) # Confirmed(s) /\ Frozen(s) # Committed(s) /\ Frozen(s) # Discarded(s)
           /\ Confirmed(s) # Discarded(s) /\ Committed(s) # Discarded(s)
           /\ \A a \in Accts : /\ AcctUpdate(a) # Frozen(s) /\ AcctUpdate(a) # Confirmed(s)
                               /\ AcctUpdate(a) # Committed(s) /\ AcctUpdate(a) # Discarded(s)
                               /\ AcctUpdate(a) # Lifecycle("Finalized", s)
           /\ Lifecycle("Finalized", s) # Frozen(s) /\ Lifecycle("Finalized", s) # Confirmed(s)
           /\ Lifecycle("Finalized", s) # Discarded(s)
           /\ AccountCommitAt = "Confirmed" => Committed(s) = Confirmed(s)
           /\ AccountCommitAt = "Finalized" => Committed(s) = Lifecycle("Finalized", s)
           /\ AccountCommitAt \in {"Confirmed", "Finalized"}
<1>1. /\ Frozen(s).type = "Frozen" /\ Confirmed(s).type = "Confirmed"
      /\ Committed(s).type \in {"Confirmed", "Finalized"} /\ Discarded(s).type = "Discarded"
  BY SlotOfItem
<1>2. Lifecycle("Finalized", s).type = "Finalized"
  BY DEF Lifecycle
<1>3. \A a \in Accts : AcctUpdate(a).type = "Account"
  BY KindsDiffer
<1>4. AccountCommitAt \in {"Confirmed", "Finalized"}
  BY ConfigAssumption
<1> QED
  BY <1>1, <1>2, <1>3, <1>4 DEF Committed, Confirmed, CommitEvent

LEMMA CanonFrame ==
    ASSUME NEW c, NEW s, NEW done, NEW done2, done \subseteq done2, NEW app,
           CanonOK(c, s, done, app), SameItems(s, done, done2)
    PROVE  CanonOK(c, s, done2, app)
<1>1. /\ SameTxs(s, app, app) /\ SameAccts(s, app, app)
      /\ SameIxHalf(c.buf[s], c.buf[s]) /\ SameAcctHalf(c.buf[s], c.buf[s])
  BY DEF SameTxs, SameAccts, SameIxHalf, SameAcctHalf, SameAcctData
<1>2. IxFlushed(s, done, app) => IxFlushed(s, done2, app)
  BY <1>1, FlushedFrame
<1>3. AcctFlushed(c.counts[s], s, done, app) => AcctFlushed(c.counts[s], s, done2, app)
  BY <1>1, FlushedFrame
<1>4. IxOpen(c.buf[s], s, done, app) => IxOpen(c.buf[s], s, done2, app)
  BY <1>1, IxOpenFrame DEF SameItems
<1>5. AcctOpen(c.buf[s], c.counts[s], s, done, app) =>
        AcctOpen(c.buf[s], c.counts[s], s, done2, app)
  BY <1>1, AcctOpenFrame DEF SameItems
<1> QED
  BY <1>2, <1>3, <1>4, <1>5 DEF CanonOK, SameItems

(* The hypotheses of every input step, and what an input leaves alone. *)
Applying(x, c, done, app) ==
    /\ CoordinatorOK(c, done, app) /\ InOrder(done)
    /\ x \notin done /\ Ready(x, done) /\ Fresh(x, done)

LEMMA InputElsewhere ==
    ASSUME NEW c \in States, NEW d \in States, NEW x, NEW s \in Slots, x.slot = s,
           NEW done, NEW app, CoordinatorOK(c, done, app), OnlyAt(c, d, s),
           s \in Canon => CanonOK(d, s, done \cup {x}, app),
           s \notin Canon => ForkOK(d, s, done \cup {x})
    PROVE  CoordinatorOK(d, done \cup {x}, app)
<1>1. PICK E : E = done \cup {x}
  OBVIOUS
<1>2. done \subseteq E
  BY <1>1
<1>3. \A t \in Slots \ {s} : SameItems(t, done, E)
  BY <1>1, ItemElsewhere
<1>4. \A t : SameTxs(t, app, app) /\ SameAccts(t, app, app)
  BY DEF SameTxs, SameAccts
<1>5. /\ s \in Canon => CanonOK(d, s, E, app)
      /\ s \notin Canon => ForkOK(d, s, E)
  BY <1>1
<1>6. CoordinatorOK(d, E, app)
  BY <1>2, <1>3, <1>4, <1>5, OneSlotStep
<1> QED
  BY <1>1, <1>6

(* BlockFrozen sets the expected count of the transactions and the parent. *)
LEMMA FrozenStep ==
    ASSUME NEW c \in States, NEW s \in Slots, NEW done, NEW app,
           Applying(Frozen(s), c, done, app)
    PROVE  CoordinatorOK(BlockFrozen(c, s, Parent[s], ExecutedTxs(s)),
                         done \cup {Frozen(s)}, app)
<1>1. PICK E, d, b : /\ E = done \cup {Frozen(s)} /\ b = c.buf[s]
                     /\ d = BlockFrozen(c, s, Parent[s], ExecutedTxs(s))
  OBVIOUS
<1>2. /\ CoordinatorOK(c, done, app) /\ Frozen(s) \notin done /\ Discarded(s) \notin done
  BY SlotOfItem DEF Applying, Fresh
<1>3. /\ b \in Buffers /\ Parent[s] \in Nat
      /\ ExecutedTxs(s) \in Nat /\ ExecutedTxs(s) = Cardinality(TxsOf(s))
  BY <1>1, BranchAssumption, OfSlotFinite DEF States, ExecutedTxs, TxsOf
<1>4. PICK e : e = [b EXCEPT !.parent = Parent[s], !.expectedTx = ExecutedTxs(s)]
  OBVIOUS
<1>5. e \in Buffers
  BY <1>3, <1>4, BufferMetadata
<1>6. /\ SameAcctHalf(b, e) /\ e.ixDrained = b.ixDrained /\ e.ixRecords = b.ixRecords
      /\ e.ixStats = b.ixStats /\ e.parsedTx = b.parsedTx /\ e.ixCommitted = b.ixCommitted
      /\ e.parent = Parent[s] /\ e.expectedTx = ExecutedTxs(s)
  BY <1>3, <1>4 DEF Buffers, SameAcctHalf, SameAcctData
<1>7. /\ Frozen(s) \in E /\ (Confirmed(s) \in E <=> Confirmed(s) \in done)
      /\ Committed(s) \in E <=> Committed(s) \in done
      /\ Discarded(s) \in E <=> Discarded(s) \in done
      /\ \A a \in Accts : AcctUpdate(a) \in E <=> AcctUpdate(a) \in done
  BY <1>1, ItemsDiffer
<1>8. d = IF IsAlreadyFlushed(c, s) THEN c ELSE WithEntry(c, s, e)
  BY <1>1, <1>4 DEF BlockFrozen
<1>9. WithEntry(c, s, e) \in States /\ OnlyAt(c, WithEntry(c, s, e), s)
  BY <1>5, EntryAtOnly
<1>10. OnlyAt(c, c, s)
  BY DEF OnlyAt
<1>11. d \in States /\ OnlyAt(c, d, s)
  BY <1>8, <1>9, <1>10
<1>12. ASSUME s \in Canon PROVE CanonOK(d, s, E, app)
  <2>1. CanonOK(c, s, done, app)
    BY <1>2, <1>12 DEF CoordinatorOK
  <2>2. /\ ~(s <= c.lastIx) /\ ~(s <= c.lastAcct) /\ s \notin c.discarded
        /\ IxOpen(b, s, done, app) /\ AcctOpen(b, c.counts[s], s, done, app)
    BY <1>1, <1>2, <2>1 DEF CanonOK, IxFlushed, AcctFlushed
  <2>3. d = WithEntry(c, s, e)
    BY <1>8, <2>2 DEF IsAlreadyFlushed
  <2>4. /\ d.buf[s] = e /\ d.counts[s] = c.counts[s] /\ s \in d.pending
        /\ d.discarded = c.discarded /\ d.lastIx = c.lastIx /\ d.lastAcct = c.lastAcct
    BY <1>5, <2>3, WithEntryType
  <2>5. IxOpen(e, s, E, app)
    BY <1>3, <1>6, <1>7, <2>2 DEF IxOpen
  <2>6. SameAccts(s, app, app)
    BY DEF SameAccts
  <2>7. \A a \in AcctsOf(s) : AcctUpdate(a) \in E <=> AcctUpdate(a) \in done
    BY <1>7 DEF AcctsOf
  <2>8. AcctOpen(e, c.counts[s], s, E, app)
    BY <1>6, <1>7, <2>2, <2>6, <2>7, AcctOpenFrame
  <2> QED
    BY <2>2, <2>4, <2>5, <2>8 DEF CanonOK
<1>13. ASSUME s \notin Canon PROVE ForkOK(d, s, E)
  <2>1. ForkOK(c, s, done)
    BY <1>2, <1>13 DEF CoordinatorOK
  <2>2. CASE d = c
    BY <1>7, <2>1, <2>2 DEF ForkOK
  <2>3. CASE d = WithEntry(c, s, e)
    <3>1. d.buf[s] = e
      BY <1>5, <2>3, WithEntryType
    <3> QED
      BY <1>1, <1>2, <1>6, <1>7, <2>1, <3>1 DEF ForkOK, SameAcctHalf
  <2> QED
    BY <1>8, <2>2, <2>3
<1> QED
  BY <1>1, <1>2, <1>11, <1>12, <1>13, SlotOfItem, InputElsewhere

(* The account gate of a canonical slot freezes at the number of its       *)
(* accounts: the commitment comes after all of them.                       *)
LEMMA FreezeOpen ==
    ASSUME NEW c \in States, NEW s \in Slots, NEW done, NEW E, NEW app, NEW d,
           d = FreezeAccountGate(c, s), Committed(s) \notin done, Committed(s) \in E,
           \A a \in AcctsOf(s) : AcctUpdate(a) \in done,
           AcctOpen(c.buf[s], c.counts[s], s, done, app)
    PROVE  AcctOpen(d.buf[s], d.counts[s], s, E, app)
<1>1. {a \in AcctsOf(s) : AcctUpdate(a) \in done} = AcctsOf(s)
  OBVIOUS
<1>2. c.counts[s] = Cardinality(AcctsOf(s)) /\ c.buf[s].expectedAcct = None
  BY <1>1 DEF AcctOpen
<1>3. /\ d.counts[s] = 0 /\ d.buf[s].acctCommitted
      /\ d.buf[s].expectedAcct = Cardinality(AcctsOf(s))
      /\ d.buf[s].acctDrained = c.buf[s].acctDrained
      /\ SameAcctData(c.buf[s], d.buf[s])
  BY <1>2, FreezeFacts
<1> QED
  BY <1>3 DEF AcctOpen, SameAcctData

(* freeze_account_gate touches one entry, and only its account half. *)
LEMMA FreezeAtOnly ==
    ASSUME NEW c \in States, NEW s \in Slots, NEW d, d = FreezeAccountGate(c, s)
    PROVE  /\ OnlyAt(c, d, s) /\ d \in States /\ s \in d.pending
           /\ d.discarded = c.discarded /\ SameIxHalf(c.buf[s], d.buf[s])
BY FreezeFacts DEF OnlyAt

LEMMA OnlyAtTwice ==
    ASSUME NEW c, NEW d, NEW e, NEW s, OnlyAt(c, d, s), OnlyAt(d, e, s)
    PROVE  OnlyAt(c, e, s)
BY DEF OnlyAt

(* SlotConfirmed commits the instructions and, in confirmed mode, freezes  *)
(* the account gate at the number of the slot's account updates.           *)
LEMMA ConfirmedStep ==
    ASSUME NEW c \in States, NEW s \in Slots, NEW done, NEW app,
           Applying(Confirmed(s), c, done, app)
    PROVE  CoordinatorOK(SlotConfirmed(c, s), done \cup {Confirmed(s)}, app)
<1>1. PICK E, d, b : /\ E = done \cup {Confirmed(s)} /\ b = c.buf[s]
                     /\ d = SlotConfirmed(c, s)
  OBVIOUS
<1>2. /\ CoordinatorOK(c, done, app) /\ Confirmed(s) \notin done /\ InOrder(done)
      /\ Ready(Confirmed(s), done)
  BY DEF Applying
<1>3. s \in Canon /\ Frozen(s) \in done
  BY <1>2, SlotOfItem DEF Ready
<1>4. CanonOK(c, s, done, app)
  BY <1>2, <1>3 DEF CoordinatorOK
<1>5. Committed(s) \notin done
  <2>1. CASE AccountCommitAt = "Confirmed"
    BY <1>2, <2>1, ItemsDiffer
  <2>2. CASE AccountCommitAt = "Finalized"
    <3>1. /\ Lifecycle("Finalized", s).type = "Finalized"
          /\ Lifecycle("Finalized", s).slot = s
      BY DEF Lifecycle
    <3>2. Lifecycle("Finalized", s) \notin done
      BY <1>2, <3>1 DEF InOrder, Ready
    <3> QED
      BY <2>2, <3>2, ItemsDiffer
  <2> QED
    BY <2>1, <2>2, ConfigAssumption
<1>6. /\ ~(s <= c.lastIx) /\ ~(s <= c.lastAcct) /\ s \notin c.discarded
      /\ IxOpen(b, s, done, app) /\ AcctOpen(b, c.counts[s], s, done, app)
  BY <1>1, <1>2, <1>4, <1>5 DEF CanonOK, IxFlushed, AcctFlushed
<1>7. b \in Buffers
  BY <1>1 DEF States
<1>8. PICK e : e = [b EXCEPT !.ixCommitted = TRUE]
  OBVIOUS
<1>9. /\ e \in Buffers /\ SameAcctHalf(b, e)
      /\ e.ixDrained = b.ixDrained /\ e.ixRecords = b.ixRecords
      /\ e.ixStats = b.ixStats /\ e.parsedTx = b.parsedTx /\ e.ixCommitted
      /\ e.parent = b.parent /\ e.expectedTx = b.expectedTx
  BY <1>7, <1>8 DEF Buffers, SameAcctHalf, SameAcctData
<1>10. /\ Confirmed(s) \in E /\ (Frozen(s) \in E <=> Frozen(s) \in done)
       /\ \A a \in AcctsOf(s) : AcctUpdate(a) \in E <=> AcctUpdate(a) \in done
  BY <1>1, ItemsDiffer DEF AcctsOf
<1>11. IxOpen(e, s, E, app)
  BY <1>2, <1>6, <1>9, <1>10 DEF IxOpen
<1>12. PICK marked : marked = WithEntry(c, s, e)
  OBVIOUS
<1>13. /\ marked \in States /\ OnlyAt(c, marked, s)
       /\ marked.buf[s] = e /\ marked.counts[s] = c.counts[s] /\ s \in marked.pending
       /\ marked.discarded = c.discarded
  BY <1>9, <1>12, EntryAtOnly
<1>14. SameTxs(s, app, app) /\ SameAccts(s, app, app)
  BY DEF SameTxs, SameAccts
<1>15. CASE AccountCommitAt = "Confirmed"
  <2>1. d = FreezeAccountGate(marked, s)
    BY <1>1, <1>6, <1>8, <1>12, <1>15 DEF SlotConfirmed, IsAlreadyFlushed
  <2>2. /\ OnlyAt(marked, d, s) /\ d \in States /\ s \in d.pending
        /\ d.discarded = c.discarded /\ SameIxHalf(e, d.buf[s])
    BY <1>13, <2>1, FreezeAtOnly
  <2>3. OnlyAt(c, d, s) /\ d.lastIx = c.lastIx /\ d.lastAcct = c.lastAcct
    BY <1>13, <2>2, OnlyAtTwice DEF OnlyAt
  <2>4. IxOpen(d.buf[s], s, E, app)
    BY <1>11, <1>14, <2>2, IxOpenFrame
  <2>5. \A a \in AcctsOf(s) : AcctUpdate(a) \in done
    BY <1>2, <1>15, SlotOfItem DEF Ready, CommitEvent
  <2>6. Committed(s) \in E
    BY <1>10, <1>15, ItemsDiffer
  <2>7. AcctOpen(e, c.counts[s], s, done, app)
    BY <1>6, <1>9, <1>14, AcctOpenFrame
  <2>8. AcctOpen(d.buf[s], d.counts[s], s, E, app)
    BY <1>5, <1>13, <2>1, <2>5, <2>6, <2>7, FreezeOpen
  <2>9. CanonOK(d, s, E, app)
    BY <1>6, <2>2, <2>3, <2>4, <2>8 DEF CanonOK
  <2> QED
    BY <1>1, <1>2, <1>3, <2>2, <2>3, <2>9, SlotOfItem, InputElsewhere
<1>16. CASE AccountCommitAt = "Finalized"
  <2>1. d = marked
    BY <1>1, <1>6, <1>8, <1>12, <1>16 DEF SlotConfirmed, IsAlreadyFlushed
  <2>2. Committed(s) \in E <=> Committed(s) \in done
    BY <1>1, <1>16, ItemsDiffer
  <2>3. AcctOpen(e, c.counts[s], s, E, app)
    BY <1>6, <1>9, <1>10, <1>14, <2>2, AcctOpenFrame
  <2>4. d.lastIx = c.lastIx /\ d.lastAcct = c.lastAcct
    BY <1>13, <2>1 DEF OnlyAt
  <2>5. CanonOK(d, s, E, app)
    BY <1>6, <1>11, <1>13, <2>1, <2>3, <2>4 DEF CanonOK
  <2> QED
    BY <1>1, <1>2, <1>3, <1>13, <2>1, <2>5, SlotOfItem, InputElsewhere
<1> QED
  BY <1>15, <1>16, ConfigAssumption

(* SlotFinalized does the latter in finalized mode. *)
LEMMA FinalizedStep ==
    ASSUME NEW c \in States, NEW s \in Slots, NEW done, NEW app, NEW x,
           x = Lifecycle("Finalized", s), Applying(x, c, done, app)
    PROVE  CoordinatorOK(SlotFinalized(c, s), done \cup {x}, app)
<1>1. PICK E, d, b : E = done \cup {x} /\ b = c.buf[s] /\ d = SlotFinalized(c, s)
  OBVIOUS
<1>2. CoordinatorOK(c, done, app) /\ x \notin done /\ InOrder(done) /\ Ready(x, done)
  BY DEF Applying
<1>3. x.type = "Finalized" /\ x.slot = s
  BY DEF Lifecycle
<1>4. s \in Canon /\ Confirmed(s) \in done
  BY <1>2, <1>3 DEF Ready
<1>5. Frozen(s) \in done
  BY <1>2, <1>4, SlotOfItem DEF InOrder, Ready
<1>6. CanonOK(c, s, done, app)
  BY <1>2, <1>4 DEF CoordinatorOK
<1>7. /\ Frozen(s) \in E <=> Frozen(s) \in done
      /\ Confirmed(s) \in E <=> Confirmed(s) \in done
      /\ Discarded(s) \in E <=> Discarded(s) \in done
      /\ \A a \in AcctsOf(s) : AcctUpdate(a) \in E <=> AcctUpdate(a) \in done
      /\ done \subseteq E /\ x \in E
  BY <1>1, ItemsDiffer DEF AcctsOf
<1>8. CASE AccountCommitAt = "Confirmed"
  <2>1. d = c /\ OnlyAt(c, c, s)
    BY <1>1, <1>8 DEF SlotFinalized, OnlyAt
  <2>2. Committed(s) \in E <=> Committed(s) \in done
    BY <1>7, <1>8, ItemsDiffer
  <2>3. SameItems(s, done, E)
    BY <1>7, <2>2 DEF SameItems
  <2>4. CanonOK(d, s, E, app)
    BY <1>6, <1>7, <2>1, <2>3, CanonFrame
  <2> QED
    BY <1>1, <1>2, <1>3, <1>4, <2>1, <2>4, InputElsewhere
<1>9. CASE AccountCommitAt = "Finalized"
  <2>1. Committed(s) = x
    BY <1>9, ItemsDiffer
  <2>2. /\ ~(s <= c.lastAcct) /\ s \notin c.discarded
        /\ AcctOpen(b, c.counts[s], s, done, app)
    BY <1>1, <1>2, <1>6, <2>1 DEF CanonOK, AcctFlushed
  <2>3. b \in Buffers
    BY <1>1 DEF States
  <2>4. PICK e : e = [b EXCEPT !.finalized = TRUE]
    OBVIOUS
  <2>5. e \in Buffers /\ SameAcctHalf(b, e) /\ SameIxHalf(b, e)
    BY <2>3, <2>4 DEF Buffers, SameAcctHalf, SameAcctData, SameIxHalf
  <2>6. PICK marked : marked = WithEntry(c, s, e)
    OBVIOUS
  <2>7. /\ marked \in States /\ OnlyAt(c, marked, s)
        /\ marked.buf[s] = e /\ marked.counts[s] = c.counts[s]
        /\ marked.discarded = c.discarded
    BY <2>5, <2>6, EntryAtOnly
  <2>8. d = FreezeAccountGate(marked, s)
    BY <1>1, <1>9, <2>2, <2>4, <2>6 DEF SlotFinalized, IsAlreadyFlushed
  <2>9. /\ OnlyAt(marked, d, s) /\ d \in States /\ s \in d.pending
        /\ d.discarded = c.discarded /\ SameIxHalf(e, d.buf[s])
    BY <2>7, <2>8, FreezeAtOnly
  <2>10. OnlyAt(c, d, s) /\ d.lastIx = c.lastIx /\ d.lastAcct = c.lastAcct
    BY <2>7, <2>9, OnlyAtTwice DEF OnlyAt
  <2>11. SameTxs(s, app, app) /\ SameAccts(s, app, app) /\ SameIxHalf(b, d.buf[s])
    BY <2>5, <2>9 DEF SameTxs, SameAccts, SameIxHalf
  <2>12. \A a \in AcctsOf(s) : AcctUpdate(a) \in done
    BY <1>2, <1>3, <1>9 DEF Ready, CommitEvent
  <2>13. AcctOpen(e, c.counts[s], s, done, app)
    BY <2>2, <2>5, <2>11, AcctOpenFrame
  <2>14. AcctOpen(d.buf[s], d.counts[s], s, E, app)
    BY <1>2, <1>7, <2>1, <2>7, <2>8, <2>12, <2>13, FreezeOpen
  <2>15. CanonOK(d, s, E, app)
    <3>1. CASE s <= c.lastIx
      <4>1. IxFlushed(s, done, app) /\ b.ixDrained
        BY <1>1, <1>5, <1>6, <2>2, <3>1 DEF CanonOK
      <4>2. IxFlushed(s, E, app) /\ d.buf[s].ixDrained
        BY <1>7, <2>11, <4>1, FlushedFrame DEF SameIxHalf
      <4> QED
        BY <2>2, <2>9, <2>10, <2>14, <3>1, <4>2 DEF CanonOK
    <3>2. CASE ~(s <= c.lastIx)
      <4>1. IxOpen(b, s, done, app)
        BY <1>1, <1>6, <3>2 DEF CanonOK
      <4>2. IxOpen(d.buf[s], s, E, app)
        BY <1>7, <2>11, <4>1, IxOpenFrame
      <4> QED
        BY <2>2, <2>9, <2>10, <2>14, <3>2, <4>2 DEF CanonOK
    <3> QED
      BY <3>1, <3>2
  <2> QED
    BY <1>1, <1>2, <1>3, <1>4, <2>9, <2>10, <2>15, InputElsewhere
<1> QED
  BY <1>8, <1>9, ConfigAssumption

(* discard_slot only ever meets a fork. *)
LEMMA DiscardedStep ==
    ASSUME NEW c \in States, NEW s \in Slots, NEW done, NEW app,
           Applying(Discarded(s), c, done, app)
    PROVE  CoordinatorOK(SlotDiscarded(c, s), done \cup {Discarded(s)}, app)
<1>1. PICK E, d : E = done \cup {Discarded(s)} /\ d = SlotDiscarded(c, s)
  OBVIOUS
<1>2. CoordinatorOK(c, done, app) /\ s \notin Canon
  BY SlotOfItem DEF Applying, Ready
<1>3. /\ d \in States /\ d.pending = c.pending \ {s}
      /\ d.buf[s] = DefaultBuffer /\ d.counts[s] = 0
      /\ \A t \in Slots \ {s} : d.buf[t] = c.buf[t] /\ d.counts[t] = c.counts[t]
      /\ d.lastIx = c.lastIx /\ d.lastAcct = c.lastAcct
      /\ d.discarded \subseteq c.discarded \cup {s}
      /\ WideRetention => (c.discarded \cup {s}) \ Canon \subseteq d.discarded
  BY <1>1, DiscardFacts
<1>4. OnlyAt(c, d, s)
  BY <1>3 DEF OnlyAt
<1>5. ForkOK(d, s, E)
  BY <1>2, <1>3 DEF ForkOK, DefaultBuffer
<1> QED
  BY <1>1, <1>2, <1>3, <1>4, <1>5, SlotOfItem, InputElsewhere

Counted(c, s) == [c EXCEPT !.counts[s] = @ + 1]

LEMMA CountStep ==
    ASSUME NEW c \in States, NEW s \in Slots, NEW d, d = Counted(c, s)
    PROVE  /\ d \in States /\ OnlyAt(c, d, s)
           /\ d.buf = c.buf /\ d.pending = c.pending /\ d.discarded = c.discarded
           /\ d.counts[s] = c.counts[s] + 1
BY DEF Counted, States, OnlyAt

(* AccountEventSeen of a canonical slot comes before its gate is frozen,   *)
(* and is counted.                                                         *)
LEMMA AccountStep ==
    ASSUME NEW c \in States, NEW a \in Accts, NEW done, NEW app,
           Applying(AcctUpdate(a), c, done, app)
    PROVE  CoordinatorOK(AccountEventSeen(c, AcctSlot[a]), done \cup {AcctUpdate(a)}, app)
<1>1. PICK s, E, d, counted : /\ s = AcctSlot[a] /\ E = done \cup {AcctUpdate(a)}
                              /\ d = AccountEventSeen(c, s)
                              /\ counted = Counted(c, s)
  OBVIOUS
<1>2. CoordinatorOK(c, done, app) /\ InOrder(done) /\ AcctUpdate(a) \notin done
  BY DEF Applying
<1>3. s \in Slots /\ a \in AcctsOf(s)
  BY <1>1, PipelineAssumption DEF AcctsOf
<1>4. /\ Frozen(s) \in E <=> Frozen(s) \in done
      /\ Confirmed(s) \in E <=> Confirmed(s) \in done
      /\ Committed(s) \in E <=> Committed(s) \in done
      /\ Discarded(s) \in E <=> Discarded(s) \in done
  BY <1>1, ItemsDiffer
<1>5. /\ counted \in States /\ OnlyAt(c, counted, s)
      /\ counted.buf = c.buf /\ counted.pending = c.pending
      /\ counted.discarded = c.discarded /\ counted.counts[s] = c.counts[s] + 1
  BY <1>1, <1>3, CountStep
<1>6. AcctUpdate(a).slot = s
  BY <1>3, SlotOfItem
<1>7. ASSUME s \in Canon PROVE CoordinatorOK(d, E, app)
  <2>1. CanonOK(c, s, done, app)
    BY <1>2, <1>7 DEF CoordinatorOK
  <2>2. Committed(s) \notin done
    BY <1>2, <1>3, SlotOfItem DEF InOrder, Ready
  <2>3. /\ ~(s <= c.lastAcct) /\ s \notin c.discarded
        /\ AcctOpen(c.buf[s], c.counts[s], s, done, app)
    BY <2>1, <2>2 DEF CanonOK, AcctFlushed
  <2>4. ~c.buf[s].acctCommitted
    BY <2>2, <2>3 DEF AcctOpen
  <2>5. d = counted
    BY <1>1, <2>3, <2>4
       DEF Counted, AccountEventSeen, IsAlreadyFlushed, AccountGateReached, IsAccountGateFrozen
  <2>6. PICK S : S = {b \in AcctsOf(s) : AcctUpdate(b) \in done}
    OBVIOUS
  <2>7. {b \in AcctsOf(s) : AcctUpdate(b) \in E} = S \cup {a} /\ a \notin S
    <3>1. \A b \in AcctsOf(s) : AcctUpdate(b) \in E <=> AcctUpdate(b) \in done \/ b = a
      BY <1>1, KindsDiffer DEF AcctsOf
    <3> QED
      BY <1>2, <1>3, <2>6, <3>1
  <2>8. IsFiniteSet(S)
    BY <2>6, OfSlotFinite, FS_Subset
  <2>9. Cardinality(S \cup {a}) = Cardinality(S) + 1
    BY <2>7, <2>8, FS_AddElement
  <2>10. AcctOpen(c.buf[s], counted.counts[s], s, E, app)
    BY <1>4, <1>5, <2>2, <2>3, <2>6, <2>7, <2>9 DEF AcctOpen
  <2>11. IxOpen(c.buf[s], s, done, app) => IxOpen(c.buf[s], s, E, app)
    BY <1>4 DEF IxOpen
  <2>12. IxFlushed(s, done, app) => IxFlushed(s, E, app)
    BY <1>4 DEF IxFlushed
  <2>13. counted.lastIx = c.lastIx /\ counted.lastAcct = c.lastAcct
    BY <1>5 DEF OnlyAt
  <2>14. CanonOK(counted, s, E, app)
    BY <1>4, <1>5, <2>1, <2>3, <2>10, <2>11, <2>12, <2>13 DEF CanonOK
  <2> QED
    BY <1>1, <1>2, <1>3, <1>5, <1>6, <1>7, <2>5, <2>14, InputElsewhere
<1>8. ASSUME s \notin Canon PROVE CoordinatorOK(d, E, app)
  <2>1. ForkOK(c, s, done)
    BY <1>2, <1>3, <1>8 DEF CoordinatorOK
  <2>2. \/ d = c
        \/ d = counted /\ s \notin c.discarded
    BY <1>1 DEF AccountEventSeen, Counted
  <2>3. CASE d = c
    <3>1. ForkOK(c, s, E) /\ OnlyAt(c, c, s)
      BY <1>4, <2>1 DEF ForkOK, OnlyAt
    <3> QED
      BY <1>1, <1>2, <1>3, <1>6, <1>8, <2>3, <3>1, InputElsewhere
  <2>4. CASE d = counted /\ s \notin c.discarded
    <3>1. ForkOK(d, s, E)
      BY <1>4, <1>5, <2>1, <2>4 DEF ForkOK
    <3> QED
      BY <1>1, <1>2, <1>3, <1>5, <1>6, <1>8, <2>4, <3>1, InputElsewhere
  <2> QED
    BY <2>2, <2>3, <2>4
<1> QED
  BY <1>1, <1>7, <1>8

(* What is taken from the source's channel is applied as one more item. *)
LEMMA InputStep ==
    ASSUME NEW c \in States, NEW x \in Items, NEW done, NEW app, Applying(x, c, done, app)
    PROVE  CoordinatorOK(ApplyInput(c, Wire(x)), done \cup {x}, app)
<1>1. ASSUME NEW a \in Accts, x = AcctUpdate(a)
      PROVE  CoordinatorOK(ApplyInput(c, Wire(x)), done \cup {x}, app)
  <2>1. x.type = "Account" /\ x.slot = AcctSlot[a]
    BY <1>1, KindsDiffer
  <2>2. Wire(x) = Lifecycle("AccountEventSeen", AcctSlot[a])
    BY <2>1 DEF Wire
  <2>3. PICK m : m = Lifecycle("AccountEventSeen", AcctSlot[a])
    OBVIOUS
  <2>4. m.type = "AccountEventSeen" /\ m.slot = AcctSlot[a]
    BY <2>3 DEF Lifecycle
  <2>5. ApplyInput(c, m) = AccountEventSeen(c, AcctSlot[a])
    BY <2>4 DEF ApplyInput
  <2> QED
    BY <1>1, <2>2, <2>3, <2>5, AccountStep
<1>2. ASSUME NEW kind \in Kinds, NEW s \in Slots, x = Lifecycle(kind, s)
      PROVE  CoordinatorOK(ApplyInput(c, Wire(x)), done \cup {x}, app)
  <2>1. kind \in {"Frozen", "Confirmed", "Finalized", "Discarded"}
    BY PipelineAssumption
  <2>2. x.type = kind /\ x.slot = s
    BY <1>2 DEF Lifecycle
  <2>3. Wire(x) = x
    BY <2>1, <2>2 DEF Wire
  <2>4. CASE kind = "Frozen"
    <3>1. ApplyInput(c, x) = BlockFrozen(c, s, Parent[s], ExecutedTxs(s))
      BY <2>2, <2>4 DEF ApplyInput
    <3>2. x = Frozen(s)
      BY <1>2, <2>4 DEF Frozen
    <3> QED
      BY <2>3, <3>1, <3>2, FrozenStep
  <2>5. CASE kind = "Confirmed"
    <3>1. ApplyInput(c, x) = SlotConfirmed(c, s)
      BY <2>2, <2>5 DEF ApplyInput
    <3>2. x = Confirmed(s)
      BY <1>2, <2>5 DEF Confirmed
    <3> QED
      BY <2>3, <3>1, <3>2, ConfirmedStep
  <2>6. CASE kind = "Finalized"
    <3>1. ApplyInput(c, x) = SlotFinalized(c, s)
      BY <2>2, <2>6 DEF ApplyInput
    <3> QED
      BY <1>2, <2>3, <2>6, <3>1, FinalizedStep
  <2>7. CASE kind = "Discarded"
    <3>1. ApplyInput(c, x) = SlotDiscarded(c, s)
      BY <2>2, <2>7 DEF ApplyInput
    <3>2. x = Discarded(s)
      BY <1>2, <2>7 DEF Discarded
    <3> QED
      BY <2>3, <3>1, <3>2, DiscardedStep
  <2> QED
    BY <2>1, <2>4, <2>5, <2>6, <2>7
<1> QED
  BY <1>1, <1>2 DEF Items

-----------------------------------------------------------------------------
(* Drains: what they do to the state.  F is what the walk flushes. *)

FlushIx(b) == [b EXCEPT !.ixRecords = {}, !.ixDrained = TRUE]
FlushAcct(b) == [b EXCEPT !.acctRecords = {}, !.acctDrained = TRUE]

LEMMA FlushFacts ==
    ASSUME NEW b \in Buffers
    PROVE  /\ FlushIx(b) \in Buffers /\ FlushAcct(b) \in Buffers
           /\ SameAcctHalf(b, FlushIx(b)) /\ FlushIx(b).ixDrained
           /\ SameIxHalf(b, FlushAcct(b)) /\ FlushAcct(b).acctDrained
           /\ FlushIx(b).ixCommitted = b.ixCommitted
           /\ FlushAcct(b).acctCommitted = b.acctCommitted
BY BufferInstructionsDrained, BufferAccountsDrained
   DEF FlushIx, FlushAcct, Buffers, SameAcctHalf, SameAcctData, SameIxHalf

(* The tombstones only shrink, and keep the forks if retention is wide. *)
Pruned(c, d) ==
    /\ d.discarded \subseteq c.discarded
    /\ WideRetention => c.discarded \ Canon \subseteq d.discarded

Cleaned(c, d) ==
    /\ \A s \in Slots :
          s \in d.pending <=> s \in c.pending /\ ~IsFullyDrained(c.buf[s])
    /\ \A s \in Slots :
          d.buf[s] = IF s \in c.pending /\ IsFullyDrained(c.buf[s])
                     THEN DefaultBuffer ELSE c.buf[s]
    /\ \A s \in Slots : d.counts[s] = IF s <= c.lastAcct THEN 0 ELSE c.counts[s]
    /\ d.lastIx = c.lastIx /\ d.lastAcct = c.lastAcct
    /\ Pruned(c, d)

LEMMA CleanupFacts ==
    ASSUME NEW c \in States, NEW d, d = CleanupFullyDrained(c)
    PROVE  d \in States /\ Cleaned(c, d)
<1> DEFINE gone == {s \in c.pending : IsFullyDrained(c.buf[s])}
           buf == [s \in Slots |-> IF s \in gone THEN DefaultBuffer ELSE c.buf[s]]
           counts == [s \in Slots |-> IF s <= c.lastAcct THEN 0 ELSE c.counts[s]]
           kept == [c EXCEPT !.pending = @ \ gone, !.buf = buf, !.counts = counts]
<1>1. buf \in [Slots -> Buffers] /\ counts \in [Slots -> Nat]
  BY DefaultBufferType DEF States
<1>2. d = PruneDiscardedSlots(kept)
  BY DEF CleanupFullyDrained
<1>3. /\ \A s \in Slots : buf[s] = IF s \in gone THEN DefaultBuffer ELSE c.buf[s]
      /\ \A s \in Slots : counts[s] = IF s <= c.lastAcct THEN 0 ELSE c.counts[s]
  OBVIOUS
<1>4. gone \subseteq c.pending
  OBVIOUS
<1> HIDE DEF buf, counts, gone
<1>5. /\ kept \in States
      /\ kept.pending = c.pending \ gone
      /\ kept.buf = buf /\ kept.counts = counts /\ kept.discarded = c.discarded
      /\ kept.lastIx = c.lastIx /\ kept.lastAcct = c.lastAcct
  BY <1>1 DEF States
<1> HIDE DEF kept
<1>6. /\ d \in States
      /\ d.pending = kept.pending /\ d.buf = kept.buf /\ d.counts = kept.counts
      /\ d.lastIx = kept.lastIx /\ d.lastAcct = kept.lastAcct
      /\ Pruned(kept, d)
  BY <1>2, <1>5, PruneFacts DEF Pruned
<1>7. Pruned(c, d)
  BY <1>5, <1>6 DEF Pruned
<1>8. \A s \in Slots : s \in gone <=> s \in c.pending /\ IsFullyDrained(c.buf[s])
  BY DEF gone
<1> QED
  BY <1>3, <1>5, <1>6, <1>7, <1>8 DEF Cleaned

GoneByIx(c, F, s) ==
    s \in c.pending /\ (s \in F \/ c.buf[s].ixDrained) /\ c.buf[s].acctDrained

DrainedIx(c, d, F) ==
    /\ d \in States
    /\ d.lastIx \in F /\ (\A s \in F : s <= d.lastIx) /\ d.lastAcct = c.lastAcct
    /\ \A s \in Slots : GoneByIx(c, F, s) => s \notin d.pending /\ d.buf[s] = DefaultBuffer
    /\ \A s \in Slots : ~GoneByIx(c, F, s) =>
          /\ s \in d.pending <=> s \in c.pending
          /\ d.buf[s] = IF s \in F THEN FlushIx(c.buf[s]) ELSE c.buf[s]
    /\ \A s \in Slots : d.counts[s] = IF s <= c.lastAcct THEN 0 ELSE c.counts[s]
    /\ Pruned(c, d)

LEMMA DrainInstructionFacts ==
    ASSUME NEW c \in States, NEW d, d = DrainInstructionFlushable(c),
           NEW F, F = InstructionFlushable(c), F # {}
    PROVE  DrainedIx(c, d, F)
<1> DEFINE buf == [s \in Slots |-> IF s \in F THEN FlushIx(c.buf[s]) ELSE c.buf[s]]
           e == [c EXCEPT !.lastIx = MaxSlot(F), !.buf = buf]
<1>1. F \subseteq c.pending /\ F \subseteq Slots
  BY DEF InstructionFlushable, UndrainedIx, States
<1>2. MaxSlot(F) \in F /\ \A s \in F : s <= MaxSlot(F)
  BY <1>1, MaxSlotIsGreatest
<1>3. \A s \in Slots : c.buf[s] \in Buffers
  BY DEF States
<1>4. d = CleanupFullyDrained(e)
  BY DEF DrainInstructionFlushable, FlushIx
<1>5. /\ buf \in [Slots -> Buffers]
      /\ \A s \in Slots : buf[s] = IF s \in F THEN FlushIx(c.buf[s]) ELSE c.buf[s]
  BY <1>3, FlushFacts
<1> HIDE DEF buf
<1>6. /\ e \in States /\ e.lastIx = MaxSlot(F) /\ e.lastAcct = c.lastAcct
      /\ e.pending = c.pending /\ e.buf = buf /\ e.counts = c.counts
      /\ e.discarded = c.discarded
  BY <1>1, <1>2, <1>5 DEF States
<1> HIDE DEF e
<1>7. \A s \in Slots : IsFullyDrained(e.buf[s]) <=>
                          (s \in F \/ c.buf[s].ixDrained) /\ c.buf[s].acctDrained
  <2> TAKE s \in Slots
  <2>1. c.buf[s] \in Buffers /\ e.buf[s] = IF s \in F THEN FlushIx(c.buf[s]) ELSE c.buf[s]
    BY <1>3, <1>5, <1>6
  <2>2. FlushIx(c.buf[s]).ixDrained /\ FlushIx(c.buf[s]).acctDrained = c.buf[s].acctDrained
    BY <2>1, FlushFacts DEF SameAcctHalf
  <2> QED
    BY <2>1, <2>2 DEF IsFullyDrained
<1>8. d \in States /\ Cleaned(e, d)
  BY <1>4, <1>6, CleanupFacts
<1>9. \A s \in Slots : GoneByIx(c, F, s) <=> s \in e.pending /\ IsFullyDrained(e.buf[s])
  BY <1>6, <1>7 DEF GoneByIx
<1>10. Pruned(c, d)
  BY <1>6, <1>8 DEF Cleaned, Pruned
<1> QED
  BY <1>2, <1>5, <1>6, <1>8, <1>9, <1>10 DEF Cleaned, DrainedIx

GoneByAcct(c, F, s) ==
    s \in c.pending /\ (s \in F \/ c.buf[s].acctDrained) /\ c.buf[s].ixDrained

DrainedAcct(c, d, F) ==
    /\ d \in States
    /\ d.lastAcct \in F /\ (\A s \in F : s <= d.lastAcct) /\ d.lastIx = c.lastIx
    /\ \A s \in Slots : GoneByAcct(c, F, s) => s \notin d.pending /\ d.buf[s] = DefaultBuffer
    /\ \A s \in Slots : ~GoneByAcct(c, F, s) =>
          /\ s \in d.pending <=> s \in c.pending
          /\ d.buf[s] = IF s \in F THEN FlushAcct(c.buf[s]) ELSE c.buf[s]
    /\ \A s \in Slots : d.counts[s] = IF s <= d.lastAcct THEN 0 ELSE c.counts[s]
    /\ Pruned(c, d)

LEMMA DrainAccountFacts ==
    ASSUME NEW c \in States, NEW d, d = DrainAccountFlushable(c),
           NEW F, F = AccountFlushable(c), F # {}
    PROVE  DrainedAcct(c, d, F)
<1> DEFINE buf == [s \in Slots |-> IF s \in F THEN FlushAcct(c.buf[s]) ELSE c.buf[s]]
           e == [c EXCEPT !.lastAcct = MaxSlot(F), !.buf = buf]
<1>1. F \subseteq c.pending /\ F \subseteq Slots
  BY DEF AccountFlushable, UndrainedAcct, States
<1>2. MaxSlot(F) \in F /\ \A s \in F : s <= MaxSlot(F)
  BY <1>1, MaxSlotIsGreatest
<1>3. \A s \in Slots : c.buf[s] \in Buffers
  BY DEF States
<1>4. d = CleanupFullyDrained(e)
  BY DEF DrainAccountFlushable, FlushAcct
<1>5. /\ buf \in [Slots -> Buffers]
      /\ \A s \in Slots : buf[s] = IF s \in F THEN FlushAcct(c.buf[s]) ELSE c.buf[s]
  BY <1>3, FlushFacts
<1> HIDE DEF buf
<1>6. /\ e \in States /\ e.lastAcct = MaxSlot(F) /\ e.lastIx = c.lastIx
      /\ e.pending = c.pending /\ e.buf = buf /\ e.counts = c.counts
      /\ e.discarded = c.discarded
  BY <1>1, <1>2, <1>5 DEF States
<1> HIDE DEF e
<1>7. \A s \in Slots : IsFullyDrained(e.buf[s]) <=>
                          (s \in F \/ c.buf[s].acctDrained) /\ c.buf[s].ixDrained
  <2> TAKE s \in Slots
  <2>1. c.buf[s] \in Buffers /\ e.buf[s] = IF s \in F THEN FlushAcct(c.buf[s]) ELSE c.buf[s]
    BY <1>3, <1>5, <1>6
  <2>2. FlushAcct(c.buf[s]).acctDrained /\ FlushAcct(c.buf[s]).ixDrained = c.buf[s].ixDrained
    BY <2>1, FlushFacts DEF SameIxHalf
  <2> QED
    BY <2>1, <2>2 DEF IsFullyDrained
<1>8. d \in States /\ Cleaned(e, d)
  BY <1>4, <1>6, CleanupFacts
<1>9. \A s \in Slots : GoneByAcct(c, F, s) <=> s \in e.pending /\ IsFullyDrained(e.buf[s])
  BY <1>6, <1>7 DEF GoneByAcct
<1>10. Pruned(c, d)
  BY <1>6, <1>8 DEF Cleaned, Pruned
<1> QED
  BY <1>2, <1>5, <1>6, <1>8, <1>9, <1>10 DEF Cleaned, DrainedAcct

(* Drains: the walks flush the next slots of the chain, each complete. *)

LEMMA SubsetFull ==
    ASSUME NEW S, NEW T, IsFiniteSet(T), S \subseteq T, Cardinality(S) >= Cardinality(T)
    PROVE  S = T
<1>1. Cardinality(S) <= Cardinality(T) /\ IsFiniteSet(S)
  BY FS_Subset
<1>2. Cardinality(S) \in Nat /\ Cardinality(T) \in Nat
  BY <1>1, FS_CardinalityType
<1>3. Cardinality(S) = Cardinality(T)
  BY <1>1, <1>2
<1> QED
  BY <1>3, FS_Subset

(* A canonical slot follows the frozen canonical slots below it. *)
LEMMA FrozenBelow ==
    ASSUME NEW done, InOrder(done), NEW s \in Canon, NEW t \in Canon, t <= s,
           Frozen(s) \in done
    PROVE  Frozen(t) \in done
<1>1. s \in Nat /\ t \in Nat
  BY SlotsFinite
<1>2. Ready(Frozen(s), done)
  BY DEF InOrder
<1>3. CASE t = s
  BY <1>3
<1>4. CASE t < s
  BY <1>2, <1>4, SlotOfItem DEF Ready
<1> QED
  BY <1>1, <1>3, <1>4

LEMMA CommittedFrozen ==
    ASSUME NEW done, InOrder(done), NEW s, Committed(s) \in done
    PROVE  Frozen(s) \in done
<1>1. Confirmed(s) \in done
  <2>1. CASE AccountCommitAt = "Confirmed"
    BY <2>1, ItemsDiffer
  <2>2. CASE AccountCommitAt = "Finalized"
    <3>1. /\ Lifecycle("Finalized", s).type = "Finalized"
          /\ Lifecycle("Finalized", s).slot = s
      BY DEF Lifecycle
    <3>2. Lifecycle("Finalized", s) \in done
      BY <2>2, ItemsDiffer
    <3> QED
      BY <3>1, <3>2 DEF InOrder, Ready
  <2> QED
    BY <2>1, <2>2, ConfigAssumption
<1> QED
  BY <1>1, SlotOfItem DEF InOrder, Ready

(* An instruction gate that has opened has all transactions of its slot    *)
(* behind it.                                                              *)
LEMMA IxGate ==
    ASSUME NEW c \in States, NEW done, NEW app, CoordinatorOK(c, done, app),
           NEW s \in c.pending, ~c.buf[s].ixDrained, InstructionGateReached(c.buf[s])
    PROVE  /\ s \in Canon /\ ~(s <= c.lastIx) /\ IxOpen(c.buf[s], s, done, app)
           /\ IxFlushed(s, done, app)
<1>1. s \in Slots /\ c.buf[s].ixCommitted /\ TxParseComplete(c.buf[s])
  BY DEF States, InstructionGateReached
<1>2. s \in Canon
  BY <1>1 DEF CoordinatorOK, ForkOK
<1>3. CanonOK(c, s, done, app)
  BY <1>2 DEF CoordinatorOK
<1>4. ~(s <= c.lastIx) /\ IxOpen(c.buf[s], s, done, app)
  BY <1>3 DEF CanonOK
<1>5. /\ Frozen(s) \in done /\ Confirmed(s) \in done
      /\ Cardinality(TxsHandled(s, app)) >= Cardinality(TxsOf(s))
  BY <1>1, <1>4 DEF IxOpen, TxParseComplete
<1>6. TxsHandled(s, app) = TxsOf(s)
  BY <1>5, OfSlotFinite, SubsetFull DEF TxsHandled
<1> QED
  BY <1>2, <1>4, <1>5, <1>6 DEF IxFlushed

(* So does an account gate, with the account updates. *)
LEMMA AcctGate ==
    ASSUME NEW c \in States, NEW done, NEW app, CoordinatorOK(c, done, app), InOrder(done),
           NEW s \in c.pending, ~c.buf[s].acctDrained, AccountGateReached(c.buf[s])
    PROVE  /\ s \in Canon /\ ~(s <= c.lastAcct)
           /\ AcctOpen(c.buf[s], c.counts[s], s, done, app)
           /\ AcctFlushed(0, s, done, app)
<1>1. s \in Slots /\ c.buf[s].acctCommitted /\ AccountParseComplete(c.buf[s])
  BY DEF States, AccountGateReached
<1>2. s \in Canon
  BY <1>1 DEF CoordinatorOK, ForkOK
<1>3. CanonOK(c, s, done, app)
  BY <1>2 DEF CoordinatorOK
<1>4. ~(s <= c.lastAcct) /\ AcctOpen(c.buf[s], c.counts[s], s, done, app)
  BY <1>3 DEF CanonOK
<1>5. /\ Committed(s) \in done
      /\ Cardinality(AcctsHandled(s, app)) >= Cardinality(AcctsOf(s))
  BY <1>1, <1>4 DEF AcctOpen, AccountParseComplete
<1>6. AcctsHandled(s, app) = AcctsOf(s)
  BY <1>5, OfSlotFinite, SubsetFull DEF AcctsHandled
<1>7. Frozen(s) \in done
  BY <1>5, CommittedFrozen
<1> QED
  BY <1>2, <1>4, <1>5, <1>6, <1>7 DEF AcctFlushed

LEMMA FrontierType ==
    ASSUME NEW c \in States
    PROVE  c.lastIx \in Int /\ c.lastAcct \in Int
<1>1. c.lastIx \in Slots \cup {None} /\ c.lastAcct \in Slots \cup {None}
  BY DEF States
<1>2. Slots \subseteq Int /\ None \in Int
  BY SlotsFinite DEF None
<1> QED
  BY <1>1, <1>2

(* l is behind every slot of a batch that ends with m. *)
LEMMA Behind ==
    ASSUME NEW l \in Int, NEW m \in Nat, ~(m <= l)
    PROVE  m \in Int /\ l < m
OBVIOUS

NextSlots(F, l, m) ==
    F = {s \in Canon : l < s /\ s <= m} /\ l \in Int /\ m \in Int /\ l < m

(* A walk releases the canonical slots between the old frontier and the    *)
(* new one, all of them.                                                   *)
LEMMA IxFlushedSlots ==
    ASSUME NEW c \in States, NEW done, NEW app, CoordinatorOK(c, done, app), InOrder(done),
           NEW F, F = InstructionFlushable(c), F # {},
           NEW m \in F, \A s \in F : s <= m
    PROVE  /\ NextSlots(F, c.lastIx, m)
           /\ \A s \in F : /\ s \in c.pending /\ IxOpen(c.buf[s], s, done, app)
                           /\ IxFlushed(s, done, app)
<1>1. \A s \in F : s \in c.pending /\ ~c.buf[s].ixDrained /\ InstructionGateReached(c.buf[s])
  <2> TAKE s \in F
  <2>1. s \in UndrainedIx(c) /\ s \in Nat
    BY SlotsFinite DEF InstructionFlushable, UndrainedIx, States
  <2>2. s <= s
    BY <2>1
  <2> QED
    BY <2>1, <2>2 DEF InstructionFlushable, UndrainedIx
<1>2. \A s \in F : /\ s \in Canon /\ ~(s <= c.lastIx)
                   /\ IxOpen(c.buf[s], s, done, app) /\ IxFlushed(s, done, app)
  BY <1>1, IxGate
<1>3. c.lastIx \in Int /\ Canon \subseteq Nat /\ m \in Int /\ c.lastIx < m
  <2>1. c.lastIx \in Int
    BY FrontierType
  <2>2. Canon \subseteq Nat
    BY SlotsFinite
  <2>3. m \in Nat /\ ~(m <= c.lastIx)
    BY <1>2, <2>2
  <2> QED
    BY <2>1, <2>2, <2>3, Behind
<1>4. ASSUME NEW t \in Canon, c.lastIx < t, t <= m PROVE t \in F
  <2>1. Frozen(m) \in done /\ m \in Canon
    BY <1>2 DEF IxFlushed
  <2>2. Frozen(t) \in done
    BY <1>4, <2>1, FrozenBelow
  <2>3. ~(t <= c.lastIx)
    BY <1>3, <1>4
  <2>4. CanonOK(c, t, done, app)
    BY DEF CoordinatorOK
  <2>5. t \in c.pending /\ ~c.buf[t].ixDrained
    BY <2>2, <2>3, <2>4 DEF CanonOK, IxOpen
  <2>6. \A r \in UndrainedIx(c) : r <= t => r <= m
    <3>1. UndrainedIx(c) \subseteq Nat
      BY SlotsFinite DEF UndrainedIx, States
    <3> QED
      BY <1>3, <1>4, <3>1
  <2> QED
    BY <2>5, <2>6 DEF InstructionFlushable, UndrainedIx
<1>5. F = {s \in Canon : c.lastIx < s /\ s <= m}
  <2>1. \A s \in F : c.lastIx < s
    BY <1>2, <1>3
  <2> QED
    BY <1>2, <1>4, <2>1
<1> QED
  BY <1>1, <1>2, <1>3, <1>5 DEF NextSlots

(* The same for the account walk. *)
LEMMA AcctFlushedSlots ==
    ASSUME NEW c \in States, NEW done, NEW app, CoordinatorOK(c, done, app), InOrder(done),
           NEW F, F = AccountFlushable(c), F # {},
           NEW m \in F, \A s \in F : s <= m
    PROVE  /\ NextSlots(F, c.lastAcct, m)
           /\ \A s \in F : /\ s \in c.pending /\ AcctOpen(c.buf[s], c.counts[s], s, done, app)
                           /\ AcctFlushed(0, s, done, app)
<1>1. \A s \in F : s \in c.pending /\ ~c.buf[s].acctDrained /\ AccountGateReached(c.buf[s])
  <2> TAKE s \in F
  <2>1. s \in UndrainedAcct(c) /\ s \in Nat
    BY SlotsFinite DEF AccountFlushable, UndrainedAcct, States
  <2>2. s <= s
    BY <2>1
  <2> QED
    BY <2>1, <2>2 DEF AccountFlushable, UndrainedAcct
<1>2. \A s \in F : /\ s \in Canon /\ ~(s <= c.lastAcct)
                   /\ AcctOpen(c.buf[s], c.counts[s], s, done, app)
                   /\ AcctFlushed(0, s, done, app)
  BY <1>1, AcctGate
<1>3. c.lastAcct \in Int /\ Canon \subseteq Nat /\ m \in Int /\ c.lastAcct < m
  <2>1. c.lastAcct \in Int
    BY FrontierType
  <2>2. Canon \subseteq Nat
    BY SlotsFinite
  <2>3. m \in Nat /\ ~(m <= c.lastAcct)
    BY <1>2, <2>2
  <2> QED
    BY <2>1, <2>2, <2>3, Behind
<1>4. ASSUME NEW t \in Canon, c.lastAcct < t, t <= m PROVE t \in F
  <2>1. Frozen(m) \in done /\ m \in Canon
    BY <1>2 DEF AcctFlushed
  <2>2. Frozen(t) \in done
    BY <1>4, <2>1, FrozenBelow
  <2>3. ~(t <= c.lastAcct)
    BY <1>3, <1>4
  <2>4. CanonOK(c, t, done, app)
    BY DEF CoordinatorOK
  <2>5. t \in c.pending /\ ~c.buf[t].acctDrained
    BY <2>2, <2>3, <2>4 DEF CanonOK, AcctOpen
  <2>6. \A r \in UndrainedAcct(c) : r <= t => r <= m
    <3>1. UndrainedAcct(c) \subseteq Nat
      BY SlotsFinite DEF UndrainedAcct, States
    <3> QED
      BY <1>3, <1>4, <3>1
  <2> QED
    BY <2>5, <2>6 DEF AccountFlushable, UndrainedAcct
<1>5. F = {s \in Canon : c.lastAcct < s /\ s <= m}
  <2>1. \A s \in F : c.lastAcct < s
    BY <1>2, <1>3
  <2> QED
    BY <1>2, <1>4, <2>1
<1> QED
  BY <1>1, <1>2, <1>3, <1>5 DEF NextSlots

(* A drain keeps the invariant. *)
LEMMA ForkAfterDrain ==
    ASSUME NEW c, NEW d, NEW s \in Slots, NEW done, ForkOK(c, s, done),
           d.buf[s] = c.buf[s], s \in d.pending <=> s \in c.pending,
           d.counts[s] = 0 \/ d.counts[s] = c.counts[s], Pruned(c, d), s \notin Canon
    PROVE  ForkOK(d, s, done)
BY DEF ForkOK, Pruned

LEMMA CanonAfterIx ==
    ASSUME NEW c \in States, NEW d, NEW F, NEW s \in Canon, NEW done, NEW app,
           CanonOK(c, s, done, app), DrainedIx(c, d, F), NextSlots(F, c.lastIx, d.lastIx),
           s \in F => s \in c.pending /\ IxFlushed(s, done, app)
    PROVE  CanonOK(d, s, done, app)
<1>1. s \in Slots /\ s \in Int /\ c.buf[s] \in Buffers /\ c.counts[s] \in Nat
  BY SlotsFinite DEF States
<1>2. c.lastIx \in Int /\ d.lastIx \in Int /\ c.lastIx < d.lastIx
  BY DEF NextSlots
<1>3. /\ s \in F <=> ~(s <= c.lastIx) /\ s <= d.lastIx
      /\ s <= c.lastIx => s <= d.lastIx
  <2>1. s \in F <=> c.lastIx < s /\ s <= d.lastIx
    BY DEF NextSlots
  <2> HIDE DEF NextSlots
  <2> QED
    BY <1>1, <1>2, <2>1
<1>4. /\ FlushIx(c.buf[s]).ixDrained /\ SameAcctHalf(c.buf[s], FlushIx(c.buf[s]))
  BY <1>1, FlushFacts
<1>5. /\ d.lastAcct = c.lastAcct
      /\ d.counts[s] = IF s <= c.lastAcct THEN 0 ELSE c.counts[s]
      /\ d.discarded \subseteq c.discarded
      /\ GoneByIx(c, F, s) => s \notin d.pending
      /\ ~GoneByIx(c, F, s) =>
            /\ s \in d.pending <=> s \in c.pending
            /\ d.buf[s] = IF s \in F THEN FlushIx(c.buf[s]) ELSE c.buf[s]
  BY <1>1 DEF DrainedIx, Pruned
<1>6. /\ s \notin d.discarded
      /\ s <= c.lastIx => IxFlushed(s, done, app) /\ (s \in c.pending => c.buf[s].ixDrained)
      /\ ~(s <= c.lastIx) => IxOpen(c.buf[s], s, done, app) /\ ~c.buf[s].ixDrained
      /\ s <= c.lastAcct => /\ AcctFlushed(c.counts[s], s, done, app)
                            /\ s \in c.pending => c.buf[s].acctDrained
      /\ ~(s <= c.lastAcct) => /\ AcctOpen(c.buf[s], c.counts[s], s, done, app)
                               /\ ~c.buf[s].acctDrained
      /\ s <= c.lastIx /\ s <= c.lastAcct => s \notin c.pending
      /\ ~(s <= c.lastIx /\ s <= c.lastAcct) => (Frozen(s) \in done => s \in c.pending)
  BY <1>5 DEF CanonOK, IxOpen, AcctOpen
<1>7. IF s <= d.lastIx
      THEN IxFlushed(s, done, app) /\ (s \in d.pending => d.buf[s].ixDrained)
      ELSE IxOpen(d.buf[s], s, done, app)
  BY <1>3, <1>4, <1>5, <1>6 DEF GoneByIx
<1>8. IF s <= d.lastAcct
      THEN AcctFlushed(d.counts[s], s, done, app) /\ (s \in d.pending => d.buf[s].acctDrained)
      ELSE AcctOpen(d.buf[s], d.counts[s], s, done, app)
  <2>1. CASE s <= c.lastAcct
    <3>1. AcctFlushed(d.counts[s], s, done, app)
      BY <1>5, <1>6, <2>1 DEF AcctFlushed
    <3>2. s \in d.pending => d.buf[s].acctDrained
      BY <1>4, <1>5, <1>6, <2>1 DEF SameAcctHalf
    <3> QED
      BY <1>5, <2>1, <3>1, <3>2
  <2>2. CASE ~(s <= c.lastAcct)
    <3>1. ~GoneByIx(c, F, s)
      BY <1>6, <2>2 DEF GoneByIx
    <3>2. SameAcctHalf(c.buf[s], d.buf[s])
      BY <1>4, <1>5, <3>1 DEF SameAcctHalf, SameAcctData
    <3>3. AcctOpen(d.buf[s], c.counts[s], s, done, app)
      BY <1>6, <2>2, <3>2, AcctOpenFrame DEF SameAccts
    <3> QED
      BY <1>5, <2>2, <3>3
  <2> QED
    BY <2>1, <2>2
<1>9. IF s <= d.lastIx /\ s <= d.lastAcct
      THEN s \notin d.pending ELSE Frozen(s) \in done => s \in d.pending
  BY <1>3, <1>5, <1>6 DEF GoneByIx
<1> QED
  BY <1>6, <1>7, <1>8, <1>9 DEF CanonOK

LEMMA CanonAfterAcct ==
    ASSUME NEW c \in States, NEW d, NEW F, NEW s \in Canon, NEW done, NEW app,
           CanonOK(c, s, done, app), DrainedAcct(c, d, F),
           NextSlots(F, c.lastAcct, d.lastAcct),
           s \in F => s \in c.pending /\ AcctFlushed(0, s, done, app)
    PROVE  CanonOK(d, s, done, app)
<1>1. s \in Slots /\ s \in Int /\ c.buf[s] \in Buffers /\ c.counts[s] \in Nat
  BY SlotsFinite DEF States
<1>2. c.lastAcct \in Int /\ d.lastAcct \in Int /\ c.lastAcct < d.lastAcct
  BY DEF NextSlots
<1>3. /\ s \in F <=> ~(s <= c.lastAcct) /\ s <= d.lastAcct
      /\ s <= c.lastAcct => s <= d.lastAcct
  <2>1. s \in F <=> c.lastAcct < s /\ s <= d.lastAcct
    BY DEF NextSlots
  <2> HIDE DEF NextSlots
  <2> QED
    BY <1>1, <1>2, <2>1
<1>4. /\ FlushAcct(c.buf[s]).acctDrained /\ SameIxHalf(c.buf[s], FlushAcct(c.buf[s]))
  BY <1>1, FlushFacts
<1>5. /\ d.lastIx = c.lastIx
      /\ d.counts[s] = IF s <= d.lastAcct THEN 0 ELSE c.counts[s]
      /\ d.discarded \subseteq c.discarded
      /\ GoneByAcct(c, F, s) => s \notin d.pending
      /\ ~GoneByAcct(c, F, s) =>
            /\ s \in d.pending <=> s \in c.pending
            /\ d.buf[s] = IF s \in F THEN FlushAcct(c.buf[s]) ELSE c.buf[s]
  BY <1>1 DEF DrainedAcct, Pruned
<1>6. /\ s \notin d.discarded
      /\ s <= c.lastIx => IxFlushed(s, done, app) /\ (s \in c.pending => c.buf[s].ixDrained)
      /\ ~(s <= c.lastIx) => IxOpen(c.buf[s], s, done, app) /\ ~c.buf[s].ixDrained
      /\ s <= c.lastAcct => /\ AcctFlushed(c.counts[s], s, done, app)
                            /\ s \in c.pending => c.buf[s].acctDrained
      /\ ~(s <= c.lastAcct) => /\ AcctOpen(c.buf[s], c.counts[s], s, done, app)
                               /\ ~c.buf[s].acctDrained
      /\ s <= c.lastIx /\ s <= c.lastAcct => s \notin c.pending
      /\ ~(s <= c.lastIx /\ s <= c.lastAcct) => (Frozen(s) \in done => s \in c.pending)
  BY <1>5 DEF CanonOK, IxOpen, AcctOpen
<1>7. IF s <= d.lastAcct
      THEN AcctFlushed(d.counts[s], s, done, app) /\ (s \in d.pending => d.buf[s].acctDrained)
      ELSE AcctOpen(d.buf[s], d.counts[s], s, done, app)
  <2>1. s <= d.lastAcct => AcctFlushed(0, s, done, app)
    BY <1>3, <1>6 DEF AcctFlushed
  <2> QED
    BY <1>3, <1>4, <1>5, <1>6, <2>1 DEF GoneByAcct
<1>8. IF s <= d.lastIx
      THEN IxFlushed(s, done, app) /\ (s \in d.pending => d.buf[s].ixDrained)
      ELSE IxOpen(d.buf[s], s, done, app)
  <2>1. CASE s <= c.lastIx
    BY <1>4, <1>5, <1>6, <2>1 DEF SameIxHalf
  <2>2. CASE ~(s <= c.lastIx)
    <3>1. ~GoneByAcct(c, F, s)
      BY <1>6, <2>2 DEF GoneByAcct
    <3>2. SameIxHalf(c.buf[s], d.buf[s])
      BY <1>4, <1>5, <3>1 DEF SameIxHalf
    <3>3. IxOpen(d.buf[s], s, done, app)
      BY <1>6, <2>2, <3>2, IxOpenFrame DEF SameTxs
    <3> QED
      BY <1>5, <2>2, <3>3
  <2> QED
    BY <2>1, <2>2
<1>9. IF s <= d.lastIx /\ s <= d.lastAcct
      THEN s \notin d.pending ELSE Frozen(s) \in done => s \in d.pending
  BY <1>3, <1>5, <1>6 DEF GoneByAcct
<1> QED
  BY <1>6, <1>7, <1>8, <1>9 DEF CanonOK

(* Releasing instructions keeps what is said of the entries. *)
LEMMA IxDrainOK ==
    ASSUME NEW c \in States, NEW done, NEW app, CoordinatorOK(c, done, app), InOrder(done),
           NEW F, F = InstructionFlushable(c), F # {},
           NEW d, d = DrainInstructionFlushable(c)
    PROVE  CoordinatorOK(d, done, app) /\ NextSlots(F, c.lastIx, d.lastIx)
<1>1. DrainedIx(c, d, F)
  BY DrainInstructionFacts
<1>2. d \in States /\ d.lastIx \in F /\ \A s \in F : s <= d.lastIx
  BY <1>1 DEF DrainedIx
<1>3. /\ NextSlots(F, c.lastIx, d.lastIx)
      /\ \A s \in F : s \in c.pending /\ IxFlushed(s, done, app)
  BY <1>2, IxFlushedSlots
<1>4. ASSUME NEW s \in Canon PROVE CanonOK(d, s, done, app)
  <2>1. CanonOK(c, s, done, app)
    BY DEF CoordinatorOK
  <2> QED
    BY <1>1, <1>3, <2>1, CanonAfterIx
<1>5. ASSUME NEW s \in Slots \ Canon PROVE ForkOK(d, s, done)
  <2>1. ForkOK(c, s, done)
    BY DEF CoordinatorOK
  <2>2. s \notin F
    BY <1>3 DEF NextSlots
  <2>3. ~GoneByIx(c, F, s)
    BY <2>1, <2>2 DEF ForkOK, GoneByIx
  <2>4. /\ d.buf[s] = c.buf[s] /\ (s \in d.pending <=> s \in c.pending)
        /\ d.counts[s] = 0 \/ d.counts[s] = c.counts[s]
        /\ Pruned(c, d)
    BY <1>1, <2>2, <2>3 DEF DrainedIx
  <2> QED
    BY <2>1, <2>4, ForkAfterDrain
<1>6. F \subseteq Canon /\ d.lastAcct = c.lastAcct
  BY <1>1, <1>3 DEF NextSlots, DrainedIx
<1> QED
  BY <1>2, <1>3, <1>4, <1>5, <1>6 DEF CoordinatorOK

(* So does releasing accounts. *)
LEMMA AcctDrainOK ==
    ASSUME NEW c \in States, NEW done, NEW app, CoordinatorOK(c, done, app), InOrder(done),
           NEW F, F = AccountFlushable(c), F # {},
           NEW d, d = DrainAccountFlushable(c)
    PROVE  CoordinatorOK(d, done, app) /\ NextSlots(F, c.lastAcct, d.lastAcct)
<1>1. DrainedAcct(c, d, F)
  BY DrainAccountFacts
<1>2. d \in States /\ d.lastAcct \in F /\ \A s \in F : s <= d.lastAcct
  BY <1>1 DEF DrainedAcct
<1>3. /\ NextSlots(F, c.lastAcct, d.lastAcct)
      /\ \A s \in F : s \in c.pending /\ AcctFlushed(0, s, done, app)
  BY <1>2, AcctFlushedSlots
<1>4. ASSUME NEW s \in Canon PROVE CanonOK(d, s, done, app)
  <2>1. CanonOK(c, s, done, app)
    BY DEF CoordinatorOK
  <2> QED
    BY <1>1, <1>3, <2>1, CanonAfterAcct
<1>5. ASSUME NEW s \in Slots \ Canon PROVE ForkOK(d, s, done)
  <2>1. ForkOK(c, s, done)
    BY DEF CoordinatorOK
  <2>2. s \notin F
    BY <1>3 DEF NextSlots
  <2>3. ~GoneByAcct(c, F, s)
    BY <2>1, <2>2 DEF ForkOK, GoneByAcct
  <2>4. /\ d.buf[s] = c.buf[s] /\ (s \in d.pending <=> s \in c.pending)
        /\ d.counts[s] = 0 \/ d.counts[s] = c.counts[s]
        /\ Pruned(c, d)
    BY <1>1, <2>2, <2>3 DEF DrainedAcct
  <2> QED
    BY <2>1, <2>4, ForkAfterDrain
<1>6. F \subseteq Canon /\ d.lastIx = c.lastIx
  BY <1>1, <1>3 DEF NextSlots, DrainedAcct
<1> QED
  BY <1>2, <1>3, <1>4, <1>5, <1>6 DEF CoordinatorOK

LEMMA LeTransitive == \A x, y, z \in Nat : x <= y /\ y <= z => x <= z
OBVIOUS

(* After a drain the walk has nothing left to flush. *)
LEMMA IxWalkedOut ==
    ASSUME NEW c \in States, NEW d, d = DrainInstructionFlushable(c)
    PROVE  InstructionFlushable(d) = {}
<1>1. PICK F : F = InstructionFlushable(c)
  OBVIOUS
<1>2. CASE F = {}
  BY <1>1, <1>2 DEF DrainInstructionFlushable
<1>3. CASE F # {}
  <2>1. DrainedIx(c, d, F)
    BY <1>1, <1>3, DrainInstructionFacts
  <2>2. PICK U, V : U = UndrainedIx(c) /\ V = UndrainedIx(d)
    OBVIOUS
  <2>3. U \subseteq Slots /\ V \subseteq Slots /\ F \subseteq U /\ Slots \subseteq Nat
    BY <1>1, <2>1, <2>2, SlotsFinite DEF UndrainedIx, InstructionFlushable, States, DrainedIx
  <2>4. /\ \A s \in U \ F : s \in V
        /\ \A s \in V : s \in U \ F /\ d.buf[s] = c.buf[s]
    <3>1. ASSUME NEW s \in Slots
          PROVE  /\ s \in U /\ s \notin F => s \in V
                 /\ s \in V => s \in U /\ s \notin F /\ d.buf[s] = c.buf[s]
      <4>1. c.buf[s] \in Buffers /\ ~DefaultBuffer.ixDrained
        BY DEF States, DefaultBuffer
      <4>2. FlushIx(c.buf[s]).ixDrained
        BY <4>1, FlushFacts
      <4> QED
        BY <2>1, <2>2, <4>2 DEF DrainedIx, GoneByIx, UndrainedIx
    <3> QED
      BY <2>3, <3>1
  <2>5. d.lastIx \in F /\ (\A s \in F : s <= d.lastIx) /\ d.discarded \subseteq c.discarded
    BY <2>1 DEF DrainedIx, Pruned
  <2>6. SUFFICES ASSUME InstructionFlushable(d) # {} PROVE FALSE
    OBVIOUS
  <2>7. PICK r \in V : \A t \in V : t <= r => InstructionGateReached(d.buf[t]) /\ ParentOk(d, t)
    BY <2>2, <2>6 DEF InstructionFlushable
  <2>8. PICK s \in V : \A t \in V : s <= t
    BY <2>3, LeastOf
  <2>9. InstructionGateReached(d.buf[s]) /\ ParentOk(d, s)
    BY <2>7, <2>8
  <2>10. s \in U /\ s \notin F /\ d.buf[s] = c.buf[s] /\ s \in Nat
    BY <2>3, <2>4
  <2>11. \A t \in U : t < s => t \in F
    <3>1. \A t \in V : ~(t < s)
      BY <2>3, <2>8
    <3> QED
      BY <2>4, <3>1
  <2>12. \A t \in F : t < s
    <3>1. ASSUME NEW t \in F, ~(t < s) PROVE FALSE
      <4>1. s <= t /\ t \in Nat
        BY <2>3, <2>10, <3>1
      <4>2. \A x \in U : x <= t => InstructionGateReached(c.buf[x]) /\ ParentOk(c, x)
        BY <1>1, <2>2 DEF InstructionFlushable
      <4>3. \A x \in U : x <= s => x <= t
        <5>1. \A x \in U : x \in Nat
          BY <2>3
        <5> QED
          BY <2>10, <4>1, <5>1, LeTransitive
      <4> QED
        BY <1>1, <2>2, <2>10, <4>2, <4>3 DEF InstructionFlushable
    <3> QED
      BY <3>1
  <2>13. {t \in U : t < s} = F /\ {t \in V : t < s} = {}
    <3>1. \A t \in V : ~(t < s)
      BY <2>3, <2>8
    <3> QED
      BY <2>3, <2>11, <2>12, <3>1
  <2>14. MaxSlot(F) = d.lastIx
    <3>1. MaxSlot(F) \in F /\ \A t \in F : t <= MaxSlot(F)
      BY <1>3, <2>3, MaxSlotIsGreatest
    <3>2. MaxSlot(F) \in Nat /\ d.lastIx \in Nat /\ MaxSlot(F) <= d.lastIx /\ d.lastIx <= MaxSlot(F)
      BY <2>3, <2>5, <3>1
    <3> QED
      BY <3>2
  <2>15. FrontierAt(c, s) = d.lastIx /\ FrontierAt(d, s) = d.lastIx
    BY <1>3, <2>2, <2>13, <2>14 DEF FrontierAt
  <2>16. ParentOk(c, s)
    BY <2>5, <2>9, <2>10, <2>15 DEF ParentOk
  <2>17. \A t \in F : InstructionGateReached(c.buf[t]) /\ ParentOk(c, t)
    <3> TAKE t \in F
    <3>1. t <= t
      BY <2>3
    <3> QED
      BY <1>1, <3>1 DEF InstructionFlushable
  <2>18. \A t \in U : t <= s => t \in F \/ t = s
    BY <2>3, <2>10, <2>11
  <2>19. s \in F
    BY <1>1, <2>2, <2>9, <2>10, <2>16, <2>17, <2>18 DEF InstructionFlushable
  <2> QED
    BY <2>10, <2>19
<1> QED
  BY <1>2, <1>3

LEMMA AcctWalkedOut ==
    ASSUME NEW c \in States, NEW d, d = DrainAccountFlushable(c)
    PROVE  AccountFlushable(d) = {}
<1>1. PICK F : F = AccountFlushable(c)
  OBVIOUS
<1>2. CASE F = {}
  BY <1>1, <1>2 DEF DrainAccountFlushable
<1>3. CASE F # {}
  <2>1. DrainedAcct(c, d, F)
    BY <1>1, <1>3, DrainAccountFacts
  <2>2. PICK U, V : U = UndrainedAcct(c) /\ V = UndrainedAcct(d)
    OBVIOUS
  <2>3. U \subseteq Slots /\ V \subseteq Slots /\ F \subseteq U /\ Slots \subseteq Nat
    BY <1>1, <2>1, <2>2, SlotsFinite DEF UndrainedAcct, AccountFlushable, States, DrainedAcct
  <2>4. /\ \A s \in U \ F : s \in V
        /\ \A s \in V : s \in U \ F /\ d.buf[s] = c.buf[s]
    <3>1. ASSUME NEW s \in Slots
          PROVE  /\ s \in U /\ s \notin F => s \in V
                 /\ s \in V => s \in U /\ s \notin F /\ d.buf[s] = c.buf[s]
      <4>1. c.buf[s] \in Buffers /\ ~DefaultBuffer.acctDrained
        BY DEF States, DefaultBuffer
      <4>2. FlushAcct(c.buf[s]).acctDrained
        BY <4>1, FlushFacts
      <4> QED
        BY <2>1, <2>2, <4>2 DEF DrainedAcct, GoneByAcct, UndrainedAcct
    <3> QED
      BY <2>3, <3>1
  <2>5. SUFFICES ASSUME AccountFlushable(d) # {} PROVE FALSE
    OBVIOUS
  <2>6. PICK r \in V : \A t \in V : t <= r => AccountGateReached(d.buf[t])
    BY <2>2, <2>5 DEF AccountFlushable
  <2>7. PICK s \in V : \A t \in V : s <= t
    BY <2>3, LeastOf
  <2>8. s \in U /\ s \notin F /\ AccountGateReached(c.buf[s]) /\ s \in Nat
    BY <2>3, <2>4, <2>6, <2>7
  <2>9. \A t \in U : t <= s => t \in F \/ t = s
    BY <2>3, <2>4, <2>7, <2>8
  <2>10. \A t \in F : AccountGateReached(c.buf[t])
    <3> TAKE t \in F
    <3>1. t <= t
      BY <2>3
    <3> QED
      BY <1>1, <3>1 DEF AccountFlushable
  <2>11. s \in F
    BY <1>1, <2>2, <2>8, <2>9, <2>10 DEF AccountFlushable
  <2> QED
    BY <2>8, <2>11
<1> QED
  BY <1>2, <1>3

(* The account drain does not give the instruction walk anything to do. *)
LEMMA IxWalkUnmoved ==
    ASSUME NEW c \in States, InstructionFlushable(c) = {}, NEW d, d = DrainAccountFlushable(c)
    PROVE  InstructionFlushable(d) = {}
<1>1. PICK F : F = AccountFlushable(c)
  OBVIOUS
<1>2. CASE F = {}
  BY <1>1, <1>2 DEF DrainAccountFlushable
<1>3. CASE F # {}
  <2>1. DrainedAcct(c, d, F)
    BY <1>1, <1>3, DrainAccountFacts
  <2>2. PICK U : U = UndrainedIx(c)
    OBVIOUS
  <2>3. U \subseteq Slots /\ \A s \in U : SameIxHalf(c.buf[s], d.buf[s])
    <3>1. U \subseteq Slots
      BY <2>2 DEF UndrainedIx, States
    <3>2. ASSUME NEW s \in U PROVE SameIxHalf(c.buf[s], d.buf[s])
      <4>1. ~GoneByAcct(c, F, s) /\ s \in Slots /\ c.buf[s] \in Buffers
        BY <2>2, <3>1 DEF UndrainedIx, GoneByAcct, States
      <4>2. d.buf[s] = IF s \in F THEN FlushAcct(c.buf[s]) ELSE c.buf[s]
        BY <2>1, <4>1 DEF DrainedAcct
      <4>3. SameIxHalf(c.buf[s], FlushAcct(c.buf[s])) /\ SameIxHalf(c.buf[s], c.buf[s])
        BY <4>1, FlushFacts DEF SameIxHalf
      <4> QED
        BY <4>2, <4>3
    <3> QED
      BY <3>1, <3>2
  <2>4. UndrainedIx(d) = U
    <3>1. \A s \in Slots : c.buf[s] \in Buffers
      BY DEF States
    <3>2. \A s \in Slots : FlushAcct(c.buf[s]).ixDrained = c.buf[s].ixDrained
      BY <3>1, FlushFacts DEF SameIxHalf
    <3>3. \A s \in Slots : (s \in d.pending /\ ~d.buf[s].ixDrained)
                              <=> (s \in c.pending /\ ~c.buf[s].ixDrained)
      BY <2>1, <3>2 DEF DrainedAcct, GoneByAcct
    <3>4. d.pending \subseteq Slots /\ c.pending \subseteq Slots
      BY <2>1 DEF DrainedAcct, States
    <3> QED
      BY <2>2, <3>3, <3>4 DEF UndrainedIx
  <2>5. d.lastIx = c.lastIx /\ d.discarded \subseteq c.discarded
    BY <2>1 DEF DrainedAcct, Pruned
  <2>6. \A s \in U : FrontierAt(d, s) = FrontierAt(c, s)
    BY <2>2, <2>4, <2>5 DEF FrontierAt
  <2>7. \A s \in U : ParentOk(d, s) => ParentOk(c, s)
    BY <2>3, <2>5, <2>6 DEF ParentOk, SameIxHalf
  <2>8. \A s \in U : InstructionGateReached(d.buf[s]) => InstructionGateReached(c.buf[s])
    BY <2>3 DEF InstructionGateReached, TxParseComplete, SameIxHalf
  <2> QED
    BY <2>2, <2>4, <2>7, <2>8 DEF InstructionFlushable
<1> QED
  BY <1>2, <1>3

-----------------------------------------------------------------------------
(* Outputs: what a drain sends for a slot is the slot, complete. *)

LEMMA ByBijection ==
    ASSUME NEW S, NEW T, IsFiniteSet(S), NEW f \in [S -> T],
           \A p, q \in S : f[p] = f[q] => p = q,
           \A r \in T : \E p \in S : f[p] = r
    PROVE  Cardinality(T) = Cardinality(S)
<1>1. f \in Bijection(S, T)
  BY DEF Bijection, Injection, Surjection, IsInjective
<1>2. ExistsBijection(S, T)
  BY <1>1 DEF ExistsBijection
<1> QED
  BY <1>2, FS_Bijection

AllStats(s) == {p \in TxsOf(s) \X {1, 2} : p[2] <= StatsOf(p[1])}

(* The positions of a handled transaction's stats. *)
StatAt(t, k) ==
    \/ k = 1 /\ TxKind[t] # "absent"
    \/ k = 2 /\ TxKind[t] = "filtered"
    \/ k = 3 /\ TxKind[t] = "fallback"

LEMMA StatsHandled ==
    ASSUME NEW s, NEW app \in [Updates -> Nat], TxsHandled(s, app) = TxsOf(s),
           NEW t \in TxsOf(s), NEW k \in 1 .. 4
    PROVE  <<t, k>> \in IxStats(s, app) <=> StatAt(t, k)
<1>1. t \in Txs /\ app[TxUpdate(t)] = Len(HandlerMessages(TxUpdate(t)))
  BY DEF TxsOf, TxsHandled, Handled
<1>2. PICK M : M = HandlerMessages(TxUpdate(t))
  OBVIOUS
<1>3. TxShape(t, M)
  BY <1>1, <1>2, TxMessages
<1>4. Len(M) \in 1 .. 4 /\ (k \in 1 .. Len(M) <=> k <= Len(M))
  BY <1>3 DEF TxShape
<1>5. <<t, k>> \in IxStats(s, app) <=> k <= Len(M) /\ M[k].type = "InstructionStat"
  BY <1>1, <1>2 DEF IxStats
<1>6. k \in 1 .. Len(M) => (M[k].type = "InstructionStat" <=> StatAt(t, k))
  BY <1>3 DEF TxShape, StatAt
<1>7. /\ TxKind[t] # "absent" => Len(M) >= 2
      /\ TxKind[t] = "filtered" => Len(M) = 3
      /\ TxKind[t] = "fallback" => Len(M) = 4
  BY <1>3 DEF TxShape
<1> QED
  BY <1>4, <1>5, <1>6, <1>7 DEF StatAt

LEMMA StatsKind ==
    ASSUME NEW t \in Txs
    PROVE  /\ 1 <= StatsOf(t) <=> TxKind[t] # "absent"
           /\ 2 <= StatsOf(t) <=> TxKind[t] \in {"filtered", "fallback"}
<1>1. TxKind[t] \in {"absent", "failed", "decoded", "filtered", "fallback"}
  BY PipelineAssumption
<1>2. CASE TxKind[t] = "absent"
  BY <1>2 DEF StatsOf
<1>3. CASE TxKind[t] \in {"failed", "decoded"}
  BY <1>3 DEF StatsOf
<1>4. CASE TxKind[t] \in {"filtered", "fallback"}
  BY <1>4 DEF StatsOf
<1> QED
  BY <1>1, <1>2, <1>3, <1>4

(* The stats sent for a slot are as many as its transactions have. *)
LEMMA StatsCounted ==
    ASSUME NEW s, NEW app \in [Updates -> Nat], TxsHandled(s, app) = TxsOf(s)
    PROVE  Cardinality(IxStats(s, app)) = Cardinality(AllStats(s))
<1> DEFINE S == IxStats(s, app)
           f == [p \in S |-> <<p[1], IF p[2] = 1 THEN 1 ELSE 2>>]
<1>0. \A t \in TxsOf(s), k \in 1 .. 4 : <<t, k>> \in S <=> StatAt(t, k)
  BY StatsHandled, Zenon
<1>10. 1 \in 1 .. 4 /\ 2 \in 1 .. 4 /\ 3 \in 1 .. 4
  OBVIOUS
<1>1. \A p \in S : p[1] \in TxsOf(s) /\ p[2] \in 1 .. 4 /\ p = <<p[1], p[2]>>
  BY DEF IxStats
<1>2. TxsOf(s) \subseteq Txs
  BY DEF TxsOf
<1>3. \A p \in S : \/ p[2] = 1 /\ TxKind[p[1]] # "absent"
                   \/ p[2] = 2 /\ TxKind[p[1]] = "filtered"
                   \/ p[2] = 3 /\ TxKind[p[1]] = "fallback"
  <2>1. \A p \in S : StatAt(p[1], p[2])
    BY <1>0, <1>1
  <2> QED
    BY <2>1 DEF StatAt
<1>4. \A p \in S : f[p] = <<p[1], IF p[2] = 1 THEN 1 ELSE 2>>
  OBVIOUS
<1>5. ASSUME NEW p \in S PROVE f[p] \in AllStats(s)
  <2>1. PICK t, k : p = <<t, k>> /\ t \in TxsOf(s) /\ t \in Txs /\ k = p[2] /\ t = p[1]
    BY <1>1, <1>2
  <2>2. CASE k = 1
    <3>1. f[p] = <<t, 1>> /\ 1 <= StatsOf(t)
      BY <1>3, <1>4, <2>1, <2>2, StatsKind
    <3> QED
      BY <2>1, <3>1 DEF AllStats
  <2>3. CASE k # 1
    <3>1. f[p] = <<t, 2>> /\ 2 <= StatsOf(t)
      BY <1>3, <1>4, <2>1, <2>3, StatsKind
    <3> QED
      BY <2>1, <3>1 DEF AllStats
  <2> QED
    BY <2>2, <2>3
<1>6. f \in [S -> AllStats(s)]
  BY <1>5
<1>7. ASSUME NEW p \in S, NEW q \in S, f[p] = f[q] PROVE p = q
  <2>1. p[1] = q[1] /\ (IF p[2] = 1 THEN 1 ELSE 2) = (IF q[2] = 1 THEN 1 ELSE 2)
    BY <1>4, <1>7
  <2>2. p[2] = q[2]
    BY <1>3, <2>1
  <2> QED
    BY <1>1, <2>1, <2>2
<1>8. ASSUME NEW r \in AllStats(s) PROVE \E p \in S : f[p] = r
  <2>1. PICK t, i : r = <<t, i>> /\ t \in TxsOf(s) /\ t \in Txs /\ i \in {1, 2} /\ i <= StatsOf(t)
    BY <1>2 DEF AllStats
  <2>2. CASE i = 1
    <3>0. StatAt(t, 1)
      BY <2>1, <2>2, StatsKind DEF StatAt
    <3>1. <<t, 1>> \in S
      BY <1>0, <1>10, <2>1, <3>0, Zenon
    <3> QED
      BY <1>4, <2>1, <2>2, <3>1
  <2>3. CASE i = 2 /\ TxKind[t] = "filtered"
    <3>0. StatAt(t, 2)
      BY <2>1, <2>3 DEF StatAt
    <3>1. <<t, 2>> \in S
      BY <1>0, <1>10, <2>1, <3>0, Zenon
    <3> QED
      BY <1>4, <2>1, <2>3, <3>1
  <2>4. CASE i = 2 /\ TxKind[t] = "fallback"
    <3>0. StatAt(t, 3)
      BY <2>1, <2>4 DEF StatAt
    <3>1. <<t, 3>> \in S
      BY <1>0, <1>10, <2>1, <3>0, Zenon
    <3> QED
      BY <1>4, <2>1, <2>4, <3>1
  <2> QED
    BY <2>1, <2>2, <2>3, <2>4, StatsKind
<1>9. IsFiniteSet(S)
  BY SetsFinite
<1> HIDE DEF f, S
<1>11. Cardinality(AllStats(s)) = Cardinality(S)
  BY <1>6, <1>7, <1>8, <1>9, ByBijection
<1> QED
  BY <1>11 DEF S

LEMMA RecordsComplete ==
    ASSUME NEW s, NEW app \in [Updates -> Nat], TxsHandled(s, app) = TxsOf(s)
    PROVE  IxRecords(s, app) = {t \in TxsOf(s) : TxKind[t] \in {"decoded", "fallback"}}
<1>1. ASSUME NEW t \in TxsOf(s)
      PROVE  (\E i \in 1 .. app[TxUpdate(t)] :
                 HandlerMessages(TxUpdate(t))[i].type = "InstructionParsed")
             <=> TxKind[t] \in {"decoded", "fallback"}
  <2>1. t \in Txs /\ app[TxUpdate(t)] = Len(HandlerMessages(TxUpdate(t)))
    BY DEF TxsOf, TxsHandled, Handled
  <2> QED
    BY <2>1, TxMessages DEF TxShape
<1> QED
  BY <1>1 DEF IxRecords

(* An InstructionSlot that is sent is complete. *)
LEMMA InstructionSlotComplete ==
    ASSUME NEW c, NEW s, NEW done, NEW app \in [Updates -> Nat],
           IxOpen(c.buf[s], s, done, app), IxFlushed(s, done, app)
    PROVE  InstructionSlotOf(c, s) = CompleteInstructionSlot(s)
<1>1. TxsHandled(s, app) = TxsOf(s) /\ Frozen(s) \in done
  BY DEF IxFlushed
<1>2. /\ c.buf[s].ixRecords = IxRecords(s, app)
      /\ c.buf[s].ixStats = Cardinality(IxStats(s, app))
      /\ c.buf[s].expectedTx = Cardinality(TxsOf(s))
  BY <1>1 DEF IxOpen
<1>3. /\ c.buf[s].ixRecords = {t \in TxsOf(s) : TxKind[t] \in {"decoded", "fallback"}}
      /\ c.buf[s].ixStats = Cardinality(AllStats(s))
  BY <1>1, <1>2, RecordsComplete, StatsCounted
<1> QED
  BY <1>2, <1>3 DEF InstructionSlotOf, CompleteInstructionSlot, AllStats

(* An AccountSlot that is sent is complete. *)
LEMMA AccountSlotComplete ==
    ASSUME NEW c, NEW n, NEW s, NEW done, NEW app,
           AcctOpen(c.buf[s], n, s, done, app), AcctFlushed(0, s, done, app)
    PROVE  AccountSlotOf(c, s) = CompleteAccountSlot(s)
BY DEF AcctOpen, AcctFlushed, AccountSlotOf, CompleteAccountSlot

(* The log grows by the next slots of the chain. *)
Span(F, l, m) ==
    l \in Int /\ m \in Int /\ l <= m /\ F = {s \in Canon : l < s /\ s <= m}

Continues(next, F, chain) ==
    /\ next = [i \in DOMAIN Ascending(F) |-> next[i]]
    /\ \A i \in DOMAIN Ascending(F) : \A j \in DOMAIN Chain :
          Ascending(F)[i] = Chain[j] /\ Ascending(F)[i] \in F => next[i] = chain[j]

(* A batch of the next slots makes a longer prefix of the chain. *)
LEMMA LogGrows ==
    ASSUME NEW log, NEW chain, NEW l, NEW m, NEW F, NEW next,
           LogOK(log, l, chain), Span(F, l, m), Continues(next, F, chain)
    PROVE  LogOK(log \o next, m, chain)
<1>1. PICK batch : batch = Ascending(F)
  OBVIOUS
<1>2. PICK n, k : n = Cardinality(Upto(l)) /\ k = Cardinality(F)
  OBVIOUS
<1>3. /\ n \in Nat /\ k \in Nat /\ Cardinality(Upto(m)) = n + k
      /\ DOMAIN Chain = 1 .. Cardinality(Canon) /\ DOMAIN batch = 1 .. k
      /\ \A i \in 1 .. k : /\ batch[i] \in F /\ batch[i] = Chain[n + i]
                           /\ n + i \in 1 .. Cardinality(Canon)
  BY <1>1, <1>2, ChainBetween DEF Span
<1>4. \A i \in 1 .. k : next[i] = chain[n + i]
  BY <1>1, <1>3 DEF Continues
<1>5. next = [i \in 1 .. k |-> chain[n + i]]
  BY <1>1, <1>3, <1>4 DEF Continues
<1>6. log = FirstOf(chain, n)
  BY <1>2 DEF LogOK
<1>7. log \o next = FirstOf(chain, n + k)
  BY <1>3, <1>5, <1>6, PrefixGrows
<1> QED
  BY <1>3, <1>7 DEF LogOK

IxBatch(c) ==
    [i \in DOMAIN Ascending(InstructionFlushable(c)) |->
        InstructionSlotOf(c, Ascending(InstructionFlushable(c))[i])]

AcctBatch(c) ==
    [i \in DOMAIN Ascending(AccountFlushable(c)) |->
        AccountSlotOf(c, Ascending(AccountFlushable(c))[i])]

IxDrained(c, d, log, done, app) ==
    /\ d \in States /\ CoordinatorOK(d, done, app) /\ InstructionFlushable(d) = {}
    /\ LogOK(log, d.lastIx, InstructionChain)
    /\ c.lastIx <= d.lastIx /\ d.lastAcct = c.lastAcct

AcctDrained(c, d, log, done, app) ==
    /\ d \in States /\ CoordinatorOK(d, done, app) /\ WalkedOut(d)
    /\ LogOK(log, d.lastAcct, AccountChain)
    /\ c.lastAcct <= d.lastAcct /\ d.lastIx = c.lastIx

(* One drain of the instruction side, and one of the account side: the     *)
(* invariant is kept, the walk is exhausted, the log grows.                *)
LEMMA IxDrainStep ==
    ASSUME NEW c \in States, NEW done, NEW app \in [Updates -> Nat],
           CoordinatorOK(c, done, app), InOrder(done),
           NEW d, d = DrainInstructionFlushable(c),
           NEW log, LogOK(log, c.lastIx, InstructionChain)
    PROVE  IxDrained(c, d, log \o IxBatch(c), done, app)
<1>0. PICK batch, next : /\ batch = Ascending(InstructionFlushable(c)) /\ next = IxBatch(c)
                         /\ next = [i \in DOMAIN batch |-> InstructionSlotOf(c, batch[i])]
  BY DEF IxBatch
<1>1. PICK F : F = InstructionFlushable(c)
  OBVIOUS
<1>2. c.lastIx \in Int /\ c.lastIx <= c.lastIx
  BY FrontierType
<1>3. InstructionFlushable(d) = {}
  BY IxWalkedOut
<1>4. /\ d \in States /\ CoordinatorOK(d, done, app) /\ d.lastAcct = c.lastAcct
      /\ d.lastIx \in Int /\ c.lastIx <= d.lastIx
      /\ F = {s \in Canon : c.lastIx < s /\ s <= d.lastIx}
      /\ \A s \in F : IxOpen(c.buf[s], s, done, app) /\ IxFlushed(s, done, app)
  <2>1. CASE F = {}
    <3>1. d = c
      BY <1>1, <2>1 DEF DrainInstructionFlushable
    <3>2. {s \in Canon : c.lastIx < s /\ s <= c.lastIx} = {}
      <4>1. \A s \in Canon : s \in Nat
        BY SlotsFinite
      <4> QED
        BY <1>2, <4>1
    <3> QED
      BY <1>2, <2>1, <3>1, <3>2
  <2>2. CASE F # {}
    <3>1. CoordinatorOK(d, done, app) /\ NextSlots(F, c.lastIx, d.lastIx)
      BY <1>1, <2>2, IxDrainOK
    <3>2. DrainedIx(c, d, F)
      BY <1>1, <2>2, DrainInstructionFacts
    <3>3. /\ d \in States /\ d.lastAcct = c.lastAcct
          /\ d.lastIx \in F /\ \A s \in F : s <= d.lastIx
      BY <3>2 DEF DrainedIx
    <3>4. \A s \in F : IxOpen(c.buf[s], s, done, app) /\ IxFlushed(s, done, app)
      BY <1>1, <2>2, <3>3, IxFlushedSlots
    <3>5. /\ F = {s \in Canon : c.lastIx < s /\ s <= d.lastIx}
          /\ d.lastIx \in Int /\ c.lastIx <= d.lastIx
      BY <3>1 DEF NextSlots
    <3> QED
      BY <3>1, <3>3, <3>4, <3>5
  <2> QED
    BY <2>1, <2>2
<1>5. batch = Ascending(F)
  BY <1>0, <1>1
<1>6. next = [i \in DOMAIN batch |-> next[i]]
  BY <1>0
<1>7. ASSUME NEW i \in DOMAIN batch, NEW j \in DOMAIN Chain, batch[i] = Chain[j], batch[i] \in F
      PROVE  next[i] = InstructionChain[j]
  <2>1. InstructionSlotOf(c, batch[i]) = CompleteInstructionSlot(batch[i])
    BY <1>4, <1>7, InstructionSlotComplete
  <2>2. InstructionChain[j] = CompleteInstructionSlot(Chain[j])
    BY DEF InstructionChain
  <2> QED
    BY <1>0, <1>7, <2>1, <2>2
<1>8. Continues(next, F, InstructionChain)
  BY <1>5, <1>6, <1>7 DEF Continues
<1>9. Span(F, c.lastIx, d.lastIx)
  BY <1>2, <1>4 DEF Span
<1>10. LogOK(log \o next, d.lastIx, InstructionChain)
  BY <1>8, <1>9, LogGrows, Zenon
<1> QED
  BY <1>0, <1>3, <1>4, <1>10 DEF IxDrained

LEMMA AcctDrainStep ==
    ASSUME NEW c \in States, NEW done, NEW app,
           CoordinatorOK(c, done, app), InOrder(done), InstructionFlushable(c) = {},
           NEW d, d = DrainAccountFlushable(c),
           NEW log, LogOK(log, c.lastAcct, AccountChain)
    PROVE  AcctDrained(c, d, log \o AcctBatch(c), done, app)
<1>0. PICK batch, next : /\ batch = Ascending(AccountFlushable(c)) /\ next = AcctBatch(c)
                         /\ next = [i \in DOMAIN batch |-> AccountSlotOf(c, batch[i])]
  BY DEF AcctBatch
<1>1. PICK F : F = AccountFlushable(c)
  OBVIOUS
<1>2. c.lastAcct \in Int /\ c.lastAcct <= c.lastAcct
  BY FrontierType
<1>3. WalkedOut(d)
  BY AcctWalkedOut, IxWalkUnmoved DEF WalkedOut
<1>4. /\ d \in States /\ CoordinatorOK(d, done, app) /\ d.lastIx = c.lastIx
      /\ d.lastAcct \in Int /\ c.lastAcct <= d.lastAcct
      /\ F = {s \in Canon : c.lastAcct < s /\ s <= d.lastAcct}
      /\ \A s \in F : /\ AcctOpen(c.buf[s], c.counts[s], s, done, app)
                      /\ AcctFlushed(0, s, done, app)
  <2>1. CASE F = {}
    <3>1. d = c
      BY <1>1, <2>1 DEF DrainAccountFlushable
    <3>2. {s \in Canon : c.lastAcct < s /\ s <= c.lastAcct} = {}
      <4>1. \A s \in Canon : s \in Nat
        BY SlotsFinite
      <4> QED
        BY <1>2, <4>1
    <3> QED
      BY <1>2, <2>1, <3>1, <3>2
  <2>2. CASE F # {}
    <3>1. CoordinatorOK(d, done, app) /\ NextSlots(F, c.lastAcct, d.lastAcct)
      BY <1>1, <2>2, AcctDrainOK
    <3>2. DrainedAcct(c, d, F)
      BY <1>1, <2>2, DrainAccountFacts
    <3>3. /\ d \in States /\ d.lastIx = c.lastIx
          /\ d.lastAcct \in F /\ \A s \in F : s <= d.lastAcct
      BY <3>2 DEF DrainedAcct
    <3>4. \A s \in F : /\ AcctOpen(c.buf[s], c.counts[s], s, done, app)
                       /\ AcctFlushed(0, s, done, app)
      BY <1>1, <2>2, <3>3, AcctFlushedSlots
    <3>5. /\ F = {s \in Canon : c.lastAcct < s /\ s <= d.lastAcct}
          /\ d.lastAcct \in Int /\ c.lastAcct <= d.lastAcct
      BY <3>1 DEF NextSlots
    <3> QED
      BY <3>1, <3>3, <3>4, <3>5
  <2> QED
    BY <2>1, <2>2
<1>5. batch = Ascending(F)
  BY <1>0, <1>1
<1>6. next = [i \in DOMAIN batch |-> next[i]]
  BY <1>0
<1>7. ASSUME NEW i \in DOMAIN batch, NEW j \in DOMAIN Chain, batch[i] = Chain[j], batch[i] \in F
      PROVE  next[i] = AccountChain[j]
  <2>1. AccountSlotOf(c, batch[i]) = CompleteAccountSlot(batch[i])
    BY <1>4, <1>7, AccountSlotComplete
  <2>2. AccountChain[j] = CompleteAccountSlot(Chain[j])
    BY DEF AccountChain
  <2> QED
    BY <1>0, <1>7, <2>1, <2>2
<1>8. Continues(next, F, AccountChain)
  BY <1>5, <1>6, <1>7 DEF Continues
<1>9. Span(F, c.lastAcct, d.lastAcct)
  BY <1>2, <1>4 DEF Span
<1>10. LogOK(log \o next, d.lastAcct, AccountChain)
  BY <1>8, <1>9, LogGrows, Zenon
<1> QED
  BY <1>0, <1>3, <1>4, <1>10 DEF AcctDrained

(* The outputs of a turn of the coordinator's loop. *)
LEMMA DrainStep ==
    ASSUME NEW c \in States, NEW done, NEW app \in [Updates -> Nat],
           CoordinatorOK(c, done, app), InOrder(done), LogsOK,
           c.lastIx = co.lastIx, c.lastAcct = co.lastAcct, Drain(c)
    PROVE  /\ CoordinatorOK(co', done, app) /\ WalkedOut(co') /\ LogsOK'
           /\ co.lastIx <= co'.lastIx /\ co.lastAcct <= co'.lastAcct
<1>1. PICK e : e = DrainInstructionFlushable(c)
  OBVIOUS
<1>2. /\ co' = DrainAccountFlushable(e)
      /\ ixLog' = ixLog \o IxBatch(c) /\ acctLog' = acctLog \o AcctBatch(e)
  BY <1>1 DEF Drain, IxBatch, AcctBatch
<1>3. LogOK(ixLog, c.lastIx, InstructionChain) /\ LogOK(acctLog, c.lastAcct, AccountChain)
  BY DEF LogsOK
<1>4. IxDrained(c, e, ixLog \o IxBatch(c), done, app)
  BY <1>1, <1>3, IxDrainStep, Zenon
<1>5. /\ e \in States /\ CoordinatorOK(e, done, app) /\ InstructionFlushable(e) = {}
      /\ LogOK(ixLog \o IxBatch(c), e.lastIx, InstructionChain)
      /\ c.lastIx <= e.lastIx /\ e.lastAcct = c.lastAcct
  BY <1>4, Zenon DEF IxDrained
<1>6. PICK d : d = DrainAccountFlushable(e)
  OBVIOUS
<1>7. AcctDrained(e, d, acctLog \o AcctBatch(e), done, app)
  <2>1. LogOK(acctLog, e.lastAcct, AccountChain)
    BY <1>3, <1>5
  <2> QED
    BY <1>5, <1>6, <2>1, AcctDrainStep, Zenon
<1>8. /\ d \in States /\ CoordinatorOK(d, done, app) /\ WalkedOut(d)
      /\ LogOK(acctLog \o AcctBatch(e), d.lastAcct, AccountChain)
      /\ e.lastAcct <= d.lastAcct /\ d.lastIx = e.lastIx
  BY <1>7, Zenon DEF AcctDrained
<1>9. co' = d /\ LogOK(ixLog', co'.lastIx, InstructionChain)
              /\ LogOK(acctLog', co'.lastAcct, AccountChain)
  BY <1>2, <1>5, <1>6, <1>8
<1> QED
  BY <1>5, <1>8, <1>9 DEF LogsOK

-----------------------------------------------------------------------------
(* The coordinator's frontiers move only when it drains. *)

SameFrontiers(c, d) == d.lastIx = c.lastIx /\ d.lastAcct = c.lastAcct

LEMMA EntryFrontiers ==
    ASSUME NEW c \in States, NEW s, NEW b
    PROVE  SameFrontiers(c, WithEntry(c, s, b))
BY DEF States, WithEntry, SameFrontiers

LEMMA InputFrontiers ==
    ASSUME NEW c \in States, NEW x \in Items
    PROVE  SameFrontiers(c, ApplyInput(c, Wire(x)))
<1>0. SameFrontiers(c, c)
  BY DEF SameFrontiers
<1>1. ASSUME NEW a \in Accts, x = AcctUpdate(a)
      PROVE  SameFrontiers(c, ApplyInput(c, Wire(x)))
  <2>1. PICK m : m = Wire(x)
    OBVIOUS
  <2>2. m = Lifecycle("AccountEventSeen", AcctSlot[a])
    BY <1>1, <2>1, KindsDiffer DEF Wire
  <2>3. m.type = "AccountEventSeen" /\ m.slot = AcctSlot[a]
    BY <2>2 DEF Lifecycle
  <2>4. ApplyInput(c, m) = AccountEventSeen(c, AcctSlot[a])
    BY <2>3 DEF ApplyInput
  <2>5. AcctSlot[a] \in Slots
    BY PipelineAssumption
  <2>6. OnlyAt(c, Counted(c, AcctSlot[a]), AcctSlot[a])
    BY <2>5, CountStep
  <2>7. SameFrontiers(c, Counted(c, AcctSlot[a]))
    BY <2>6 DEF OnlyAt, SameFrontiers
  <2>8. AccountEventSeen(c, AcctSlot[a]) \in {c, Counted(c, AcctSlot[a])}
    BY DEF AccountEventSeen, Counted
  <2> QED
    BY <1>0, <2>1, <2>4, <2>7, <2>8
<1>2. ASSUME NEW kind \in Kinds, NEW s \in Slots, x = Lifecycle(kind, s)
      PROVE  SameFrontiers(c, ApplyInput(c, Wire(x)))
  <2>1. kind \in {"Frozen", "Confirmed", "Finalized", "Discarded"}
    BY PipelineAssumption
  <2>2. x.type = kind /\ x.slot = s
    BY <1>2 DEF Lifecycle
  <2>3. Wire(x) = x
    BY <2>1, <2>2 DEF Wire
  <2>4. \A b \in Buffers : /\ WithEntry(c, s, b) \in States
                           /\ SameFrontiers(c, WithEntry(c, s, b))
                           /\ SameFrontiers(c, FreezeAccountGate(WithEntry(c, s, b), s))
    <3> TAKE b \in Buffers
    <3>1. PICK d : d = WithEntry(c, s, b)
      OBVIOUS
    <3>2. d \in States /\ SameFrontiers(c, d)
      BY <3>1, WithEntryType, EntryFrontiers
    <3>3. SameFrontiers(d, FreezeAccountGate(d, s))
      BY <3>2, FreezeFacts DEF SameFrontiers
    <3> QED
      BY <3>1, <3>2, <3>3 DEF SameFrontiers
  <2>5. c.buf[s] \in Buffers
    BY DEF States
  <2>6. CASE kind = "Frozen"
    <3>1. ApplyInput(c, x) = BlockFrozen(c, s, Parent[s], ExecutedTxs(s))
      BY <2>2, <2>6 DEF ApplyInput
    <3>2. SameFrontiers(c, BlockFrozen(c, s, Parent[s], ExecutedTxs(s)))
      BY <1>0, EntryFrontiers DEF BlockFrozen
    <3> QED
      BY <2>3, <3>1, <3>2
  <2>7. CASE kind = "Confirmed"
    <3>1. ApplyInput(c, x) = SlotConfirmed(c, s)
      BY <2>2, <2>7 DEF ApplyInput
    <3>2. PICK e : e = [c.buf[s] EXCEPT !.ixCommitted = TRUE]
      OBVIOUS
    <3>3. e \in Buffers
      BY <2>5, <3>2 DEF Buffers
    <3>4. SlotConfirmed(c, s) \in
             {c, WithEntry(c, s, e), FreezeAccountGate(WithEntry(c, s, e), s)}
      BY <3>2 DEF SlotConfirmed
    <3> QED
      BY <1>0, <2>3, <2>4, <3>1, <3>3, <3>4
  <2>8. CASE kind = "Finalized"
    <3>1. ApplyInput(c, x) = SlotFinalized(c, s)
      BY <2>2, <2>8 DEF ApplyInput
    <3>2. PICK e : e = [c.buf[s] EXCEPT !.finalized = TRUE]
      OBVIOUS
    <3>3. e \in Buffers
      BY <2>5, <3>2 DEF Buffers
    <3>4. SlotFinalized(c, s) \in {c, FreezeAccountGate(WithEntry(c, s, e), s)}
      BY <3>2 DEF SlotFinalized
    <3> QED
      BY <1>0, <2>3, <2>4, <3>1, <3>3, <3>4
  <2>9. CASE kind = "Discarded"
    <3>1. ApplyInput(c, x) = SlotDiscarded(c, s)
      BY <2>2, <2>9 DEF ApplyInput
    <3> QED
      BY <2>3, <3>1, DiscardFacts DEF SameFrontiers
  <2> QED
    BY <2>1, <2>6, <2>7, <2>8, <2>9
<1> QED
  BY <1>1, <1>2 DEF Items

LEMMA ParsedFrontiers ==
    ASSUME NEW c \in States, NEW u \in Updates, NEW k \in 1 .. Len(HandlerMessages(u))
    PROVE  SameFrontiers(c, ApplyParsed(c, HandlerMessages(u)[k]))
<1>0. SameFrontiers(c, c)
  BY DEF SameFrontiers
<1>1. ASSUME NEW t \in Txs, u = TxUpdate(t)
      PROVE  SameFrontiers(c, ApplyParsed(c, HandlerMessages(u)[k]))
  <2>1. PICK m : m = HandlerMessages(u)[k]
    OBVIOUS
  <2>2. /\ m.slot = TxSlot[t] /\ m.key = t
        /\ m.type \in {"InstructionStat", "InstructionParsed", "TransactionParsed"}
    BY <1>1, <2>1, OneTxMessage
  <2>3. TxSlot[t] \in Slots
    BY PipelineAssumption
  <2>4. ApplyParsed(c, m) =
           IF ValidInstructionSlot(c, TxSlot[t])
           THEN WithEntry(c, TxSlot[t], TxMessageEntry(c.buf[TxSlot[t]], m, t)) ELSE c
    BY <2>2, <2>3, TxMessageStep
  <2> QED
    BY <1>0, <2>1, <2>4, EntryFrontiers
<1>2. ASSUME NEW a \in Accts, u = AcctUpdate(a)
      PROVE  SameFrontiers(c, ApplyParsed(c, HandlerMessages(u)[k]))
  <2>1. Len(HandlerMessages(u)) = 1
    BY <1>2, AcctMessages
  <2>2. k = 1
    BY <2>1
  <2>3. PICK m : m = HandlerMessages(u)[k]
    OBVIOUS
  <2>4. /\ m.slot = AcctSlot[a] /\ m.key = a
        /\ m.type = IF AcctKind[a] = "record" THEN "AccountParsed" ELSE "AccountStat"
    BY <1>2, <2>2, <2>3, AcctMessages
  <2>5. AcctSlot[a] \in Slots
    BY PipelineAssumption
  <2>6. ApplyParsed(c, m) =
           IF ValidAccountSlot(c, AcctSlot[a])
           THEN WithEntry(c, AcctSlot[a], AcctMessageEntry(c.buf[AcctSlot[a]], a)) ELSE c
    BY <2>4, <2>5, AcctMessageStep
  <2> QED
    BY <1>0, <2>3, <2>6, EntryFrontiers
<1> QED
  BY <1>1, <1>2 DEF Updates

-----------------------------------------------------------------------------
(* Channels: q2 is q with e at its end, q2 is q without its head. *)

Extended(q, q2, e) ==
    /\ IsSequence(q2) /\ Len(q) \in Nat
    /\ Len(q2) = Len(q) + 1 /\ q2[Len(q) + 1] = e
    /\ \A i \in 1 .. Len(q) : q2[i] = q[i]

Shortened(q, q2) ==
    /\ IsSequence(q2) /\ Len(q) \in Nat \ {0}
    /\ Head(q) = q[1] /\ Len(q2) = Len(q) - 1
    /\ \A i \in 1 .. Len(q) - 1 : q2[i] = q[i + 1]

LEMMA Appended ==
    ASSUME NEW q, IsSequence(q), NEW e
    PROVE  Extended(q, Append(q, e), e)
<1>1. PICK q2 : q2 = Append(q, e)
  OBVIOUS
<1>2. /\ IsSequence(q2) /\ Len(q) \in Nat
      /\ Len(q2) = Len(q) + 1 /\ q2[Len(q) + 1] = e
      /\ \A i \in 1 .. Len(q) : q2[i] = q[i]
  BY <1>1, AppendFacts, Zenon
<1>3. Extended(q, q2, e)
  BY <1>2, Zenon DEF Extended
<1> QED
  BY <1>1, <1>3, Zenon

LEMMA HeadTaken ==
    ASSUME NEW q, IsSequence(q), q # <<>>
    PROVE  Shortened(q, Tail(q))
<1>1. PICK q2 : q2 = Tail(q)
  OBVIOUS
<1>2. /\ IsSequence(q2) /\ Len(q) \in Nat \ {0}
      /\ Head(q) = q[1] /\ Len(q2) = Len(q) - 1
      /\ \A i \in 1 .. Len(q) - 1 : q2[i] = q[i + 1]
  BY <1>1, TailFacts, Zenon
<1>3. Shortened(q, q2)
  BY <1>2, Zenon DEF Shortened
<1> QED
  BY <1>1, <1>3, Zenon

LEMMA EmptyTogether ==
    ASSUME NEW q, NEW r, IsSequence(q), IsSequence(r), Len(q) = Len(r), q # <<>>
    PROVE  r # <<>>
<1>1. Len(q) # 0
  BY LenFacts, Zenon
<1> QED
  BY <1>1, LenFacts, Zenon

-----------------------------------------------------------------------------
(* The channel `input` *)

LEMMA ItemTypes ==
    /\ \A x \in Items : x.type \in Kinds \cup {"Account"}
    /\ \A u \in Updates : u.type \in {"Transaction", "Account"}
    /\ Kinds \subseteq {"Frozen", "Confirmed", "Finalized", "Discarded"}
<1>1. \A x \in Items : x.type \in Kinds \cup {"Account"}
  BY KindsDiffer DEF Items, Lifecycle
<1>2. \A u \in Updates : u.type \in {"Transaction", "Account"}
  BY KindsDiffer DEF Updates
<1> QED
  BY <1>1, <1>2, PipelineAssumption

(* What came through the channel, and what is on it, is in order. *)
LEMMA FeedInOrder ==
    ASSUME NEW em, NEW inp, NEW h, NEW done, FeedOK(em, inp, h, done)
    PROVE  InOrder(em \cap Items)
<1>1. em \cap Items = Before(Len(h) + 1, done, h) /\ IsSequence(h) /\ Len(h) \in Nat
  BY LenFacts DEF FeedOK
<1>2. Before(Len(h) + 1, done, h) = done \cup {h[i] : i \in 1 .. Len(h)}
  <2>1. (Len(h) + 1) - 1 = Len(h)
    BY <1>1
  <2> QED
    BY <2>1, Zenon DEF Before
<1>3. ASSUME NEW x \in em \cap Items PROVE Ready(x, em \cap Items)
  <2>1. CASE x \in done
    <3>1. Ready(x, done)
      BY <2>1 DEF FeedOK, InOrder
    <3> QED
      BY <1>1, <1>2, <3>1, ReadyGrows
  <2>2. CASE x \notin done
    <3>1. PICK p \in 1 .. Len(h) : x = h[p]
      BY <1>1, <1>2, <2>2
    <3>2. Ready(x, Before(p, done, h))
      BY <3>1 DEF FeedOK
    <3>3. Before(p, done, h) \subseteq Before(Len(h) + 1, done, h)
      <4>1. \A i \in 1 .. p - 1 : i \in 1 .. Len(h)
        BY <1>1, <3>1
      <4> QED
        BY <1>2, <4>1 DEF Before
    <3> QED
      BY <1>1, <3>2, <3>3, ReadyGrows
  <2> QED
    BY <2>1, <2>2
<1> QED
  BY <1>3 DEF InOrder

(* The source puts an item behind those it needs. *)
LEMMA FeedAppend ==
    ASSUME NEW em, NEW inp, NEW h, NEW done, FeedOK(em, inp, h, done),
           NEW x \in Items, x \notin em, Ready(x, em \cap Items), Fresh(x, em \cap Items)
    PROVE  FeedOK(em \cup {x}, Append(inp, Wire(x)), Append(h, x), done)
<1>1. PICK D, h2, inp2, n : /\ D = em \cap Items /\ h2 = Append(h, x)
                            /\ inp2 = Append(inp, Wire(x)) /\ n = Len(h)
  OBVIOUS
<1>2. /\ IsSequence(inp) /\ IsSequence(h) /\ n = Len(inp) /\ n \in Nat
      /\ D = Before(n + 1, done, h)
  BY <1>1, LenFacts DEF FeedOK
<1>3. /\ IsSequence(h2) /\ IsSequence(inp2) /\ Len(h2) = n + 1 /\ Len(inp2) = n + 1
      /\ h2[n + 1] = x /\ inp2[n + 1] = Wire(x)
      /\ \A i \in 1 .. n : h2[i] = h[i] /\ inp2[i] = inp[i]
  <2>1. Extended(h, h2, x) /\ Extended(inp, inp2, Wire(x))
    BY <1>1, <1>2, Appended, Zenon
  <2> QED
    BY <1>1, <1>2, <2>1 DEF Extended
<1>4. x \notin D /\ x \notin done /\ \A i \in 1 .. n : h[i] # x
  <2>1. (n + 1) - 1 = n
    BY <1>2
  <2> QED
    BY <1>1, <1>2, <2>1 DEF Before
<1>5. \A p \in 1 .. n + 1 : Before(p, done, h2) = Before(p, done, h)
  <2> TAKE p \in 1 .. n + 1
  <2>1. \A i \in 1 .. p - 1 : i \in 1 .. n
    BY <1>2
  <2>2. \A i \in 1 .. p - 1 : h2[i] = h[i]
    BY <1>3, <2>1
  <2> QED
    BY <2>2 DEF Before
<1>6. Before(n + 2, done, h2) = D \cup {x}
  <2>1. (n + 2) - 1 = n + 1 /\ (n + 1) - 1 = n
    BY <1>2
  <2>2. Before(n + 2, done, h2) = done \cup {h2[i] : i \in 1 .. n + 1}
    BY <2>1 DEF Before
  <2>3. D = done \cup {h[i] : i \in 1 .. n}
    BY <1>2, <2>1 DEF Before
  <2>4. 1 .. n + 1 = (1 .. n) \cup {n + 1}
    BY <1>2
  <2> QED
    BY <1>3, <2>2, <2>3, <2>4
<1>7. (em \cup {x}) \cap Items = Before(Len(h2) + 1, done, h2)
  <2>1. Len(h2) + 1 = n + 2
    BY <1>2, <1>3
  <2> QED
    BY <1>1, <1>6, <2>1
<1>8. ASSUME NEW p \in 1 .. n + 1
      PROVE  /\ inp2[p] = Wire(h2[p]) /\ h2[p] \notin done
             /\ Ready(h2[p], Before(p, done, h2)) /\ Fresh(h2[p], Before(p, done, h2))
  <2>1. CASE p = n + 1
    BY <1>1, <1>2, <1>3, <1>4, <1>5, <2>1
  <2>2. CASE p \in 1 .. n
    <3>1. /\ inp[p] = Wire(h[p]) /\ h[p] \notin done
          /\ Ready(h[p], Before(p, done, h)) /\ Fresh(h[p], Before(p, done, h))
      BY <1>1, <2>2 DEF FeedOK
    <3> QED
      BY <1>3, <1>5, <2>2, <3>1
  <2> QED
    BY <1>2, <2>1, <2>2
<1>9. ASSUME NEW p \in 1 .. n + 1, NEW r \in 1 .. n + 1, h2[p] = h2[r] PROVE p = r
  <2>1. \A i, j \in 1 .. n : h[i] = h[j] => i = j
    BY <1>1 DEF FeedOK
  <2>2. p \in 1 .. n \/ p = n + 1
    BY <1>2
  <2>3. r \in 1 .. n \/ r = n + 1
    BY <1>2
  <2> QED
    BY <1>3, <1>4, <1>9, <2>1, <2>2, <2>3
<1>10. InOrder(done)
  BY DEF FeedOK
<1>11. FeedOK(em \cup {x}, inp2, h2, done)
  BY <1>3, <1>7, <1>8, <1>9, <1>10 DEF FeedOK
<1> QED
  BY <1>1, <1>11

(* The coordinator meets an item after those it needs. *)
LEMMA FeedTake ==
    ASSUME NEW em, NEW inp, NEW h, NEW done, FeedOK(em, inp, h, done), inp # <<>>
    PROVE  /\ h[1] \in Items /\ Head(inp) = Wire(h[1]) /\ h[1] \notin done
           /\ Ready(h[1], done) /\ Fresh(h[1], done) /\ InOrder(done)
           /\ FeedOK(em, Tail(inp), Tail(h), done \cup {h[1]})
<1>1. PICK n, x, h2, inp2, E : /\ n = Len(h) /\ x = h[1] /\ h2 = Tail(h)
                               /\ inp2 = Tail(inp) /\ E = done \cup {h[1]}
  OBVIOUS
<1>2. IsSequence(inp) /\ IsSequence(h) /\ n = Len(inp) /\ InOrder(done)
  BY <1>1 DEF FeedOK
<1>3. n \in Nat \ {0} /\ Shortened(h, h2) /\ Shortened(inp, inp2)
  <2>1. h # <<>>
    BY <1>1, <1>2, EmptyTogether, Zenon
  <2>2. Shortened(h, h2) /\ Shortened(inp, inp2)
    BY <1>1, <1>2, <2>1, HeadTaken, Zenon
  <2> QED
    BY <1>1, <2>2 DEF Shortened
<1>4. /\ IsSequence(h2) /\ IsSequence(inp2) /\ Len(h2) = n - 1 /\ Len(inp2) = n - 1
      /\ Head(inp) = inp[1]
      /\ \A i \in 1 .. n - 1 : h2[i] = h[i + 1] /\ inp2[i] = inp[i + 1]
  BY <1>1, <1>2, <1>3 DEF Shortened
<1>5. /\ \A p \in 1 .. n : /\ inp[p] = Wire(h[p]) /\ h[p] \notin done
                           /\ Ready(h[p], Before(p, done, h)) /\ Fresh(h[p], Before(p, done, h))
      /\ \A p, r \in 1 .. n : h[p] = h[r] => p = r
      /\ em \cap Items = Before(n + 1, done, h)
  BY <1>1 DEF FeedOK
<1>6. 1 \in 1 .. n /\ Before(1, done, h) = done
  <2>1. 1 \in 1 .. n /\ 1 .. 1 - 1 = {}
    BY <1>3
  <2> QED
    BY <2>1 DEF Before
<1>7. /\ Head(inp) = Wire(x) /\ x \notin done /\ Ready(x, done) /\ Fresh(x, done)
  BY <1>1, <1>4, <1>5, <1>6
<1>8. x \in Items
  <2>1. 1 \in 1 .. (n + 1) - 1
    BY <1>3
  <2>2. x \in Before(n + 1, done, h)
    BY <1>1, <2>1 DEF Before
  <2> QED
    BY <1>5, <2>2
<1>9. \A p \in 1 .. n : Before(p, E, h2) = Before(p + 1, done, h)
  <2> TAKE p \in 1 .. n
  <2>1. (p + 1) - 1 = p /\ 1 .. p = {1} \cup {i + 1 : i \in 1 .. p - 1}
    <3>1. p \in Nat /\ p >= 1
      BY <1>3
    <3>2. ASSUME NEW i \in 1 .. p, i # 1 PROVE i - 1 \in 1 .. p - 1 /\ i = (i - 1) + 1
      BY <3>1, <3>2
    <3>3. \A i \in 1 .. p - 1 : i + 1 \in 1 .. p
      BY <3>1
    <3>4. 1 \in 1 .. p /\ (p + 1) - 1 = p
      BY <3>1
    <3> QED
      BY <3>2, <3>3, <3>4
  <2>2. \A i \in 1 .. p - 1 : h2[i] = h[i + 1]
    BY <1>3, <1>4
  <2>3. {h[i] : i \in 1 .. p} = {h[1]} \cup {h2[i] : i \in 1 .. p - 1}
    <3>1. ASSUME NEW i \in 1 .. p PROVE h[i] \in {h[1]} \cup {h2[j] : j \in 1 .. p - 1}
      <4>1. CASE i = 1
        BY <4>1, Zenon
      <4>2. CASE i # 1
        <5>1. PICK j \in 1 .. p - 1 : i = j + 1
          BY <2>1, <4>2, Zenon
        <5>2. h[i] = h2[j]
          BY <2>2, <5>1, Zenon
        <5> QED
          BY <5>2, Zenon
      <4> QED
        BY <4>1, <4>2, Zenon
    <3>2. h[1] \in {h[i] : i \in 1 .. p}
      <4>1. 1 \in 1 .. p
        BY <2>1, Zenon
      <4> QED
        BY <4>1, Zenon
    <3>3. ASSUME NEW j \in 1 .. p - 1 PROVE h2[j] \in {h[i] : i \in 1 .. p}
      <4>1. j + 1 \in 1 .. p /\ h2[j] = h[j + 1]
        BY <2>1, <2>2, Zenon
      <4> QED
        BY <4>1, Zenon
    <3> QED
      BY <3>1, <3>2, <3>3, Zenon
  <2>4. Before(p + 1, done, h) = done \cup {h[i] : i \in 1 .. p}
    BY <2>1 DEF Before
  <2> QED
    BY <1>1, <2>3, <2>4 DEF Before
<1>10. ASSUME NEW p \in 1 .. n - 1
       PROVE  /\ inp2[p] = Wire(h2[p]) /\ h2[p] \notin E
              /\ Ready(h2[p], Before(p, E, h2)) /\ Fresh(h2[p], Before(p, E, h2))
  <2>1. p + 1 \in 1 .. n /\ p + 1 # 1 /\ p \in 1 .. n
    BY <1>3
  <2>2. h[p + 1] # h[1]
    BY <1>5, <1>6, <2>1
  <2> QED
    BY <1>1, <1>4, <1>5, <1>9, <2>1, <2>2
<1>11. ASSUME NEW p \in 1 .. n - 1, NEW r \in 1 .. n - 1, h2[p] = h2[r] PROVE p = r
  <2>1. p + 1 \in 1 .. n /\ r + 1 \in 1 .. n
    BY <1>3
  <2>2. p + 1 = r + 1
    BY <1>4, <1>5, <1>11, <2>1
  <2> QED
    BY <2>2
<1>12. em \cap Items = Before(Len(h2) + 1, E, h2)
  <2>1. Len(h2) + 1 = n /\ n \in 1 .. n
    BY <1>3, <1>4
  <2> QED
    BY <1>5, <1>9, <2>1
<1>13. InOrder(E)
  BY <1>1, <1>2, <1>7, InOrderGrows
<1>14. FeedOK(em, inp2, h2, E)
  BY <1>4, <1>10, <1>11, <1>12, <1>13 DEF FeedOK
<1> QED
  BY <1>1, <1>2, <1>7, <1>8, <1>14

-----------------------------------------------------------------------------
(* The channel `parsed` *)

LEMMA CountsAfterSend ==
    ASSUME NEW sent, NEW app, CountsOK(sent, app), NEW u \in Updates,
           sent[u] < Len(HandlerMessages(u))
    PROVE  CountsOK([sent EXCEPT ![u] = sent[u] + 1], app)
<1>1. Len(HandlerMessages(u)) \in Nat
  BY MessagesLength
<1>2. sent \in [Updates -> Nat] /\ app \in [Updates -> Nat]
  BY DEF CountsOK
<1>3. PICK s2 : s2 = [sent EXCEPT ![u] = sent[u] + 1]
  OBVIOUS
<1>4. s2 \in [Updates -> Nat]
  BY <1>2, <1>3
<1>5. ASSUME NEW v \in Updates PROVE app[v] <= s2[v] /\ s2[v] <= Len(HandlerMessages(v))
  <2>1. app[v] <= sent[v] /\ sent[v] <= Len(HandlerMessages(v)) /\ sent[v] \in Nat /\ app[v] \in Nat
    BY <1>2 DEF CountsOK
  <2>2. CASE v = u
    BY <1>1, <1>2, <1>3, <2>1, <2>2
  <2>3. CASE v # u
    BY <1>2, <1>3, <2>1, <2>3
  <2> QED
    BY <2>2, <2>3
<1>6. CountsOK(s2, app)
  BY <1>2, <1>4, <1>5 DEF CountsOK
<1> QED
  BY <1>3, <1>6

LEMMA CountsAfterTake ==
    ASSUME NEW sent, NEW app, CountsOK(sent, app), NEW u \in Updates, app[u] < sent[u]
    PROVE  CountsOK(sent, [app EXCEPT ![u] = app[u] + 1])
<1>1. sent \in [Updates -> Nat] /\ app \in [Updates -> Nat]
  BY DEF CountsOK
<1>2. PICK a2 : a2 = [app EXCEPT ![u] = app[u] + 1]
  OBVIOUS
<1>3. a2 \in [Updates -> Nat]
  BY <1>1, <1>2
<1>4. ASSUME NEW v \in Updates PROVE a2[v] <= sent[v] /\ sent[v] <= Len(HandlerMessages(v))
  <2>1. app[v] <= sent[v] /\ sent[v] <= Len(HandlerMessages(v)) /\ sent[v] \in Nat /\ app[v] \in Nat
    BY <1>1 DEF CountsOK
  <2>2. CASE v = u
    BY <1>1, <1>2, <2>1, <2>2
  <2>3. CASE v # u
    BY <1>1, <1>2, <2>1, <2>3
  <2> QED
    BY <2>2, <2>3
<1>5. CountsOK(sent, a2)
  BY <1>1, <1>3, <1>4 DEF CountsOK
<1> QED
  BY <1>2, <1>5

(* A handler puts its next message on the channel. *)
LEMMA ParsedAppend ==
    ASSUME NEW pd, NEW g, NEW sent, NEW app, CountsOK(sent, app), ParsedOK(pd, g, sent, app),
           NEW u \in Updates, NEW k, k = sent[u] + 1,
           NEW m, m = HandlerMessages(u)[k]
    PROVE  ParsedOK(Append(pd, m), Append(g, <<u, k>>), [sent EXCEPT ![u] = k], app)
<1>1. PICK n, pd2, g2, s2 : /\ n = Len(pd) /\ pd2 = Append(pd, m) /\ g2 = Append(g, <<u, k>>)
                            /\ s2 = [sent EXCEPT ![u] = k]
  OBVIOUS
<1>2. IsSequence(pd) /\ IsSequence(g) /\ Len(g) = n
  BY <1>1 DEF ParsedOK
<1>3. Extended(pd, pd2, m) /\ Extended(g, g2, <<u, k>>)
  BY <1>1, <1>2, Appended, Zenon
<1>4. /\ n \in Nat /\ IsSequence(pd2) /\ IsSequence(g2) /\ Len(pd2) = n + 1 /\ Len(g2) = n + 1
      /\ pd2[n + 1] = m /\ g2[n + 1] = <<u, k>>
      /\ \A i \in 1 .. n : pd2[i] = pd[i] /\ g2[i] = g[i]
  BY <1>1, <1>2, <1>3 DEF Extended
<1>5. sent \in [Updates -> Nat] /\ app \in [Updates -> Nat] /\ app[u] <= sent[u]
  BY DEF CountsOK
<1>6. k \in Nat /\ app[u] < k /\ s2[u] = k /\ \A v \in Updates : v # u => s2[v] = sent[v]
  BY <1>1, <1>5
<1>7. \A v \in Updates : sent[v] \in Nat /\ app[v] \in Nat
  BY <1>5
<1>8. /\ \A p \in 1 .. n : /\ g[p][1] \in Updates /\ g[p][2] \in Nat
                           /\ pd[p] = HandlerMessages(g[p][1])[g[p][2]]
                           /\ app[g[p][1]] < g[p][2] /\ g[p][2] <= sent[g[p][1]]
      /\ \A p, r \in 1 .. n : p < r /\ g[p][1] = g[r][1] => g[p][2] < g[r][2]
      /\ \A v \in Updates : \A j \in app[v] + 1 .. sent[v] :
            \E p \in 1 .. n : g[p][1] = v /\ g[p][2] = j
  BY <1>1 DEF ParsedOK
<1>9. \A p \in 1 .. n + 1 : p \in 1 .. n \/ p = n + 1
  BY <1>4
<1>10. g2[n + 1][1] = u /\ g2[n + 1][2] = k
  BY <1>4
<1>11. ASSUME NEW p \in 1 .. n + 1
       PROVE  /\ g2[p][1] \in Updates /\ g2[p][2] \in Nat
              /\ pd2[p] = HandlerMessages(g2[p][1])[g2[p][2]]
              /\ app[g2[p][1]] < g2[p][2] /\ g2[p][2] <= s2[g2[p][1]]
  <2>1. CASE p = n + 1
    BY <1>4, <1>6, <1>10, <2>1
  <2>2. CASE p \in 1 .. n
    <3>1. g2[p] = g[p] /\ pd2[p] = pd[p]
      BY <1>4, <2>2
    <3>2. g[p][2] <= s2[g[p][1]]
      <4>1. CASE g[p][1] = u
        <5>1. g[p][2] \in Nat /\ g[p][2] <= sent[u] /\ sent[u] \in Nat
          BY <1>7, <1>8, <2>2, <4>1
        <5> QED
          BY <1>6, <4>1, <5>1
      <4>2. CASE g[p][1] # u
        BY <1>6, <1>8, <2>2, <4>2
      <4> QED
        BY <4>1, <4>2
    <3> QED
      BY <1>8, <2>2, <3>1, <3>2
  <2> QED
    BY <1>9, <2>1, <2>2
<1>12. ASSUME NEW p \in 1 .. n + 1, NEW r \in 1 .. n + 1, p < r, g2[p][1] = g2[r][1]
       PROVE  g2[p][2] < g2[r][2]
  <2>1. p \in 1 .. n
    BY <1>4, <1>12
  <2>2. CASE r \in 1 .. n
    BY <1>4, <1>8, <1>12, <2>1, <2>2
  <2>3. CASE r = n + 1
    <3>1. g[p][1] = u /\ g2[p] = g[p]
      BY <1>4, <1>10, <1>12, <2>1, <2>3
    <3>2. g[p][2] \in Nat /\ g[p][2] <= sent[u] /\ sent[u] \in Nat
      BY <1>7, <1>8, <2>1, <3>1
    <3>3. g[p][2] < k
      BY <3>2
    <3> QED
      BY <1>10, <2>3, <3>1, <3>3
  <2> QED
    BY <1>9, <2>2, <2>3
<1>13. ASSUME NEW v \in Updates, NEW j \in app[v] + 1 .. s2[v]
       PROVE  \E p \in 1 .. n + 1 : g2[p][1] = v /\ g2[p][2] = j
  <2>1. CASE v = u /\ j = k
    <3>1. n + 1 \in 1 .. n + 1
      BY <1>4
    <3> QED
      BY <1>10, <2>1, <3>1
  <2>2. CASE ~(v = u /\ j = k)
    <3>1. j \in app[v] + 1 .. sent[v]
      <4>1. CASE v = u
        <5>1. sent[u] \in Nat /\ app[u] \in Nat /\ j \in app[u] + 1 .. k /\ j # k
          BY <1>6, <1>7, <2>2, <4>1
        <5>2. j \in app[u] + 1 .. sent[u]
          BY <5>1
        <5> QED
          BY <4>1, <5>2
      <4>2. CASE v # u
        BY <1>6, <4>2
      <4> QED
        BY <4>1, <4>2
    <3>2. PICK p \in 1 .. n : g[p][1] = v /\ g[p][2] = j
      BY <1>8, <3>1
    <3>3. p \in 1 .. n + 1 /\ g2[p] = g[p]
      BY <1>4, <3>2
    <3> QED
      BY <3>2, <3>3
  <2> QED
    BY <2>1, <2>2
<1>14. ParsedOK(pd2, g2, s2, app)
  BY <1>4, <1>11, <1>12, <1>13 DEF ParsedOK
<1> QED
  BY <1>1, <1>14

(* The coordinator takes the next message of some update. *)
LEMMA ParsedTake ==
    ASSUME NEW pd, NEW g, NEW sent, NEW app, CountsOK(sent, app), ParsedOK(pd, g, sent, app),
           pd # <<>>
    PROVE  \E u \in Updates :
              /\ app[u] < sent[u] /\ Head(pd) = HandlerMessages(u)[app[u] + 1]
              /\ ParsedOK(Tail(pd), Tail(g), sent, [app EXCEPT ![u] = app[u] + 1])
<1>1. PICK n, pd2, g2, u, k : /\ n = Len(pd) /\ pd2 = Tail(pd) /\ g2 = Tail(g)
                              /\ u = g[1][1] /\ k = g[1][2]
  OBVIOUS
<1>2. IsSequence(pd) /\ IsSequence(g) /\ Len(g) = n
  BY <1>1 DEF ParsedOK
<1>3. Shortened(pd, pd2) /\ Shortened(g, g2)
  <2>1. g # <<>>
    BY <1>1, <1>2, EmptyTogether, Zenon
  <2> QED
    BY <1>1, <1>2, <2>1, HeadTaken, Zenon
<1>4. /\ n \in Nat \ {0} /\ IsSequence(pd2) /\ IsSequence(g2) /\ Head(pd) = pd[1]
      /\ Len(pd2) = n - 1 /\ Len(g2) = n - 1
      /\ \A i \in 1 .. n - 1 : pd2[i] = pd[i + 1] /\ g2[i] = g[i + 1]
  BY <1>1, <1>2, <1>3 DEF Shortened
<1>5. /\ \A p \in 1 .. n : /\ g[p][1] \in Updates /\ g[p][2] \in Nat
                           /\ pd[p] = HandlerMessages(g[p][1])[g[p][2]]
                           /\ app[g[p][1]] < g[p][2] /\ g[p][2] <= sent[g[p][1]]
      /\ \A p, r \in 1 .. n : p < r /\ g[p][1] = g[r][1] => g[p][2] < g[r][2]
      /\ \A v \in Updates : \A j \in app[v] + 1 .. sent[v] :
            \E p \in 1 .. n : g[p][1] = v /\ g[p][2] = j
  BY <1>1 DEF ParsedOK
<1>6. \A v \in Updates : sent[v] \in Nat /\ app[v] \in Nat
  BY DEF CountsOK
<1>7. 1 \in 1 .. n
  BY <1>4
<1>8. /\ u \in Updates /\ k \in Nat /\ app[u] < k /\ k <= sent[u]
      /\ pd[1] = HandlerMessages(u)[k]
  BY <1>1, <1>5, <1>7
<1>9. k = app[u] + 1 /\ app[u] < sent[u]
  <2>1. app[u] \in Nat /\ sent[u] \in Nat
    BY <1>6, <1>8
  <2>2. app[u] + 1 \in app[u] + 1 .. sent[u] /\ app[u] < sent[u]
    BY <1>8, <2>1
  <2>3. PICK p \in 1 .. n : g[p][1] = u /\ g[p][2] = app[u] + 1
    BY <1>5, <1>8, <2>2
  <2>4. CASE p = 1
    BY <1>1, <2>2, <2>3, <2>4
  <2>5. CASE p # 1
    <3>1. 1 < p
      BY <1>4, <2>5
    <3>2. k < app[u] + 1
      BY <1>1, <1>5, <1>7, <2>3, <3>1
    <3> QED
      BY <1>8, <2>1, <3>2
  <2> QED
    BY <2>4, <2>5
<1>10. PICK a2 : a2 = [app EXCEPT ![u] = app[u] + 1]
  OBVIOUS
<1>11. app \in [Updates -> Nat]
  BY DEF CountsOK
<1>12. a2[u] = k /\ \A v \in Updates : v # u => a2[v] = app[v]
  BY <1>8, <1>9, <1>10, <1>11
<1>13. ASSUME NEW p \in 1 .. n - 1
       PROVE  /\ g2[p][1] \in Updates /\ g2[p][2] \in Nat
              /\ pd2[p] = HandlerMessages(g2[p][1])[g2[p][2]]
              /\ a2[g2[p][1]] < g2[p][2] /\ g2[p][2] <= sent[g2[p][1]]
  <2>1. p + 1 \in 1 .. n /\ 1 < p + 1
    BY <1>4
  <2>2. g2[p] = g[p + 1] /\ pd2[p] = pd[p + 1]
    BY <1>4
  <2>3. a2[g[p + 1][1]] < g[p + 1][2]
    <3>1. CASE g[p + 1][1] = u
      BY <1>1, <1>5, <1>7, <1>12, <2>1, <3>1
    <3>2. CASE g[p + 1][1] # u
      BY <1>5, <1>12, <2>1, <3>2
    <3> QED
      BY <3>1, <3>2
  <2> QED
    BY <1>5, <2>1, <2>2, <2>3
<1>14. ASSUME NEW p \in 1 .. n - 1, NEW r \in 1 .. n - 1, p < r, g2[p][1] = g2[r][1]
       PROVE  g2[p][2] < g2[r][2]
  <2>1. p + 1 \in 1 .. n /\ r + 1 \in 1 .. n /\ p + 1 < r + 1
    BY <1>4, <1>14
  <2>2. g2[p] = g[p + 1] /\ g2[r] = g[r + 1]
    BY <1>4
  <2> QED
    BY <1>5, <1>14, <2>1, <2>2
<1>15. ASSUME NEW v \in Updates, NEW j \in a2[v] + 1 .. sent[v]
       PROVE  \E p \in 1 .. n - 1 : g2[p][1] = v /\ g2[p][2] = j
  <2>1. j \in app[v] + 1 .. sent[v] /\ ~(v = u /\ j = k)
    <3>1. CASE v = u
      <4>1. app[u] \in Nat /\ sent[u] \in Nat /\ j \in k + 1 .. sent[u]
        BY <1>6, <1>8, <1>12, <3>1
      <4>2. j \in app[u] + 1 .. sent[u] /\ j # k
        BY <1>8, <4>1
      <4> QED
        BY <3>1, <4>2
    <3>2. CASE v # u
      BY <1>12, <3>2
    <3> QED
      BY <3>1, <3>2
  <2>2. PICK p \in 1 .. n : g[p][1] = v /\ g[p][2] = j
    BY <1>5, <2>1
  <2>3. p # 1
    BY <1>1, <2>1, <2>2
  <2>4. p - 1 \in 1 .. n - 1 /\ (p - 1) + 1 = p
    BY <1>4, <2>3
  <2>5. g2[p - 1] = g[p]
    BY <1>4, <2>4
  <2> QED
    BY <2>2, <2>4, <2>5
<1>16. ParsedOK(pd2, g2, sent, a2)
  BY <1>4, <1>13, <1>14, <1>15 DEF ParsedOK
<1> QED
  BY <1>1, <1>4, <1>8, <1>9, <1>10, <1>16

-----------------------------------------------------------------------------
(* Jobs *)

LEMMA NewJob ==
    ASSUME NEW u \in Updates
    PROVE  Job(u, 0) = [job |-> u, todo |-> HandlerMessages(u)]
<1>1. PICK M : M = HandlerMessages(u)
  OBVIOUS
<1>2. IsSequence(M)
  BY <1>1, MessagesLength
<1>3. PICK S : M \in Seq(S)
  BY <1>2 DEF IsSequence
<1>4. SubSeq(M, 1, Len(M)) = M
  BY <1>3, SubSeqFull
<1>5. 0 + 1 = 1
  OBVIOUS
<1> QED
  BY <1>1, <1>4, <1>5, Zenon DEF Job

LEMMA TodoOf ==
    ASSUME NEW u, NEW T, NEW r, r = [job |-> u, todo |-> T]
    PROVE  r.todo = T /\ [r EXCEPT !.todo = Tail(@)] = [job |-> u, todo |-> Tail(T)]
<1>1. r.todo = T
  OBVIOUS
<1>2. ASSUME NEW w PROVE [r EXCEPT !.todo = w] = [job |-> u, todo |-> w]
  OBVIOUS
<1> QED
  BY <1>1, <1>2, Zenon

(* Sending a message leaves the job with the rest. *)
LEMMA JobStep ==
    ASSUME NEW u \in Updates, NEW k \in Nat, k < Len(HandlerMessages(u)),
           NEW r, r = Job(u, k)
    PROVE  /\ Head(r.todo) = HandlerMessages(u)[k + 1]
           /\ Len(r.todo) = 1 <=> k + 1 = Len(HandlerMessages(u))
           /\ [r EXCEPT !.todo = Tail(@)] = Job(u, k + 1)
<1>1. PICK M, n : M = HandlerMessages(u) /\ n = Len(HandlerMessages(u))
  OBVIOUS
<1>2. IsSequence(M) /\ n = Len(M) /\ n \in 1 .. 4
  BY <1>1, MessagesLength
<1>3. PICK S : M \in Seq(S)
  BY <1>2 DEF IsSequence
<1>4. k + 1 \in 1 .. Len(M) /\ n \in k + 1 .. Len(M) /\ k + 1 \in Int /\ n \in Int
  BY <1>1, <1>2
<1>5. PICK j : j = k + 1
  OBVIOUS
<1>6. Head(SubSeq(M, j, n)) = M[j] /\ Tail(SubSeq(M, j, n)) = SubSeq(M, j + 1, n)
  BY <1>3, <1>4, <1>5, HeadTailOfSubSeq
<1>7. Len(SubSeq(M, j, n)) = (n - j) + 1
  <2>1. \A i \in j .. n : M[i] \in S
    BY <1>2, <1>3, <1>4, <1>5
  <2>2. j \in Int /\ n \in Int /\ j <= n
    BY <1>2, <1>4, <1>5
  <2>3. Len(SubSeq(M, j, n)) = IF j <= n THEN n - j + 1 ELSE 0
    BY <2>1, <2>2, SubSeqProperties
  <2> QED
    BY <2>2, <2>3
<1>8. PICK T, T2 : T = SubSeq(M, j, n) /\ T2 = SubSeq(M, j + 1, n)
  OBVIOUS
<1>9. r = [job |-> u, todo |-> T] /\ Job(u, k + 1) = [job |-> u, todo |-> T2]
  BY <1>1, <1>5, <1>8, Zenon DEF Job
<1>10. Head(T) = M[j] /\ Tail(T) = T2 /\ Len(T) = (n - j) + 1
  BY <1>6, <1>7, <1>8, Zenon
<1>11. r.todo = T
  BY <1>9, TodoOf
<1>12. [r EXCEPT !.todo = Tail(@)] = [job |-> u, todo |-> Tail(T)]
  BY <1>9, TodoOf
<1>13. Len(r.todo) = 1 <=> k + 1 = n
  <2>1. (n - j) + 1 = 1 <=> j = n
    BY <1>2, <1>4, <1>5
  <2> QED
    BY <1>5, <1>10, <1>11, <2>1, Zenon
<1> QED
  BY <1>1, <1>5, <1>9, <1>10, <1>11, <1>12, <1>13, Zenon

LEMMA JobsDiffer ==
    ASSUME NEW u, NEW v, NEW j, NEW k, Job(u, j) = Job(v, k)
    PROVE  u = v
<1>1. Job(u, j).job = u /\ Job(v, k).job = v
  BY DEF Job
<1> QED
  BY <1>1

(* The source takes an update off the stream. *)
LEMMA JobsTake ==
    ASSUME NEW em, NEW q, NEW rn, NEW pk, NEW sent, NEW u \in Updates, u \notin em,
           JobsOK(em, {}, q, rn, pk, sent)
    PROVE  JobsOK(em \cup {u}, {u}, q, rn, pk, sent)
<1>1. PICK e2, h2 : e2 = em \cup {u} /\ h2 = {u}
  OBVIOUS
<1>2. \A i \in 1 .. Len(q) : q[i] \in Updates \cap em
  BY DEF JobsOK
<1>3. \A v \in Updates : Waiting(v, e2, h2, q) <=> Waiting(v, em, {}, q)
  BY <1>1, <1>2 DEF Waiting
<1>4. \A i \in 1 .. Len(q) : q[i] \in Updates \cap e2 /\ q[i] \notin h2
  BY <1>1, <1>2
<1>5. e2 \subseteq Updates \cup Items /\ h2 \subseteq Updates \cap e2
  BY <1>1 DEF JobsOK
<1>6. \A x, y \in h2 : x = y
  BY <1>1
<1>7. \A r \in rn : \E v \in Updates \cap e2 :
         sent[v] < Len(HandlerMessages(v)) /\ r = Job(v, sent[v])
  BY <1>1 DEF JobsOK
<1>8. /\ IsSequence(q) /\ \A i, j \in 1 .. Len(q) : q[i] = q[j] => i = j
      /\ \A v \in Updates : Waiting(v, em, {}, q) => sent[v] = 0 /\ Job(v, 0) \notin rn
      /\ ~pk => \A v \in Updates : \/ Waiting(v, em, {}, q)
                                   \/ Job(v, sent[v]) \in rn
                                   \/ sent[v] = Len(HandlerMessages(v))
  BY DEF JobsOK
<1>9. JobsOK(e2, h2, q, rn, pk, sent)
  BY <1>3, <1>4, <1>5, <1>6, <1>7, <1>8 DEF JobsOK
<1> QED
  BY <1>1, <1>9

(* A lifecycle event is not an update. *)
LEMMA JobsLifecycle ==
    ASSUME NEW em, NEW hd, NEW q, NEW rn, NEW pk, NEW sent, NEW x \in Items, x \notin Updates,
           JobsOK(em, hd, q, rn, pk, sent)
    PROVE  JobsOK(em \cup {x}, hd, q, rn, pk, sent)
<1>1. PICK e2 : e2 = em \cup {x}
  OBVIOUS
<1>2. \A v \in Updates : Waiting(v, e2, hd, q) <=> Waiting(v, em, hd, q)
  BY <1>1 DEF Waiting
<1>3. Updates \cap e2 = Updates \cap em
  BY <1>1
<1>4. e2 \subseteq Updates \cup Items
  BY <1>1 DEF JobsOK
<1>5. /\ hd \subseteq Updates \cap em /\ (\A u, v \in hd : u = v)
      /\ IsSequence(q)
      /\ \A i \in 1 .. Len(q) : q[i] \in Updates \cap em /\ q[i] \notin hd
      /\ \A i, j \in 1 .. Len(q) : q[i] = q[j] => i = j
      /\ \A u \in Updates : Waiting(u, em, hd, q) => sent[u] = 0 /\ Job(u, 0) \notin rn
      /\ \A r \in rn : \E u \in Updates \cap em :
            sent[u] < Len(HandlerMessages(u)) /\ r = Job(u, sent[u])
      /\ ~pk => \A u \in Updates : \/ Waiting(u, em, hd, q)
                                   \/ Job(u, sent[u]) \in rn
                                   \/ sent[u] = Len(HandlerMessages(u))
  BY DEF JobsOK
<1>6. JobsOK(e2, hd, q, rn, pk, sent)
  BY <1>2, <1>3, <1>4, <1>5 DEF JobsOK
<1> QED
  BY <1>1, <1>6

(* The runtime has room for the update the source holds. *)
LEMMA JobsForward ==
    ASSUME NEW em, NEW hd, NEW q, NEW rn, NEW pk, NEW sent, NEW u \in hd,
           JobsOK(em, hd, q, rn, pk, sent)
    PROVE  JobsOK(em, {}, Append(q, u), rn, pk, sent)
<1>1. PICK q2, n : q2 = Append(q, u) /\ n = Len(q)
  OBVIOUS
<1>2. IsSequence(q)
  BY DEF JobsOK
<1>3. Extended(q, q2, u)
  BY <1>1, <1>2, Appended, Zenon
<1>4. /\ IsSequence(q2) /\ n \in Nat /\ Len(q2) = n + 1 /\ q2[n + 1] = u
      /\ \A i \in 1 .. n : q2[i] = q[i]
  BY <1>1, <1>3 DEF Extended
<1>5. /\ em \subseteq Updates \cup Items
      /\ hd = {u} /\ u \in Updates \cap em
      /\ \A i \in 1 .. n : q[i] \in Updates \cap em /\ q[i] # u
      /\ \A i, j \in 1 .. n : q[i] = q[j] => i = j
  BY <1>1 DEF JobsOK
<1>6. \A i \in 1 .. n + 1 : i \in 1 .. n \/ i = n + 1
  BY <1>4
<1>7. n + 1 \in 1 .. n + 1 /\ \A i \in 1 .. n : i \in 1 .. n + 1
  BY <1>4
<1>8. \A v \in Updates : Waiting(v, em, {}, q2) <=> Waiting(v, em, hd, q)
  <2> TAKE v \in Updates
  <2>1. (\E i \in 1 .. n + 1 : q2[i] = v) <=> v = u \/ \E i \in 1 .. n : q[i] = v
    BY <1>4, <1>6, <1>7
  <2> QED
    BY <1>1, <1>4, <1>5, <2>1 DEF Waiting
<1>9. /\ \A i \in 1 .. n + 1 : q2[i] \in Updates \cap em
      /\ \A i, j \in 1 .. n + 1 : q2[i] = q2[j] => i = j
  BY <1>4, <1>5, <1>6
<1>10. /\ \A v \in Updates : Waiting(v, em, hd, q) => sent[v] = 0 /\ Job(v, 0) \notin rn
       /\ \A r \in rn : \E v \in Updates \cap em :
             sent[v] < Len(HandlerMessages(v)) /\ r = Job(v, sent[v])
       /\ ~pk => \A v \in Updates : \/ Waiting(v, em, hd, q)
                                    \/ Job(v, sent[v]) \in rn
                                    \/ sent[v] = Len(HandlerMessages(v))
  BY DEF JobsOK
<1>11. JobsOK(em, {}, q2, rn, pk, sent)
  BY <1>4, <1>5, <1>8, <1>9, <1>10 DEF JobsOK
<1> QED
  BY <1>1, <1>11

(* The runtime starts the handler of the update at the head of its queue. *)
LEMMA JobsStart ==
    ASSUME NEW em, NEW hd, NEW q, NEW rn, NEW pk, NEW sent, q # <<>>,
           JobsOK(em, hd, q, rn, pk, sent)
    PROVE  JobsOK(em, hd, Tail(q),
                  rn \cup {[job |-> Head(q), todo |-> HandlerMessages(Head(q))]}, pk, sent)
<1>1. PICK q2, n, u : q2 = Tail(q) /\ n = Len(q) /\ u = q[1]
  OBVIOUS
<1>2. IsSequence(q)
  BY DEF JobsOK
<1>3. Shortened(q, q2)
  BY <1>1, <1>2, HeadTaken, Zenon
<1>4. /\ IsSequence(q2) /\ n \in Nat \ {0} /\ Head(q) = u /\ Len(q2) = n - 1
      /\ \A i \in 1 .. n - 1 : q2[i] = q[i + 1]
  BY <1>1, <1>3 DEF Shortened
<1>5. /\ em \subseteq Updates \cup Items
      /\ hd \subseteq Updates \cap em /\ (\A v, w \in hd : v = w)
      /\ \A i \in 1 .. n : q[i] \in Updates \cap em /\ q[i] \notin hd
      /\ \A i, j \in 1 .. n : q[i] = q[j] => i = j
      /\ \A v \in Updates : Waiting(v, em, hd, q) => sent[v] = 0 /\ Job(v, 0) \notin rn
      /\ \A r \in rn : \E v \in Updates \cap em :
            sent[v] < Len(HandlerMessages(v)) /\ r = Job(v, sent[v])
      /\ ~pk => \A v \in Updates : \/ Waiting(v, em, hd, q)
                                   \/ Job(v, sent[v]) \in rn
                                   \/ sent[v] = Len(HandlerMessages(v))
  BY <1>1 DEF JobsOK
<1>6. 1 \in 1 .. n
  BY <1>4
<1>7. u \in Updates /\ u \in em /\ u \notin hd
  BY <1>1, <1>5, <1>6
<1>8. PICK r2 : r2 = Job(u, 0)
  OBVIOUS
<1>9. [job |-> Head(q), todo |-> HandlerMessages(Head(q))] = r2
  BY <1>4, <1>7, <1>8, NewJob, Zenon
<1>10. \A i \in 1 .. n - 1 : i + 1 \in 1 .. n /\ i + 1 # 1
  BY <1>4
<1>11. \A i \in 1 .. n - 1 : q2[i] # u
  BY <1>1, <1>4, <1>5, <1>6, <1>10
<1>12. \A v \in Updates : v # u => (Waiting(v, em, hd, q2) <=> Waiting(v, em, hd, q))
  <2> TAKE v \in Updates
  <2>1. ASSUME v # u
        PROVE  (\E i \in 1 .. n - 1 : q2[i] = v) <=> (\E i \in 1 .. n : q[i] = v)
    <3>1. ASSUME NEW i \in 1 .. n, q[i] = v PROVE \E j \in 1 .. n - 1 : q2[j] = v
      <4>1. i # 1
        BY <1>1, <2>1, <3>1
      <4>2. i - 1 \in 1 .. n - 1 /\ (i - 1) + 1 = i
        BY <1>4, <4>1
      <4>3. q2[i - 1] = q[i]
        BY <1>4, <4>2
      <4> QED
        BY <3>1, <4>2, <4>3
    <3> QED
      BY <1>4, <1>10, <3>1
  <2> QED
    BY <1>1, <1>4, <2>1 DEF Waiting
<1>13. Waiting(u, em, hd, q) /\ ~Waiting(u, em, hd, q2)
  BY <1>1, <1>4, <1>6, <1>7, <1>11 DEF Waiting
<1>14. sent[u] = 0 /\ 0 < Len(HandlerMessages(u))
  BY <1>5, <1>7, <1>13, MessagesLength
<1>15. /\ \A i \in 1 .. n - 1 : q2[i] \in Updates \cap em /\ q2[i] \notin hd
       /\ \A i, j \in 1 .. n - 1 : q2[i] = q2[j] => i = j
  <2>1. \A i, j \in 1 .. n - 1 : i + 1 = j + 1 => i = j
    BY <1>4
  <2> QED
    BY <1>4, <1>5, <1>10, <2>1
<1>16. ASSUME NEW v \in Updates, Waiting(v, em, hd, q2)
       PROVE  sent[v] = 0 /\ Job(v, 0) \notin rn \cup {r2}
  <2>1. v # u
    BY <1>13, <1>16
  <2>2. Job(v, 0) # r2
    BY <1>8, <2>1, JobsDiffer, Zenon
  <2> QED
    BY <1>5, <1>12, <1>16, <2>1, <2>2
<1>17. ASSUME NEW r \in rn \cup {r2}
       PROVE  \E v \in Updates \cap em : sent[v] < Len(HandlerMessages(v)) /\ r = Job(v, sent[v])
  <2>1. CASE r \in rn
    BY <1>5, <2>1
  <2>2. CASE r = r2
    BY <1>7, <1>8, <1>14, <2>2
  <2> QED
    BY <2>1, <2>2
<1>18. ASSUME ~pk, NEW v \in Updates
       PROVE  \/ Waiting(v, em, hd, q2)
              \/ Job(v, sent[v]) \in rn \cup {r2}
              \/ sent[v] = Len(HandlerMessages(v))
  <2>1. CASE v = u
    BY <1>8, <1>14, <2>1
  <2>2. CASE v # u
    BY <1>5, <1>12, <1>18, <2>2
  <2> QED
    BY <2>1, <2>2
<1>19. JobsOK(em, hd, q2, rn \cup {r2}, pk, sent)
  BY <1>4, <1>5, <1>15, <1>16, <1>17, <1>18 DEF JobsOK
<1> QED
  BY <1>1, <1>9, <1>19, Zenon

(* A handler sends its next message and goes on, or ends. *)
LEMMA JobsSend ==
    ASSUME NEW em, NEW hd, NEW q, NEW rn, NEW pk, NEW sent, NEW r \in rn,
           sent \in [Updates -> Nat], JobsOK(em, hd, q, rn, pk, sent)
    PROVE  \E u \in Updates :
              /\ sent[u] < Len(HandlerMessages(u))
              /\ Head(r.todo) = HandlerMessages(u)[sent[u] + 1]
              /\ JobsOK(em, hd, q,
                        (rn \ {r}) \cup
                           (IF Len(r.todo) = 1 THEN {} ELSE {[r EXCEPT !.todo = Tail(@)]}),
                        pk, [sent EXCEPT ![u] = sent[u] + 1])
<1>1. /\ em \subseteq Updates \cup Items
      /\ hd \subseteq Updates \cap em /\ (\A v, w \in hd : v = w)
      /\ IsSequence(q)
      /\ \A i \in 1 .. Len(q) : q[i] \in Updates \cap em /\ q[i] \notin hd
      /\ \A i, j \in 1 .. Len(q) : q[i] = q[j] => i = j
      /\ \A v \in Updates : Waiting(v, em, hd, q) => sent[v] = 0 /\ Job(v, 0) \notin rn
      /\ \A x \in rn : \E v \in Updates \cap em :
            sent[v] < Len(HandlerMessages(v)) /\ x = Job(v, sent[v])
      /\ ~pk => \A v \in Updates : \/ Waiting(v, em, hd, q)
                                   \/ Job(v, sent[v]) \in rn
                                   \/ sent[v] = Len(HandlerMessages(v))
  BY DEF JobsOK
<1>2. PICK u \in Updates \cap em : sent[u] < Len(HandlerMessages(u)) /\ r = Job(u, sent[u])
  BY <1>1
<1>3. PICK k : k = sent[u]
  OBVIOUS
<1>4. k \in Nat /\ k < Len(HandlerMessages(u)) /\ r = Job(u, k)
  BY <1>2, <1>3
<1>5. /\ Head(r.todo) = HandlerMessages(u)[k + 1]
      /\ Len(r.todo) = 1 <=> k + 1 = Len(HandlerMessages(u))
      /\ [r EXCEPT !.todo = Tail(@)] = Job(u, k + 1)
  BY <1>2, <1>4, JobStep
<1>6. PICK s2, rn2 :
         /\ s2 = [sent EXCEPT ![u] = sent[u] + 1]
         /\ rn2 = (rn \ {r}) \cup
                     (IF Len(r.todo) = 1 THEN {} ELSE {[r EXCEPT !.todo = Tail(@)]})
  OBVIOUS
<1>7. s2[u] = k + 1 /\ \A v \in Updates : v # u => s2[v] = sent[v]
  BY <1>2, <1>3, <1>6
<1>8. PICK r2 : r2 = Job(u, k + 1)
  OBVIOUS
<1>9. rn2 = (rn \ {r}) \cup (IF k + 1 = Len(HandlerMessages(u)) THEN {} ELSE {r2})
  BY <1>5, <1>6, <1>8, Zenon
<1>10. ~Waiting(u, em, hd, q)
  <2>1. SUFFICES ASSUME Waiting(u, em, hd, q) PROVE FALSE
    OBVIOUS
  <2>2. sent[u] = 0 /\ Job(u, 0) \notin rn
    BY <1>1, <1>2, <2>1
  <2> QED
    BY <1>2, <2>2
<1>11. ASSUME NEW v \in Updates, Waiting(v, em, hd, q)
       PROVE  s2[v] = 0 /\ Job(v, 0) \notin rn2
  <2>1. v # u
    BY <1>10, <1>11
  <2>2. Job(v, 0) # r2
    BY <1>8, <2>1, JobsDiffer, Zenon
  <2>3. sent[v] = 0 /\ Job(v, 0) \notin rn
    BY <1>1, <1>11
  <2> QED
    BY <1>7, <1>9, <2>1, <2>2, <2>3
<1>12. ASSUME NEW x \in rn2
       PROVE  \E v \in Updates \cap em : s2[v] < Len(HandlerMessages(v)) /\ x = Job(v, s2[v])
  <2>1. CASE x \in rn \ {r}
    <3>1. PICK v \in Updates \cap em : sent[v] < Len(HandlerMessages(v)) /\ x = Job(v, sent[v])
      BY <1>1, <2>1
    <3>2. v # u
      BY <1>2, <2>1, <3>1
    <3>3. s2[v] = sent[v]
      BY <1>7, <3>2
    <3> QED
      BY <3>1, <3>3
  <2>2. CASE x = r2 /\ k + 1 # Len(HandlerMessages(u))
    <3>1. k + 1 < Len(HandlerMessages(u))
      BY <1>2, <1>4, <2>2, MessagesLength
    <3> QED
      BY <1>2, <1>7, <1>8, <2>2, <3>1
  <2> QED
    BY <1>9, <2>1, <2>2
<1>13. ASSUME ~pk, NEW v \in Updates
       PROVE  \/ Waiting(v, em, hd, q)
              \/ Job(v, s2[v]) \in rn2
              \/ s2[v] = Len(HandlerMessages(v))
  <2>1. CASE v = u
    BY <1>7, <1>8, <1>9, <2>1
  <2>2. CASE v # u
    <3>1. Job(v, sent[v]) # r
      BY <1>2, <2>2, JobsDiffer, Zenon
    <3>2. s2[v] = sent[v]
      BY <1>7, <2>2
    <3> QED
      BY <1>1, <1>9, <1>13, <3>1, <3>2
  <2> QED
    BY <2>1, <2>2
<1>14. JobsOK(em, hd, q, rn2, pk, s2)
  BY <1>1, <1>11, <1>12, <1>13 DEF JobsOK
<1>15. Head(r.todo) = HandlerMessages(u)[sent[u] + 1]
  BY <1>3, <1>5, Zenon
<1>16. u \in Updates
  BY <1>2
<1>17. sent[u] < Len(HandlerMessages(u))
  BY <1>2
<1> QED
  BY <1>6, <1>14, <1>15, <1>16, <1>17, Zenon

(* A handler panics. *)
LEMMA JobsPanic ==
    ASSUME NEW em, NEW hd, NEW q, NEW rn, NEW pk, NEW sent, NEW r,
           JobsOK(em, hd, q, rn, pk, sent)
    PROVE  JobsOK(em, hd, q, rn \ {r}, TRUE, sent)
BY DEF JobsOK
-----------------------------------------------------------------------------
(* Every action preserves the invariant. *)

LEMMA UpdateKinds ==
    /\ \A t \in Txs : TxUpdate(t) \in Updates \ Items
    /\ \A a \in Accts : AcctUpdate(a) \in Updates \cap Items
    /\ \A kind \in Kinds, s \in Slots : Lifecycle(kind, s) \in Items \ Updates
<1>1. \A t \in Txs : TxUpdate(t) \in Updates /\ TxUpdate(t).type = "Transaction"
  BY DEF Updates, TxUpdate, Update
<1>2. \A a \in Accts : AcctUpdate(a) \in Updates \cap Items
  BY DEF Updates, Items
<1>3. \A kind \in Kinds, s \in Slots :
         Lifecycle(kind, s) \in Items /\ Lifecycle(kind, s).type = kind
  BY DEF Items, Lifecycle
<1> QED
  BY <1>1, <1>2, <1>3, ItemTypes

(* connect announces an account update and holds it for the runtime. *)
LEMMA AnnounceAccountOK ==
    ASSUME NEW a \in Accts, AnnounceAccount(a),
           Explained(emitted, held, input, queue, running, panicked, parsed, co)
    PROVE  Explained(emitted', held', input', queue', running', panicked', parsed', co')
<1>1. PICK sent, app, g, h, done :
         /\ CountsOK(sent, app)
         /\ JobsOK(emitted, held, queue, running, panicked, sent)
         /\ ParsedOK(parsed, g, sent, app)
         /\ FeedOK(emitted, input, h, done)
         /\ CoordinatorOK(co, done, app)
  BY Zenon DEF Explained
<1>2. PICK u : u = AcctUpdate(a)
  OBVIOUS
<1>3. /\ held = {} /\ u \notin emitted /\ emitted' = emitted \cup {u} /\ held' = {u}
      /\ input' = Append(input, Wire(u))
      /\ UNCHANGED <<queue, running, panicked, parsed, co>>
  <2>1. u.type = "Account" /\ u.slot = AcctSlot[a]
    BY <1>2 DEF AcctUpdate, Update
  <2> QED
    BY <1>2, <2>1 DEF AnnounceAccount, AcctUpdate, Wire
<1>4. u \in Updates /\ u \in Items /\ u.type = "Account"
  BY <1>2, UpdateKinds DEF AcctUpdate, Update
<1>5. JobsOK(emitted \cup {u}, {u}, queue, running, panicked, sent)
  BY <1>1, <1>3, <1>4, JobsTake, Zenon
<1>6. FeedOK(emitted \cup {u}, Append(input, Wire(u)), Append(h, u), done)
  <2>1. Ready(u, emitted \cap Items) /\ Fresh(u, emitted \cap Items)
    BY <1>4 DEF Ready, Fresh, CommitEvent
  <2> QED
    BY <1>1, <1>3, <1>4, <2>1, FeedAppend, Zenon
<1>7. /\ JobsOK(emitted', held', queue', running', panicked', sent)
      /\ FeedOK(emitted', input', Append(h, u), done)
      /\ ParsedOK(parsed', g, sent, app) /\ CoordinatorOK(co', done, app)
  BY <1>1, <1>3, <1>5, <1>6
<1> QED
  BY <1>1, <1>7, Zenon DEF Explained

(* connect takes a transaction from the stream. *)
LEMMA TakeTransactionOK ==
    ASSUME NEW t \in Txs, TakeTransaction(t),
           Explained(emitted, held, input, queue, running, panicked, parsed, co)
    PROVE  Explained(emitted', held', input', queue', running', panicked', parsed', co')
<1>1. PICK sent, app, g, h, done :
         /\ CountsOK(sent, app)
         /\ JobsOK(emitted, held, queue, running, panicked, sent)
         /\ ParsedOK(parsed, g, sent, app)
         /\ FeedOK(emitted, input, h, done)
         /\ CoordinatorOK(co, done, app)
  BY Zenon DEF Explained
<1>2. PICK u : u = TxUpdate(t)
  OBVIOUS
<1>3. /\ held = {} /\ u \notin emitted /\ emitted' = emitted \cup {u} /\ held' = {u}
      /\ UNCHANGED <<input, queue, running, panicked, parsed, co>>
  BY <1>2 DEF TakeTransaction, TxUpdate
<1>4. u \in Updates /\ u \notin Items
  BY <1>2, UpdateKinds
<1>5. JobsOK(emitted \cup {u}, {u}, queue, running, panicked, sent)
  BY <1>1, <1>3, <1>4, JobsTake, Zenon
<1>6. FeedOK(emitted \cup {u}, input, h, done)
  <2>1. (emitted \cup {u}) \cap Items = emitted \cap Items
    BY <1>4
  <2> QED
    BY <1>1, <2>1, Zenon DEF FeedOK
<1>7. /\ JobsOK(emitted', held', queue', running', panicked', sent)
      /\ FeedOK(emitted', input', h, done)
      /\ ParsedOK(parsed', g, sent, app) /\ CoordinatorOK(co', done, app)
  BY <1>1, <1>3, <1>5, <1>6
<1> QED
  BY <1>1, <1>7, Zenon DEF Explained

(* connect puts the update it holds on the runtime's channel. *)
LEMMA ForwardToRuntimeOK ==
    ASSUME ForwardToRuntime,
           Explained(emitted, held, input, queue, running, panicked, parsed, co)
    PROVE  Explained(emitted', held', input', queue', running', panicked', parsed', co')
<1>1. PICK sent, app, g, h, done :
         /\ CountsOK(sent, app)
         /\ JobsOK(emitted, held, queue, running, panicked, sent)
         /\ ParsedOK(parsed, g, sent, app)
         /\ FeedOK(emitted, input, h, done)
         /\ CoordinatorOK(co, done, app)
  BY Zenon DEF Explained
<1>2. PICK u \in held :
         /\ queue' = Append(queue, u) /\ held' = {}
         /\ UNCHANGED <<emitted, input, running, panicked, parsed, co>>
  BY DEF ForwardToRuntime
<1>3. JobsOK(emitted, {}, Append(queue, u), running, panicked, sent)
  BY <1>1, JobsForward, Zenon
<1>4. /\ JobsOK(emitted', held', queue', running', panicked', sent)
      /\ FeedOK(emitted', input', h, done)
      /\ ParsedOK(parsed', g, sent, app) /\ CoordinatorOK(co', done, app)
  BY <1>1, <1>2, <1>3
<1> QED
  BY <1>1, <1>4, Zenon DEF Explained

(* A job starts, sends its next message or panics. *)
LEMMA RuntimeOK ==
    ASSUME Runtime,
           Explained(emitted, held, input, queue, running, panicked, parsed, co)
    PROVE  Explained(emitted', held', input', queue', running', panicked', parsed', co')
<1>1. PICK sent, app, g, h, done :
         /\ CountsOK(sent, app)
         /\ JobsOK(emitted, held, queue, running, panicked, sent)
         /\ ParsedOK(parsed, g, sent, app)
         /\ FeedOK(emitted, input, h, done)
         /\ CoordinatorOK(co, done, app)
  BY Zenon DEF Explained
<1>2. CASE StartJob
  <2>1. /\ JobsOK(emitted, held, Tail(queue),
                  running \cup {[job |-> Head(queue), todo |-> HandlerMessages(Head(queue))]},
                  panicked, sent)
        /\ queue' = Tail(queue)
        /\ running' = running \cup {[job |-> Head(queue), todo |-> HandlerMessages(Head(queue))]}
        /\ UNCHANGED <<emitted, held, input, panicked, parsed, co>>
    BY <1>1, <1>2, JobsStart, Zenon DEF StartJob
  <2>2. /\ JobsOK(emitted', held', queue', running', panicked', sent)
        /\ FeedOK(emitted', input', h, done)
        /\ ParsedOK(parsed', g, sent, app) /\ CoordinatorOK(co', done, app)
    BY <1>1, <2>1
  <2> QED
    BY <1>1, <2>2, Zenon DEF Explained
<1>3. ASSUME NEW r \in running, HandlerSend(r)
      PROVE  Explained(emitted', held', input', queue', running', panicked', parsed', co')
  <2>1. PICK rest : rest = (running \ {r}) \cup
               (IF Len(r.todo) = 1 THEN {} ELSE {[r EXCEPT !.todo = Tail(@)]})
    OBVIOUS
  <2>2. PICK u \in Updates :
            /\ sent[u] < Len(HandlerMessages(u))
            /\ Head(r.todo) = HandlerMessages(u)[sent[u] + 1]
            /\ JobsOK(emitted, held, queue, rest, panicked, [sent EXCEPT ![u] = sent[u] + 1])
    <3>1. sent \in [Updates -> Nat]
      BY <1>1 DEF CountsOK
    <3> QED
      BY <1>1, <2>1, <3>1, JobsSend, Zenon
  <2>3. /\ running' = rest /\ parsed' = Append(parsed, HandlerMessages(u)[sent[u] + 1])
        /\ UNCHANGED <<emitted, held, input, queue, panicked, co>>
    BY <1>3, <2>1, <2>2 DEF HandlerSend
  <2>4. CountsOK([sent EXCEPT ![u] = sent[u] + 1], app)
    BY <1>1, <2>2, CountsAfterSend, Zenon
  <2>5. ParsedOK(Append(parsed, HandlerMessages(u)[sent[u] + 1]), Append(g, <<u, sent[u] + 1>>),
                 [sent EXCEPT ![u] = sent[u] + 1], app)
    BY <1>1, <2>2, ParsedAppend, Zenon
  <2>6. /\ JobsOK(emitted', held', queue', running', panicked', [sent EXCEPT ![u] = sent[u] + 1])
        /\ FeedOK(emitted', input', h, done)
        /\ ParsedOK(parsed', Append(g, <<u, sent[u] + 1>>), [sent EXCEPT ![u] = sent[u] + 1], app)
        /\ CoordinatorOK(co', done, app)
    BY <1>1, <2>2, <2>3, <2>5
  <2> QED
    BY <2>4, <2>6, Zenon DEF Explained
<1>4. ASSUME NEW r \in running, HandlerPanic(r)
      PROVE  Explained(emitted', held', input', queue', running', panicked', parsed', co')
  <2>1. JobsOK(emitted, held, queue, running \ {r}, TRUE, sent)
    BY <1>1, JobsPanic, Zenon
  <2>2. /\ JobsOK(emitted', held', queue', running', panicked', sent)
        /\ FeedOK(emitted', input', h, done)
        /\ ParsedOK(parsed', g, sent, app) /\ CoordinatorOK(co', done, app)
    BY <1>1, <1>4, <2>1 DEF HandlerPanic
  <2> QED
    BY <1>1, <2>2, Zenon DEF Explained
<1> QED
  BY <1>2, <1>3, <1>4 DEF Runtime

(* A lifecycle event the stream may have next comes after what it needs. *)
LEMMA AllowedReady ==
    ASSUME NEW kind \in Kinds, NEW s \in Slots, NEW x, x = Lifecycle(kind, s),
           LifecycleAllowed(kind, s), Late = {},
           NEW D, D = emitted \cap Items, InOrder(D), emitted \subseteq Updates \cup Items
    PROVE  Ready(x, D) /\ Fresh(x, D)
<1>1. x.type = kind /\ x.slot = s
  BY DEF Lifecycle
<1>2. kind \in {"Frozen", "Confirmed", "Finalized", "Discarded"}
  BY PipelineAssumption
<1>3. \A k, t : Lifecycle(k, t) \in emitted /\ k \in {"Frozen", "Confirmed"} =>
                   Lifecycle(k, t) \in D
  <2> SUFFICES ASSUME NEW k, NEW t, Lifecycle(k, t) \in emitted, k \in {"Frozen", "Confirmed"}
               PROVE  Lifecycle(k, t) \in D
    OBVIOUS
  <2>1. Lifecycle(k, t).type = k
    BY DEF Lifecycle
  <2> QED
    BY <2>1, ItemTypes
<1>4. kind = CommitEvent => \A a \in AcctsOf(s) : AcctUpdate(a) \in D
  <2>1. kind = CommitEvent =>
           \A a \in Accts : AcctSlot[a] = s => Update("Account", a, s) \in emitted
    BY Zenon DEF LifecycleAllowed
  <2> QED
    BY <2>1, UpdateKinds DEF AcctsOf, AcctUpdate
<1>5. CASE kind = "Frozen"
  <2>1. /\ Lifecycle("Discarded", s) \notin emitted
        /\ Parent[s] \in Slots => Lifecycle("Frozen", Parent[s]) \in emitted
    BY <1>5 DEF LifecycleAllowed
  <2>2. Fresh(x, D)
    BY <2>1 DEF Fresh, Discarded, Lifecycle
  <2>3. ASSUME s \in Canon, NEW t \in Canon, t < s PROVE Frozen(t) \in D
    <3>1. Parent[s] \in Canon /\ t <= Parent[s]
      BY <2>3, BranchAssumption
    <3>2. Frozen(Parent[s]) \in D
      BY <1>3, <2>1, <3>1, SlotsFinite DEF Frozen
    <3> QED
      BY <3>1, <3>2, FrozenBelow
  <2> QED
    BY <1>1, <1>4, <1>5, <2>2, <2>3 DEF Ready
<1>6. CASE kind = "Confirmed"
  <2>1. s \in Canon /\ Lifecycle("Frozen", s) \in emitted
    BY <1>6 DEF LifecycleAllowed
  <2>2. Frozen(s) \in D
    BY <1>3, <2>1 DEF Frozen
  <2> QED
    BY <1>1, <1>4, <1>6, <2>1, <2>2 DEF Ready, Fresh
<1>7. CASE kind = "Finalized"
  <2>1. Lifecycle("Confirmed", s) \in emitted
    BY <1>7 DEF LifecycleAllowed
  <2>2. Confirmed(s) \in D
    BY <1>3, <2>1 DEF Confirmed
  <2>3. s \in Canon
    <3>1. Confirmed(s).type = "Confirmed" /\ Confirmed(s).slot = s
      BY DEF Confirmed, Lifecycle
    <3> QED
      BY <2>2, <3>1 DEF InOrder, Ready
  <2> QED
    BY <1>1, <1>4, <1>7, <2>2, <2>3 DEF Ready, Fresh
<1>8. CASE kind = "Discarded"
  <2>1. s \notin Canon
    BY <1>8 DEF LifecycleAllowed
  <2> QED
    BY <1>1, <1>4, <1>8, <2>1 DEF Ready, Fresh
<1> QED
  BY <1>2, <1>5, <1>6, <1>7, <1>8

(* connect forwards a lifecycle event. *)
LEMMA ForwardLifecycleOK ==
    ASSUME NEW kind \in Kinds, NEW s \in Slots, ForwardLifecycle(kind, s), Late = {},
           Explained(emitted, held, input, queue, running, panicked, parsed, co)
    PROVE  Explained(emitted', held', input', queue', running', panicked', parsed', co')
<1>1. PICK sent, app, g, h, done :
         /\ CountsOK(sent, app)
         /\ JobsOK(emitted, held, queue, running, panicked, sent)
         /\ ParsedOK(parsed, g, sent, app)
         /\ FeedOK(emitted, input, h, done)
         /\ CoordinatorOK(co, done, app)
  BY Zenon DEF Explained
<1>2. PICK x : x = Lifecycle(kind, s)
  OBVIOUS
<1>3. x \in Items /\ x \notin Updates
  BY <1>2, UpdateKinds
<1>4. /\ x \notin emitted /\ LifecycleAllowed(kind, s) /\ emitted' = emitted \cup {x}
      /\ input' = Append(input, Wire(x))
      /\ UNCHANGED <<held, queue, running, panicked, parsed, co>>
  <2>1. x.type = kind /\ kind # "Account"
    BY <1>2, PipelineAssumption DEF Lifecycle
  <2>2. Wire(x) = x
    BY <2>1 DEF Wire
  <2> QED
    BY <1>2, <2>2 DEF ForwardLifecycle
<1>5. PICK D : D = emitted \cap Items
  OBVIOUS
<1>6. Ready(x, D) /\ Fresh(x, D)
  <2>1. InOrder(D)
    BY <1>1, <1>5, FeedInOrder, Zenon
  <2>2. emitted \subseteq Updates \cup Items
    BY <1>1, Zenon DEF JobsOK
  <2> QED
    BY <1>2, <1>4, <1>5, <2>1, <2>2, AllowedReady, Zenon
<1>7. FeedOK(emitted \cup {x}, Append(input, Wire(x)), Append(h, x), done)
  BY <1>1, <1>3, <1>4, <1>5, <1>6, FeedAppend, Zenon
<1>8. JobsOK(emitted \cup {x}, held, queue, running, panicked, sent)
  BY <1>1, <1>3, JobsLifecycle, Zenon
<1>9. /\ JobsOK(emitted', held', queue', running', panicked', sent)
      /\ FeedOK(emitted', input', Append(h, x), done)
      /\ ParsedOK(parsed', g, sent, app) /\ CoordinatorOK(co', done, app)
  BY <1>1, <1>4, <1>7, <1>8
<1> QED
  BY <1>1, <1>9, Zenon DEF Explained

(* What a step of the coordinator establishes besides. *)
Advances == co.lastIx <= co'.lastIx /\ co.lastAcct <= co'.lastAcct

(* run_inner applies an item and drains. *)
LEMMA TakeInputOK ==
    ASSUME TakeInput, LogsOK,
           Explained(emitted, held, input, queue, running, panicked, parsed, co)
    PROVE  /\ Explained(emitted', held', input', queue', running', panicked', parsed', co')
           /\ WalkedOut(co') /\ LogsOK' /\ Advances
<1>1. PICK sent, app, g, h, done :
         /\ CountsOK(sent, app)
         /\ JobsOK(emitted, held, queue, running, panicked, sent)
         /\ ParsedOK(parsed, g, sent, app)
         /\ FeedOK(emitted, input, h, done)
         /\ CoordinatorOK(co, done, app)
  BY Zenon DEF Explained
<1>2. /\ input # <<>> /\ Drain(ApplyInput(co, Head(input))) /\ input' = Tail(input)
      /\ UNCHANGED <<emitted, held, queue, running, panicked, parsed>>
  BY Zenon DEF TakeInput
<1>3. PICK x : x = h[1]
  OBVIOUS
<1>4. /\ x \in Items /\ Head(input) = Wire(x) /\ x \notin done
      /\ Ready(x, done) /\ Fresh(x, done) /\ InOrder(done)
      /\ FeedOK(emitted, Tail(input), Tail(h), done \cup {x})
  BY <1>1, <1>2, <1>3, FeedTake, Zenon
<1>5. co \in States /\ Applying(x, co, done, app)
  BY <1>1, <1>4, Zenon DEF Applying, CoordinatorOK
<1>6. PICK c : c = ApplyInput(co, Wire(x))
  OBVIOUS
<1>7. CoordinatorOK(c, done \cup {x}, app)
  BY <1>4, <1>5, <1>6, InputStep, Zenon
<1>8. c \in States /\ InOrder(done \cup {x}) /\ app \in [Updates -> Nat]
  BY <1>1, <1>4, <1>7, InOrderGrows, Zenon DEF CoordinatorOK, CountsOK
<1>9. c.lastIx = co.lastIx /\ c.lastAcct = co.lastAcct
  BY <1>4, <1>5, <1>6, InputFrontiers, Zenon DEF SameFrontiers
<1>10. Drain(c)
  BY <1>2, <1>4, <1>6
<1>11. /\ CoordinatorOK(co', done \cup {x}, app) /\ WalkedOut(co') /\ LogsOK'
       /\ co.lastIx <= co'.lastIx /\ co.lastAcct <= co'.lastAcct
  BY <1>7, <1>8, <1>9, <1>10, DrainStep, Zenon
<1>12. /\ JobsOK(emitted', held', queue', running', panicked', sent)
       /\ FeedOK(emitted', input', Tail(h), done \cup {x})
       /\ ParsedOK(parsed', g, sent, app)
  BY <1>1, <1>2, <1>4
<1>13. Explained(emitted', held', input', queue', running', panicked', parsed', co')
  BY <1>1, <1>11, <1>12, Zenon DEF Explained
<1> QED
  BY <1>11, <1>13, Zenon DEF Advances

(* run_inner applies a handler's message and drains. *)
LEMMA TakeParsedOK ==
    ASSUME TakeParsed, LogsOK,
           Explained(emitted, held, input, queue, running, panicked, parsed, co)
    PROVE  /\ Explained(emitted', held', input', queue', running', panicked', parsed', co')
           /\ WalkedOut(co') /\ LogsOK' /\ Advances
<1>1. PICK sent, app, g, h, done :
         /\ CountsOK(sent, app)
         /\ JobsOK(emitted, held, queue, running, panicked, sent)
         /\ ParsedOK(parsed, g, sent, app)
         /\ FeedOK(emitted, input, h, done)
         /\ CoordinatorOK(co, done, app)
  BY Zenon DEF Explained
<1>2. /\ parsed # <<>> /\ Drain(ApplyParsed(co, Head(parsed))) /\ parsed' = Tail(parsed)
      /\ UNCHANGED <<emitted, held, input, queue, running, panicked>>
  BY Zenon DEF TakeParsed
<1>3. PICK u \in Updates :
         /\ app[u] < sent[u] /\ Head(parsed) = HandlerMessages(u)[app[u] + 1]
         /\ ParsedOK(Tail(parsed), Tail(g), sent, [app EXCEPT ![u] = app[u] + 1])
  BY <1>1, <1>2, ParsedTake, Zenon
<1>4. PICK after : after = [app EXCEPT ![u] = app[u] + 1]
  OBVIOUS
<1>5. CountsOK(sent, after)
  BY <1>1, <1>3, <1>4, CountsAfterTake, Zenon
<1>6. /\ co \in States /\ app \in [Updates -> Nat] /\ after \in [Updates -> Nat]
      /\ InOrder(done)
  BY <1>1, <1>5, Zenon DEF CoordinatorOK, CountsOK, FeedOK
<1>7. app[u] + 1 <= Len(HandlerMessages(u)) /\ app[u] + 1 \in 1 .. Len(HandlerMessages(u))
  <2>1. /\ app[u] \in Nat /\ sent[u] \in Nat /\ sent[u] <= Len(HandlerMessages(u))
        /\ app[u] < sent[u]
    BY <1>1, <1>3, Zenon DEF CountsOK
  <2>2. Len(HandlerMessages(u)) \in Nat
    BY MessagesLength
  <2> QED
    BY <2>1, <2>2
<1>8. PICK c : c = ApplyParsed(co, HandlerMessages(u)[app[u] + 1])
  OBVIOUS
<1>9. CoordinatorOK(c, done, after)
  BY <1>1, <1>4, <1>6, <1>7, <1>8, ParsedStep, Zenon
<1>10. c \in States
  BY <1>9, Zenon DEF CoordinatorOK
<1>11. c.lastIx = co.lastIx /\ c.lastAcct = co.lastAcct
  BY <1>6, <1>7, <1>8, ParsedFrontiers, Zenon DEF SameFrontiers
<1>12. Drain(c)
  BY <1>2, <1>3, <1>8
<1>13. /\ CoordinatorOK(co', done, after) /\ WalkedOut(co') /\ LogsOK'
       /\ co.lastIx <= co'.lastIx /\ co.lastAcct <= co'.lastAcct
  BY <1>6, <1>9, <1>10, <1>11, <1>12, DrainStep, Zenon
<1>14. /\ JobsOK(emitted', held', queue', running', panicked', sent)
       /\ FeedOK(emitted', input', h, done)
       /\ ParsedOK(parsed', Tail(g), sent, after)
  BY <1>1, <1>2, <1>3, <1>4
<1>15. Explained(emitted', held', input', queue', running', panicked', parsed', co')
  BY <1>5, <1>13, <1>14, Zenon DEF Explained
<1> QED
  BY <1>13, <1>15, Zenon DEF Advances

-----------------------------------------------------------------------------
(* The invariant holds. *)

LEMMA InitialCoordinator ==
    ASSUME NEW zero, zero = [u \in Updates |-> 0]
    PROVE  CoordinatorOK(InitialState, {}, zero)
<1>1. PICK c : c = InitialState
  OBVIOUS
<1>2. DefaultBuffer \in Buffers
  BY DEF DefaultBuffer, Buffers
<1>3. /\ c \in States /\ c.discarded = {} /\ c.pending = {}
      /\ c.lastIx = None /\ c.lastAcct = None
      /\ \A s \in Slots : c.buf[s] = DefaultBuffer /\ c.counts[s] = 0
  BY <1>1, <1>2 DEF InitialState, States
<1>4. /\ ~DefaultBuffer.ixDrained /\ ~DefaultBuffer.acctDrained
      /\ DefaultBuffer.ixCommitted = FALSE /\ DefaultBuffer.acctCommitted = FALSE
      /\ DefaultBuffer.ixRecords = {} /\ DefaultBuffer.acctRecords = {}
      /\ DefaultBuffer.ixStats = 0 /\ DefaultBuffer.acctStats = 0
      /\ DefaultBuffer.parsedTx = 0 /\ DefaultBuffer.processedAcct = 0
      /\ DefaultBuffer.expectedTx = None /\ DefaultBuffer.expectedAcct = None
  BY DEF DefaultBuffer
<1>5. \A u \in Updates : zero[u] = 0 /\ ~Handled(u, zero)
  BY MessagesLength DEF Handled
<1>6. \A s \in Slots : /\ IxRecords(s, zero) = {} /\ IxStats(s, zero) = {}
                       /\ TxsHandled(s, zero) = {} /\ AcctsHandled(s, zero) = {}
  <2> TAKE s \in Slots
  <2>1. \A t \in TxsOf(s) : TxUpdate(t) \in Updates /\ zero[TxUpdate(t)] = 0
    BY <1>5, UpdateKinds DEF TxsOf
  <2>2. \A a \in AcctsOf(s) : AcctUpdate(a) \in Updates
    BY UpdateKinds DEF AcctsOf
  <2>3. IxRecords(s, zero) = {}
    BY <2>1 DEF IxRecords
  <2>4. IxStats(s, zero) = {}
    <3> SUFFICES ASSUME NEW p \in TxsOf(s) \X (1 .. 4), p[2] <= zero[TxUpdate(p[1])]
                 PROVE  FALSE
      BY Zenon DEF IxStats
    <3>1. p[1] \in TxsOf(s) /\ p[2] \in 1 .. 4
      OBVIOUS
    <3> QED
      BY <2>1, <3>1
  <2>5. TxsHandled(s, zero) = {} /\ AcctsHandled(s, zero) = {}
    BY <1>5, <2>1, <2>2 DEF TxsHandled, AcctsHandled
  <2> QED
    BY <2>3, <2>4, <2>5
<1>7. Cardinality({}) = 0
  BY FS_EmptySet
<1>8. ASSUME NEW s \in Canon PROVE CanonOK(c, s, {}, zero)
  <2>1. s \in Slots /\ s \in Nat
    BY SlotsFinite
  <2>2. ~(s <= c.lastIx) /\ ~(s <= c.lastAcct)
    BY <1>3, <2>1 DEF None
  <2>3. IxOpen(DefaultBuffer, s, {}, zero)
    BY <1>4, <1>6, <1>7, <2>1 DEF IxOpen
  <2>4. AcctOpen(DefaultBuffer, 0, s, {}, zero)
    <3>1. /\ {a \in AcctsHandled(s, zero) : AcctKind[a] = "record"} = {}
          /\ {a \in AcctsHandled(s, zero) : AcctKind[a] = "stat"} = {}
          /\ {a \in AcctsOf(s) : AcctUpdate(a) \in {}} = {}
      BY <1>6, <2>1, Zenon
    <3> QED
      BY <1>4, <1>6, <1>7, <2>1, <3>1 DEF AcctOpen
  <2>5. c.buf[s] = DefaultBuffer /\ c.counts[s] = 0 /\ s \notin c.discarded
    BY <1>3, <2>1
  <2> QED
    BY <2>2, <2>3, <2>4, <2>5, Zenon DEF CanonOK
<1>9. ASSUME NEW s \in Slots \ Canon PROVE ForkOK(c, s, {})
  BY <1>3, <1>4 DEF ForkOK
<1> QED
  BY <1>1, <1>3, <1>8, <1>9, Zenon DEF CoordinatorOK

LEMMA EmptyLog ==
    ASSUME NEW chain
    PROVE  LogOK(<<>>, None, chain)
<1>1. Upto(None) = {}
  <2>1. \A s \in Canon : ~(s <= -1)
    BY SlotsFinite
  <2> QED
    BY <2>1, Zenon DEF Upto, None
<1>2. Cardinality(Upto(None)) = 0
  BY <1>1, FS_EmptySet
<1>3. FirstOf(chain, 0) = <<>>
  BY DEF FirstOf
<1> QED
  BY <1>2, <1>3 DEF LogOK

LEMMA InitOK ==
    ASSUME Init
    PROVE  Inv
<1>1. PICK zero : zero = [u \in Updates |-> 0]
  OBVIOUS
<1>2. CountsOK(zero, zero)
  BY <1>1, MessagesLength DEF CountsOK
<1>3. JobsOK({}, {}, <<>>, {}, FALSE, zero)
  BY <1>1, EmptyFacts DEF JobsOK, Waiting
<1>4. ParsedOK(<<>>, <<>>, zero, zero)
  BY <1>1, EmptyFacts DEF ParsedOK
<1>5. FeedOK({}, <<>>, <<>>, {})
  BY EmptyFacts DEF FeedOK, Before, InOrder
<1>6. CoordinatorOK(InitialState, {}, zero)
  BY <1>1, InitialCoordinator
<1>7. Explained({}, {}, <<>>, <<>>, {}, FALSE, <<>>, InitialState)
  BY <1>2, <1>3, <1>4, <1>5, <1>6, Zenon DEF Explained
<1>8. WalkedOut(co)
  BY DEF Init, InitialState, WalkedOut, InstructionFlushable, AccountFlushable,
         UndrainedIx, UndrainedAcct
<1>9. LogsOK
  BY EmptyLog DEF Init, InitialState, LogsOK
<1> QED
  BY <1>7, <1>8, <1>9 DEF Init, Inv

(* Every step keeps the invariant, and neither frontier moves back. *)
LEMMA NextOK ==
    ASSUME Late = {}, Inv, [Next]_vars
    PROVE  Inv' /\ Advances
<1>1. /\ Explained(emitted, held, input, queue, running, panicked, parsed, co)
      /\ WalkedOut(co) /\ LogsOK
  BY Zenon DEF Inv
<1>2. CASE TakeInput
  BY <1>1, <1>2, TakeInputOK, Zenon DEF Inv
<1>3. CASE TakeParsed
  BY <1>1, <1>3, TakeParsedOK, Zenon DEF Inv
<1>4. ASSUME Geyser \/ Runtime \/ UNCHANGED vars PROVE UNCHANGED <<co, ixLog, acctLog>>
  BY <1>4 DEF Geyser, Runtime, vars, AnnounceAccount, TakeTransaction, ForwardToRuntime,
              ForwardLifecycle, StartJob, HandlerSend, HandlerPanic
<1>5. ASSUME UNCHANGED <<co, ixLog, acctLog>> PROVE WalkedOut(co)' /\ LogsOK' /\ Advances
  <2>1. co \in States
    BY <1>1, Zenon DEF Explained, CoordinatorOK
  <2>2. Advances
    BY <1>5, <2>1, FrontierType DEF Advances
  <2>3. LogsOK'
    BY <1>1, <1>5, Zenon DEF LogsOK
  <2>4. WalkedOut(co')
    BY <1>1, <1>5
  <2> QED
    BY <2>2, <2>3, <2>4
<1>6. CASE Geyser
  <2>1. CASE \E a \in Accts : AnnounceAccount(a)
    BY <1>1, <1>4, <1>5, <1>6, <2>1, AnnounceAccountOK DEF Inv
  <2>2. CASE \E t \in Txs : TakeTransaction(t)
    BY <1>1, <1>4, <1>5, <1>6, <2>2, TakeTransactionOK DEF Inv
  <2>3. CASE ForwardToRuntime
    BY <1>1, <1>4, <1>5, <1>6, <2>3, ForwardToRuntimeOK DEF Inv
  <2>4. CASE \E kind \in Kinds, s \in Slots : ForwardLifecycle(kind, s)
    BY <1>1, <1>4, <1>5, <1>6, <2>4, ForwardLifecycleOK DEF Inv
  <2> QED
    BY <1>6, <2>1, <2>2, <2>3, <2>4 DEF Geyser
<1>7. CASE Runtime
  BY <1>1, <1>4, <1>5, <1>7, RuntimeOK DEF Inv
<1>8. CASE UNCHANGED vars
  <2>1. UNCHANGED <<emitted, held, input, queue, running, panicked, parsed, co>>
    BY <1>8 DEF vars
  <2>2. Explained(emitted', held', input', queue', running', panicked', parsed', co')
    BY <1>1, <2>1
  <2> QED
    BY <1>4, <1>5, <1>8, <2>2 DEF Inv
<1> QED
  BY <1>2, <1>3, <1>6, <1>7, <1>8 DEF Next, Coordinator

-----------------------------------------------------------------------------
(* The refinement of SlotLog *)

LEMMA FunctionIsSequence ==
    ASSUME NEW S, NEW n \in Nat, NEW f \in [1 .. n -> S]
    PROVE  f \in Seq(S) /\ Len(f) = n
<1>1. f \in Seq(S)
  BY SeqDef
<1>2. DOMAIN f = 1 .. n
  OBVIOUS
<1> QED
  BY <1>1, <1>2, LenProperties

LEMMA EqualSequences ==
    ASSUME NEW S, NEW n \in Nat, NEW p \in Seq(S), NEW q \in Seq(S), Len(p) = n, Len(q) = n,
           \A i \in 1 .. n : p[i] = q[i]
    PROVE  p = q
BY SeqEqual

(* Prefixes as SlotLog writes them. *)
LEMMA FirstOfIsPrefix ==
    ASSUME NEW log, NEW len \in Nat, DOMAIN log = 1 .. len, log = [i \in 1 .. len |-> log[i]],
           NEW n \in 0 .. len
    PROVE  Len(log) = len /\ SubSeq(log, 1, n) = FirstOf(log, n) /\ Len(FirstOf(log, n)) = n
<1>1. PICK S : S = {log[i] : i \in 1 .. len}
  OBVIOUS
<1>2. log \in Seq(S) /\ Len(log) = len
  <2>1. log \in [1 .. len -> S]
    BY <1>1
  <2> QED
    BY <2>1, FunctionIsSequence
<1>3. PICK p, q : p = SubSeq(log, 1, n) /\ q = FirstOf(log, n)
  OBVIOUS
<1>4. n \in Nat /\ \A i \in 1 .. n : log[i] \in S
  BY <1>1
<1>5. p \in Seq(S) /\ Len(p) = n /\ \A i \in 1 .. n : p[i] = log[i]
  BY <1>2, <1>3
<1>6. q \in [1 .. n -> S] /\ \A i \in 1 .. n : q[i] = log[i]
  BY <1>3, <1>4 DEF FirstOf
<1>7. q \in Seq(S) /\ Len(q) = n
  BY <1>4, <1>6, FunctionIsSequence
<1>8. \A i \in 1 .. n : p[i] = q[i]
  BY <1>5, <1>6
<1>9. p = q
  BY <1>4, <1>5, <1>7, <1>8, EqualSequences
<1> QED
  BY <1>2, <1>3, <1>7, <1>9

(* Frontiers that do not move back make logs that only grow. *)
LEMMA LogExtends ==
    ASSUME NEW chain, DOMAIN chain = DOMAIN Chain, chain = [i \in DOMAIN Chain |-> chain[i]],
           NEW l \in Int, NEW m \in Int, l <= m, NEW now, NEW next,
           LogOK(now, l, chain), LogOK(next, m, chain)
    PROVE  Promise!Extend(now, next, chain)
<1>1. PICK F : F = {s \in Canon : l < s /\ s <= m}
  OBVIOUS
<1>2. PICK N, a, b : N = Cardinality(Canon) /\ a = Cardinality(Upto(l)) /\ b = Cardinality(Upto(m))
  OBVIOUS
<1>3. /\ a \in Nat /\ N \in Nat /\ DOMAIN Chain = 1 .. N /\ Cardinality(F) \in Nat
      /\ b = a + Cardinality(F) /\ b <= N
  BY <1>1, <1>2, ChainBetween
<1>4. a \in 0 .. N /\ b \in 0 .. N /\ b \in a .. N
  BY <1>3
<1>5. /\ Len(chain) = N /\ SubSeq(chain, 1, a) = FirstOf(chain, a) /\ Len(FirstOf(chain, a)) = a
      /\ SubSeq(chain, 1, b) = FirstOf(chain, b)
  <2>1. DOMAIN chain = 1 .. N /\ chain = [i \in 1 .. N |-> chain[i]]
    BY <1>3
  <2> QED
    BY <1>3, <1>4, <2>1, FirstOfIsPrefix, Zenon
<1>6. now = FirstOf(chain, a) /\ next = FirstOf(chain, b)
  BY <1>2 DEF LogOK
<1> QED
  BY <1>4, <1>5, <1>6, Zenon DEF Promise!Extend, Promise!Prefix

(* Every step of the pipeline is a step of SlotLog, or leaves both logs. *)
LEMMA SlotLogStep ==
    ASSUME Inv, Inv', Advances
    PROVE  Promise!Next
<1>1. /\ co.lastIx \in Int /\ co.lastAcct \in Int
      /\ co'.lastIx \in Int /\ co'.lastAcct \in Int
  <2>1. co \in States
    BY Zenon DEF Inv, Explained, CoordinatorOK
  <2>2. co' \in States
    BY Zenon DEF Inv, Explained, CoordinatorOK
  <2> QED
    BY <2>1, <2>2, FrontierType
<1>2. /\ LogOK(ixLog, co.lastIx, InstructionChain) /\ LogOK(acctLog, co.lastAcct, AccountChain)
      /\ LogOK(ixLog', co'.lastIx, InstructionChain)
      /\ LogOK(acctLog', co'.lastAcct, AccountChain)
  BY Zenon DEF Inv, LogsOK
<1>3. /\ DOMAIN InstructionChain = DOMAIN Chain
      /\ InstructionChain = [i \in DOMAIN Chain |-> InstructionChain[i]]
      /\ DOMAIN AccountChain = DOMAIN Chain
      /\ AccountChain = [i \in DOMAIN Chain |-> AccountChain[i]]
  BY Zenon DEF InstructionChain, AccountChain
<1>4. Promise!Extend(ixLog, ixLog', InstructionChain)
  BY <1>1, <1>2, <1>3, LogExtends, Zenon DEF Advances
<1>5. Promise!Extend(acctLog, acctLog', AccountChain)
  BY <1>1, <1>2, <1>3, LogExtends, Zenon DEF Advances
<1> QED
  BY <1>4, <1>5, Zenon DEF Promise!Next, InstructionChain, AccountChain

(* Whatever the interleaving of the stream, the handlers and the two       *)
(* channels, the state is the one that the updates applied so far make,    *)
(* and the outputs are the complete canonical slots up to the frontiers    *)
(* (source.rs, handler.rs and coordinator.rs together).                    *)
THEOREM PipelineExplained ==
    Late = {} => (Spec => []Inv)
<1> SUFFICES ASSUME Late = {} PROVE Spec => []Inv
  OBVIOUS
<1>1. Init => Inv
  BY InitOK
<1>2. Inv /\ [Next]_vars => Inv'
  BY NextOK
<1> QED
  BY <1>1, <1>2, PTL DEF Spec

(* The pipeline implements SlotLog for every stream that commits a slot    *)
(* after its account updates: both outputs of run_inner only ever grow, by *)
(* complete canonical slots in chain order, none skipped and none repeated, *)
(* however far the handlers run ahead of or behind the lifecycle events.   *)
THEOREM PipelineImplementsSlotLog ==
    Late = {} => (Spec => ImplementsSlotLog)
<1> SUFFICES ASSUME Late = {} PROVE Spec => ImplementsSlotLog
  OBVIOUS
<1>1. Init => Promise!Init
  BY DEF Init, Promise!Init
<1>2. Inv /\ Inv' /\ [Next]_vars => [Promise!Next]_(Promise!vars)
  BY NextOK, SlotLogStep, Zenon
<1>3. Spec => []Inv
  BY PipelineExplained
<1> QED
  BY <1>1, <1>2, <1>3, PTL DEF Spec, ImplementsSlotLog, Promise!Spec

-----------------------------------------------------------------------------
(* What a coordinator that has caught up still holds. *)

(* Everything was applied. *)
CaughtUp(done, app) ==
    /\ \A u \in Updates : Handled(u, app)
    /\ \A s \in Canon : Frozen(s) \in done /\ Confirmed(s) \in done /\ Committed(s) \in done
    /\ \A s \in Slots \ Canon : Discarded(s) \in done

(* A pipeline at rest has applied everything. *)
LEMMA QuiescentCaughtUp ==
    ASSUME Quiescent, NEW sent, NEW app, NEW g, NEW h, NEW done,
           CountsOK(sent, app), ParsedOK(parsed, g, sent, app),
           JobsOK(emitted, held, queue, running, panicked, sent),
           FeedOK(emitted, input, h, done)
    PROVE  CaughtUp(done, app) /\ InOrder(done)
<1>1. /\ \A t \in Txs : TxUpdate(t) \in emitted
      /\ \A a \in Accts : AcctUpdate(a) \in emitted
      /\ held = {} /\ running = {} /\ input = <<>> /\ queue = <<>> /\ parsed = <<>>
  BY Zenon DEF Quiescent, TxUpdate, AcctUpdate
<1>2. Len(<<>>) = 0
  BY EmptyFacts
<1>3. \A u \in Updates : u \in emitted
  BY <1>1, Zenon DEF Updates
<1>4. \A u \in Updates : ~Waiting(u, emitted, held, queue)
  BY <1>1, <1>2, <1>3 DEF Waiting
<1>5. \A u \in Updates : sent[u] = Len(HandlerMessages(u))
  <2>1. \A u \in Updates :
          \/ Waiting(u, emitted, held, queue)
          \/ Job(u, sent[u]) \in running
          \/ sent[u] = Len(HandlerMessages(u))
    BY Zenon DEF JobsOK, Quiescent
  <2>2. \A u : Job(u, sent[u]) \notin running
    BY <1>1, Zenon
  <2> QED
    BY <1>4, <2>1, <2>2, Zenon
<1>6. ASSUME NEW u \in Updates PROVE Handled(u, app)
  <2>1. app[u] \in Nat /\ sent[u] \in Nat /\ app[u] <= sent[u]
    BY DEF CountsOK
  <2>2. \A k \in app[u] + 1 .. sent[u] : \E p \in 1 .. Len(parsed) : TRUE
    BY Zenon DEF ParsedOK
  <2>3. \A p \in 1 .. Len(parsed) : FALSE
    BY <1>1, <1>2
  <2>4. sent[u] \notin app[u] + 1 .. sent[u]
    BY <2>2, <2>3, Zenon
  <2>5. app[u] = sent[u]
    BY <2>1, <2>4
  <2> QED
    BY <1>5, <2>5 DEF Handled
<1>7. emitted \cap Items = done /\ InOrder(done)
  <2>1. /\ Len(h) = Len(input) /\ emitted \cap Items = Before(Len(h) + 1, done, h)
        /\ InOrder(done)
    BY Zenon DEF FeedOK
  <2>2. Len(h) = 0
    BY <1>1, <1>2, <2>1
  <2>3. Before(Len(h) + 1, done, h) = done
    BY <2>2 DEF Before
  <2> QED
    BY <2>1, <2>3
<1>8. ASSUME NEW kind, kind \in {"Confirmed", "Finalized", "Discarded"}, NEW s,
             Lifecycle(kind, s) \in emitted
      PROVE  Lifecycle(kind, s) \in done
  <2>1. Lifecycle(kind, s).type = kind
    BY DEF Lifecycle
  <2>2. emitted \subseteq Updates \cup Items
    BY Zenon DEF JobsOK
  <2> QED
    BY <1>7, <1>8, <2>1, <2>2, ItemTypes
<1>9. ASSUME NEW s \in Canon
      PROVE  Frozen(s) \in done /\ Confirmed(s) \in done /\ Committed(s) \in done
  <2>1. Lifecycle("Confirmed", s) \in emitted /\ Lifecycle(CommitEvent, s) \in emitted
    BY SlotsFinite DEF Quiescent
  <2>2. CommitEvent \in {"Confirmed", "Finalized"}
    BY DEF CommitEvent
  <2>3. Confirmed(s) \in done /\ Committed(s) \in done
    BY <1>8, <2>1, <2>2 DEF Confirmed, Committed
  <2> QED
    BY <1>7, <2>3, CommittedFrozen
<1>10. ASSUME NEW s \in Slots \ Canon PROVE Discarded(s) \in done
  <2>1. Lifecycle("Discarded", s) \in emitted
    BY DEF Quiescent
  <2> QED
    BY <1>8, <2>1 DEF Discarded
<1> QED
  BY <1>6, <1>7, <1>9, <1>10 DEF CaughtUp

LEMMA AllHandled ==
    ASSUME NEW done, NEW app, CaughtUp(done, app), NEW s \in Canon
    PROVE  /\ TxsHandled(s, app) = TxsOf(s) /\ AcctsHandled(s, app) = AcctsOf(s)
           /\ Cardinality(TxsOf(s)) \in Nat /\ Cardinality(AcctsOf(s)) \in Nat
<1>1. TxsHandled(s, app) = TxsOf(s) /\ AcctsHandled(s, app) = AcctsOf(s)
  <2>1. /\ \A t \in TxsOf(s) : TxUpdate(t) \in Updates
        /\ \A a \in AcctsOf(s) : AcctUpdate(a) \in Updates
    BY UpdateKinds DEF TxsOf, AcctsOf
  <2> QED
    BY <2>1 DEF TxsHandled, AcctsHandled, CaughtUp
<1>2. IsFiniteSet(TxsOf(s)) /\ IsFiniteSet(AcctsOf(s))
  BY PipelineAssumption, FS_Subset DEF TxsOf, AcctsOf
<1> QED
  BY <1>1, <1>2, FS_CardinalityType

(* The least slot the instruction walk has left is one it would release. *)
LEMMA InstructionsAllFlushed ==
    ASSUME NEW c \in States, NEW done, NEW app, CoordinatorOK(c, done, app),
           CaughtUp(done, app), WideRetention, InstructionFlushable(c) = {}
    PROVE  \A s \in Canon : s <= c.lastIx
<1>1. PICK F : F = {s \in Canon : ~(s <= c.lastIx)}
  OBVIOUS
<1>2. SUFFICES ASSUME F # {} PROVE FALSE
  BY <1>1
<1>3. F \subseteq Slots /\ Canon \subseteq Slots /\ Slots \subseteq Nat
  BY <1>1, SlotsFinite
<1>4. PICK m \in F : \A t \in F : m <= t
  BY <1>2, <1>3, LeastOf
<1>5. m \in Canon /\ ~(m <= c.lastIx) /\ m \in Nat
  BY <1>1, <1>3
<1>6. /\ m \in c.pending /\ IxOpen(c.buf[m], m, done, app)
  <2>1. CanonOK(c, m, done, app) /\ Frozen(m) \in done
    BY <1>5, Zenon DEF CoordinatorOK, CaughtUp
  <2> QED
    BY <1>5, <2>1, Zenon DEF CanonOK
<1>7. InstructionGateReached(c.buf[m]) /\ c.buf[m].parent = Parent[m]
  <2>1. /\ TxsHandled(m, app) = TxsOf(m) /\ Cardinality(TxsOf(m)) \in Nat
        /\ Frozen(m) \in done /\ Confirmed(m) \in done
    BY <1>5, AllHandled DEF CaughtUp
  <2>2. /\ c.buf[m].expectedTx = Cardinality(TxsOf(m))
        /\ c.buf[m].parsedTx = Cardinality(TxsOf(m))
        /\ c.buf[m].ixCommitted /\ c.buf[m].parent = Parent[m]
    BY <1>6, <2>1, Zenon DEF IxOpen
  <2> QED
    BY <2>1, <2>2 DEF InstructionGateReached, TxParseComplete, None
<1>8. ASSUME NEW t \in UndrainedIx(c), t <= m PROVE t = m
  <2>1. t \in c.pending /\ ~c.buf[t].ixDrained /\ t \in Slots
    BY DEF UndrainedIx, States
  <2>2. t \in Canon
    <3>1. ASSUME t \notin Canon PROVE FALSE
      <4>1. ForkOK(c, t, done) /\ Discarded(t) \in done
        BY <2>1, <3>1, Zenon DEF CoordinatorOK, CaughtUp
      <4> QED
        BY <2>1, <4>1, Zenon DEF ForkOK
    <3> QED
      BY <3>1
  <2>3. ~(t <= c.lastIx)
    <3>1. CanonOK(c, t, done, app)
      BY <2>2, Zenon DEF CoordinatorOK
    <3> QED
      BY <2>1, <3>1, Zenon DEF CanonOK
  <2>4. m <= t /\ t \in Nat
    BY <1>1, <1>3, <1>4, <2>2, <2>3
  <2> QED
    BY <1>5, <1>8, <2>4
<1>9. FrontierAt(c, m) = c.lastIx
  <2>1. {t \in UndrainedIx(c) : t < m} = {}
    <3> SUFFICES ASSUME NEW t \in UndrainedIx(c), t < m PROVE FALSE
      OBVIOUS
    <3>1. t \in Nat
      BY SlotsFinite DEF UndrainedIx, States
    <3>2. t <= m /\ t # m
      BY <1>5, <3>1
    <3> QED
      BY <1>8, <3>2
  <2> QED
    BY <2>1 DEF FrontierAt
<1>10. ParentOk(c, m)
  <2>1. CASE c.lastIx = None
    BY <1>9, <2>1 DEF ParentOk
  <2>2. CASE c.lastIx # None
    <3>1. c.lastIx \in Canon /\ c.lastIx \in Nat /\ c.lastIx < m
      <4>1. c.lastIx \in Canon
        BY <2>2, Zenon DEF CoordinatorOK
      <4>2. c.lastIx \in Nat
        BY <1>3, <4>1, Zenon
      <4> QED
        BY <1>5, <4>1, <4>2
    <3>2. Parent[m] \in Canon /\ Parent[m] \in Nat
      BY <1>3, <1>5, <3>1, BranchAssumption
    <3>3. Parent[m] < m
      <4>1. m > 0
        BY <1>5, <3>1
      <4> QED
        BY <1>3, <1>5, <4>1, BranchAssumption
    <3>4. Parent[m] <= c.lastIx
      <4>1. Parent[m] \notin F
        BY <1>4, <1>5, <3>2, <3>3
      <4> QED
        BY <1>1, <3>2, <4>1
    <3> QED
      BY <1>7, <1>9, <3>4 DEF ParentOk
  <2> QED
    BY <2>1, <2>2
<1>11. m \in UndrainedIx(c)
  BY <1>6 DEF UndrainedIx, IxOpen
<1>12. m \in InstructionFlushable(c)
  BY <1>7, <1>8, <1>10, <1>11 DEF InstructionFlushable
<1> QED
  BY <1>12

(* The least slot the account walk has left is one it would release. *)
LEMMA AccountsAllFlushed ==
    ASSUME NEW c \in States, NEW done, NEW app, CoordinatorOK(c, done, app),
           CaughtUp(done, app), WideRetention, AccountFlushable(c) = {}
    PROVE  \A s \in Canon : s <= c.lastAcct
<1>1. PICK F : F = {s \in Canon : ~(s <= c.lastAcct)}
  OBVIOUS
<1>2. SUFFICES ASSUME F # {} PROVE FALSE
  BY <1>1
<1>3. F \subseteq Slots /\ Canon \subseteq Slots /\ Slots \subseteq Nat
  BY <1>1, SlotsFinite
<1>4. PICK m \in F : \A t \in F : m <= t
  BY <1>2, <1>3, LeastOf
<1>5. m \in Canon /\ ~(m <= c.lastAcct) /\ m \in Nat
  BY <1>1, <1>3
<1>6. /\ m \in c.pending /\ AcctOpen(c.buf[m], c.counts[m], m, done, app)
  <2>1. CanonOK(c, m, done, app) /\ Frozen(m) \in done
    BY <1>5, Zenon DEF CoordinatorOK, CaughtUp
  <2> QED
    BY <1>5, <2>1, Zenon DEF CanonOK
<1>7. AccountGateReached(c.buf[m])
  <2>1. /\ AcctsHandled(m, app) = AcctsOf(m) /\ Cardinality(AcctsOf(m)) \in Nat
        /\ Committed(m) \in done
    BY <1>5, AllHandled DEF CaughtUp
  <2>2. /\ c.buf[m].expectedAcct = Cardinality(AcctsOf(m))
        /\ c.buf[m].processedAcct = Cardinality(AcctsOf(m))
        /\ c.buf[m].acctCommitted
    BY <1>6, <2>1, Zenon DEF AcctOpen
  <2> QED
    BY <2>1, <2>2 DEF AccountGateReached, AccountParseComplete, None
<1>8. ASSUME NEW t \in UndrainedAcct(c), t <= m PROVE t = m
  <2>1. t \in c.pending /\ ~c.buf[t].acctDrained /\ t \in Slots
    BY DEF UndrainedAcct, States
  <2>2. t \in Canon
    <3>1. ASSUME t \notin Canon PROVE FALSE
      <4>1. ForkOK(c, t, done) /\ Discarded(t) \in done
        BY <2>1, <3>1, Zenon DEF CoordinatorOK, CaughtUp
      <4> QED
        BY <2>1, <4>1, Zenon DEF ForkOK
    <3> QED
      BY <3>1
  <2>3. ~(t <= c.lastAcct)
    <3>1. CanonOK(c, t, done, app)
      BY <2>2, Zenon DEF CoordinatorOK
    <3> QED
      BY <2>1, <3>1, Zenon DEF CanonOK
  <2>4. m <= t /\ t \in Nat
    BY <1>1, <1>3, <1>4, <2>2, <2>3
  <2> QED
    BY <1>5, <1>8, <2>4
<1>9. m \in UndrainedAcct(c)
  BY <1>6 DEF UndrainedAcct, AcctOpen
<1>10. m \in AccountFlushable(c)
  BY <1>7, <1>8, <1>9 DEF AccountFlushable
<1> QED
  BY <1>10

(* With both walks through, no entry is left. *)
LEMMA CaughtUpIsEmpty ==
    ASSUME WideRetention, Inv, Quiescent
    PROVE  co.pending = {} /\ \A s \in Slots : co.counts[s] = 0
<1>1. PICK sent, app, g, h, done :
         /\ CountsOK(sent, app)
         /\ JobsOK(emitted, held, queue, running, panicked, sent)
         /\ ParsedOK(parsed, g, sent, app)
         /\ FeedOK(emitted, input, h, done)
         /\ CoordinatorOK(co, done, app)
  BY Zenon DEF Inv, Explained
<1>2. CaughtUp(done, app)
  BY <1>1, QuiescentCaughtUp, Zenon
<1>3. /\ co \in States /\ InstructionFlushable(co) = {} /\ AccountFlushable(co) = {}
  BY <1>1, Zenon DEF Inv, WalkedOut, CoordinatorOK
<1>4. \A s \in Canon : s <= co.lastIx
  BY <1>1, <1>2, <1>3, InstructionsAllFlushed, Zenon
<1>5. \A s \in Canon : s <= co.lastAcct
  BY <1>1, <1>2, <1>3, AccountsAllFlushed, Zenon
<1>6. ASSUME NEW s \in Slots PROVE s \notin co.pending /\ co.counts[s] = 0
  <2>1. CASE s \in Canon
    <3>1. CanonOK(co, s, done, app) /\ s <= co.lastIx /\ s <= co.lastAcct
      BY <1>1, <1>4, <1>5, <2>1, Zenon DEF CoordinatorOK
    <3> QED
      BY <3>1, Zenon DEF CanonOK, AcctFlushed
  <2>2. CASE s \notin Canon
    <3>1. ForkOK(co, s, done) /\ Discarded(s) \in done
      BY <1>1, <1>2, <2>2, Zenon DEF CoordinatorOK, CaughtUp
    <3> QED
      BY <3>1, Zenon DEF ForkOK
  <2> QED
    BY <2>1, <2>2
<1>7. co.pending \subseteq Slots
  BY <1>3 DEF States
<1> QED
  BY <1>6, <1>7

(* Once the whole stream was handled and applied without a panic, the      *)
(* coordinator holds nothing (state.rs, drain and discard): no entry of a  *)
(* canonical slot or of a fork blocks the head of a walk, and no account   *)
(* event count is left.  The tombstones of the forks must outlive the      *)
(* stream, which is what DISCARDED_SLOT_RETENTION_BEHIND_FLUSH is for: a   *)
(* record of a fork that comes after its tombstone was pruned can make an  *)
(* entry that nothing removes.                                             *)
THEOREM PipelineLeavesNothingBehind ==
    Late = {} /\ WideRetention => (Spec => []NothingLeftBehind)
<1> SUFFICES ASSUME Late = {}, WideRetention PROVE Spec => []NothingLeftBehind
  OBVIOUS
<1>1. Inv => NothingLeftBehind
  BY CaughtUpIsEmpty DEF NothingLeftBehind
<1>2. Spec => []Inv
  BY PipelineExplained
<1> QED
  BY <1>1, <1>2, PTL
=============================================================================
