-------------------------- MODULE AccountPathProofs --------------------------
(***************************************************************************)
(* Theorems about AccountPath, for every set of clients, parsers and       *)
(* accounts, every capacity of a channel and number of attempts.           *)
(***************************************************************************)
EXTENDS AccountPath, FiniteSetTheorems, TLAPS

-----------------------------------------------------------------------------
(* Sequences of whatever values.                                           *)

IsSequence(q) == \E S : q \in Seq(S)

LEMMA AppendFacts ==
    ASSUME NEW q, IsSequence(q), NEW e
    PROVE  /\ IsSequence(Append(q, e)) /\ Len(q) \in Nat
           /\ Len(Append(q, e)) = Len(q) + 1 /\ Append(q, e)[Len(q) + 1] = e
           /\ \A i \in 1 .. Len(q) : Append(q, e)[i] = q[i]
<1>1. PICK S : q \in Seq(S)
    BY DEF IsSequence
<1>2. q \in Seq(S \cup {e})
    BY <1>1
<1>3. Append(q, e) \in Seq(S \cup {e})
    BY <1>2
<1>. QED BY <1>2, <1>3 DEF IsSequence

LEMMA TailFacts ==
    ASSUME NEW q, IsSequence(q), q # <<>>
    PROVE  /\ IsSequence(Tail(q)) /\ Len(q) \in Nat \ {0}
           /\ Head(q) = q[1] /\ Len(Tail(q)) = Len(q) - 1
           /\ \A i \in 1 .. Len(q) - 1 : Tail(q)[i] = q[i + 1]
<1>1. PICK S : q \in Seq(S)
    BY DEF IsSequence
<1>2. Tail(q) \in Seq(S)
    BY <1>1
<1>. QED BY <1>1, <1>2 DEF IsSequence

LEMMA EmptyFacts == IsSequence(<<>>) /\ Len(<<>>) = 0
<1>1. <<>> \in Seq({})
    OBVIOUS
<1>. QED BY <1>1 DEF IsSequence

LEMMA LenZero ==
    ASSUME NEW q, IsSequence(q)
    PROVE  Len(q) \in Nat /\ DOMAIN q = 1 .. Len(q) /\ (Len(q) = 0 <=> q = <<>>)
BY DEF IsSequence

-----------------------------------------------------------------------------
(* One client: k, with sent s.                                             *)

Fields == {"state", "at", "tries", "got", "gaps", "from"}

(* Where a client stands in channel i: the cursor is behind what it has    *)
(* read and missed, what it read is what it got, in order, what it missed  *)
(* was overwritten, and the tries it has used up each cost it a message    *)
(* right before the cursor.                                                *)
InStep(k, s, i) ==
    /\ k.at[i] \in Nat /\ k.from[i] \in Nat /\ k.tries[i] \in 0 .. MaxTries
    /\ k.from[i] >= 1 /\ k.from[i] <= k.at[i] /\ k.at[i] <= Len(s[i]) + 1
    /\ k.gaps[i] \subseteq k.from[i] .. k.at[i] - 1
    /\ \A p \in k.gaps[i] : p + Capacity <= Len(s[i])
    /\ IsSequence(k.got[i])
    /\ Len(k.got[i]) = Cardinality(ReadBy(k, i))
    /\ \A p \in ReadBy(k, i) : k.got[i][Cardinality({r \in ReadBy(k, i) : r <= p})] = s[i][p]
    /\ \A n \in 1 .. MaxTries - k.tries[i] : k.at[i] - n \in k.gaps[i]

OldestOf(s, i) == IF Len(s[i]) > Capacity THEN Len(s[i]) - Capacity + 1 ELSE 1

(* A client that was cut off lags, and has no try left. *)
CutOff(k, s) ==
    k.state = "panicked" => \E i \in DOMAIN k.at : k.at[i] < OldestOf(s, i) /\ k.tries[i] = 0

ClientKept(k, s) ==
    /\ DOMAIN k = Fields
    /\ DOMAIN k.tries = DOMAIN k.at /\ DOMAIN k.got = DOMAIN k.at
    /\ DOMAIN k.gaps = DOMAIN k.at /\ DOMAIN k.from = DOMAIN k.at
    /\ DOMAIN k.at \subseteq DOMAIN s
    /\ \A i \in DOMAIN k.at : InStep(k, s, i)
    /\ CutOff(k, s)

AllSequences(s) == s = [i \in DOMAIN s |-> s[i]] /\ \A i \in DOMAIN s : IsSequence(s[i])

(* A message enters a channel. *)
LEMMA BroadcastKeeps ==
    ASSUME NEW k, NEW s, ClientKept(k, s), AllSequences(s), NEW j \in DOMAIN s, NEW m,
           NEW t, t = [s EXCEPT ![j] = Append(@, m)]
    PROVE  ClientKept(k, t) /\ AllSequences(t) /\ DOMAIN t = DOMAIN s
<1> USE ServerAssumption
<1>1. DOMAIN t = DOMAIN s /\ t[j] = Append(s[j], m) /\ \A i \in DOMAIN s \ {j} : t[i] = s[i]
    OBVIOUS
<1>2. IsSequence(s[j])
    BY DEF AllSequences
<1>3. /\ IsSequence(t[j]) /\ Len(s[j]) \in Nat /\ Len(t[j]) = Len(s[j]) + 1
      /\ \A i \in 1 .. Len(s[j]) : t[j][i] = s[j][i]
    BY <1>1, <1>2, AppendFacts
<1>4. AllSequences(t)
    BY <1>1, <1>3 DEF AllSequences
<1>5. ASSUME NEW i \in DOMAIN k.at PROVE InStep(k, t, i)
    <2>1. InStep(k, s, i) /\ i \in DOMAIN s
        BY DEF ClientKept
    <2>2. CASE i # j
        BY <1>1, <2>1, <2>2 DEF InStep
    <2>3. CASE i = j
        <3>1. /\ k.at[i] \in Nat /\ k.from[i] \in Nat /\ k.from[i] >= 1
              /\ k.at[i] <= Len(s[i]) + 1 /\ k.gaps[i] \subseteq k.from[i] .. k.at[i] - 1
            BY <2>1 DEF InStep
        <3>2. ASSUME NEW p \in ReadBy(k, i) PROVE t[i][p] = s[i][p]
            <4>1. p \in 1 .. Len(s[j])
                BY <1>3, <2>3, <3>1, <3>2 DEF ReadBy
            <4>. QED BY <1>3, <2>3, <4>1
        <3>3. k.at[i] <= Len(t[i]) + 1
            BY <1>3, <2>3, <3>1
        <3>4. \A p \in k.gaps[i] : p + Capacity <= Len(t[i])
            <4>1. \A p \in k.gaps[i] : p \in Int /\ p + Capacity <= Len(s[i])
                BY <2>1, <3>1 DEF InStep
            <4>. QED BY <1>3, <2>3, <4>1
        <3>. QED BY <2>1, <3>2, <3>3, <3>4 DEF InStep
    <2>. QED BY <2>2, <2>3
<1>6. CutOff(k, t)
    <2>1. SUFFICES ASSUME k.state = "panicked"
                   PROVE  \E i \in DOMAIN k.at : k.at[i] < OldestOf(t, i) /\ k.tries[i] = 0
        BY DEF CutOff
    <2>2. PICK i \in DOMAIN k.at : k.at[i] < OldestOf(s, i) /\ k.tries[i] = 0
        BY <2>1 DEF ClientKept, CutOff
    <2>3. i \in DOMAIN s /\ k.at[i] \in Nat /\ IsSequence(s[i])
        BY DEF ClientKept, InStep, AllSequences
    <2>4. Len(s[i]) \in Nat /\ Len(t[i]) \in Nat /\ Len(t[i]) >= Len(s[i])
        BY <1>1, <1>3, <2>3, LenZero
    <2>5. OldestOf(t, i) >= OldestOf(s, i) /\ OldestOf(t, i) \in Int /\ OldestOf(s, i) \in Int
        BY <2>4 DEF OldestOf
    <2>. QED BY <2>2, <2>3, <2>5
<1>. QED BY <1>1, <1>4, <1>5, <1>6 DEF ClientKept

(* Two clients that stand alike in a channel. *)
LEMMA SameStep ==
    ASSUME NEW k, NEW l, NEW s, NEW i, InStep(k, s, i), l.at[i] = k.at[i],
           l.tries[i] = k.tries[i], l.got[i] = k.got[i], l.gaps[i] = k.gaps[i],
           l.from[i] = k.from[i]
    PROVE  InStep(l, s, i)
BY DEF InStep, ReadBy

(* ReceiverStream::poll_next with a message. *)
LEMMA ReceiveKeeps ==
    ASSUME NEW k, NEW s, ClientKept(k, s), AllSequences(s), k.state = "open",
           NEW i \in DOMAIN k.at, k.at[i] <= Len(s[i]),
           NEW l, l = [k EXCEPT !.at[i] = @ + 1, !.got[i] = Append(@, s[i][k.at[i]]),
                                !.tries[i] = MaxTries]
    PROVE  ClientKept(l, s)
<1> USE ServerAssumption
<1>1. /\ DOMAIN l = Fields /\ l.state = "open" /\ l.gaps = k.gaps /\ l.from = k.from
      /\ l.at = [k.at EXCEPT ![i] = @ + 1]
      /\ l.got = [k.got EXCEPT ![i] = Append(@, s[i][k.at[i]])]
      /\ l.tries = [k.tries EXCEPT ![i] = MaxTries]
    BY DEF ClientKept, Fields
<1>2. /\ DOMAIN k.tries = DOMAIN k.at /\ DOMAIN k.got = DOMAIN k.at
      /\ DOMAIN k.gaps = DOMAIN k.at /\ DOMAIN k.from = DOMAIN k.at
      /\ DOMAIN k.at \subseteq DOMAIN s
    BY DEF ClientKept
<1>3. /\ InStep(k, s, i) /\ IsSequence(s[i])
    BY <1>2 DEF ClientKept, AllSequences
<1> DEFINE at == k.at[i]
           A == ReadBy(k, i)
           B == ReadBy(l, i)
<1>4. /\ at \in Nat /\ k.from[i] \in Nat /\ k.from[i] >= 1 /\ k.from[i] <= at
      /\ k.gaps[i] \subseteq k.from[i] .. at - 1 /\ IsSequence(k.got[i]) /\ Len(k.got[i]) = Cardinality(A)
      /\ \A p \in A : k.got[i][Cardinality({r \in A : r <= p})] = s[i][p]
    BY <1>3 DEF InStep
<1>5. /\ l.at[i] = at + 1 /\ l.got[i] = Append(k.got[i], s[i][at]) /\ l.tries[i] = MaxTries
      /\ l.gaps[i] = k.gaps[i] /\ l.from[i] = k.from[i]
    BY <1>1, <1>2
<1>6. A \in SUBSET (k.from[i] .. at - 1) /\ at \notin A /\ B = A \cup {at}
    <2>1. l.at[i] - 1 = at
        BY <1>4, <1>5
    <2>. QED BY <1>4, <1>5, <2>1 DEF ReadBy
<1>7. IsFiniteSet(A)
    <2>1. IsFiniteSet(k.from[i] .. at - 1)
        BY <1>4, FS_Interval
    <2>. QED BY <1>6, <2>1, FS_Subset
<1> HIDE DEF at, A, B
<1>8. Cardinality(A) \in Nat /\ Cardinality(B) = Cardinality(A) + 1
    BY <1>6, <1>7, FS_CardinalityType, FS_AddElement
<1>9. /\ IsSequence(l.got[i]) /\ Len(l.got[i]) = Cardinality(B)
      /\ l.got[i][Cardinality(A) + 1] = s[i][at]
      /\ \A n \in 1 .. Cardinality(A) : l.got[i][n] = k.got[i][n]
    BY <1>4, <1>5, <1>8, AppendFacts
<1>10. ASSUME NEW p \in B
       PROVE  l.got[i][Cardinality({r \in B : r <= p})] = s[i][p]
    <2>1. CASE p = at
        <3>1. {r \in B : r <= p} = B
            BY <1>4, <1>6, <2>1
        <3>. QED BY <1>8, <1>9, <2>1, <3>1
    <2>2. CASE p \in A
        <3> DEFINE L == {r \in A : r <= p}
        <3>1. {r \in B : r <= p} = L
            BY <1>4, <1>6, <2>2
        <3>2. L \in SUBSET A /\ p \in L
            BY <1>4, <1>6, <2>2
        <3>3. k.got[i][Cardinality(L)] = s[i][p]
            BY <1>4, <2>2
        <3> HIDE DEF L
        <3>4. IsFiniteSet(L) /\ Cardinality(L) <= Cardinality(A)
            BY <1>7, <3>2, FS_Subset
        <3>5. Cardinality(L) \in Nat /\ Cardinality(L) # 0
            BY <3>2, <3>4, FS_CardinalityType, FS_EmptySet
        <3>6. Cardinality(L) \in 1 .. Cardinality(A)
            BY <1>8, <3>4, <3>5
        <3>. QED BY <1>9, <3>1, <3>3, <3>6
    <2>. QED BY <1>6, <2>1, <2>2
<1>11. InStep(l, s, i)
    <2>1. /\ l.at[i] \in Nat /\ l.from[i] \in Nat /\ l.tries[i] \in 0 .. MaxTries
          /\ l.from[i] >= 1 /\ l.from[i] <= l.at[i]
        BY <1>4, <1>5
    <2>2. Len(s[i]) \in Nat
        BY <1>3, LenZero
    <2>3. l.at[i] <= Len(s[i]) + 1
        BY <1>4, <1>5, <2>2 DEF at
    <2>4. l.gaps[i] \subseteq l.from[i] .. l.at[i] - 1
        BY <1>4, <1>5
    <2>5. \A p \in l.gaps[i] : p + Capacity <= Len(s[i])
        BY <1>3, <1>5 DEF InStep
    <2>6. \A n \in 1 .. MaxTries - l.tries[i] : l.at[i] - n \in l.gaps[i]
        BY <1>5
    <2>. QED BY <1>9, <1>10, <2>1, <2>3, <2>4, <2>5, <2>6 DEF InStep, B
<1>12. ASSUME NEW j \in DOMAIN l.at PROVE InStep(l, s, j)
    <2>1. CASE j = i
        BY <1>11, <2>1
    <2>2. CASE j # i
        <3>1. /\ l.at[j] = k.at[j] /\ l.tries[j] = k.tries[j] /\ l.got[j] = k.got[j]
              /\ l.gaps[j] = k.gaps[j] /\ l.from[j] = k.from[j] /\ j \in DOMAIN k.at
            BY <1>1, <1>2, <2>2
        <3>2. InStep(k, s, j)
            BY <3>1 DEF ClientKept
        <3>. QED BY <3>1, <3>2, SameStep
    <2>. QED BY <2>1, <2>2
<1>13. /\ DOMAIN l.at = DOMAIN k.at /\ DOMAIN l.tries = DOMAIN k.at /\ DOMAIN l.got = DOMAIN k.at
       /\ DOMAIN l.gaps = DOMAIN k.at /\ DOMAIN l.from = DOMAIN k.at
    BY <1>1, <1>2
<1>. QED BY <1>1, <1>2, <1>12, <1>13 DEF ClientKept, CutOff

LEMMA SkippedAreNotRead ==
    ASSUME NEW a \in Nat, NEW b \in Nat, NEW c \in Nat, a <= b, b < c,
           NEW G, G \subseteq a .. b - 1, NEW X, NEW Y,
           X = (a .. c - 1) \ (G \cup (b .. c - 1)), Y = (a .. b - 1) \ G
    PROVE  X = Y
<1>1. \A r : r \in b .. c - 1 => r \notin a .. b - 1
    OBVIOUS
<1>2. \A r : r \in a .. c - 1 <=> (r \in a .. b - 1 \/ r \in b .. c - 1)
    OBVIOUS
<1>3. \A r : r \in X <=> r \in Y
    BY <1>1, <1>2
<1>. QED BY <1>3

LEMMA ShiftBack ==
    ASSUME NEW at \in Int, NEW to \in Int, NEW n \in Int, NEW d \in Int,
           at < to, n <= d + 1, to - n < at
    PROVE  at - (to - n) \in 1 .. d /\ at - (at - (to - n)) = to - n
OBVIOUS

(* ReceiverStream::poll_next when it was overtaken and has tries left. *)
LEMMA LagKeeps ==
    ASSUME NEW k, NEW s, ClientKept(k, s), AllSequences(s), k.state = "open",
           NEW i \in DOMAIN k.at, k.at[i] < OldestOf(s, i), k.tries[i] # 0,
           NEW l, l = [k EXCEPT !.at[i] = OldestOf(s, i), !.tries[i] = @ - 1,
                                !.gaps[i] = @ \cup (k.at[i] .. OldestOf(s, i) - 1)]
    PROVE  ClientKept(l, s)
<1> USE ServerAssumption
<1> DEFINE at == k.at[i]
           to == OldestOf(s, i)
<1>1. /\ DOMAIN l = Fields /\ l.state = "open" /\ l.got = k.got /\ l.from = k.from
      /\ l.at = [k.at EXCEPT ![i] = to]
      /\ l.gaps = [k.gaps EXCEPT ![i] = @ \cup (at .. to - 1)]
      /\ l.tries = [k.tries EXCEPT ![i] = @ - 1]
    BY DEF ClientKept, Fields
<1>2. /\ DOMAIN k.tries = DOMAIN k.at /\ DOMAIN k.got = DOMAIN k.at
      /\ DOMAIN k.gaps = DOMAIN k.at /\ DOMAIN k.from = DOMAIN k.at
      /\ DOMAIN k.at \subseteq DOMAIN s
    BY DEF ClientKept
<1>3. /\ InStep(k, s, i) /\ IsSequence(s[i])
    BY <1>2 DEF ClientKept, AllSequences
<1>4. /\ at \in Nat /\ k.from[i] \in Nat /\ k.from[i] >= 1 /\ k.from[i] <= at
      /\ k.gaps[i] \subseteq k.from[i] .. at - 1 /\ k.tries[i] \in 1 .. MaxTries
    BY <1>3 DEF InStep
<1>5. Len(s[i]) \in Nat
    BY <1>3, LenZero
<1>6. to \in Nat /\ at < to /\ to <= Len(s[i]) + 1 /\ to + Capacity = Len(s[i]) + 1
    BY <1>4, <1>5 DEF OldestOf
<1>7. /\ l.at[i] = to /\ l.got[i] = k.got[i] /\ l.tries[i] = k.tries[i] - 1
      /\ l.gaps[i] = k.gaps[i] \cup (at .. to - 1) /\ l.from[i] = k.from[i]
    BY <1>1, <1>2
<1> HIDE DEF at, to
<1>8. ReadBy(l, i) = ReadBy(k, i)
    <2>1. ReadBy(l, i) = (k.from[i] .. to - 1) \ (k.gaps[i] \cup (at .. to - 1))
        BY <1>7 DEF ReadBy
    <2>2. ReadBy(k, i) = (k.from[i] .. at - 1) \ k.gaps[i]
        BY DEF ReadBy, at
    <2>. QED BY <1>4, <1>6, <2>1, <2>2, SkippedAreNotRead
<1>9. InStep(l, s, i)
    <2>1. /\ l.at[i] \in Nat /\ l.from[i] \in Nat /\ l.tries[i] \in 0 .. MaxTries
          /\ l.from[i] >= 1 /\ l.from[i] <= l.at[i] /\ l.at[i] <= Len(s[i]) + 1
        BY <1>4, <1>6, <1>7
    <2>2. l.gaps[i] \subseteq l.from[i] .. l.at[i] - 1
        BY <1>4, <1>6, <1>7
    <2>3. \A p \in l.gaps[i] : p + Capacity <= Len(s[i])
        <3>1. \A p \in k.gaps[i] : p + Capacity <= Len(s[i])
            BY <1>3 DEF InStep
        <3>2. \A p \in at .. to - 1 : p + Capacity <= Len(s[i])
            BY <1>4, <1>5, <1>6
        <3>. QED BY <1>7, <3>1, <3>2
    <2>4. /\ IsSequence(l.got[i]) /\ Len(l.got[i]) = Cardinality(ReadBy(l, i))
          /\ \A p \in ReadBy(l, i) :
                l.got[i][Cardinality({r \in ReadBy(l, i) : r <= p})] = s[i][p]
        BY <1>3, <1>7, <1>8 DEF InStep
    <2>5. ASSUME NEW n \in 1 .. MaxTries - l.tries[i] PROVE l.at[i] - n \in l.gaps[i]
        <3>1. n \in Nat /\ n >= 1 /\ n <= MaxTries - k.tries[i] + 1
            BY <1>4, <1>7, <2>5
        <3>2. CASE to - n >= at
            BY <1>4, <1>6, <1>7, <3>1, <3>2
        <3>3. CASE to - n < at
            <4> DEFINE m == at - (to - n)
            <4>1. m \in 1 .. MaxTries - k.tries[i] /\ at - m = to - n
                <5>1. at \in Int /\ to \in Int /\ at < to /\ MaxTries - k.tries[i] \in Int
                    BY <1>4, <1>6, ServerAssumption
                <5>. QED BY <3>1, <3>3, <5>1, ShiftBack
            <4>2. at - m \in k.gaps[i]
                BY <1>3, <4>1 DEF InStep, at
            <4>. QED BY <1>7, <4>1, <4>2
        <3>. QED BY <1>4, <1>6, <3>1, <3>2, <3>3
    <2>. QED BY <2>1, <2>2, <2>3, <2>4, <2>5 DEF InStep
<1>10. ASSUME NEW j \in DOMAIN l.at PROVE InStep(l, s, j)
    <2>1. CASE j = i
        BY <1>9, <2>1
    <2>2. CASE j # i
        <3>1. /\ l.at[j] = k.at[j] /\ l.tries[j] = k.tries[j] /\ l.got[j] = k.got[j]
              /\ l.gaps[j] = k.gaps[j] /\ l.from[j] = k.from[j] /\ j \in DOMAIN k.at
            BY <1>1, <1>2, <2>2
        <3>2. InStep(k, s, j)
            BY <3>1 DEF ClientKept
        <3>. QED BY <3>1, <3>2, SameStep
    <2>. QED BY <2>1, <2>2
<1>11. /\ DOMAIN l.at = DOMAIN k.at /\ DOMAIN l.tries = DOMAIN k.at /\ DOMAIN l.got = DOMAIN k.at
       /\ DOMAIN l.gaps = DOMAIN k.at /\ DOMAIN l.from = DOMAIN k.at
    BY <1>1, <1>2
<1>. QED BY <1>1, <1>2, <1>10, <1>11 DEF ClientKept, CutOff

(* A client whose stream ends or is cut off. *)
LEMMA EndKeeps ==
    ASSUME NEW k, NEW s, ClientKept(k, s), NEW state, NEW l, l = [k EXCEPT !.state = state],
           state = "panicked" => \E i \in DOMAIN k.at : k.at[i] < OldestOf(s, i) /\ k.tries[i] = 0
    PROVE  ClientKept(l, s)
<1>1. /\ DOMAIN l = Fields /\ l.state = state /\ l.at = k.at /\ l.tries = k.tries
      /\ l.got = k.got /\ l.gaps = k.gaps /\ l.from = k.from
    BY DEF ClientKept, Fields
<1>2. \A i \in DOMAIN k.at : InStep(l, s, i)
    BY <1>1, SameStep DEF ClientKept
<1>. QED BY <1>1, <1>2 DEF ClientKept, CutOff

(* subscribe and subscribe_many. *)
LEMMA SubscribeKeeps ==
    ASSUME NEW s, AllSequences(s), NEW channels \in SUBSET DOMAIN s,
           NEW l, l = [state |-> "open", at |-> [i \in channels |-> Len(s[i]) + 1],
                       tries |-> [i \in channels |-> MaxTries],
                       got |-> [i \in channels |-> <<>>], gaps |-> [i \in channels |-> {}],
                       from |-> [i \in channels |-> Len(s[i]) + 1]]
    PROVE  ClientKept(l, s)
<1> USE ServerAssumption
<1>1. ASSUME NEW i \in channels PROVE InStep(l, s, i)
    <2>1. Len(s[i]) \in Nat
        BY LenZero DEF AllSequences
    <2>2. /\ l.at[i] = Len(s[i]) + 1 /\ l.from[i] = Len(s[i]) + 1 /\ l.tries[i] = MaxTries
          /\ l.got[i] = <<>> /\ l.gaps[i] = {}
        OBVIOUS
    <2>3. ReadBy(l, i) = {}
        BY <2>1, <2>2 DEF ReadBy
    <2>4. IsSequence(l.got[i]) /\ Len(l.got[i]) = Cardinality(ReadBy(l, i))
        BY <2>2, <2>3, EmptyFacts, FS_EmptySet
    <2>5. /\ l.at[i] \in Nat /\ l.from[i] \in Nat /\ l.tries[i] \in 0 .. MaxTries
          /\ l.from[i] >= 1 /\ l.from[i] <= l.at[i] /\ l.at[i] <= Len(s[i]) + 1
        BY <2>1, <2>2
    <2>6. \A n \in 1 .. MaxTries - l.tries[i] : l.at[i] - n \in l.gaps[i]
        BY <2>2
    <2>7. l.gaps[i] \subseteq l.from[i] .. l.at[i] - 1 /\ \A p \in l.gaps[i] : p + Capacity <= Len(s[i])
        BY <2>2
    <2>8. \A p \in ReadBy(l, i) : l.got[i][Cardinality({r \in ReadBy(l, i) : r <= p})] = s[i][p]
        BY <2>3
    <2>. QED BY <2>4, <2>5, <2>6, <2>7, <2>8 DEF InStep
<1>2. /\ DOMAIN l = Fields /\ l.state = "open" /\ DOMAIN l.at = channels
      /\ DOMAIN l.tries = channels /\ DOMAIN l.got = channels /\ DOMAIN l.gaps = channels
      /\ DOMAIN l.from = channels
    BY DEF Fields
<1>. QED BY <1>1, <1>2 DEF ClientKept, CutOff

-----------------------------------------------------------------------------
(* The clients of a server.  Nobody has a cursor before there are channels, *)
(* and then every parser has one.                                           *)

Served ==
    /\ DOMAIN clients = Clients
    /\ AllSequences(sent)
    /\ \A c \in Clients : ClientKept(clients[c], sent)
    /\ server = "building" => \A c \in Clients : clients[c] = NoClient
    /\ server # "building" => DOMAIN sent = DOMAIN registered

LEMMA NoClientKept == ASSUME NEW s PROVE ClientKept(NoClient, s)
<1>1. /\ DOMAIN NoClient = Fields /\ NoClient.state = "none" /\ DOMAIN NoClient.at = {}
      /\ DOMAIN NoClient.tries = {} /\ DOMAIN NoClient.got = {} /\ DOMAIN NoClient.gaps = {}
      /\ DOMAIN NoClient.from = {}
    BY DEF NoClient, Fields
<1>. QED BY <1>1 DEF ClientKept, CutOff

LEMMA ServedInit == Init => Served
<1>. SUFFICES ASSUME Init PROVE Served
    OBVIOUS
<1>1. /\ clients = [c \in Clients |-> NoClient] /\ sent = <<>> /\ server = "building"
    BY DEF Init
<1>2. AllSequences(sent)
    BY <1>1 DEF AllSequences
<1>. QED BY <1>1, <1>2, NoClientKept DEF Served

(* One client changes. *)
LEMMA OneClient ==
    ASSUME Served, NEW c \in Clients, server # "building", NEW l, ClientKept(l, sent),
           clients' = [clients EXCEPT ![c] = l], UNCHANGED <<registered, server, sent>>
    PROVE  Served'
<1>1. \A d \in Clients : ClientKept(clients'[d], sent')
    BY DEF Served
<1>2. DOMAIN clients' = Clients
    BY DEF Served
<1>. QED BY <1>1, <1>2 DEF Served, AllSequences

LEMMA PollServes ==
    ASSUME Served, NEW c \in Clients, Poll(c)
    PROVE  Served'
<1>1. /\ clients[c].state = "open" /\ UNCHANGED <<registered, server, sent>>
    BY DEF Poll
<1>2. PICK i \in DOMAIN clients[c].at : PollReceives(c, i) \/ PollLags(c, i)
    BY DEF Poll
<1>3. server # "building"
    BY <1>1 DEF Served, NoClient
<1>4. ClientKept(clients[c], sent) /\ AllSequences(sent) /\ c \in DOMAIN clients
    BY DEF Served
<1> DEFINE k == clients[c]
<1>5. DOMAIN k = Fields
    BY <1>4 DEF ClientKept
<1>6. Oldest(i) = OldestOf(sent, i)
    BY DEF Oldest, OldestOf
<1>7. CASE PollReceives(c, i)
    <2> DEFINE l == [k EXCEPT !.at[i] = @ + 1, !.got[i] = Append(@, sent[i][k.at[i]]),
                              !.tries[i] = MaxTries]
    <2>1. k.at[i] <= Len(sent[i])
        BY <1>7 DEF PollReceives
    <2>2. ClientKept(l, sent)
        BY <1>1, <1>2, <1>4, <2>1, ReceiveKeeps
    <2>3. clients' = [clients EXCEPT ![c] = l]
        BY <1>4, <1>7 DEF PollReceives
    <2> HIDE DEF l
    <2>. QED BY <1>1, <1>3, <2>2, <2>3, OneClient
<1>8. CASE PollLags(c, i) /\ k.tries[i] = 0
    <2> DEFINE l == [k EXCEPT !.state = "panicked"]
    <2>1. k.at[i] < OldestOf(sent, i)
        BY <1>6, <1>8 DEF PollLags
    <2>2. ClientKept(l, sent)
        BY <1>2, <1>4, <1>8, <2>1, EndKeeps
    <2>3. clients' = [clients EXCEPT ![c] = l]
        BY <1>4, <1>8 DEF PollLags, Exhausted
    <2> HIDE DEF l
    <2>. QED BY <1>1, <1>3, <2>2, <2>3, OneClient
<1>9. CASE PollLags(c, i) /\ k.tries[i] # 0
    <2> DEFINE l == [k EXCEPT !.at[i] = OldestOf(sent, i), !.tries[i] = @ - 1,
                              !.gaps[i] = @ \cup (k.at[i] .. OldestOf(sent, i) - 1)]
    <2>1. k.at[i] < OldestOf(sent, i)
        BY <1>6, <1>9 DEF PollLags
    <2>2. ClientKept(l, sent)
        BY <1>1, <1>2, <1>4, <1>9, <2>1, LagKeeps
    <2>3. clients' = [clients EXCEPT ![c] = l]
        BY <1>4, <1>6, <1>9 DEF PollLags, Exhausted
    <2> HIDE DEF l
    <2>. QED BY <1>1, <1>3, <2>2, <2>3, OneClient
<1>. QED BY <1>2, <1>7, <1>8, <1>9

LEMMA SubscribeServes ==
    ASSUME Served, NEW c \in Clients, NEW programs, Subscribe(c, programs)
    PROVE  Served'
<1> DEFINE channels == {i \in DOMAIN registered : registered[i].program \in programs}
           l == [state |-> "open", at |-> [i \in channels |-> Len(sent[i]) + 1],
                 tries |-> [i \in channels |-> MaxTries],
                 got |-> [i \in channels |-> <<>>], gaps |-> [i \in channels |-> {}],
                 from |-> [i \in channels |-> Len(sent[i]) + 1]]
<1>1. /\ server = "up" /\ UNCHANGED <<registered, server, sent>>
      /\ clients' = [clients EXCEPT ![c] = l]
    BY DEF Subscribe, Resubscribe
<1>2. DOMAIN sent = DOMAIN registered /\ AllSequences(sent)
    BY <1>1 DEF Served
<1>3. channels \in SUBSET DOMAIN sent
    BY <1>2
<1> HIDE DEF channels
<1>4. ClientKept(l, sent)
    BY <1>2, <1>3, SubscribeKeeps
<1> HIDE DEF l
<1>. QED BY <1>1, <1>4, OneClient

LEMMA StreamEndServes ==
    ASSUME Served, NEW c \in Clients, StreamEnds(c)
    PROVE  Served'
<1> DEFINE l == [clients[c] EXCEPT !.state = "ended"]
<1>1. /\ clients[c].state = "open" /\ UNCHANGED <<registered, server, sent>>
    BY DEF StreamEnds
<1>2. ClientKept(clients[c], sent) /\ c \in DOMAIN clients /\ server # "building"
    BY <1>1 DEF Served, NoClient
<1>3. clients' = [clients EXCEPT ![c] = l]
    BY <1>2 DEF StreamEnds
<1>4. ClientKept(l, sent)
    BY <1>2, EndKeeps
<1> HIDE DEF l
<1>. QED BY <1>1, <1>2, <1>3, <1>4, OneClient

LEMMA BroadcastServes ==
    ASSUME Served, NEW i, NEW m, Broadcast(i, m), server = "up",
           UNCHANGED <<registered, server, clients>>
    PROVE  Served'
<1>1. sent' = [sent EXCEPT ![i] = Append(@, m)]
    BY DEF Broadcast
<1>2. CASE i \notin DOMAIN sent
    <2>1. sent' = sent
        BY <1>1, <1>2 DEF Served, AllSequences
    <2>. QED BY <2>1 DEF Served
<1>3. CASE i \in DOMAIN sent
    <2>1. ASSUME NEW c \in Clients PROVE ClientKept(clients[c], sent')
        BY <1>1, <1>3, BroadcastKeeps DEF Served
    <2>2. IsSequence(sent[i])
        BY <1>3 DEF Served, AllSequences
    <2>3. IsSequence(Append(sent[i], m))
        BY <2>2, AppendFacts
    <2>4. AllSequences(sent') /\ DOMAIN sent' = DOMAIN sent
        BY <1>1, <1>3, <2>3 DEF Served, AllSequences
    <2>. QED BY <2>1, <2>4 DEF Served
<1>. QED BY <1>2, <1>3

LEMMA ServedNext == Served /\ [Next]_vars => Served'
<1>. SUFFICES ASSUME Served, [Next]_vars PROVE Served'
    OBVIOUS
<1>1. CASE UNCHANGED <<registered, sent, clients>> /\ server # "building" /\ server' # "building"
    BY <1>1 DEF Served
<1>2. CASE UNCHANGED <<registered, sent, clients, server>>
    BY <1>2 DEF Served
<1>3. CASE Register
    <2>1. /\ server = "building" /\ UNCHANGED <<server, sent, clients>>
        BY <1>3 DEF Register, Insert
    <2>. QED BY <2>1 DEF Served
<1>4. CASE BuildAll
    <2>1. /\ server = "building" /\ server' # "building" /\ UNCHANGED <<registered, clients>>
          /\ sent' = [i \in DOMAIN registered |-> <<>>]
        BY <1>4 DEF BuildAll, Build
    <2>2. AllSequences(sent') /\ DOMAIN sent' = DOMAIN registered'
        BY <2>1, EmptyFacts DEF AllSequences
    <2>3. \A c \in Clients : ClientKept(clients'[c], sent')
        BY <2>1, NoClientKept DEF Served
    <2>. QED BY <2>1, <2>2, <2>3 DEF Served
<1>5. CASE Source
    BY <1>2, <1>5 DEF Source, serverVars
<1>6. ASSUME NEW c \in Clients, Client(c) PROVE Served'
    BY <1>6, PollServes, StreamEndServes DEF Client
<1>7. ASSUME NEW c \in Clients, ClientSubscribes(c) PROVE Served'
    BY <1>7, SubscribeServes DEF ClientSubscribes
<1>8. CASE RuntimeTakes
    BY <1>2, <1>8 DEF RuntimeTakes, serverVars
<1>9. CASE RuntimeStops
    BY <1>2, <1>9 DEF RuntimeStops, serverVars
<1>10. CASE RuntimeReturns
    BY <1>1, <1>10 DEF RuntimeReturns, ServerStopping
<1>11. CASE Stopped
    BY <1>1, <1>11 DEF Stopped, ServerStopped
<1>12. ASSUME NEW job \in jobs, StreamHandles(job) PROVE Served'
    <2>1. /\ server = "up" /\ UNCHANGED <<registered, server, clients>>
          /\ UNCHANGED sent \/ Broadcast(job.pipeline, job)
        BY <1>12 DEF StreamHandles, Running
    <2>. QED BY <1>2, <2>1, BroadcastServes
<1>13. ASSUME NEW job \in jobs, PassthroughHandles(job) PROVE Served'
    BY <1>2, <1>13 DEF PassthroughHandles, serverVars
<1>14. ASSUME NEW job \in jobs, BufferingHandles(job) PROVE Served'
    BY <1>2, <1>14 DEF BufferingHandles, serverVars
<1>15. CASE Passthrough
    <2>1. UNCHANGED sinkOthers
        BY <1>15 DEF Passthrough, SinkReceives, SinkCloses, SinkWritesRecord, SinkWritesWatermark,
                     SinkWritesLast
    <2>. QED BY <1>2, <2>1 DEF sinkOthers, serverVars
<1>16. CASE UNCHANGED vars
    BY <1>2, <1>16 DEF vars, serverVars
<1>17. CASE Idle
    BY <1>16, <1>17 DEF Idle
<1>. QED BY <1>3, <1>4, <1>5, <1>6, <1>7, <1>8, <1>9, <1>10, <1>11, <1>12, <1>13, <1>14, <1>15,
            <1>16, <1>17 DEF Next, Handlers

LEMMA ServedLosesOnlyGaps == Served => ClientsLoseOnlyGaps
<1>. SUFFICES ASSUME Served PROVE ClientsLoseOnlyGaps
    OBVIOUS
<1>. USE ServerAssumption
<1>1. \A c \in Clients : \A i \in DOMAIN clients[c].at : InStep(clients[c], sent, i)
    BY DEF Served, ClientKept
<1>2. ClientsSeeAllButGaps
    BY <1>1 DEF ClientsSeeAllButGaps, InStep
<1>3. ASSUME NEW c \in Clients, clients[c].state = "panicked"
      PROVE  \E i \in DOMAIN clients[c].at :
                /\ clients[c].at[i] < Oldest(i)
                /\ \A k \in 1 .. MaxTries : clients[c].at[i] - k \in clients[c].gaps[i]
    <2>1. PICK i \in DOMAIN clients[c].at : clients[c].at[i] < OldestOf(sent, i) /\ clients[c].tries[i] = 0
        BY <1>3 DEF Served, ClientKept, CutOff
    <2>2. \A k \in 1 .. MaxTries - 0 : clients[c].at[i] - k \in clients[c].gaps[i]
        BY <1>1, <2>1 DEF InStep
    <2>3. MaxTries - 0 = MaxTries
        OBVIOUS
    <2>. QED BY <2>1, <2>2, <2>3 DEF Oldest, OldestOf
<1>. QED BY <1>2, <1>3 DEF ClientsLoseOnlyGaps, CutOffOnlyWhenOvertaken

(***************************************************************************)
(* However far the clients of a stream server fall behind its channels, and*)
(* whenever they subscribe: what ReceiverStream::poll_next hands to one is *)
(* what was broadcast since, in order and each once, but for messages that *)
(* the channel had overwritten; and it gives up only after as many lags in *)
(* a row as it has tries.                                                  *)
(***************************************************************************)
THEOREM ClientsMissOnlyGaps == Spec => []ClientsLoseOnlyGaps
<1>. QED BY ServedInit, ServedNext, ServedLosesOnlyGaps, PTL DEF Spec

-----------------------------------------------------------------------------
(* Slots.  An update of an account carries a slot other than 0, from the   *)
(* source to the handlers that have ended: the sink takes 0 for no slot.   *)

Slotted(u) == u.account # None => u.slot \in Nat \ {0}
TaskSlotted(r) ==
    DOMAIN r = {"pc", "slot", "todo"} /\ r.slot \in Nat /\ (r.pc = "send" => r.slot # 0)
AllSlotted(q) == IsSequence(q) /\ \A i \in 1 .. Len(q) : Slotted(q[i])

Slots ==
    /\ bounds.slots \in Nat
    /\ \A t \in DOMAIN tasks : TaskSlotted(tasks[t])
    /\ AllSlotted(sync) /\ (held # None => Slotted(held)) /\ AllSlotted(chan)
    /\ \A job \in jobs : job.slot \in Nat \ {0}
    /\ IsSequence(handled) /\ \A h \in 1 .. Len(handled) : handled[h].slot \in Nat \ {0}

LEMMA SlottedAppend ==
    ASSUME NEW q, AllSlotted(q), NEW u, Slotted(u)
    PROVE  AllSlotted(Append(q, u))
<1>1. /\ IsSequence(Append(q, u)) /\ Len(q) \in Nat /\ Len(Append(q, u)) = Len(q) + 1
      /\ Append(q, u)[Len(q) + 1] = u /\ \A i \in 1 .. Len(q) : Append(q, u)[i] = q[i]
    BY AppendFacts DEF AllSlotted
<1>2. ASSUME NEW i \in 1 .. Len(q) + 1 PROVE Slotted(Append(q, u)[i])
    <2>1. CASE i \in 1 .. Len(q)
        BY <1>1, <2>1 DEF AllSlotted
    <2>2. CASE i = Len(q) + 1
        BY <1>1, <2>2
    <2>. QED BY <1>1, <2>1, <2>2
<1>. QED BY <1>1, <1>2 DEF AllSlotted

LEMMA SlottedTail ==
    ASSUME NEW q, AllSlotted(q), q # <<>>
    PROVE  AllSlotted(Tail(q)) /\ Slotted(Head(q))
<1>1. /\ IsSequence(Tail(q)) /\ Len(q) \in Nat \ {0} /\ Head(q) = q[1] /\ Len(Tail(q)) = Len(q) - 1
      /\ \A i \in 1 .. Len(q) - 1 : Tail(q)[i] = q[i + 1]
    BY TailFacts DEF AllSlotted
<1>2. Slotted(q[1])
    <2>1. 1 \in 1 .. Len(q)
        BY <1>1
    <2>. QED BY <2>1 DEF AllSlotted
<1>3. ASSUME NEW i \in 1 .. Len(q) - 1 PROVE Slotted(Tail(q)[i])
    <2>1. i + 1 \in 1 .. Len(q)
        BY <1>1
    <2>. QED BY <1>1, <2>1 DEF AllSlotted
<1>. QED BY <1>1, <1>2, <1>3 DEF AllSlotted

LEMMA SlottedEmpty == AllSlotted(<<>>)
BY EmptyFacts DEF AllSlotted

LEMMA SlotsInit == Init => Slots
<1>. SUFFICES ASSUME Init PROVE Slots
    OBVIOUS
<1>1. bounds.slots \in Nat
    BY BoundsAssumption DEF Init
<1>2. tasks = <<>> /\ sync = <<>> /\ held = None /\ chan = <<>> /\ jobs = {} /\ handled = <<>>
    BY DEF Init, SourceInit
<1>. QED BY <1>1, <1>2, SlottedEmpty, EmptyFacts DEF Slots

(* What a step of the source must keep. *)
SourceSlots ==
    /\ \A t \in DOMAIN tasks : TaskSlotted(tasks[t])
    /\ AllSlotted(sync) /\ (held # None => Slotted(held)) /\ AllSlotted(chan)

LEMMA SendSlotted ==
    ASSUME AllSlotted(chan), NEW u, Slotted(u), Send(u)
    PROVE  AllSlotted(chan')
BY SlottedAppend DEF Send

LEMMA RpcSlots ==
    ASSUME Slots, NEW t \in DOMAIN tasks, RpcFetch(t) \/ RpcSend(t)
    PROVE  SourceSlots'
<1>1. /\ TaskSlotted(tasks[t]) /\ UNCHANGED <<sync, held>> /\ AllSlotted(chan)
      /\ AllSlotted(sync) /\ (held # None => Slotted(held))
    BY DEF Slots, RpcFetch, RpcSend
<1>2. ASSUME NEW r, TaskSlotted(r), tasks' = [tasks EXCEPT ![t] = r], AllSlotted(chan')
      PROVE  SourceSlots'
    <2>1. \A v \in DOMAIN tasks' : TaskSlotted(tasks'[v])
        BY <1>2 DEF Slots
    <2>2. AllSlotted(sync') /\ (held' # None => Slotted(held'))
        BY <1>1
    <2>. QED BY <1>2, <2>1, <2>2 DEF SourceSlots
<1>3. ASSUME NEW r, r = [tasks[t] EXCEPT !.pc = "failed"] \/ r = [tasks[t] EXCEPT !.pc = "ok"],
             tasks' = [tasks EXCEPT ![t] = r], UNCHANGED chan
      PROVE  SourceSlots'
    <2>1. TaskSlotted(r)
        BY <1>1, <1>3 DEF TaskSlotted
    <2>2. AllSlotted(chan')
        BY <1>1, <1>3
    <2>. QED BY <1>2, <1>3, <2>1, <2>2
<1>4. ASSUME NEW slot \in 1 .. bounds.slots, UNCHANGED chan, NEW todo \in SUBSET Accounts,
             tasks' = [tasks EXCEPT ![t] = [pc |-> "send", slot |-> slot, todo |-> todo]]
      PROVE  SourceSlots'
    <2> DEFINE r == [pc |-> "send", slot |-> slot, todo |-> todo]
    <2>1. slot \in Nat /\ slot # 0
        BY DEF Slots
    <2>2. TaskSlotted(r)
        BY <2>1 DEF TaskSlotted
    <2>3. AllSlotted(chan')
        BY <1>1, <1>4
    <2>4. tasks' = [tasks EXCEPT ![t] = r]
        BY <1>4
    <2> HIDE DEF r
    <2>. QED BY <1>2, <2>2, <2>3, <2>4
<1>5. ASSUME NEW a \in tasks[t].todo, tasks[t].pc = "send",
             Send(AccountUpdate(a, tasks[t].slot, 0, {t[1]})),
             tasks' = [tasks EXCEPT ![t].todo = @ \ {a}]
      PROVE  SourceSlots'
    <2> DEFINE r == [tasks[t] EXCEPT !.todo = @ \ {a}]
    <2>1. TaskSlotted(r) /\ tasks[t].slot \in Nat \ {0}
        BY <1>1, <1>5 DEF TaskSlotted
    <2>2. Slotted(AccountUpdate(a, tasks[t].slot, 0, {t[1]}))
        BY <2>1 DEF Slotted, AccountUpdate
    <2>3. AllSlotted(chan')
        BY <1>1, <1>5, <2>2, SendSlotted
    <2>4. tasks' = [tasks EXCEPT ![t] = r]
        BY <1>5
    <2> HIDE DEF r
    <2>. QED BY <1>2, <2>1, <2>3, <2>4
<1>6. CASE RpcFetch(t)
    <2> DEFINE todo == {a \in Accounts : OwnerOf[a] = t[2]}
    <2>1. todo \in SUBSET Accounts /\ UNCHANGED chan
        BY <1>6 DEF RpcFetch
    <2>2. \/ tasks' = [tasks EXCEPT ![t] = [tasks[t] EXCEPT !.pc = "failed"]]
          \/ \E slot \in 1 .. bounds.slots :
               tasks' = [tasks EXCEPT ![t] = [pc |-> "send", slot |-> slot, todo |-> todo]]
        BY <1>6 DEF RpcFetch
    <2> HIDE DEF todo
    <2>. QED BY <1>3, <1>4, <2>1, <2>2
<1>7. CASE RpcSend(t)
    <2>1. CASE UNCHANGED chan /\ tasks' = [tasks EXCEPT ![t] = [tasks[t] EXCEPT !.pc = "failed"]]
        BY <1>3, <2>1
    <2>2. CASE UNCHANGED chan /\ tasks' = [tasks EXCEPT ![t] = [tasks[t] EXCEPT !.pc = "ok"]]
        BY <1>3, <2>2
    <2>3. CASE /\ tasks[t].pc = "send"
               /\ \E a \in tasks[t].todo : /\ Send(AccountUpdate(a, tasks[t].slot, 0, {t[1]}))
                                           /\ tasks' = [tasks EXCEPT ![t].todo = @ \ {a}]
        BY <1>5, <2>3
    <2>. QED BY <1>7, <2>1, <2>2, <2>3 DEF RpcSend
<1>. QED BY <1>6, <1>7

LEMMA SourceStepSlots ==
    ASSUME Slots, SourceStep
    PROVE  SourceSlots' /\ bounds' = bounds
<1>1. SUFFICES SourceSlots'
    BY DEF SourceStep, RpcConnect, RpcJoin, RpcFetch, RpcSend, SnapshotLoad, SnapshotSlot,
           SnapshotScan, SenderTakes, SenderSends, SnapshotReturns, FumaroleConnect,
           FumaroleForward, FumaroleEnds
<1>2. AllSlotted(chan) /\ AllSlotted(sync) /\ SourceSlots
    BY DEF Slots, SourceSlots
<1>3. CASE UNCHANGED <<tasks, sync, held>> /\ AllSlotted(chan')
    BY <1>2, <1>3 DEF SourceSlots
<1>4. CASE RpcConnect
    <2>1. UNCHANGED <<sync, held, chan>> /\ tasks' = [t \in TaskIds |-> [pc |-> "fetch", slot |-> 0, todo |-> {}]]
        BY <1>4 DEF RpcConnect
    <2>2. \A t \in DOMAIN tasks' : TaskSlotted(tasks'[t])
        BY <2>1 DEF TaskSlotted
    <2>. QED BY <1>2, <2>1, <2>2 DEF SourceSlots
<1>5. CASE RpcJoin \/ SnapshotLoad \/ SnapshotReturns \/ FumaroleConnect \/ FumaroleEnds
    BY <1>2, <1>3, <1>5 DEF RpcJoin, SnapshotLoad, SnapshotReturns, FumaroleConnect, FumaroleEnds
<1>6. CASE SnapshotSlot
    <2>1. /\ UNCHANGED <<tasks, sync, held>>
          /\ UNCHANGED chan \/ Send(SlotUpdate(1, {id \in DOMAIN filters : filters[id].slot}))
        BY <1>6 DEF SnapshotSlot
    <2>2. Slotted(SlotUpdate(1, {id \in DOMAIN filters : filters[id].slot}))
        BY DEF Slotted, SlotUpdate
    <2>. QED BY <1>2, <1>3, <2>1, <2>2, SendSlotted
<1>7. CASE SnapshotScan
    <2>1. UNCHANGED <<tasks, held, chan>>
        BY <1>7 DEF SnapshotScan
    <2>2. \/ UNCHANGED sync \/ sync' = Append(sync, Finished)
          \/ \E a \in left : sync' = Append(sync, AccountUpdate(a, 1, 0, LookupByOwner(OwnerOf[a])))
        BY <1>7 DEF SnapshotScan
    <2>3. Slotted(Finished) /\ \A a \in left : Slotted(AccountUpdate(a, 1, 0, LookupByOwner(OwnerOf[a])))
        BY DEF Slotted, Finished, AccountUpdate
    <2>4. AllSlotted(sync')
        BY <1>2, <2>2, <2>3, SlottedAppend
    <2>. QED BY <1>2, <2>1, <2>4 DEF SourceSlots
<1>8. CASE SenderTakes
    <2>1. UNCHANGED <<tasks, chan>> /\ sync # <<>> /\ held' = Head(sync) /\ sync' = Tail(sync)
        BY <1>8 DEF SenderTakes
    <2>2. AllSlotted(sync') /\ Slotted(held')
        BY <1>2, <2>1, SlottedTail
    <2>. QED BY <1>2, <2>1, <2>2 DEF SourceSlots
<1>9. CASE SenderSends
    <2>1. UNCHANGED <<tasks, sync>> /\ held' = None /\ (Send(held) \/ UNCHANGED chan) /\ held # None
        BY <1>9 DEF SenderSends
    <2>2. AllSlotted(chan')
        BY <1>2, <2>1, SendSlotted DEF SourceSlots
    <2>. QED BY <1>2, <2>1, <2>2 DEF SourceSlots
<1>10. CASE FumaroleForward
    <2>1. /\ UNCHANGED <<tasks, sync, held>>
          /\ \/ UNCHANGED chan \/ Send(StreamError)
             \/ \E a \in bounds.accounts, slot \in 1 .. bounds.slots :
                  Send(AccountUpdate(a, slot, Cardinality(left) + 1, LookupByOwner(OwnerOf[a])))
        BY <1>10 DEF FumaroleForward
    <2>2. ASSUME NEW a \in bounds.accounts, NEW slot \in 1 .. bounds.slots
          PROVE  Slotted(AccountUpdate(a, slot, Cardinality(left) + 1, LookupByOwner(OwnerOf[a])))
        <3>1. slot \in Nat \ {0}
            BY <2>2 DEF Slots
        <3>. QED BY <3>1 DEF Slotted, AccountUpdate
    <2>3. Slotted(StreamError)
        BY DEF Slotted, StreamError
    <2>. QED BY <1>2, <1>3, <2>1, <2>2, <2>3, SendSlotted
<1>. QED BY <1>4, <1>5, <1>6, <1>7, <1>8, <1>9, <1>10, RpcSlots DEF SourceStep

(* What ends goes from jobs to handled. *)
LEMMA EndSlots ==
    ASSUME Slots, NEW job \in jobs, End(job)
    PROVE  /\ \A j \in jobs' : j.slot \in Nat \ {0}
           /\ IsSequence(handled') /\ \A h \in 1 .. Len(handled') : handled'[h].slot \in Nat \ {0}
<1>1. /\ jobs' = jobs \ {job} /\ handled' = Append(handled, job) /\ job.slot \in Nat \ {0}
      /\ \A j \in jobs : j.slot \in Nat \ {0}
      /\ IsSequence(handled) /\ \A h \in 1 .. Len(handled) : handled[h].slot \in Nat \ {0}
    BY DEF End, Slots
<1>2. /\ IsSequence(handled') /\ Len(handled) \in Nat /\ Len(handled') = Len(handled) + 1
      /\ handled'[Len(handled) + 1] = job /\ \A h \in 1 .. Len(handled) : handled'[h] = handled[h]
    BY <1>1, AppendFacts
<1>3. ASSUME NEW h \in 1 .. Len(handled') PROVE handled'[h].slot \in Nat \ {0}
    <2>1. CASE h \in 1 .. Len(handled)
        BY <1>1, <1>2, <2>1
    <2>2. CASE h = Len(handled) + 1
        BY <1>1, <1>2, <2>2
    <2>. QED BY <1>2, <2>1, <2>2
<1>. QED BY <1>1, <1>2, <1>3

LEMMA JobsSlots ==
    ASSUME NEW u, Slotted(u), u.account # None, NEW job \in JobsOf(u)
    PROVE  job.slot \in Nat \ {0}
BY DEF JobsOf, Slotted

LEMMA SlotsNext == Slots /\ [Next]_vars => Slots'
<1>. SUFFICES ASSUME Slots, [Next]_vars PROVE Slots'
    OBVIOUS
<1>1. CASE UNCHANGED sourceVars /\ UNCHANGED <<jobs, handled>> /\ AllSlotted(chan')
    BY <1>1 DEF Slots, sourceVars
<1>2. CASE UNCHANGED <<sourceVars, jobs, handled, chan>>
    BY <1>2 DEF Slots, sourceVars
<1>3. CASE Register \/ BuildAll \/ Stopped
    BY <1>2, <1>3 DEF Register, BuildAll, Stopped
<1>4. CASE Source
    <2>1. UNCHANGED <<jobs, handled>> /\ SourceSlots' /\ bounds' = bounds
        BY <1>4, SourceStepSlots DEF Source
    <2>. QED BY <2>1 DEF Slots, SourceSlots
<1>5. ASSUME NEW c \in Clients, Client(c) \/ ClientSubscribes(c) PROVE Slots'
    BY <1>2, <1>5 DEF Client, ClientSubscribes
<1>6. CASE RuntimeTakes
    <2>1. UNCHANGED <<sourceVars, handled>> /\ chan # <<>> /\ AllSlotted(chan)
        BY <1>6 DEF RuntimeTakes, Slots
    <2>2. AllSlotted(Tail(chan)) /\ Slotted(Head(chan))
        BY <2>1, SlottedTail
    <2>3. chan' = <<>> \/ chan' = Tail(chan)
        BY <1>6 DEF RuntimeTakes
    <2>4. AllSlotted(chan')
        BY <2>2, <2>3, SlottedEmpty
    <2>5. jobs' = jobs \/ (Head(chan).account # None /\ jobs' = jobs \cup JobsOf(Head(chan)))
        BY <1>6 DEF RuntimeTakes
    <2>6. \A job \in jobs' : job.slot \in Nat \ {0}
        BY <2>2, <2>5, JobsSlots DEF Slots
    <2>. QED BY <2>1, <2>4, <2>6 DEF Slots, sourceVars
<1>7. CASE RuntimeStops
    BY <1>1, <1>7, SlottedEmpty DEF RuntimeStops
<1>8. CASE RuntimeReturns
    <2>1. UNCHANGED <<sourceVars, handled>> /\ chan' = <<>> /\ jobs' \subseteq jobs
        BY <1>8 DEF RuntimeReturns
    <2>. QED BY <2>1, SlottedEmpty DEF Slots, sourceVars
<1>9. ASSUME NEW job \in jobs, StreamHandles(job) \/ PassthroughHandles(job) \/ BufferingHandles(job)
      PROVE  Slots'
    <2>1. End(job) /\ UNCHANGED <<sourceVars, chan>>
        BY <1>9 DEF StreamHandles, PassthroughHandles, BufferingHandles
    <2>2. /\ \A j \in jobs' : j.slot \in Nat \ {0}
          /\ IsSequence(handled') /\ \A h \in 1 .. Len(handled') : handled'[h].slot \in Nat \ {0}
        BY <2>1, EndSlots
    <2>. QED BY <2>1, <2>2 DEF Slots, sourceVars
<1>10. CASE Passthrough
    <2>1. UNCHANGED sinkOthers
        BY <1>10 DEF Passthrough, SinkReceives, SinkCloses, SinkWritesRecord, SinkWritesWatermark,
                     SinkWritesLast
    <2>. QED BY <1>2, <2>1 DEF sinkOthers
<1>11. CASE Idle \/ UNCHANGED vars
    BY <1>2, <1>11 DEF Idle, vars
<1>. QED BY <1>3, <1>4, <1>5, <1>6, <1>7, <1>8, <1>9, <1>10, <1>11 DEF Next, Handlers

-----------------------------------------------------------------------------
(* The passthrough sink.  Past is the number of accounts it was handed: the *)
(* others are in its channel, in order.                                     *)

Over == run \in {"ok", "stopped", "err"}
Past == Len(handled) - Len(rec)
Handed(job) == [slot |-> job.slot, record |-> RecordOf(job)]
(* The record of a job, if it has one, is in a topic before line j. *)
Published(t, j, job) ==
    RecordOf(job) # <<>> => \E k \in 1 .. j - 1 : t[k].key = RecordOf(job)[1].key

SinkState ==
    /\ IsSequence(rec) /\ IsSequence(topic)
    /\ DOMAIN sink = {"pc", "slot", "message", "attempt"} /\ sink.slot \in Nat
    /\ sink.pc \in {"recv", "record", "watermark", "last", "done", "failed"}
    /\ consumer # "passthrough" => sink.pc = "recv" /\ topic = <<>>
    /\ consumer = "passthrough" /\ ~open => sink.pc = "failed"

(* The channel holds the accounts after the first n, in order. *)
Waiting(q, hs, n) ==
    Len(q) = Len(hs) - n /\ n >= 0 /\ \A i \in 1 .. Len(q) : q[i] = Handed(hs[n + i])

AtMost(hs, n, slot) == \A h \in 1 .. n : hs[h].slot <= slot
AllPublished(t, hs, n) == \A h \in 1 .. n : Published(t, Len(t) + 1, hs[h])
LastIsWatermark(t, slot) == t # <<>> /\ t[Len(t)].watermark /\ t[Len(t)].slot = slot

(* As long as it has not failed: the slot is at least that of every account *)
(* it is done with, the record in hand is that of the last it was handed,   *)
(* and the records of all others are published.                             *)
Delivery ==
    consumer = "passthrough" /\ sink.pc # "failed" =>
      /\ Waiting(rec, handled, Past)
      /\ sink.pc \in {"record", "watermark"} =>
           Past >= 1 /\ sink.message = Handed(handled[Past]) /\ AtMost(handled, Past - 1, sink.slot)
      /\ sink.pc \in {"recv", "last", "done"} => AtMost(handled, Past, sink.slot)
      /\ AllPublished(topic, handled, IF sink.pc = "record" THEN Past - 1 ELSE Past)
      /\ sink.pc = "watermark" => sink.message.slot > sink.slot
      /\ sink.pc \in {"last", "done"} => Over /\ rec = <<>>
      /\ sink.pc = "done" /\ handled # <<>> => LastIsWatermark(topic, sink.slot)

(* A watermark stands: no later account can come before it, because one of *)
(* a later slot was handed over, or because the run is over.               *)
Stands(hs, over, w) == over \/ \E g \in DOMAIN hs : hs[g].slot > w
Covered(t, hs, w, j) ==
    \A h \in DOMAIN hs : AtMost(hs, h, w) => Published(t, j, hs[h])

MarksIn(t, hs, over, slot) ==
    \A j \in DOMAIN t : t[j].watermark =>
        /\ t[j].slot \in Nat /\ t[j].slot <= slot
        /\ \A k \in j + 1 .. Len(t) : t[k].watermark => t[k].slot >= t[j].slot
        /\ Covered(t, hs, t[j].slot, j)
        /\ Stands(hs, over, t[j].slot)
Marks == MarksIn(topic, handled, Over, sink.slot)

Sinking == SinkState /\ Delivery /\ Marks

(* A line is published: if it is a watermark, one that can be relied on. *)
Reliable(line, t, hs, over, slot) ==
    line.watermark => /\ line.slot = slot /\ Stands(hs, over, slot)
                      /\ Covered(t, hs, slot, Len(t) + 1)

LEMMA MarksGrow ==
    ASSUME NEW t, NEW hs, NEW over, NEW slot \in Nat, IsSequence(t), MarksIn(t, hs, over, slot),
           NEW line, Reliable(line, t, hs, over, slot),
           NEW u, u = Append(t, line)
    PROVE  MarksIn(u, hs, over, slot)
<1>1. /\ IsSequence(u) /\ Len(t) \in Nat /\ Len(u) = Len(t) + 1
      /\ u[Len(t) + 1] = line /\ \A i \in 1 .. Len(t) : u[i] = t[i]
    BY AppendFacts
<1>2. DOMAIN t = 1 .. Len(t) /\ DOMAIN u = 1 .. Len(t) + 1
    BY <1>1, LenZero
<1>3. ASSUME NEW w, NEW j \in 1 .. Len(t) + 1, Covered(t, hs, w, j)
      PROVE  Covered(u, hs, w, j)
    <2>1. \A k \in 1 .. j - 1 : u[k] = t[k]
        BY <1>1
    <2>. QED BY <1>3, <2>1 DEF Covered, Published
<1>4. ASSUME NEW j \in DOMAIN u, u[j].watermark
      PROVE  /\ u[j].slot \in Nat /\ u[j].slot <= slot
             /\ \A k \in j + 1 .. Len(u) : u[k].watermark => u[k].slot >= u[j].slot
             /\ Covered(u, hs, u[j].slot, j) /\ Stands(hs, over, u[j].slot)
    <2>1. CASE j \in 1 .. Len(t)
        <3>1. u[j] = t[j] /\ t[j].watermark
            BY <1>1, <1>4, <2>1
        <3>2. /\ t[j].slot \in Nat /\ t[j].slot <= slot
              /\ \A k \in j + 1 .. Len(t) : t[k].watermark => t[k].slot >= t[j].slot
              /\ Covered(t, hs, t[j].slot, j) /\ Stands(hs, over, t[j].slot)
            BY <1>2, <2>1, <3>1 DEF MarksIn
        <3>3. Covered(u, hs, t[j].slot, j)
            BY <1>1, <1>2, <1>3, <2>1, <3>2
        <3>4. ASSUME NEW k \in j + 1 .. Len(u), u[k].watermark PROVE u[k].slot >= u[j].slot
            <4>1. CASE k \in j + 1 .. Len(t)
                <5>1. u[k] = t[k]
                    BY <1>1, <2>1, <4>1
                <5>. QED BY <3>1, <3>2, <3>4, <4>1, <5>1
            <4>2. CASE k = Len(t) + 1
                BY <1>1, <3>1, <3>2, <3>4, <4>2 DEF Reliable
            <4>. QED BY <1>1, <2>1, <4>1, <4>2
        <3>. QED BY <3>1, <3>2, <3>3, <3>4
    <2>2. CASE j = Len(t) + 1
        <3>1. u[j] = line /\ line.slot = slot /\ Stands(hs, over, slot) /\ Covered(t, hs, slot, j)
            BY <1>1, <1>4, <2>2 DEF Reliable
        <3>2. Covered(u, hs, slot, j)
            BY <1>1, <1>2, <1>3, <2>2, <3>1
        <3>3. \A k \in j + 1 .. Len(u) : FALSE
            BY <1>1, <2>2
        <3>. QED BY <3>1, <3>2, <3>3
    <2>. QED BY <1>1, <1>2, <2>1, <2>2
<1>. QED BY <1>4 DEF MarksIn

(* The slot of the sink advances, and a run comes to its end. *)
LEMMA MarksStay ==
    ASSUME NEW t, NEW hs, NEW over, NEW slot \in Nat, MarksIn(t, hs, over, slot),
           NEW later \in Nat, slot <= later, NEW ended, over => ended
    PROVE  MarksIn(t, hs, ended, later)
BY DEF MarksIn, Stands

(* Another account is handled, after one of a later slot than any watermark. *)
LEMMA MarksHandled ==
    ASSUME NEW t, NEW hs, NEW slot \in Nat, NEW over, ~over, IsSequence(hs), MarksIn(t, hs, over, slot),
           NEW job, NEW js, js = Append(hs, job),
           \A h \in 1 .. Len(hs) : hs[h].slot \in Nat
    PROVE  MarksIn(t, js, over, slot)
<1>1. /\ IsSequence(js) /\ Len(hs) \in Nat /\ Len(js) = Len(hs) + 1
      /\ \A i \in 1 .. Len(hs) : js[i] = hs[i]
    BY AppendFacts
<1>2. DOMAIN hs = 1 .. Len(hs) /\ DOMAIN js = 1 .. Len(hs) + 1
    BY <1>1, LenZero
<1>3. ASSUME NEW w \in Nat, NEW j, Covered(t, hs, w, j), Stands(hs, over, w)
      PROVE  Covered(t, js, w, j) /\ Stands(js, over, w)
    <2>1. PICK g \in DOMAIN hs : hs[g].slot > w
        BY <1>3 DEF Stands
    <2>2. g \in 1 .. Len(hs) /\ js[g] = hs[g] /\ g \in DOMAIN js
        BY <1>1, <1>2, <2>1
    <2>3. ASSUME NEW h \in DOMAIN js, AtMost(js, h, w) PROVE Published(t, j, js[h])
        <3>1. CASE h \in 1 .. Len(hs)
            <4>1. js[h] = hs[h] /\ \A f \in 1 .. h : js[f] = hs[f]
                BY <1>1, <3>1
            <4>2. AtMost(hs, h, w)
                BY <2>3, <4>1 DEF AtMost
            <4>. QED BY <1>2, <1>3, <3>1, <4>1, <4>2 DEF Covered
        <3>2. CASE h = Len(hs) + 1
            <4>1. g \in 1 .. h
                BY <1>1, <2>2, <3>2
            <4>2. hs[g].slot <= w /\ hs[g].slot \in Nat
                BY <2>2, <2>3, <4>1 DEF AtMost
            <4>. QED BY <2>1, <4>2
        <3>. QED BY <1>1, <1>2, <3>1, <3>2
    <2>. QED BY <2>1, <2>2, <2>3 DEF Covered, Stands
<1>. QED BY <1>3 DEF MarksIn

(* What has been published stays so. *)
LEMMA PublishedStays ==
    ASSUME NEW t, IsSequence(t), NEW line, NEW u, u \in {t, Append(t, line)}, NEW hs, NEW n,
           AllPublished(t, hs, n)
    PROVE  AllPublished(u, hs, n)
<1>1. CASE u = t
    BY <1>1
<1>2. CASE u = Append(t, line)
    <2>1. Len(t) \in Nat /\ Len(u) = Len(t) + 1 /\ \A k \in 1 .. Len(t) : u[k] = t[k]
        BY <1>2, AppendFacts
    <2>2. \A k \in 1 .. (Len(t) + 1) - 1 : k \in 1 .. (Len(u) + 1) - 1 /\ u[k] = t[k]
        BY <2>1
    <2>. QED BY <2>2 DEF AllPublished, Published
<1>. QED BY <1>1, <1>2

LEMMA SinkingInit == Init => Sinking
<1>. SUFFICES ASSUME Init PROVE Sinking
    OBVIOUS
<1>1. /\ handled = <<>> /\ rec = <<>> /\ topic = <<>> /\ open = TRUE
      /\ sink = [pc |-> "recv", slot |-> 0, message |-> None, attempt |-> 1]
    BY DEF Init
<1>2. SinkState
    BY <1>1, EmptyFacts DEF SinkState
<1>3. Len(handled) = 0 /\ Len(rec) = 0 /\ Past = 0 /\ sink.pc = "recv" /\ DOMAIN topic = {}
    BY <1>1, EmptyFacts DEF Past
<1>4. Delivery
    BY <1>3 DEF Delivery, Waiting, AtMost, AllPublished
<1>. QED BY <1>2, <1>3, <1>4 DEF Sinking, Marks, MarksIn

(* Steps of others. *)
LEMMA SinkingRests ==
    ASSUME Sinking, UNCHANGED <<consumer, handled, rec, sink, topic, open>>, Over => Over'
    PROVE  Sinking'
<1>1. SinkState'
    BY DEF Sinking, SinkState
<1>2. Marks'
    <2>1. sink.slot \in Nat /\ MarksIn(topic, handled, Over, sink.slot)
        BY DEF Sinking, SinkState, Marks
    <2>2. MarksIn(topic, handled, Over', sink.slot)
        BY <2>1, MarksStay
    <2>. QED BY <2>2 DEF Marks
<1>3. Delivery'
    BY DEF Sinking, Delivery, Past
<1>. QED BY <1>1, <1>2, <1>3 DEF Sinking

(* PassthroughAccountHandler puts a record behind those in the channel. *)
LEMMA WaitingGrows ==
    ASSUME NEW q, NEW hs, NEW n \in Int, IsSequence(q), IsSequence(hs), Waiting(q, hs, n), NEW job,
           NEW p, p = Append(q, Handed(job)), NEW js, js = Append(hs, job)
    PROVE  Waiting(p, js, n)
<1>1. /\ IsSequence(p) /\ Len(q) \in Nat /\ Len(p) = Len(q) + 1 /\ p[Len(q) + 1] = Handed(job)
      /\ \A i \in 1 .. Len(q) : p[i] = q[i]
    BY AppendFacts
<1>2. /\ IsSequence(js) /\ Len(hs) \in Nat /\ Len(js) = Len(hs) + 1 /\ js[Len(hs) + 1] = job
      /\ \A i \in 1 .. Len(hs) : js[i] = hs[i]
    BY AppendFacts
<1>3. Len(q) = Len(hs) - n /\ n >= 0 /\ \A i \in 1 .. Len(q) : q[i] = Handed(hs[n + i])
    BY DEF Waiting
<1>4. ASSUME NEW i \in 1 .. Len(p) PROVE p[i] = Handed(js[n + i])
    <2>1. CASE i \in 1 .. Len(q)
        <3>1. n + i \in 1 .. Len(hs)
            BY <1>1, <1>2, <1>3, <2>1
        <3>. QED BY <1>1, <1>2, <1>3, <2>1, <3>1
    <2>2. CASE i = Len(q) + 1
        <3>1. n + i = Len(hs) + 1
            BY <1>1, <1>2, <1>3, <2>2
        <3>. QED BY <1>1, <1>2, <2>2, <3>1
    <2>3. i \in 1 .. Len(q) \/ i = Len(q) + 1
        <3>1. i \in 1 .. Len(q) + 1 /\ Len(q) \in Nat
            BY <1>1
        <3>. QED BY <3>1
    <2>. QED BY <2>1, <2>2, <2>3
<1>. QED BY <1>1, <1>2, <1>3, <1>4 DEF Waiting

LEMMA OthersHandle ==
    ASSUME Sinking, Slots, consumer # "passthrough", NEW job, handled' = Append(handled, job),
           UNCHANGED <<consumer, rec, sink, topic>>
    PROVE  Sinking'
<1>1. SinkState'
    BY DEF Sinking, SinkState
<1>2. Delivery'
    BY DEF Delivery
<1>3. topic' = <<>>
    BY DEF Sinking, SinkState
<1>4. Marks'
    BY <1>3 DEF Marks, MarksIn
<1>. QED BY <1>1, <1>2, <1>4 DEF Sinking

LEMMA PassthroughHandled ==
    ASSUME Sinking, Slots, NEW job \in jobs, PassthroughHandles(job)
    PROVE  Sinking'
<1>1. /\ consumer = "passthrough" /\ handled' = Append(handled, job)
      /\ UNCHANGED <<consumer, run, sink, topic, open>> /\ ~Over
    BY DEF PassthroughHandles, End, Running, Over
<1>2. \/ open /\ rec' = Append(rec, Handed(job))
      \/ ~open /\ rec' = rec
    BY DEF PassthroughHandles, Handed, RecordOf
<1>3. IsSequence(handled) /\ IsSequence(rec) /\ \A h \in 1 .. Len(handled) : handled[h].slot \in Nat
    BY DEF Slots, Sinking, SinkState
<1>4. SinkState'
    <2>1. IsSequence(rec')
        BY <1>2, <1>3, AppendFacts
    <2>. QED BY <1>1, <2>1 DEF Sinking, SinkState
<1>5. Marks'
    <2>1. sink.slot \in Nat /\ MarksIn(topic, handled, Over, sink.slot)
        BY DEF Sinking, SinkState, Marks
    <2>2. MarksIn(topic, handled', Over, sink.slot)
        BY <1>1, <1>3, <2>1, MarksHandled
    <2>. QED BY <1>1, <2>2 DEF Marks, Over
<1>6. Delivery'
    <2>1. SUFFICES ASSUME sink.pc # "failed" PROVE Delivery'
        BY <1>1 DEF Delivery
    <2>2. open /\ rec' = Append(rec, Handed(job))
        BY <1>1, <1>2, <2>1 DEF Sinking, SinkState
    <2>3. /\ Len(rec) \in Nat /\ Len(rec') = Len(rec) + 1 /\ Len(handled) \in Nat
          /\ Len(handled') = Len(handled) + 1 /\ \A h \in 1 .. Len(handled) : handled'[h] = handled[h]
        BY <1>1, <1>3, <2>2, AppendFacts
    <2>4. Past \in Int /\ Past' = Past
        BY <2>3 DEF Past
    <2>5. /\ Waiting(rec, handled, Past)
          /\ sink.pc \in {"record", "watermark"} =>
               Past >= 1 /\ sink.message = Handed(handled[Past]) /\ AtMost(handled, Past - 1, sink.slot)
          /\ sink.pc \in {"recv", "last", "done"} => AtMost(handled, Past, sink.slot)
          /\ AllPublished(topic, handled, IF sink.pc = "record" THEN Past - 1 ELSE Past)
          /\ sink.pc = "watermark" => sink.message.slot > sink.slot
          /\ sink.pc \notin {"last", "done"}
        BY <1>1, <2>1 DEF Sinking, Delivery
    <2>6. Waiting(rec', handled', Past)
        BY <1>1, <1>3, <2>2, <2>4, <2>5, WaitingGrows
    <2>7. Past <= Len(handled)
        BY <2>3, <2>4, <2>5 DEF Waiting
    <2>8. ASSUME NEW n \in Int, n <= Past
          PROVE  /\ AtMost(handled, n, sink.slot) => AtMost(handled', n, sink.slot)
                 /\ AllPublished(topic, handled, n) => AllPublished(topic, handled', n)
        <3>1. \A h \in 1 .. n : handled'[h] = handled[h]
            BY <2>3, <2>4, <2>7, <2>8
        <3>. QED BY <3>1 DEF AtMost, AllPublished
    <2>9. Past - 1 \in Int /\ Past - 1 <= Past /\ Past <= Past
        BY <2>4
    <2>10. Past >= 1 => handled'[Past] = handled[Past]
        BY <2>3, <2>4, <2>7
    <2>11. CASE sink.pc = "record"
        BY <1>1, <2>4, <2>5, <2>6, <2>8, <2>9, <2>10, <2>11 DEF Delivery
    <2>12. CASE sink.pc = "watermark"
        BY <1>1, <2>4, <2>5, <2>6, <2>8, <2>9, <2>10, <2>12 DEF Delivery
    <2>13. CASE sink.pc = "recv"
        BY <1>1, <2>4, <2>5, <2>6, <2>8, <2>9, <2>13 DEF Delivery
    <2>. QED BY <2>1, <2>5, <2>11, <2>12, <2>13 DEF Sinking, SinkState
<1>. QED BY <1>4, <1>5, <1>6 DEF Sinking

(* The steps of the sink itself. *)

SinkFields == {"pc", "slot", "message", "attempt"}

LEMMA AfterRecordFacts ==
    ASSUME NEW s, DOMAIN s = SinkFields, s.slot \in Nat, NEW m, m.slot \in Nat,
           NEW r, r = AfterRecord(s, m)
    PROVE  /\ DOMAIN r = SinkFields /\ r.slot \in Nat /\ s.slot <= r.slot
           /\ r.pc \in {"recv", "watermark"}
           /\ r.pc = "watermark" => r.message = m /\ m.slot > s.slot /\ r.slot = s.slot
           /\ r.pc = "recv" => m.slot <= r.slot
<1>1. CASE s.slot # 0 /\ m.slot > s.slot
    <2>1. r = [s EXCEPT !.pc = "watermark", !.message = m, !.attempt = 1]
        BY <1>1 DEF AfterRecord
    <2>2. /\ DOMAIN r = SinkFields /\ r.pc = "watermark" /\ r.message = m /\ r.slot = s.slot
        BY <2>1 DEF SinkFields
    <2>. QED BY <1>1, <2>2
<1>2. CASE ~(s.slot # 0 /\ m.slot > s.slot)
    <2> DEFINE slot == IF s.slot = 0 THEN m.slot ELSE s.slot
    <2>1. r = [s EXCEPT !.pc = "recv", !.message = None, !.attempt = 1, !.slot = slot]
        BY <1>2 DEF AfterRecord
    <2>2. slot \in Nat /\ s.slot <= slot /\ m.slot <= slot
        BY <1>2
    <2> HIDE DEF slot
    <2>3. DOMAIN r = SinkFields /\ r.pc = "recv" /\ r.slot = slot
        BY <2>1 DEF SinkFields
    <2>. QED BY <2>2, <2>3
<1>. QED BY <1>1, <1>2

LEMMA Before == ASSUME NEW n \in Int, NEW h \in 1 .. n, h # n PROVE h \in 1 .. n - 1
OBVIOUS

(* The record of the n-th account has been dealt with. *)
LEMMA AfterRecordDelivers ==
    ASSUME Sinking, Slots, UNCHANGED <<consumer, handled>>, NEW n \in Int, n = Past', n >= 1,
           IsSequence(rec'), Waiting(rec', handled, n), AtMost(handled, n - 1, sink.slot),
           AllPublished(topic', handled, n), sink' = AfterRecord(sink, Handed(handled[n]))
    PROVE  /\ DOMAIN sink' = SinkFields /\ sink'.slot \in Nat /\ sink.slot <= sink'.slot
           /\ sink'.pc \in {"recv", "watermark"} /\ Delivery'
<1> DEFINE m == Handed(handled[n])
<1>1. Len(handled) \in Nat /\ Len(rec') \in Nat
    BY LenZero DEF Slots
<1>2. n \in 1 .. Len(handled)
    BY <1>1 DEF Waiting
<1>3. handled[n].slot \in Nat /\ m.slot = handled[n].slot
    BY <1>2 DEF Slots, Handed
<1>4. DOMAIN sink = SinkFields /\ sink.slot \in Nat
    BY DEF Sinking, SinkState, SinkFields
<1>5. sink' = AfterRecord(sink, m)
    OBVIOUS
<1> HIDE DEF m
<1>6. /\ DOMAIN sink' = SinkFields /\ sink'.slot \in Nat /\ sink.slot <= sink'.slot
      /\ sink'.pc \in {"recv", "watermark"}
      /\ sink'.pc = "watermark" => sink'.message = m /\ m.slot > sink.slot /\ sink'.slot = sink.slot
      /\ sink'.pc = "recv" => m.slot <= sink'.slot
    BY <1>3, <1>4, <1>5, AfterRecordFacts
<1>7. CASE sink'.pc = "watermark"
    <2>1. sink'.message = Handed(handled'[n]) /\ AtMost(handled', n - 1, sink'.slot)
        BY <1>6, <1>7 DEF m
    <2>2. sink'.message.slot > sink'.slot
        BY <1>6, <1>7
    <2>. QED BY <1>6, <1>7, <2>1, <2>2 DEF Delivery
<1>8. CASE sink'.pc = "recv"
    <2>1. ASSUME NEW h \in 1 .. n PROVE handled[h].slot <= sink'.slot
        <3>1. CASE h = n
            BY <1>3, <1>6, <1>8, <3>1
        <3>2. CASE h # n
            <4>1. h \in 1 .. n - 1
                BY <3>2, Before
            <4>2. h \in 1 .. Len(handled)
                BY <1>1, <1>2
            <4>3. handled[h].slot <= sink.slot /\ handled[h].slot \in Nat
                BY <4>1, <4>2 DEF AtMost, Slots
            <4>. QED BY <1>4, <1>6, <4>3
        <3>. QED BY <3>1, <3>2
    <2>2. AtMost(handled', n, sink'.slot)
        BY <2>1 DEF AtMost
    <2>. QED BY <1>6, <1>8, <2>2 DEF Delivery
<1>. QED BY <1>6, <1>7, <1>8

LEMMA WaitingShrinks ==
    ASSUME NEW q, NEW hs, NEW n \in Int, IsSequence(q), q # <<>>, IsSequence(hs), Waiting(q, hs, n)
    PROVE  Waiting(Tail(q), hs, n + 1) /\ Head(q) = Handed(hs[n + 1])
<1>1. /\ Len(q) \in Nat \ {0} /\ Head(q) = q[1] /\ Len(Tail(q)) = Len(q) - 1
      /\ \A i \in 1 .. Len(q) - 1 : Tail(q)[i] = q[i + 1]
    BY TailFacts
<1>2. Len(q) = Len(hs) - n /\ n >= 0 /\ \A i \in 1 .. Len(q) : q[i] = Handed(hs[n + i])
    BY DEF Waiting
<1>3. Len(hs) \in Nat
    BY LenZero
<1>4. ASSUME NEW i \in 1 .. Len(q) - 1 PROVE Tail(q)[i] = Handed(hs[(n + 1) + i])
    <2>1. i + 1 \in 1 .. Len(q) /\ n + (i + 1) = (n + 1) + i
        BY <1>1
    <2>. QED BY <1>1, <1>2, <2>1
<1>5. Len(Tail(q)) = Len(hs) - (n + 1) /\ n + 1 >= 0
    BY <1>1, <1>2, <1>3
<1>6. 1 \in 1 .. Len(q)
    BY <1>1
<1>. QED BY <1>1, <1>2, <1>4, <1>5, <1>6 DEF Waiting

LEMMA SinkReceived ==
    ASSUME Sinking, Slots, SinkReceives
    PROVE  Sinking'
<1> DEFINE n == Past + 1
<1>1. /\ consumer = "passthrough" /\ sink.pc = "recv" /\ rec # <<>> /\ rec' = Tail(rec)
      /\ UNCHANGED <<topic, open, consumer, handled, run>>
    BY DEF SinkReceives, sinkOthers
<1>2. /\ IsSequence(rec) /\ IsSequence(handled) /\ sink.slot \in Nat /\ DOMAIN sink = SinkFields
      /\ IsSequence(topic)
    BY DEF Sinking, SinkState, Slots, SinkFields
<1>3. /\ IsSequence(rec') /\ Len(rec) \in Nat \ {0} /\ Len(rec') = Len(rec) - 1 /\ Len(handled) \in Nat
    BY <1>1, <1>2, TailFacts, LenZero
<1>4. /\ Waiting(rec, handled, Past) /\ AtMost(handled, Past, sink.slot)
      /\ AllPublished(topic, handled, Past)
    BY <1>1 DEF Sinking, Delivery
<1>5. Past \in Int /\ n \in Int /\ n - 1 = Past /\ Past' = n /\ n >= 1
    BY <1>1, <1>3, <1>4 DEF Past, Waiting
<1>6. Waiting(rec', handled, n) /\ Head(rec) = Handed(handled[n])
    BY <1>1, <1>2, <1>4, <1>5, WaitingShrinks
<1> HIDE DEF n
<1>7. ASSUME sink'.slot \in Nat, sink.slot <= sink'.slot PROVE Marks'
    <2>1. MarksIn(topic, handled, Over, sink'.slot)
        BY <1>2, <1>7, MarksStay DEF Sinking, Marks
    <2>. QED BY <1>1, <2>1 DEF Marks, Over
<1>8. CASE Head(rec).record = <<>>
    <2>1. sink' = AfterRecord(sink, Handed(handled[n]))
        BY <1>6, <1>8 DEF SinkReceives
    <2>2. RecordOf(handled[n]) = <<>>
        BY <1>6, <1>8 DEF Handed
    <2>3. AllPublished(topic', handled, n)
        <3>1. ASSUME NEW h \in 1 .. n PROVE Published(topic, Len(topic) + 1, handled[h])
            <4>1. CASE h = n
                BY <2>2, <4>1 DEF Published
            <4>2. CASE h # n
                <5>1. h \in 1 .. Past
                    BY <1>5, <4>2
                <5>. QED BY <1>4, <5>1 DEF AllPublished
            <4>. QED BY <4>1, <4>2
        <3>. QED BY <1>1, <3>1 DEF AllPublished
    <2>4. AtMost(handled, n - 1, sink.slot)
        BY <1>4, <1>5
    <2>5. /\ DOMAIN sink' = SinkFields /\ sink'.slot \in Nat /\ sink.slot <= sink'.slot
          /\ sink'.pc \in {"recv", "watermark"} /\ Delivery'
        BY <1>1, <1>3, <1>5, <1>6, <2>1, <2>3, <2>4, AfterRecordDelivers
    <2>6. SinkState'
        <3>1. consumer = "passthrough" /\ ~open => FALSE
            BY <1>1 DEF Sinking, SinkState
        <3>. QED BY <1>1, <1>2, <1>3, <2>5, <3>1 DEF SinkState, SinkFields
    <2>. QED BY <1>7, <2>5, <2>6 DEF Sinking
<1>9. CASE Head(rec).record # <<>>
    <2>1. sink' = [sink EXCEPT !.pc = "record", !.message = Head(rec), !.attempt = 1]
        BY <1>9 DEF SinkReceives
    <2>2. /\ DOMAIN sink' = SinkFields /\ sink'.pc = "record" /\ sink'.message = Handed(handled[n])
          /\ sink'.slot = sink.slot
        BY <1>2, <1>6, <2>1 DEF SinkFields
    <2>3. SinkState'
        <3>1. consumer = "passthrough" /\ ~open => FALSE
            BY <1>1 DEF Sinking, SinkState
        <3>. QED BY <1>1, <1>2, <1>3, <2>2, <3>1 DEF SinkState, SinkFields
    <2>4. Delivery'
        BY <1>1, <1>4, <1>5, <1>6, <2>2 DEF Delivery
    <2>. QED BY <1>2, <1>7, <2>2, <2>3, <2>4 DEF Sinking
<1>. QED BY <1>8, <1>9

LEMMA SinkClosed ==
    ASSUME Sinking, Slots, SinkCloses
    PROVE  Sinking'
<1>1. /\ consumer = "passthrough" /\ sink.pc = "recv" /\ rec = <<>> /\ Over
      /\ UNCHANGED <<rec, topic, open, consumer, handled, run>>
      /\ sink' = [sink EXCEPT !.pc = IF sink.slot = 0 THEN "done" ELSE "last", !.attempt = 1]
    BY DEF SinkCloses, sinkOthers, Over
<1>2. /\ IsSequence(rec) /\ IsSequence(handled) /\ sink.slot \in Nat /\ DOMAIN sink = SinkFields
      /\ IsSequence(topic)
    BY DEF Sinking, SinkState, Slots, SinkFields
<1>3. /\ DOMAIN sink' = SinkFields /\ sink'.slot = sink.slot
      /\ sink'.pc = IF sink.slot = 0 THEN "done" ELSE "last"
    BY <1>1, <1>2 DEF SinkFields
<1>4. SinkState'
    <2>1. consumer = "passthrough" /\ ~open => FALSE
        BY <1>1 DEF Sinking, SinkState
    <2>. QED BY <1>1, <1>2, <1>3, <2>1 DEF SinkState, SinkFields
<1>5. Marks'
    BY <1>1, <1>3 DEF Sinking, Marks, Over
<1>6. /\ Waiting(rec, handled, Past) /\ AtMost(handled, Past, sink.slot)
      /\ AllPublished(topic, handled, Past) /\ Past' = Past
    BY <1>1 DEF Sinking, Delivery, Past
<1>7. ASSUME sink.slot = 0 PROVE handled = <<>>
    <2>1. Len(handled) \in Nat /\ Len(rec) = 0 /\ (Len(handled) = 0 <=> handled = <<>>)
        BY <1>1, <1>2, LenZero
    <2>2. Past = Len(handled)
        BY <2>1 DEF Past
    <2>3. CASE Len(handled) # 0
        <3>1. 1 \in 1 .. Len(handled) /\ 1 \in 1 .. Past
            BY <2>1, <2>2, <2>3
        <3>2. handled[1].slot \in Nat \ {0} /\ handled[1].slot <= 0
            BY <1>6, <1>7, <3>1 DEF Slots, AtMost
        <3>. QED BY <3>2
    <2>. QED BY <2>1, <2>3
<1>8. Delivery'
    <2>1. CASE sink.slot = 0
        BY <1>1, <1>3, <1>6, <1>7, <2>1 DEF Delivery, Over
    <2>2. CASE sink.slot # 0
        BY <1>1, <1>3, <1>6, <2>2 DEF Delivery, Over
    <2>. QED BY <2>1, <2>2
<1>. QED BY <1>4, <1>5, <1>8 DEF Sinking

(* An attempt at a write that is reported as an error, written or not. *)
LEMMA AttemptFails ==
    ASSUME Sinking, Slots, consumer = "passthrough", UNCHANGED sinkOthers,
           sink.pc \in {"record", "watermark", "last"},
           NEW line, Reliable(line, topic, handled, Over, sink.slot),
           topic' \in {topic, Append(topic, line)},
           \/ sink' = [sink EXCEPT !.attempt = @ + 1] /\ UNCHANGED <<open, rec>>
           \/ sink' = [sink EXCEPT !.pc = "failed"] /\ open' = FALSE /\ rec' = <<>>
    PROVE  Sinking'
<1>1. /\ UNCHANGED <<consumer, handled, run>> /\ IsSequence(topic) /\ IsSequence(rec)
      /\ sink.slot \in Nat /\ DOMAIN sink = SinkFields /\ open
    BY DEF sinkOthers, Sinking, SinkState, SinkFields
<1>2. IsSequence(topic') /\ MarksIn(topic', handled, Over, sink.slot)
    <2>1. CASE topic' = topic
        BY <1>1, <2>1 DEF Sinking, Marks
    <2>2. CASE topic' = Append(topic, line)
        BY <1>1, <2>2, MarksGrow, AppendFacts DEF Sinking, Marks
    <2>. QED BY <2>1, <2>2
<1>3. CASE sink' = [sink EXCEPT !.pc = "failed"] /\ open' = FALSE /\ rec' = <<>>
    <2>1. DOMAIN sink' = SinkFields /\ sink'.pc = "failed" /\ sink'.slot = sink.slot
        BY <1>1, <1>3 DEF SinkFields
    <2>2. SinkState'
        BY <1>1, <1>2, <1>3, <2>1, EmptyFacts DEF SinkState, SinkFields
    <2>. QED BY <1>1, <1>2, <2>1, <2>2 DEF Sinking, Delivery, Marks, Over
<1>4. CASE sink' = [sink EXCEPT !.attempt = @ + 1] /\ UNCHANGED <<open, rec>>
    <2>1. /\ DOMAIN sink' = SinkFields /\ sink'.pc = sink.pc /\ sink'.slot = sink.slot
          /\ sink'.message = sink.message
        BY <1>1, <1>4 DEF SinkFields
    <2>2. SinkState'
        BY <1>1, <1>2, <1>4, <2>1 DEF Sinking, SinkState, SinkFields
    <2>3. Past' = Past /\ (Over' <=> Over)
        BY <1>1, <1>4 DEF Past, Over
    <2>4. ASSUME NEW n, AllPublished(topic, handled, n) PROVE AllPublished(topic', handled, n)
        <3>1. CASE topic' = topic
            BY <2>4, <3>1
        <3>2. CASE topic' = Append(topic, line)
            BY <1>1, <2>4, <3>2, PublishedStays
        <3>. QED BY <3>1, <3>2
    <2>5. Delivery'
        BY <1>1, <1>4, <2>1, <2>3, <2>4 DEF Sinking, Delivery
    <2>. QED BY <1>1, <1>2, <2>1, <2>2, <2>3, <2>5 DEF Sinking, Marks, Over
<1>. QED BY <1>3, <1>4

(* A line that was written, and the sink goes on. *)
LEMMA AttemptSucceeds ==
    ASSUME Sinking, Slots, consumer = "passthrough", UNCHANGED sinkOthers, UNCHANGED <<open, rec>>,
           sink.pc # "failed", NEW line, Reliable(line, topic, handled, Over, sink.slot),
           topic' = Append(topic, line), DOMAIN sink' = SinkFields, sink'.slot \in Nat,
           sink.slot <= sink'.slot, sink'.pc \in {"recv", "watermark", "done"}, Delivery'
    PROVE  Sinking'
<1>1. /\ UNCHANGED <<consumer, handled, run>> /\ IsSequence(topic) /\ IsSequence(rec)
      /\ sink.slot \in Nat /\ open
    BY DEF sinkOthers, Sinking, SinkState
<1>2. IsSequence(topic') /\ MarksIn(topic', handled, Over, sink.slot)
    BY <1>1, MarksGrow, AppendFacts DEF Sinking, Marks
<1>3. MarksIn(topic', handled, Over, sink'.slot)
    BY <1>1, <1>2, MarksStay
<1>4. SinkState'
    BY <1>1, <1>2 DEF SinkState, SinkFields
<1>. QED BY <1>1, <1>3, <1>4 DEF Sinking, Marks, Over

LEMMA SinkWroteRecord ==
    ASSUME Sinking, Slots, SinkWritesRecord
    PROVE  Sinking'
<1> DEFINE line == Written(sink.message)
<1>1. sink.pc = "record" /\ consumer = "passthrough" /\ UNCHANGED sinkOthers
    BY DEF SinkWritesRecord, Sinking, SinkState
<1>2. Reliable(line, topic, handled, Over, sink.slot)
    BY DEF Reliable, Written
<1>3. Attempt(line, AfterRecord(sink, sink.message))
    BY DEF SinkWritesRecord
<1>4. /\ Waiting(rec, handled, Past) /\ AllPublished(topic, handled, Past - 1) /\ Past >= 1
      /\ sink.message = Handed(handled[Past]) /\ AtMost(handled, Past - 1, sink.slot)
    BY <1>1 DEF Sinking, Delivery
<1>5. /\ line.key = RecordOf(handled[Past])[1].key
    BY <1>4 DEF Written, Handed
<1>6. /\ IsSequence(topic) /\ IsSequence(rec) /\ Past \in Int
    <2>1. IsSequence(topic) /\ IsSequence(rec) /\ IsSequence(handled)
        BY DEF Sinking, SinkState, Slots
    <2>2. Len(rec) \in Nat /\ Len(handled) \in Nat
        BY <2>1, LenZero
    <2>. QED BY <2>1, <2>2 DEF Past
<1> HIDE DEF line
<1>7. CASE /\ topic' = Append(topic, line) /\ sink' = AfterRecord(sink, sink.message)
           /\ UNCHANGED <<open, rec>>
    <2>1. UNCHANGED <<consumer, handled>> /\ Past' = Past /\ IsSequence(rec')
        BY <1>1, <1>6, <1>7 DEF sinkOthers, Past
    <2>2. AllPublished(topic', handled, Past - 1)
        BY <1>4, <1>6, <1>7, PublishedStays
    <2>3. Published(topic', Len(topic') + 1, handled[Past])
        <3>1. Len(topic) \in Nat /\ Len(topic') = Len(topic) + 1 /\ topic'[Len(topic) + 1] = line
            BY <1>6, <1>7, AppendFacts
        <3>2. Len(topic) + 1 \in 1 .. (Len(topic') + 1) - 1
            BY <3>1
        <3>. QED BY <1>5, <3>1, <3>2 DEF Published
    <2>4. AllPublished(topic', handled, Past)
        <3>1. \A h \in 1 .. Past : h = Past \/ h \in 1 .. Past - 1
            BY <1>6, Before
        <3>. QED BY <2>2, <2>3, <3>1 DEF AllPublished
    <2>5. sink' = AfterRecord(sink, Handed(handled[Past]))
        BY <1>4, <1>7
    <2> DEFINE n == Past
    <2>6. /\ n \in Int /\ n = Past' /\ n >= 1 /\ Waiting(rec', handled, n)
          /\ AtMost(handled, n - 1, sink.slot) /\ AllPublished(topic', handled, n)
          /\ sink' = AfterRecord(sink, Handed(handled[n]))
        BY <1>4, <1>6, <1>7, <2>1, <2>4, <2>5
    <2> HIDE DEF n
    <2>7. /\ DOMAIN sink' = SinkFields /\ sink'.slot \in Nat /\ sink.slot <= sink'.slot
          /\ sink'.pc \in {"recv", "watermark"} /\ Delivery'
        BY <2>1, <2>6, AfterRecordDelivers
    <2>. QED BY <1>1, <1>2, <1>7, <2>7, AttemptSucceeds
<1>. QED BY <1>1, <1>2, <1>3, <1>7, AttemptFails DEF Attempt

LEMMA SinkWroteWatermark ==
    ASSUME Sinking, Slots, SinkWritesWatermark
    PROVE  Sinking'
<1> DEFINE line == Watermark(sink.slot)
           next == [sink EXCEPT !.pc = "recv", !.slot = sink.message.slot, !.message = None,
                                !.attempt = 1]
<1>1. sink.pc = "watermark" /\ consumer = "passthrough" /\ UNCHANGED sinkOthers
    BY DEF SinkWritesWatermark, Sinking, SinkState
<1>2. Attempt(line, next)
    BY DEF SinkWritesWatermark, WatermarkSlot
<1>3. /\ Waiting(rec, handled, Past) /\ AllPublished(topic, handled, Past) /\ Past >= 1
      /\ sink.message = Handed(handled[Past]) /\ AtMost(handled, Past - 1, sink.slot)
      /\ sink.message.slot > sink.slot
    BY <1>1 DEF Sinking, Delivery
<1>4. /\ IsSequence(topic) /\ IsSequence(rec) /\ IsSequence(handled) /\ Past \in Int
      /\ Len(handled) \in Nat /\ Past <= Len(handled) /\ DOMAIN handled = 1 .. Len(handled)
    <2>1. IsSequence(topic) /\ IsSequence(rec) /\ IsSequence(handled)
        BY DEF Sinking, SinkState, Slots
    <2>2. Len(rec) \in Nat /\ Len(handled) \in Nat /\ DOMAIN handled = 1 .. Len(handled)
        BY <2>1, LenZero
    <2>. QED BY <2>1, <2>2 DEF Past
<1>5. /\ Past \in DOMAIN handled /\ handled[Past].slot \in Nat /\ sink.message.slot = handled[Past].slot
      /\ handled[Past].slot > sink.slot /\ sink.slot \in Nat /\ DOMAIN sink = SinkFields
    <2>1. Past \in 1 .. Len(handled)
        BY <1>3, <1>4
    <2>2. sink.message.slot = handled[Past].slot
        BY <1>3 DEF Handed
    <2>. QED BY <1>3, <1>4, <2>1, <2>2 DEF Slots, Sinking, SinkState, SinkFields
<1>6. Reliable(line, topic, handled, Over, sink.slot)
    <2>1. line.slot = sink.slot
        BY DEF Watermark
    <2>2. Stands(handled, Over, sink.slot)
        BY <1>5 DEF Stands
    <2>3. ASSUME NEW h \in DOMAIN handled, AtMost(handled, h, sink.slot)
          PROVE  Published(topic, Len(topic) + 1, handled[h])
        <3>1. CASE h < Past
            <4>1. h \in 1 .. Past
                BY <1>4, <3>1
            <4>. QED BY <1>3, <4>1 DEF AllPublished
        <3>2. CASE ~(h < Past)
            <4>1. Past \in 1 .. h
                BY <1>3, <1>4, <3>2
            <4>2. handled[Past].slot <= sink.slot
                BY <2>3, <4>1 DEF AtMost
            <4>. QED BY <1>5, <4>2
        <3>. QED BY <3>1, <3>2
    <2>. QED BY <2>1, <2>2, <2>3 DEF Reliable, Covered
<1> HIDE DEF line
<1>7. CASE topic' = Append(topic, line) /\ sink' = next /\ UNCHANGED <<open, rec>>
    <2>1. /\ DOMAIN sink' = SinkFields /\ sink'.pc = "recv" /\ sink'.slot = handled[Past].slot
        BY <1>5, <1>7 DEF SinkFields
    <2>2. UNCHANGED <<consumer, handled>> /\ Past' = Past
        BY <1>1, <1>7 DEF sinkOthers, Past
    <2>3. AllPublished(topic', handled, Past)
        BY <1>3, <1>4, <1>7, PublishedStays
    <2>4. ASSUME NEW h \in 1 .. Past PROVE handled[h].slot <= sink'.slot
        <3>1. CASE h = Past
            BY <1>5, <2>1, <3>1
        <3>2. CASE h # Past
            <4>1. h \in 1 .. Past - 1
                BY <1>4, <3>2, Before
            <4>2. h \in 1 .. Len(handled)
                BY <1>4
            <4>3. handled[h].slot \in Nat /\ handled[h].slot <= sink.slot
                BY <1>3, <4>1, <4>2 DEF AtMost, Slots
            <4>. QED BY <1>5, <2>1, <4>3
        <3>. QED BY <3>1, <3>2
    <2>5. AtMost(handled, Past, sink'.slot)
        BY <2>4 DEF AtMost
    <2>6. Delivery'
        BY <1>3, <1>7, <2>1, <2>2, <2>3, <2>5 DEF Delivery
    <2>7. sink'.slot \in Nat /\ sink.slot <= sink'.slot
        BY <1>5, <2>1
    <2>. QED BY <1>1, <1>6, <1>7, <2>1, <2>6, <2>7, AttemptSucceeds
<1> HIDE DEF next
<1>. QED BY <1>1, <1>2, <1>6, <1>7, AttemptFails DEF Attempt

LEMMA SinkWroteLast ==
    ASSUME Sinking, Slots, SinkWritesLast
    PROVE  Sinking'
<1> DEFINE line == Watermark(sink.slot)
           next == [sink EXCEPT !.pc = "done", !.attempt = 1]
<1>1. sink.pc = "last" /\ consumer = "passthrough" /\ UNCHANGED sinkOthers
    BY DEF SinkWritesLast, Sinking, SinkState
<1>2. Attempt(line, next)
    BY DEF SinkWritesLast
<1>3. /\ Waiting(rec, handled, Past) /\ AllPublished(topic, handled, Past)
      /\ AtMost(handled, Past, sink.slot) /\ Over /\ rec = <<>>
    BY <1>1 DEF Sinking, Delivery
<1>4. /\ IsSequence(topic) /\ DOMAIN handled = 1 .. Past /\ sink.slot \in Nat /\ DOMAIN sink = SinkFields
    <2>1. IsSequence(topic) /\ IsSequence(rec) /\ IsSequence(handled)
        BY DEF Sinking, SinkState, Slots
    <2>2. Len(rec) = 0 /\ Len(handled) \in Nat /\ DOMAIN handled = 1 .. Len(handled)
        BY <1>3, <2>1, LenZero
    <2>. QED BY <2>1, <2>2 DEF Past, Sinking, SinkState, SinkFields
<1>5. Reliable(line, topic, handled, Over, sink.slot)
    <2>1. line.slot = sink.slot
        BY DEF Watermark
    <2>. QED BY <1>3, <1>4, <2>1 DEF Reliable, Stands, Covered, AllPublished
<1>6. CASE topic' = Append(topic, line) /\ sink' = next /\ UNCHANGED <<open, rec>>
    <2>1. /\ DOMAIN sink' = SinkFields /\ sink'.pc = "done" /\ sink'.slot = sink.slot
        BY <1>4, <1>6 DEF SinkFields
    <2>2. UNCHANGED <<consumer, handled>> /\ Past' = Past /\ Over'
        BY <1>1, <1>3, <1>6 DEF sinkOthers, Past, Over
    <2>3. AllPublished(topic', handled, Past)
        BY <1>3, <1>4, <1>6, PublishedStays
    <2>4. LastIsWatermark(topic', sink.slot)
        <3>1. /\ IsSequence(topic') /\ Len(topic) \in Nat /\ Len(topic') = Len(topic) + 1
              /\ topic'[Len(topic) + 1] = line
            BY <1>4, <1>6, AppendFacts
        <3>2. topic' # <<>>
            BY <3>1, LenZero
        <3>. QED BY <3>1, <3>2 DEF LastIsWatermark, Watermark
    <2>5. Delivery'
        BY <1>3, <1>6, <2>1, <2>2, <2>3, <2>4 DEF Delivery
    <2>6. sink'.slot \in Nat /\ sink.slot <= sink'.slot
        BY <1>4, <2>1
    <2> HIDE DEF line, next
    <2>. QED BY <1>1, <1>5, <1>6, <2>1, <2>5, <2>6, AttemptSucceeds
<1> HIDE DEF line, next
<1>. QED BY <1>1, <1>2, <1>5, <1>6, AttemptFails DEF Attempt

LEMMA SinkingNext == Slots /\ Sinking /\ [Next]_vars => Sinking'
<1>. SUFFICES ASSUME Slots, Sinking, [Next]_vars PROVE Sinking'
    OBVIOUS
<1>1. CASE UNCHANGED <<consumer, handled, run, consumerVars>>
    BY <1>1, SinkingRests DEF consumerVars, Over
<1>2. CASE UNCHANGED <<consumer, handled, consumerVars>> /\ Running
    BY <1>2, SinkingRests DEF consumerVars, Running, Over
<1>3. CASE Register \/ BuildAll \/ Source \/ Stopped
    BY <1>1, <1>3 DEF Register, BuildAll, Source, Stopped
<1>4. ASSUME NEW c \in Clients, Client(c) \/ ClientSubscribes(c) PROVE Sinking'
    BY <1>1, <1>4 DEF Client, ClientSubscribes
<1>5. CASE RuntimeTakes \/ RuntimeStops \/ RuntimeReturns
    BY <1>2, <1>5 DEF RuntimeTakes, RuntimeStops, RuntimeReturns
<1>6. ASSUME NEW job \in jobs, StreamHandles(job) \/ BufferingHandles(job) PROVE Sinking'
    <2>1. /\ consumer # "passthrough" /\ handled' = Append(handled, job)
          /\ UNCHANGED <<consumer, rec, sink, topic>>
        BY <1>6 DEF StreamHandles, BufferingHandles, End, consumerVars
    <2>. QED BY <2>1, OthersHandle
<1>7. ASSUME NEW job \in jobs, PassthroughHandles(job) PROVE Sinking'
    BY <1>7, PassthroughHandled
<1>8. CASE Passthrough
    BY <1>8, SinkReceived, SinkClosed, SinkWroteRecord, SinkWroteWatermark, SinkWroteLast
       DEF Passthrough
<1>9. CASE Idle \/ UNCHANGED vars
    BY <1>1, <1>9 DEF Idle, vars
<1>. QED BY <1>3, <1>4, <1>5, <1>6, <1>7, <1>8, <1>9 DEF Next, Handlers

LEMMA SinkingHolds == Slots /\ Sinking => WatermarksHold
<1>. SUFFICES ASSUME Slots, Sinking PROVE WatermarksHold
    OBVIOUS
<1>1. WatermarkCovers
    BY DEF Sinking, Marks, MarksIn, Covered, AtMost, Published, WatermarkCovers
<1>2. ASSUME sink.pc = "done"
      PROVE  /\ \A h \in DOMAIN handled : RecordOf(handled[h]) # <<>> =>
                  \E k \in DOMAIN topic : topic[k].key = RecordOf(handled[h])[1].key
             /\ handled # <<>> => /\ topic # <<>> /\ topic[Len(topic)].watermark
                                  /\ \A h \in DOMAIN handled : handled[h].slot <= topic[Len(topic)].slot
    <2>1. consumer = "passthrough"
        BY <1>2 DEF Sinking, SinkState
    <2>2. /\ AllPublished(topic, handled, Past) /\ AtMost(handled, Past, sink.slot) /\ rec = <<>>
          /\ handled # <<>> => LastIsWatermark(topic, sink.slot)
        BY <1>2, <2>1 DEF Sinking, Delivery
    <2>3. IsSequence(topic) /\ IsSequence(rec) /\ IsSequence(handled)
        BY DEF Sinking, SinkState, Slots
    <2>4. /\ Len(rec) = 0 /\ Len(handled) \in Nat /\ DOMAIN handled = 1 .. Len(handled)
          /\ Len(topic) \in Nat /\ DOMAIN topic = 1 .. Len(topic)
        BY <2>2, <2>3, LenZero
    <2>5. DOMAIN handled = 1 .. Past /\ DOMAIN topic = 1 .. (Len(topic) + 1) - 1
        BY <2>4 DEF Past
    <2>. QED BY <2>2, <2>5 DEF AllPublished, Published, AtMost, LastIsWatermark
<1>. QED BY <1>1, <1>2 DEF WatermarksHold, CleanEndIsComplete

(***************************************************************************)
(* However the handlers of AccountPassthroughSink's channel interleave, the*)
(* writes fail or are retried and the run ends: a watermark in the topic   *)
(* comes after the record of every account of its slot or before, but for  *)
(* accounts that reached the sink after one of a later slot; watermarks do *)
(* not go back; and a sink that ended well has published all records, and a*)
(* watermark for the last slot.                                            *)
(***************************************************************************)
THEOREM WatermarksCanBeReliedOn == Spec => []WatermarksHold
<1>1. Slots /\ Sinking /\ [Next]_vars => (Slots /\ Sinking)'
    BY SlotsNext, SinkingNext
<1>. QED BY <1>1, SlotsInit, SinkingInit, SinkingHolds, PTL DEF Spec

-----------------------------------------------------------------------------
(* Every account is served once.  An account on its way to a pipeline is in *)
(* one of six places: with the source, in the channel of the scan, with the *)
(* sender, in the runtime's channel, with a handler, or handled.            *)

Built == server \in {"up", "stopping", "stopped", "abandoned"}
AccountPipelines == {i \in DOMAIN registered : registered[i].kind = "account"}
(* The accounts a source has. *)
Offered == IF source = "snapshot" THEN Loadable ELSE Accounts
Wants(f, id, a) == id \in DOMAIN f /\ OwnerOf[a] \in f[id].owners

FilterIds == {FilterId(p) : p \in AllParsers}

(* The registered parsers; once they are built, ids and owners. *)
Registry ==
    /\ IsSequence(registered)
    /\ \A i \in DOMAIN registered : registered[i] \in AllParsers
    /\ server \in {"building", "rejected", "up", "stopping", "stopped", "abandoned"}
    /\ DOMAIN filters \subseteq FilterIds
Prefiltered ==
    Built =>
      /\ \A i, j \in AccountPipelines : registered[i].id = registered[j].id => i = j
      /\ \A i \in AccountPipelines, a \in Accounts : Wants(filters, registered[i].id, a) =>
           OwnerOf[a] \in OwnersOf(registered[i])
      /\ \A i \in AccountPipelines, a \in Accounts : Alone(i) /\ OwnerOf[a] \in OwnersOf(registered[i]) =>
           Wants(filters, registered[i].id, a)

(* Nothing moves before that, or before connect. *)
AtRest ==
    /\ src = "connect" /\ tasks = <<>> /\ left = {} /\ sync = <<>> /\ held = None /\ chan = <<>>
    /\ jobs = {} /\ handled = <<>> /\ run = "running"
Resting ==
    /\ source \in {"rpc", "snapshot", "fumarole"}
    /\ ~Built => AtRest
    /\ src = "connect" => tasks = <<>> /\ left = {} /\ sync = <<>> /\ held = None

(* Where solana-rpc-source and solana-snapshot-source stand. *)
TaskKept(t, r, f) ==
    /\ DOMAIN r = {"pc", "slot", "todo"} /\ r.pc \in {"fetch", "send", "ok", "failed"}
    /\ t = <<t[1], t[2]>> /\ t[1] \in DOMAIN f /\ t[2] \in f[t[1]].owners
    /\ r.todo \subseteq {a \in Accounts : OwnerOf[a] = t[2]}
RpcFlow ==
    source = "rpc" =>
      /\ src \in {"connect", "running", "completed", "error"} /\ sync = <<>> /\ held = None
      /\ \A t \in DOMAIN tasks : TaskKept(t, tasks[t], filters)
      /\ src = "completed" => \A t \in DOMAIN tasks : tasks[t].pc = "ok"
SnapshotFlow ==
    source = "snapshot" =>
      /\ src \in {"connect", "slot", "scan", "finishing", "failing", "completed", "error"}
      /\ src \in {"connect", "slot"} => left = {} /\ sync = <<>> /\ held = None
      /\ left \subseteq Loadable
      /\ src \in {"finishing", "completed"} => left = {}
      /\ \A k \in 1 .. Len(sync) : sync[k] = Finished => k = Len(sync) /\ src \in {"finishing", "completed"}
      /\ \A k \in 1 .. Len(sync) : sync[k] # None
      /\ held = Finished => sync = <<>> /\ src \in {"finishing", "completed"}
      /\ src = "completed" => held = Finished
Flow == Len(sync) <= SyncSize /\ RpcFlow /\ SnapshotFlow
    /\ (source = "fumarole" =>
          src \in {"connect", "running", "error", "stream_ended", "receiver_dropped"}
          /\ sync = <<>> /\ held = None /\ tasks = <<>>)
    /\ (source = "snapshot" => tasks = <<>>)

(* No update is for a pipeline that does not want it. *)
Rightful(u, f, offered) ==
    u.account # None => u.account \in offered /\ \A id \in u.filters : Wants(f, id, u.account)
AllRightful(q, f, offered) == \A k \in 1 .. Len(q) : Rightful(q[k], f, offered)
RightfulJob(job) ==
    /\ job.pipeline \in AccountPipelines
    /\ source # "fumarole" =>
         job.account \in Offered /\ OwnerOf[job.account] \in OwnersOf(registered[job.pipeline])
Rights ==
    /\ source # "fumarole" => /\ AllRightful(sync, filters, Offered) /\ AllRightful(chan, filters, Offered)
                              /\ held # None => Rightful(held, filters, Offered)
    /\ \A job \in jobs : RightfulJob(job)
    /\ \A h \in 1 .. Len(handled) : RightfulJob(handled[h])

(* Where an account a is on its way to a pipeline, by the pipeline's id or  *)
(* its place.                                                               *)
Unsent(a, id) ==
    \/ src = "connect"
    \/ /\ source = "rpc" /\ <<id, OwnerOf[a]>> \in DOMAIN tasks
       /\ LET r == tasks[<<id, OwnerOf[a]>>]
          IN r.pc = "fetch" \/ (r.pc = "send" /\ a \in r.todo)
    \/ source = "snapshot" /\ (src = "slot" \/ a \in left)
Carries(u, a, id) == u.account = a /\ id \in u.filters
In(q, a, id) == \E k \in 1 .. Len(q) : Carries(q[k], a, id)
Taken(a, id) == held # None /\ Carries(held, a, id)
IsFor(job, a, i) == job.account = a /\ job.pipeline = i
Working(a, i) == \E job \in jobs : IsFor(job, a, i)
Done(a, i) == \E h \in 1 .. Len(handled) : IsFor(handled[h], a, i)

(* In no place twice, and in no two places. *)
AtMostOnce(q, a, id) ==
    \A k, l \in 1 .. Len(q) : Carries(q[k], a, id) /\ Carries(q[l], a, id) => k = l
OnWay(a, id) == Unsent(a, id) \/ In(sync, a, id) \/ Taken(a, id) \/ In(chan, a, id)
OneOf(a, id) ==
    /\ AtMostOnce(sync, a, id) /\ AtMostOnce(chan, a, id)
    /\ Taken(a, id) => ~In(chan, a, id)
    /\ In(sync, a, id) => ~Taken(a, id) /\ ~In(chan, a, id)
    /\ Unsent(a, id) => ~In(sync, a, id) /\ ~Taken(a, id) /\ ~In(chan, a, id)
OnceOnly(a, i, id) ==
    /\ OneOf(a, id)
    /\ \A j, k \in jobs : IsFor(j, a, i) /\ IsFor(k, a, i) => j = k
    /\ \A h, g \in 1 .. Len(handled) : IsFor(handled[h], a, i) /\ IsFor(handled[g], a, i) => h = g
    /\ Working(a, i) => ~Done(a, i)
    /\ OnWay(a, id) => ~Working(a, i) /\ ~Done(a, i)
Once ==
    source # "fumarole" =>
      \A a \in Accounts, i \in AccountPipelines : OnceOnly(a, i, registered[i].id)

(* And in one of them, unless the source has failed or the runtime stops. *)
Somewhere(a, i, id) == OnWay(a, id) \/ Working(a, i) \/ Done(a, i)
Failed ==
    \/ src = "error"
    \/ source = "rpc" /\ \E t \in DOMAIN tasks : tasks[t].pc = "failed"
    \/ source = "snapshot" /\ src = "failing"
NoneMissing ==
    /\ run = "running" => rxOpen
    /\ run = "ok" => src = "completed" /\ jobs = {} /\ chan = <<>>
    /\ source # "fumarole" /\ Built /\ run \in {"running", "ok"} =>
         \A a \in Offered, i \in AccountPipelines :
           Wants(filters, registered[i].id, a) => Somewhere(a, i, registered[i].id) \/ Failed

Serving == Registry /\ Prefiltered /\ Resting /\ Flow /\ Rights /\ Once /\ NoneMissing

(* The bounds of the other channels, and what the coordinator was told. *)
Bounded ==
    /\ Len(chan) <= ChannelSize /\ IsSequence(rec) /\ Len(rec) <= ChannelSize
    /\ DOMAIN sink = SinkFields /\ sink.attempt \in 1 .. WriteAttempts
    /\ IsSequence(events) /\ Len(events) <= Len(handled)
    /\ consumer = "buffered" /\ ~cancelled => Len(events) = Len(handled)

LEMMA InEmpty ==
    ASSUME NEW a, NEW id
    PROVE  ~In(<<>>, a, id) /\ AtMostOnce(<<>>, a, id)
BY EmptyFacts DEF In, AtMostOnce

LEMMA InAppend ==
    ASSUME NEW q, IsSequence(q), NEW u, NEW a, NEW id
    PROVE  /\ In(Append(q, u), a, id) <=> In(q, a, id) \/ Carries(u, a, id)
           /\ AtMostOnce(q, a, id) /\ (Carries(u, a, id) => ~In(q, a, id)) =>
                AtMostOnce(Append(q, u), a, id)
<1> DEFINE p == Append(q, u)
           C(k) == Carries(p[k], a, id)
<1>1. /\ Len(q) \in Nat /\ Len(p) = Len(q) + 1 /\ p[Len(q) + 1] = u
      /\ \A k \in 1 .. Len(q) : p[k] = q[k]
    BY AppendFacts
<1>2. \A k \in 1 .. Len(q) : C(k) <=> Carries(q[k], a, id)
    BY <1>1
<1>3. C(Len(q) + 1) <=> Carries(u, a, id)
    BY <1>1
<1> HIDE DEF C
<1>4. 1 .. Len(p) = (1 .. Len(q)) \cup {Len(q) + 1}
    BY <1>1
<1>5. In(p, a, id) <=> \E k \in 1 .. Len(p) : C(k)
    BY DEF In, C
<1>6. AtMostOnce(p, a, id) <=> \A k, l \in 1 .. Len(p) : C(k) /\ C(l) => k = l
    BY DEF AtMostOnce, C
<1> HIDE DEF p
<1>7. In(p, a, id) <=> In(q, a, id) \/ Carries(u, a, id)
    BY <1>2, <1>3, <1>4, <1>5 DEF In
<1>8. ASSUME AtMostOnce(q, a, id), Carries(u, a, id) => ~In(q, a, id)
      PROVE  AtMostOnce(p, a, id)
    BY <1>2, <1>3, <1>4, <1>6, <1>8 DEF In, AtMostOnce
<1>. QED BY <1>7, <1>8 DEF p

LEMMA InTail ==
    ASSUME NEW q, IsSequence(q), q # <<>>, NEW a, NEW id
    PROVE  /\ In(q, a, id) <=> Carries(Head(q), a, id) \/ In(Tail(q), a, id)
           /\ AtMostOnce(q, a, id) =>
                AtMostOnce(Tail(q), a, id) /\ (Carries(Head(q), a, id) => ~In(Tail(q), a, id))
<1> DEFINE C(k) == Carries(q[k], a, id)
<1>1. /\ Len(q) \in Nat \ {0} /\ Head(q) = q[1] /\ Len(Tail(q)) = Len(q) - 1
      /\ \A k \in 1 .. Len(q) - 1 : Tail(q)[k] = q[k + 1]
    BY TailFacts
<1>2. \A k \in 1 .. Len(q) - 1 : Carries(Tail(q)[k], a, id) <=> C(k + 1)
    BY <1>1
<1>3. Carries(Head(q), a, id) <=> C(1)
    BY <1>1
<1>4. In(q, a, id) <=> \E k \in 1 .. Len(q) : C(k)
    BY DEF In
<1>5. AtMostOnce(q, a, id) <=> \A k, l \in 1 .. Len(q) : C(k) /\ C(l) => k = l
    BY DEF AtMostOnce
<1> HIDE DEF C
<1>6. In(Tail(q), a, id) <=> \E k \in 1 .. Len(q) - 1 : C(k + 1)
    BY <1>1, <1>2 DEF In
<1>7. \A k \in 1 .. Len(q) : k = 1 \/ (k - 1 \in 1 .. Len(q) - 1 /\ (k - 1) + 1 = k)
    BY <1>1
<1>8. 1 \in 1 .. Len(q) /\ \A k \in 1 .. Len(q) - 1 : k + 1 \in 1 .. Len(q) /\ k + 1 # 1
    BY <1>1
<1>9. In(q, a, id) <=> Carries(Head(q), a, id) \/ In(Tail(q), a, id)
    BY <1>3, <1>4, <1>6, <1>7, <1>8
<1>10. ASSUME AtMostOnce(q, a, id)
       PROVE  AtMostOnce(Tail(q), a, id) /\ (Carries(Head(q), a, id) => ~In(Tail(q), a, id))
    <2>1. Carries(Head(q), a, id) => ~In(Tail(q), a, id)
        BY <1>3, <1>5, <1>6, <1>8, <1>10
    <2>2. ASSUME NEW k \in 1 .. Len(q) - 1, NEW l \in 1 .. Len(q) - 1, C(k + 1), C(l + 1)
          PROVE  k = l
        <3>1. k + 1 = l + 1
            BY <1>5, <1>8, <1>10, <2>2
        <3>. QED BY <1>1, <3>1
    <2>. QED BY <1>1, <1>2, <2>1, <2>2 DEF AtMostOnce
<1>. QED BY <1>9, <1>10

LEMMA RightfulAppend ==
    ASSUME NEW q, IsSequence(q), NEW u, NEW f, NEW o, AllRightful(q, f, o), Rightful(u, f, o)
    PROVE  AllRightful(Append(q, u), f, o)
<1>1. /\ Len(q) \in Nat /\ Len(Append(q, u)) = Len(q) + 1 /\ Append(q, u)[Len(q) + 1] = u
      /\ \A k \in 1 .. Len(q) : Append(q, u)[k] = q[k]
    BY AppendFacts
<1>2. 1 .. Len(q) + 1 = (1 .. Len(q)) \cup {Len(q) + 1}
    BY <1>1
<1>. QED BY <1>1, <1>2 DEF AllRightful

LEMMA RightfulTail ==
    ASSUME NEW q, IsSequence(q), q # <<>>, NEW f, NEW o, AllRightful(q, f, o)
    PROVE  AllRightful(Tail(q), f, o) /\ Rightful(Head(q), f, o)
<1>1. /\ Len(q) \in Nat \ {0} /\ Head(q) = q[1] /\ Len(Tail(q)) = Len(q) - 1
      /\ \A k \in 1 .. Len(q) - 1 : Tail(q)[k] = q[k + 1]
    BY TailFacts
<1>2. 1 \in 1 .. Len(q) /\ \A k \in 1 .. Len(q) - 1 : k + 1 \in 1 .. Len(q)
    BY <1>1
<1>. QED BY <1>1, <1>2 DEF AllRightful

LEMMA RightfulEmpty == ASSUME NEW f, NEW o PROVE AllRightful(<<>>, f, o)
BY EmptyFacts DEF AllRightful

-----------------------------------------------------------------------------
(* What is built *)

LEMMA GreatestOf ==
    ASSUME NEW S, S \subseteq Nat, S # {}, NEW n \in Nat, \A x \in S : x <= n
    PROVE  \E x \in S : \A y \in S : y <= x
<1> DEFINE T == {n - x : x \in S}
<1>1. T \subseteq Nat /\ T # {}
    <2>1. \A x \in S : n - x \in Nat
        OBVIOUS
    <2>. QED BY <2>1
<1>2. PICK z \in T : \A y \in T : <<y, z>> \notin OpToRel(<, Nat)
    BY <1>1, NatLessThanWellFounded, WFMin
<1>3. PICK x \in S : z = n - x
    OBVIOUS
<1>4. ASSUME NEW y \in S PROVE y <= x
    <2>1. n - y \in T /\ n - y \in Nat /\ z \in Nat
        BY <1>1
    <2>2. <<n - y, z>> \notin OpToRel(<, Nat)
        BY <1>2, <2>1
    <2>3. ~(n - y < z)
        BY <2>1, <2>2 DEF OpToRel
    <2>. QED BY <1>3, <2>3
<1>. QED BY <1>4

LEMMA RankFacts ==
    ASSUME NEW kind, \E k \in DOMAIN Kinds : kind = Kinds[k]
    PROVE  Rank(kind) \in 1 .. 6 /\ Kinds[Rank(kind)] = kind
<1>1. DOMAIN Kinds = 1 .. 6
    BY DEF Kinds
<1>. QED BY <1>1 DEF Rank

LastOf(parsers, id) ==
    CHOOSE i \in DOMAIN parsers :
      /\ FilterId(parsers[i]) = id
      /\ \A j \in DOMAIN parsers : FilterId(parsers[j]) = id =>
           \/ Rank(parsers[j].kind) < Rank(parsers[i].kind)
           \/ parsers[j].kind = parsers[i].kind /\ j <= i

(* Of the pipelines with an id, one is collected last. *)
LEMMA OneIsLast ==
    ASSUME NEW ps, IsSequence(ps), \A i \in DOMAIN ps : \E k \in DOMAIN Kinds : ps[i].kind = Kinds[k],
           NEW id, \E i \in DOMAIN ps : FilterId(ps[i]) = id
    PROVE  LastOf(ps, id) \in DOMAIN ps /\ FilterId(ps[LastOf(ps, id)]) = id
<1> DEFINE J == {j \in DOMAIN ps : FilterId(ps[j]) = id}
           R == {Rank(ps[j].kind) : j \in J}
<1>1. Len(ps) \in Nat /\ DOMAIN ps = 1 .. Len(ps)
    BY LenZero
<1>2. \A j \in J : Rank(ps[j].kind) \in 1 .. 6 /\ Kinds[Rank(ps[j].kind)] = ps[j].kind
    BY RankFacts
<1>3. R \subseteq Nat /\ R # {} /\ \A x \in R : x <= 6
    BY <1>2
<1>4. PICK r \in R : \A y \in R : y <= r
    BY <1>3, GreatestOf
<1> DEFINE L == {j \in J : Rank(ps[j].kind) = r}
<1>5. L \subseteq Nat /\ L # {} /\ \A x \in L : x <= Len(ps)
    BY <1>1, <1>4
<1>6. PICK i \in L : \A j \in L : j <= i
    BY <1>1, <1>5, GreatestOf
<1>7. ASSUME NEW j \in DOMAIN ps, FilterId(ps[j]) = id
      PROVE  \/ Rank(ps[j].kind) < Rank(ps[i].kind)
             \/ ps[j].kind = ps[i].kind /\ j <= i
    <2>1. j \in J /\ i \in J /\ Rank(ps[j].kind) <= r /\ Rank(ps[i].kind) = r
        BY <1>4, <1>6, <1>7
    <2>2. Rank(ps[j].kind) \in Nat /\ r \in Nat
        BY <1>3, <2>1
    <2>3. CASE Rank(ps[j].kind) = r
        BY <1>2, <1>6, <2>1, <2>3
    <2>. QED BY <2>1, <2>2, <2>3
<1>8. i \in DOMAIN ps /\ FilterId(ps[i]) = id
    BY <1>6
<1>. QED BY <1>7, <1>8 DEF LastOf

LEMMA FiltersTyped ==
    ASSUME Registry, NEW owners, NEW f, f = FiltersOf(registered, owners)
    PROVE  DOMAIN f = {FilterId(registered[i]) : i \in DOMAIN registered} /\ DOMAIN f \subseteq FilterIds
<1>1. \A i \in DOMAIN registered : FilterId(registered[i]) \in FilterIds
    BY DEF Registry, FilterIds
<1>2. DOMAIN f = {FilterId(registered[i]) : i \in DOMAIN registered}
    BY DEF FiltersOf
<1>. QED BY <1>1, <1>2

(* PipelineSets::filters: an id's owners are those of the account pipeline *)
(* with that id, if no pipeline of a later kind has it.                    *)
LEMMA FiltersBuilt ==
    ASSUME Registry, ~Collision(registered),
           NEW f, f = FiltersOf(registered, [i \in DOMAIN registered |-> OwnersOf(registered[i])])
    PROVE  /\ \A i, j \in AccountPipelines : registered[i].id = registered[j].id => i = j
           /\ \A i \in AccountPipelines, a \in Accounts : Wants(f, registered[i].id, a) =>
                OwnerOf[a] \in OwnersOf(registered[i])
           /\ \A i \in AccountPipelines, a \in Accounts : Alone(i) /\ OwnerOf[a] \in OwnersOf(registered[i]) =>
                Wants(f, registered[i].id, a)
<1> DEFINE ids == {FilterId(registered[i]) : i \in DOMAIN registered}
           owners == [i \in DOMAIN registered |-> OwnersOf(registered[i])]
<1>1. f = [id \in ids |-> [owners |-> IF registered[LastOf(registered, id)].kind = "account"
                                      THEN owners[LastOf(registered, id)] ELSE {},
                           slot |-> registered[LastOf(registered, id)].kind = "slot"]]
    BY DEF FiltersOf, LastOf
<1>3. DOMAIN f = ids
    BY FiltersTyped
<1>4. \A id \in ids : /\ LastOf(registered, id) \in DOMAIN registered
                      /\ FilterId(registered[LastOf(registered, id)]) = id
    BY OneIsLast, PathAssumption DEF Registry
<1>5. \A i, j \in AccountPipelines : registered[i].id = registered[j].id => i = j
    BY DEF Collision, AccountPipelines
<1>6. \A i \in AccountPipelines : i \in DOMAIN registered /\ FilterId(registered[i]) = registered[i].id
    BY DEF AccountPipelines, FilterId
<1>7. ASSUME NEW i \in AccountPipelines, NEW a \in Accounts, Wants(f, registered[i].id, a)
      PROVE  OwnerOf[a] \in OwnersOf(registered[i])
    <2> DEFINE l == LastOf(registered, registered[i].id)
    <2>1. registered[i].id \in ids /\ OwnerOf[a] \in f[registered[i].id].owners
        BY <1>3, <1>7 DEF Wants
    <2>2. l \in DOMAIN registered /\ FilterId(registered[l]) = registered[i].id
        BY <1>4, <2>1
    <2>3. f[registered[i].id].owners = IF registered[l].kind = "account" THEN owners[l] ELSE {}
        BY <1>1, <2>1
    <2>4. registered[l].kind = "account" /\ OwnerOf[a] \in owners[l]
        BY <2>1, <2>3
    <2>5. l \in AccountPipelines /\ registered[l].id = registered[i].id
        BY <1>6, <2>2, <2>4 DEF AccountPipelines
    <2>6. l = i
        BY <1>5, <2>5
    <2>. QED BY <2>2, <2>4, <2>6
<1>8. ASSUME NEW i \in AccountPipelines, NEW a \in Accounts, Alone(i), OwnerOf[a] \in OwnersOf(registered[i])
      PROVE  Wants(f, registered[i].id, a)
    <2> DEFINE l == LastOf(registered, registered[i].id)
    <2>1. i \in DOMAIN registered /\ registered[i].kind = "account" /\ registered[i].id \in ids
        BY <1>6 DEF AccountPipelines
    <2>2. l \in DOMAIN registered /\ FilterId(registered[l]) = registered[i].id
        BY <1>4, <2>1
    <2>3. l = i
        BY <1>8, <2>2 DEF Alone
    <2>4. f[registered[i].id].owners = owners[i]
        BY <1>1, <2>1, <2>3
    <2>. QED BY <1>3, <1>8, <2>1, <2>4 DEF Wants
<1>. QED BY <1>5, <1>7, <1>8

(* get_pipelines finds the one account pipeline of an id. *)
LEMMA PipelineFacts ==
    ASSUME Registry, Prefiltered, Built, NEW id
    PROVE  /\ PipelineAt(registered, "account", id) # 0 =>
                /\ PipelineAt(registered, "account", id) \in AccountPipelines
                /\ registered[PipelineAt(registered, "account", id)].id = id
           /\ \A i \in AccountPipelines : registered[i].id = id =>
                PipelineAt(registered, "account", id) = i /\ i # 0
<1> DEFINE found == {i \in DOMAIN registered : registered[i].kind = "account" /\ registered[i].id = id}
<1>1. PipelineAt(registered, "account", id) =
        IF found = {} THEN 0 ELSE CHOOSE i \in found : \A j \in found : j <= i
    BY DEF PipelineAt
<1>2. DOMAIN registered \subseteq Nat \ {0}
    BY LenZero DEF Registry
<1>3. \A i, j \in found : i = j
    BY DEF Prefiltered, AccountPipelines
<1>4. \A i : i \in found <=> i \in AccountPipelines /\ registered[i].id = id
    BY DEF AccountPipelines
<1>5. found \subseteq Nat \ {0}
    BY <1>2
<1> HIDE DEF found
<1>6. ASSUME NEW i \in found PROVE PipelineAt(registered, "account", id) = i /\ i # 0
    <2>1. \A j \in found : j <= i
        BY <1>3, <1>5
    <2>. QED BY <1>1, <1>3, <1>5, <2>1
<1>7. ASSUME PipelineAt(registered, "account", id) # 0
      PROVE  PipelineAt(registered, "account", id) \in found
    BY <1>1, <1>6, <1>7
<1>. QED BY <1>4, <1>6, <1>7

(* The handlers of an update: one for each pipeline it is for. *)
LEMMA JobsFacts ==
    ASSUME Registry, Prefiltered, Built, NEW u
    PROVE  /\ \A job \in JobsOf(u) :
                /\ job.account = u.account /\ job.pipeline \in AccountPipelines
                /\ registered[job.pipeline].id \in u.filters
           /\ \A j, k \in JobsOf(u) : j.pipeline = k.pipeline => j = k
           /\ \A i \in AccountPipelines : registered[i].id \in u.filters =>
                \E job \in JobsOf(u) : job.account = u.account /\ job.pipeline = i
<1> DEFINE J(i) == [account |-> u.account, slot |-> u.slot, version |-> u.version, ids |-> u.filters,
                    pipeline |-> i]
           P == {PipelineAt(registered, "account", id) : id \in u.filters} \ {0}
<1>1. JobsOf(u) = {J(i) : i \in P}
    BY DEF JobsOf
<1>2. \A i : J(i).account = u.account /\ J(i).pipeline = i
    OBVIOUS
<1>3. \A i \in P : i \in AccountPipelines /\ registered[i].id \in u.filters
    BY PipelineFacts
<1>4. \A i \in AccountPipelines : registered[i].id \in u.filters => i \in P
    BY PipelineFacts
<1> HIDE DEF J, P
<1>5. \A job \in JobsOf(u) : \E i \in P : job = J(i)
    BY <1>1
<1>6. \A i \in P : J(i) \in JobsOf(u)
    BY <1>1
<1>. QED BY <1>2, <1>3, <1>4, <1>5, <1>6

-----------------------------------------------------------------------------
(* Steps at which nothing moves *)

LEMMA AtRestServes ==
    Registry /\ Prefiltered /\ AtRest /\ rxOpen /\ source \in {"rpc", "snapshot", "fumarole"} => Serving
<1>. SUFFICES ASSUME Registry, Prefiltered, AtRest, rxOpen, source \in {"rpc", "snapshot", "fumarole"}
              PROVE  Serving
    OBVIOUS
<1>1. /\ src = "connect" /\ tasks = <<>> /\ left = {} /\ sync = <<>> /\ held = None /\ chan = <<>>
      /\ jobs = {} /\ handled = <<>> /\ run = "running" /\ DOMAIN tasks = {} /\ Len(<<>>) = 0
    BY DEF AtRest
<1>2. Resting
    BY <1>1 DEF Resting, AtRest
<1>3. Flow
    <2>1. Len(sync) <= SyncSize
        BY <1>1, PathAssumption
    <2>2. held # Finished
        BY <1>1, PathAssumption
    <2>. QED BY <1>1, <2>1, <2>2 DEF Flow, RpcFlow, SnapshotFlow
<1>4. Rights
    BY <1>1, RightfulEmpty DEF Rights
<1>5. Once
    BY <1>1, InEmpty DEF Once, OnceOnly, OneOf, OnWay, Working, Done, Taken
<1>6. NoneMissing
    BY <1>1 DEF NoneMissing, Somewhere, OnWay, Unsent
<1>. QED BY <1>2, <1>3, <1>4, <1>5, <1>6 DEF Serving

LEMMA ServingInit == Init => Serving
<1>. SUFFICES ASSUME Init PROVE Serving
    OBVIOUS
<1>1. /\ AtRest /\ rxOpen /\ source \in {"rpc", "snapshot", "fumarole"} /\ server = "building"
      /\ filters = <<>> /\ (registered = <<>> \/ registered = <<Subscription, SlotPipeline>>)
    BY DEF Init, SourceInit, AtRest
<1>2. IsSequence(registered)
    <2>1. <<Subscription, SlotPipeline>> \in Seq(AllParsers)
        BY DEF AllParsers
    <2>. QED BY <1>1, <2>1, EmptyFacts DEF IsSequence
<1>3. \A i \in DOMAIN registered : registered[i] \in AllParsers
    BY <1>1 DEF AllParsers
<1>4. Registry /\ Prefiltered
    BY <1>1, <1>2, <1>3 DEF Registry, Prefiltered, Built
<1>. QED BY <1>1, <1>4, AtRestServes

LEMMA BuildingServes ==
    ASSUME Serving, Register \/ BuildAll
    PROVE  Serving'
<1>1. /\ server = "building" /\ UNCHANGED <<sourceVars, chan, rxOpen, jobs, handled, run>>
    BY DEF Register, BuildAll, Insert, Build
<1>2. AtRest /\ rxOpen /\ Registry /\ source \in {"rpc", "snapshot", "fumarole"}
    BY <1>1 DEF Serving, Resting, Built, NoneMissing, AtRest
<1>3. AtRest' /\ rxOpen' /\ source' \in {"rpc", "snapshot", "fumarole"}
    BY <1>1, <1>2 DEF AtRest, sourceVars
<1>4. Registry' /\ Prefiltered'
    <2>1. CASE Register
        <3>1. /\ UNCHANGED <<filters, server>>
              /\ UNCHANGED registered \/ \E p \in StreamParsers : registered' = Append(registered, p)
            BY <2>1 DEF Register, Insert
        <3>2. ASSUME NEW p \in StreamParsers, registered' = Append(registered, p)
              PROVE  IsSequence(registered') /\ \A i \in DOMAIN registered' : registered'[i] \in AllParsers
            <4>1. IsSequence(registered) /\ \A i \in DOMAIN registered : registered[i] \in AllParsers
                BY <1>2 DEF Registry
            <4>2. /\ IsSequence(registered') /\ Len(registered) \in Nat /\ Len(registered') = Len(registered) + 1
                  /\ registered'[Len(registered) + 1] = p
                  /\ \A i \in 1 .. Len(registered) : registered'[i] = registered[i]
                BY <3>2, <4>1, AppendFacts
            <4>3. DOMAIN registered = 1 .. Len(registered) /\ DOMAIN registered' = 1 .. Len(registered')
                BY <4>1, <4>2, LenZero
            <4>4. p \in AllParsers
                BY DEF AllParsers
            <4>. QED BY <4>1, <4>2, <4>3, <4>4
        <3>3. IsSequence(registered') /\ \A i \in DOMAIN registered' : registered'[i] \in AllParsers
            BY <1>2, <3>1, <3>2 DEF Registry
        <3>. QED BY <1>1, <1>2, <3>1, <3>3 DEF Registry, Prefiltered, Built
    <2>2. CASE BuildAll
        <3>1. /\ UNCHANGED registered
              /\ server' = IF buildErr # "none" \/ Collision(registered) THEN "rejected" ELSE "up"
              /\ filters' = FiltersOf(registered, [i \in DOMAIN registered |-> OwnersOf(registered[i])])
            BY <2>2 DEF BuildAll, Build
        <3>2. DOMAIN filters' \subseteq FilterIds
            BY <1>2, <3>1, FiltersTyped
        <3>3. Registry'
            BY <1>2, <3>1, <3>2 DEF Registry
        <3>4. AccountPipelines' = AccountPipelines /\ \A i : Alone(i)' <=> Alone(i)
            BY <3>1 DEF AccountPipelines, Alone
        <3>5. CASE Collision(registered)
            BY <3>1, <3>3, <3>5 DEF Prefiltered, Built
        <3>6. CASE ~Collision(registered)
            BY <1>2, <3>1, <3>3, <3>4, <3>6, FiltersBuilt DEF Prefiltered
        <3>. QED BY <3>5, <3>6
    <2>. QED BY <2>1, <2>2
<1>5. (Registry /\ Prefiltered /\ AtRest /\ rxOpen /\ source \in {"rpc", "snapshot", "fumarole"} => Serving)'
    BY AtRestServes, PTL
<1>. QED BY <1>3, <1>4, <1>5

(* What Serving speaks of, but for the server. *)
pathVars == <<sourceVars, filters, chan, rxOpen, registered, jobs, handled, run>>

LEMMA RestServes ==
    ASSUME Serving, UNCHANGED pathVars, server' = server \/ (server = "stopping" /\ server' = "stopped")
    PROVE  Serving'
<1> USE DEF pathVars, sourceVars
<1>1. (Built' <=> Built) /\ Registry'
    BY DEF Serving, Registry, Built
<1>2. /\ AccountPipelines' = AccountPipelines /\ Offered' = Offered
      /\ \A i : Alone(i)' <=> Alone(i)
    BY DEF AccountPipelines, Offered, Alone
<1>3. Prefiltered'
    BY <1>1, <1>2 DEF Serving, Prefiltered
<1>4. Resting' /\ Flow'
    BY <1>1 DEF Serving, Resting, AtRest, Flow, RpcFlow, SnapshotFlow, TaskKept
<1>5. Rights'
    BY <1>2 DEF Serving, Rights, RightfulJob
<1>6. /\ \A a, i, id : OnceOnly(a, i, id)' <=> OnceOnly(a, i, id)
      /\ \A a, i, id : Somewhere(a, i, id)' <=> Somewhere(a, i, id)
      /\ Failed' <=> Failed
    BY DEF OnceOnly, OneOf, OnWay, Somewhere, Unsent, Taken, Working, Done, Failed
<1>7. Once' /\ NoneMissing'
    BY <1>1, <1>2, <1>6 DEF Serving, Once, NoneMissing
<1>. QED BY <1>1, <1>3, <1>4, <1>5, <1>7 DEF Serving

-----------------------------------------------------------------------------
(* Steps of a source *)

(* One task of solana-rpc-source changes, and keeps what it is for. *)
LEMMA TaskChanges ==
    ASSUME \A v \in DOMAIN tasks : TaskKept(v, tasks[v], filters), NEW t \in DOMAIN tasks,
           RpcFetch(t) \/ RpcSend(t), UNCHANGED filters
    PROVE  /\ DOMAIN tasks' = DOMAIN tasks /\ \A v \in DOMAIN tasks \ {t} : tasks'[v] = tasks[v]
           /\ \A v \in DOMAIN tasks' : TaskKept(v, tasks'[v], filters')
           /\ \/ tasks'[t].pc = "failed" /\ UNCHANGED chan
              \/ /\ tasks[t].pc = "fetch" /\ tasks'[t].pc = "send" /\ UNCHANGED chan
                 /\ tasks'[t].todo = {a \in Accounts : OwnerOf[a] = t[2]}
              \/ /\ tasks[t].pc = "send" /\ tasks[t].todo = {} /\ tasks'[t].pc = "ok" /\ UNCHANGED chan
              \/ /\ tasks[t].pc = "send" /\ tasks'[t].pc = "send"
                 /\ \E b \in tasks[t].todo :
                      /\ Send(AccountUpdate(b, tasks[t].slot, 0, {t[1]}))
                      /\ tasks'[t].todo = tasks[t].todo \ {b}
<1> DEFINE r == tasks[t]
           all == {a \in Accounts : OwnerOf[a] = t[2]}
<1>1. TaskKept(t, r, filters)
    OBVIOUS
<1>2. DOMAIN r = {"pc", "slot", "todo"} /\ r.pc \in {"fetch", "send", "ok", "failed"} /\ r.todo \subseteq all
    BY <1>1 DEF TaskKept
<1>3. ASSUME NEW s, tasks' = [tasks EXCEPT ![t] = s], DOMAIN s = {"pc", "slot", "todo"},
             s.pc \in {"fetch", "send", "ok", "failed"}, s.todo \subseteq all
      PROVE  /\ DOMAIN tasks' = DOMAIN tasks /\ \A v \in DOMAIN tasks \ {t} : tasks'[v] = tasks[v]
             /\ \A v \in DOMAIN tasks' : TaskKept(v, tasks'[v], filters')
             /\ tasks'[t] = s
    <2>1. DOMAIN tasks' = DOMAIN tasks /\ tasks'[t] = s /\ \A v \in DOMAIN tasks \ {t} : tasks'[v] = tasks[v]
        BY <1>3
    <2>2. ASSUME NEW v \in DOMAIN tasks PROVE TaskKept(v, tasks'[v], filters')
        <3>1. CASE v # t
            BY <2>1, <3>1 DEF TaskKept
        <3>2. CASE v = t
            BY <1>1, <1>3, <2>1, <3>2 DEF TaskKept
        <3>. QED BY <3>1, <3>2
    <2>. QED BY <2>1, <2>2
<1>4. ASSUME NEW pc \in {"ok", "failed"}, tasks' = [tasks EXCEPT ![t].pc = pc]
      PROVE  /\ DOMAIN tasks' = DOMAIN tasks /\ \A v \in DOMAIN tasks \ {t} : tasks'[v] = tasks[v]
             /\ \A v \in DOMAIN tasks' : TaskKept(v, tasks'[v], filters')
             /\ tasks'[t].pc = pc
    <2> DEFINE s == [r EXCEPT !.pc = pc]
    <2>1. /\ tasks' = [tasks EXCEPT ![t] = s] /\ DOMAIN s = {"pc", "slot", "todo"} /\ s.pc = pc
          /\ s.todo = r.todo
        BY <1>2, <1>4
    <2> HIDE DEF s, r, all
    <2>. QED BY <1>2, <1>3, <2>1
<1>5. CASE RpcFetch(t)
    <2>1. UNCHANGED chan /\ r.pc = "fetch"
        BY <1>5 DEF RpcFetch
    <2>2. CASE tasks' = [tasks EXCEPT ![t].pc = "failed"]
        BY <1>4, <2>1, <2>2
    <2>3. ASSUME NEW slot, tasks' = [tasks EXCEPT ![t] = [pc |-> "send", slot |-> slot, todo |-> all]]
          PROVE  /\ DOMAIN tasks' = DOMAIN tasks /\ \A v \in DOMAIN tasks \ {t} : tasks'[v] = tasks[v]
                 /\ \A v \in DOMAIN tasks' : TaskKept(v, tasks'[v], filters')
                 /\ tasks'[t].pc = "send" /\ tasks'[t].todo = all
        <3> DEFINE s == [pc |-> "send", slot |-> slot, todo |-> all]
        <3>1. /\ tasks' = [tasks EXCEPT ![t] = s] /\ DOMAIN s = {"pc", "slot", "todo"} /\ s.pc = "send"
              /\ s.todo = all
            BY <2>3
        <3> HIDE DEF s, all
        <3>. QED BY <1>3, <3>1
    <2>4. \/ tasks' = [tasks EXCEPT ![t].pc = "failed"]
          \/ \E slot \in 1 .. bounds.slots :
               tasks' = [tasks EXCEPT ![t] = [pc |-> "send", slot |-> slot, todo |-> all]]
        BY <1>5 DEF RpcFetch
    <2> HIDE DEF r
    <2>. QED BY <2>1, <2>2, <2>3, <2>4 DEF r
<1>6. CASE RpcSend(t)
    <2>1. r.pc = "send"
        BY <1>6 DEF RpcSend
    <2>2. CASE UNCHANGED chan /\ tasks' = [tasks EXCEPT ![t].pc = "failed"]
        BY <1>4, <2>2
    <2>3. CASE UNCHANGED chan /\ r.todo = {} /\ tasks' = [tasks EXCEPT ![t].pc = "ok"]
        BY <1>4, <2>1, <2>3
    <2>4. ASSUME NEW b \in r.todo, tasks' = [tasks EXCEPT ![t].todo = @ \ {b}]
          PROVE  /\ DOMAIN tasks' = DOMAIN tasks /\ \A v \in DOMAIN tasks \ {t} : tasks'[v] = tasks[v]
                 /\ \A v \in DOMAIN tasks' : TaskKept(v, tasks'[v], filters')
                 /\ tasks'[t].pc = "send" /\ tasks'[t].todo = r.todo \ {b}
        <3> DEFINE s == [r EXCEPT !.todo = @ \ {b}]
        <3>1. /\ tasks' = [tasks EXCEPT ![t] = s] /\ DOMAIN s = {"pc", "slot", "todo"} /\ s.pc = "send"
              /\ s.todo = r.todo \ {b}
            BY <1>2, <2>1, <2>4
        <3> HIDE DEF s, r, all
        <3>. QED BY <1>2, <1>3, <3>1
    <2>5. \/ UNCHANGED chan /\ tasks' = [tasks EXCEPT ![t].pc = "failed"]
          \/ UNCHANGED chan /\ r.todo = {} /\ tasks' = [tasks EXCEPT ![t].pc = "ok"]
          \/ \E b \in r.todo : /\ Send(AccountUpdate(b, r.slot, 0, {t[1]}))
                               /\ tasks' = [tasks EXCEPT ![t].todo = @ \ {b}]
        BY <1>6 DEF RpcSend
    <2>. QED BY <2>1, <2>2, <2>3, <2>4, <2>5
<1>. QED BY <1>5, <1>6

(* Where the source stands after its step. *)
LEMMA RpcKeepsFlow ==
    ASSUME Serving, source = "rpc", UNCHANGED filters,
           RpcConnect \/ RpcJoin \/ (\E t \in DOMAIN tasks : RpcFetch(t) \/ RpcSend(t))
    PROVE  Flow' /\ src' # "connect" /\ source' = source
<1>1. /\ UNCHANGED <<source, sync, held>> /\ sync = <<>> /\ held = None /\ Len(sync) <= SyncSize
      /\ \A t \in DOMAIN tasks : TaskKept(t, tasks[t], filters)
    BY DEF Serving, Flow, RpcFlow, RpcConnect, RpcJoin, RpcFetch, RpcSend
<1>2. SUFFICES /\ src' \in {"running", "completed", "error"}
               /\ \A t \in DOMAIN tasks' : TaskKept(t, tasks'[t], filters')
               /\ src' = "completed" => \A t \in DOMAIN tasks' : tasks'[t].pc = "ok"
    BY <1>1 DEF Flow, RpcFlow, SnapshotFlow
<1>3. CASE RpcConnect
    <2>1. src' = "running" /\ tasks' = [t \in TaskIds |-> [pc |-> "fetch", slot |-> 0, todo |-> {}]]
        BY <1>3 DEF RpcConnect
    <2>2. \A t \in TaskIds : t = <<t[1], t[2]>> /\ t[1] \in DOMAIN filters /\ t[2] \in filters[t[1]].owners
        BY DEF TaskIds
    <2>3. \A t \in DOMAIN tasks' : TaskKept(t, tasks'[t], filters')
        BY <2>1, <2>2 DEF TaskKept
    <2>. QED BY <2>1, <2>3
<1>4. CASE RpcJoin
    <2>1. /\ UNCHANGED tasks /\ src' = RpcResult
          /\ \A t \in DOMAIN tasks : tasks[t].pc \in {"ok", "failed"}
        BY <1>4 DEF RpcJoin
    <2>. QED BY <1>1, <2>1 DEF RpcResult, TaskKept
<1>5. CASE \E t \in DOMAIN tasks : RpcFetch(t) \/ RpcSend(t)
    <2>1. src' = "running"
        BY <1>5 DEF RpcFetch, RpcSend
    <2>. QED BY <1>1, <1>5, <2>1, TaskChanges
<1>. QED BY <1>3, <1>4, <1>5

(* The updates a scan hands over are not None. *)
LEMMA UpdateIsNotNone ==
    ASSUME Registry, NEW b \in Accounts
    PROVE  AccountUpdate(b, 1, 0, LookupByOwner(OwnerOf[b])) # None
<1>1. LookupByOwner(OwnerOf[b]) \in SUBSET FilterIds
    BY DEF LookupByOwner, Registry
<1>2. AccountUpdate(b, 1, 0, LookupByOwner(OwnerOf[b]))
        \in [account : Accounts, slot : Nat, version : Nat, filters : SUBSET FilterIds]
    BY <1>1 DEF AccountUpdate
<1>. QED BY <1>2, PathAssumption DEF FilterIds

LEMMA SnapshotKeepsFlow ==
    ASSUME Serving, Slots, source = "snapshot", UNCHANGED filters,
           SnapshotLoad \/ SnapshotSlot \/ SnapshotScan \/ SenderTakes \/ SenderSends \/ SnapshotReturns
    PROVE  Flow' /\ src' # "connect" /\ source' = source
<1>1. /\ UNCHANGED <<source, tasks>> /\ tasks = <<>> /\ Len(sync) <= SyncSize
      /\ src \in {"connect", "slot", "scan", "finishing", "failing", "completed", "error"}
      /\ src \in {"connect", "slot"} => left = {} /\ sync = <<>> /\ held = None
      /\ left \subseteq Loadable
      /\ src \in {"finishing", "completed"} => left = {}
      /\ \A k \in 1 .. Len(sync) : sync[k] = Finished => k = Len(sync) /\ src \in {"finishing", "completed"}
      /\ \A k \in 1 .. Len(sync) : sync[k] # None
      /\ held = Finished => sync = <<>> /\ src \in {"finishing", "completed"}
      /\ src = "completed" => held = Finished
    BY DEF Serving, Flow, SnapshotFlow, SnapshotLoad, SnapshotSlot, SnapshotScan, SenderTakes,
           SenderSends, SnapshotReturns
<1>2. IsSequence(sync) /\ Len(<<>>) = 0 /\ Len(sync) \in Nat /\ SyncSize \in Nat /\ None # Finished
    BY LenZero, PathAssumption DEF Slots, AllSlotted
<1>3. SUFFICES /\ Len(sync') <= SyncSize
               /\ src' \in {"slot", "scan", "finishing", "failing", "completed", "error"}
               /\ src' = "slot" => left' = {} /\ sync' = <<>> /\ held' = None
               /\ left' \subseteq Loadable
               /\ src' \in {"finishing", "completed"} => left' = {}
               /\ \A k \in 1 .. Len(sync') :
                    sync'[k] = Finished => k = Len(sync') /\ src' \in {"finishing", "completed"}
               /\ \A k \in 1 .. Len(sync') : sync'[k] # None
               /\ held' = Finished => sync' = <<>> /\ src' \in {"finishing", "completed"}
               /\ src' = "completed" => held' = Finished
    BY <1>1 DEF Flow, RpcFlow, SnapshotFlow
<1>4. CASE SnapshotLoad
    <2>1. src = "connect" /\ src' \in {"slot", "error"} /\ UNCHANGED <<left, sync, held>>
        BY <1>4 DEF SnapshotLoad
    <2>. QED BY <1>1, <1>2, <2>1
<1>5. CASE SnapshotSlot
    <2>1. /\ src = "slot" /\ src' \in {"scan", "error"} /\ UNCHANGED <<sync, held>>
          /\ left' \subseteq Loadable
        BY <1>5 DEF SnapshotSlot
    <2>. QED BY <1>1, <1>2, <2>1
<1>6. CASE SnapshotScan
    <2>1. src = "scan" /\ held # Finished /\ UNCHANGED held
        BY <1>1, <1>6 DEF SnapshotScan
    <2>2. ASSUME NEW u, sync' = Append(sync, u), u # None, Len(sync) < SyncSize,
                 u = Finished => src' = "finishing"
          PROVE  /\ Len(sync') <= SyncSize
                 /\ \A k \in 1 .. Len(sync') :
                      sync'[k] = Finished => k = Len(sync') /\ src' \in {"finishing", "completed"}
                 /\ \A k \in 1 .. Len(sync') : sync'[k] # None
        <3>1. /\ Len(sync') = Len(sync) + 1 /\ sync'[Len(sync) + 1] = u
              /\ \A k \in 1 .. Len(sync) : sync'[k] = sync[k]
            BY <1>2, <2>2, AppendFacts
        <3>2. \A k \in 1 .. Len(sync) : sync'[k] # Finished /\ sync'[k] # None
            BY <1>1, <2>1, <3>1
        <3>3. 1 .. Len(sync') = (1 .. Len(sync)) \cup {Len(sync) + 1}
            BY <1>2, <3>1
        <3>. QED BY <1>2, <2>2, <3>1, <3>2, <3>3
    <2>3. CASE \E b \in left : /\ Len(sync) < SyncSize
                               /\ sync' = Append(sync, AccountUpdate(b, 1, 0, LookupByOwner(OwnerOf[b])))
                               /\ left' = left \ {b} /\ UNCHANGED src
        <3>1. PICK b \in left : /\ Len(sync) < SyncSize
                                /\ sync' = Append(sync, AccountUpdate(b, 1, 0, LookupByOwner(OwnerOf[b])))
                                /\ left' = left \ {b} /\ UNCHANGED src
            BY <2>3
        <3> DEFINE u == AccountUpdate(b, 1, 0, LookupByOwner(OwnerOf[b]))
        <3>2. b \in Accounts
            BY <1>1, PathAssumption
        <3>3. u # None /\ u.account = b
            BY <3>2, UpdateIsNotNone DEF Serving, AccountUpdate
        <3>4. u # Finished
            BY <3>2, <3>3, PathAssumption DEF Finished
        <3> HIDE DEF u
        <3>. QED BY <1>1, <2>1, <2>2, <3>1, <3>3, <3>4 DEF u
    <2>4. CASE /\ left = {} /\ Len(sync) < SyncSize
               /\ sync' = Append(sync, Finished) /\ src' = "finishing" /\ UNCHANGED left
        BY <1>1, <1>2, <2>1, <2>2, <2>4
    <2>5. CASE src' = "failing" /\ UNCHANGED <<sync, left>>
        BY <1>1, <2>1, <2>5
    <2>. QED BY <1>6, <2>3, <2>4, <2>5 DEF SnapshotScan
<1>7. CASE SenderTakes
    <2>1. held = None /\ sync # <<>> /\ held' = Head(sync) /\ sync' = Tail(sync) /\ UNCHANGED <<src, left>>
        BY <1>7 DEF SenderTakes
    <2>2. /\ Len(sync) \in Nat \ {0} /\ Head(sync) = sync[1] /\ Len(sync') = Len(sync) - 1
          /\ IsSequence(sync') /\ \A k \in 1 .. Len(sync) - 1 : sync'[k] = sync[k + 1]
        BY <1>2, <2>1, TailFacts
    <2>3. 1 \in 1 .. Len(sync) /\ \A k \in 1 .. Len(sync) - 1 : k + 1 \in 1 .. Len(sync)
        BY <2>2
    <2>4. held' = Finished => sync' = <<>> /\ src \in {"finishing", "completed"}
        <3>1. held' = Finished => Len(sync) = 1 /\ src \in {"finishing", "completed"}
            BY <1>1, <2>1, <2>2, <2>3
        <3>2. Len(sync') = 0 => sync' = <<>>
            BY <2>2, LenZero
        <3>. QED BY <2>2, <3>1, <3>2
    <2>5. \A k \in 1 .. Len(sync') :
            sync'[k] # None /\ (sync'[k] = Finished => k = Len(sync') /\ src \in {"finishing", "completed"})
        BY <1>1, <2>2, <2>3
    <2>6. src \notin {"connect", "slot", "completed"}
        BY <1>1, <1>2, <2>1
    <2>7. Len(sync') <= SyncSize
        BY <1>1, <1>2, <2>2
    <2>. QED BY <1>1, <2>1, <2>4, <2>5, <2>6, <2>7
<1>8. CASE SenderSends
    <2>1. held \notin {None, Finished} /\ held' = None /\ UNCHANGED <<src, left, sync>>
        BY <1>8 DEF SenderSends
    <2>. QED BY <1>1, <1>2, <2>1
<1>9. CASE SnapshotReturns
    <2>1. /\ UNCHANGED <<left, sync, held>>
          /\ \/ src = "finishing" /\ held = Finished /\ src' = "completed"
             \/ src = "failing" /\ held = None /\ sync = <<>> /\ src' = "error"
        BY <1>9 DEF SnapshotReturns
    <2>. QED BY <1>1, <1>2, <2>1
<1>. QED BY <1>4, <1>5, <1>6, <1>7, <1>8, <1>9

LEMMA SourceKeepsFlow ==
    ASSUME Serving, Slots, UNCHANGED filters, SourceStep
    PROVE  Flow' /\ src' # "connect" /\ source' = source
<1>1. source \in {"rpc", "snapshot", "fumarole"} /\ Flow
    BY DEF Serving, Resting
<1>2. DOMAIN <<>> = {}
    OBVIOUS
<1>3. CASE source = "rpc"
    <2>1. held = None /\ sync = <<>>
        BY <1>1, <1>3 DEF Flow, RpcFlow
    <2>2. RpcConnect \/ RpcJoin \/ (\E t \in DOMAIN tasks : RpcFetch(t) \/ RpcSend(t))
        BY <1>3 DEF SourceStep, SnapshotLoad, SnapshotSlot, SnapshotScan, SenderTakes,
           SenderSends, SnapshotReturns, FumaroleConnect, FumaroleForward, FumaroleEnds
    <2>. QED BY <1>3, <2>2, RpcKeepsFlow
<1>4. CASE source = "snapshot"
    <2>1. DOMAIN tasks = {}
        BY <1>1, <1>2, <1>4 DEF Flow
    <2>2. SnapshotLoad \/ SnapshotSlot \/ SnapshotScan \/ SenderTakes \/ SenderSends \/ SnapshotReturns
        BY <1>4, <2>1 DEF SourceStep, RpcConnect, RpcJoin, FumaroleConnect, FumaroleForward, FumaroleEnds
    <2>. QED BY <1>4, <2>2, SnapshotKeepsFlow
<1>5. CASE source = "fumarole"
    <2>1. DOMAIN tasks = {} /\ tasks = <<>> /\ sync = <<>> /\ held = None /\ Len(sync) <= SyncSize
        BY <1>1, <1>2, <1>5 DEF Flow
    <2>2. FumaroleConnect \/ FumaroleForward \/ FumaroleEnds
        BY <1>5, <2>1 DEF SourceStep, RpcConnect, RpcJoin, SnapshotLoad, SnapshotSlot, SnapshotScan,
           SenderTakes, SenderSends, SnapshotReturns
    <2>3. /\ UNCHANGED <<source, tasks, sync, held>>
          /\ src' \in {"running", "error", "stream_ended", "receiver_dropped"}
        BY <2>2 DEF FumaroleConnect, FumaroleForward, FumaroleEnds
    <2>. QED BY <1>5, <2>1, <2>3 DEF Flow, RpcFlow, SnapshotFlow
<1>. QED BY <1>1, <1>3, <1>4, <1>5

(* What a task of solana-rpc-source, or a scan, sends. *)
LEMMA RpcSendsRightful ==
    ASSUME Flow, source = "rpc", NEW t \in DOMAIN tasks, NEW b \in tasks[t].todo, NEW slot
    PROVE  Rightful(AccountUpdate(b, slot, 0, {t[1]}), filters, Offered)
<1>1. TaskKept(t, tasks[t], filters)
    BY DEF Flow, RpcFlow
<1>2. b \in Accounts /\ OwnerOf[b] = t[2] /\ t[1] \in DOMAIN filters /\ t[2] \in filters[t[1]].owners
    BY <1>1 DEF TaskKept
<1>. QED BY <1>2 DEF Rightful, AccountUpdate, Offered, Wants

LEMMA ScanSendsRightful ==
    ASSUME Flow, source = "snapshot", NEW b \in left
    PROVE  Rightful(AccountUpdate(b, 1, 0, LookupByOwner(OwnerOf[b])), filters, Offered)
<1>1. b \in Loadable
    BY DEF Flow, SnapshotFlow
<1>. QED BY <1>1 DEF Rightful, AccountUpdate, Offered, Wants, LookupByOwner

LEMMA OtherRightful ==
    ASSUME NEW f, NEW o
    PROVE  Rightful(Finished, f, o) /\ \A ids : Rightful(SlotUpdate(1, ids), f, o)
BY DEF Rightful, Finished, SlotUpdate

LEMMA SourceKeepsRights ==
    ASSUME Serving, Slots, UNCHANGED filters, SourceStep, source # "fumarole"
    PROVE  /\ AllRightful(sync', filters, Offered) /\ AllRightful(chan', filters, Offered)
           /\ held' # None => Rightful(held', filters, Offered)
<1>1. /\ AllRightful(sync, filters, Offered) /\ AllRightful(chan, filters, Offered)
      /\ held # None => Rightful(held, filters, Offered)
    BY DEF Serving, Rights
<1>2. IsSequence(sync) /\ IsSequence(chan) /\ Flow
    BY DEF Serving, Slots, AllSlotted
<1>3. \A u : Rightful(u, filters, Offered) /\ Send(u) => AllRightful(chan', filters, Offered)
    BY <1>1, <1>2, RightfulAppend DEF Send
<1>4. CASE UNCHANGED <<sync, held, chan>>
    BY <1>1, <1>4
<1>5. CASE RpcConnect \/ RpcJoin \/ SnapshotLoad \/ SnapshotReturns
    BY <1>4, <1>5 DEF RpcConnect, RpcJoin, SnapshotLoad, SnapshotReturns
<1>6. ASSUME NEW t \in DOMAIN tasks, RpcFetch(t) \/ RpcSend(t)
      PROVE  /\ AllRightful(sync', filters, Offered) /\ AllRightful(chan', filters, Offered)
             /\ held' # None => Rightful(held', filters, Offered)
    <2>1. source = "rpc"
        <3>1. DOMAIN <<>> = {}
            OBVIOUS
        <3>. QED BY <1>2, <3>1 DEF Serving, Resting, Flow
    <2>2. /\ UNCHANGED <<sync, held>>
          /\ UNCHANGED chan \/ \E b \in tasks[t].todo : Send(AccountUpdate(b, tasks[t].slot, 0, {t[1]}))
        BY <1>6 DEF RpcFetch, RpcSend
    <2>3. AllRightful(chan', filters, Offered)
        BY <1>1, <1>2, <1>3, <2>1, <2>2, RpcSendsRightful
    <2>. QED BY <1>1, <2>2, <2>3
<1>7. CASE SnapshotSlot
    <2>1. /\ UNCHANGED <<sync, held>>
          /\ UNCHANGED chan \/ \E ids : Send(SlotUpdate(1, ids))
        BY <1>7 DEF SnapshotSlot
    <2>2. AllRightful(chan', filters, Offered)
        BY <1>1, <1>3, <2>1, OtherRightful
    <2>. QED BY <1>1, <2>1, <2>2
<1>8. CASE SnapshotScan
    <2>1. /\ UNCHANGED <<held, chan>> /\ source = "snapshot"
          /\ \/ UNCHANGED sync \/ sync' = Append(sync, Finished)
             \/ \E b \in left : sync' = Append(sync, AccountUpdate(b, 1, 0, LookupByOwner(OwnerOf[b])))
        BY <1>8 DEF SnapshotScan
    <2>2. AllRightful(sync', filters, Offered)
        BY <1>1, <1>2, <2>1, RightfulAppend, OtherRightful, ScanSendsRightful
    <2>. QED BY <1>1, <2>1, <2>2
<1>9. CASE SenderTakes
    <2>1. UNCHANGED chan /\ sync # <<>> /\ held' = Head(sync) /\ sync' = Tail(sync)
        BY <1>9 DEF SenderTakes
    <2>2. AllRightful(sync', filters, Offered) /\ Rightful(held', filters, Offered)
        BY <1>1, <1>2, <2>1, RightfulTail
    <2>. QED BY <1>1, <2>1, <2>2
<1>10. CASE SenderSends
    <2>1. UNCHANGED sync /\ held' = None /\ held # None /\ (Send(held) \/ UNCHANGED chan)
        BY <1>10 DEF SenderSends
    <2>2. AllRightful(chan', filters, Offered)
        BY <1>1, <1>3, <2>1
    <2>. QED BY <1>1, <2>1, <2>2
<1>. QED BY <1>5, <1>6, <1>7, <1>8, <1>9, <1>10
         DEF SourceStep, FumaroleConnect, FumaroleForward, FumaroleEnds

LEMMA SourceStaysFailed ==
    ASSUME Serving, SourceStep, source # "fumarole", UNCHANGED filters, Failed
    PROVE  Failed'
<1>1. DOMAIN <<>> = {} /\ Flow /\ source \in {"rpc", "snapshot"}
    BY DEF Serving, Resting
<1>2. UNCHANGED source
    BY DEF SourceStep, RpcConnect, RpcJoin, RpcFetch, RpcSend, SnapshotLoad, SnapshotSlot,
           SnapshotScan, SenderTakes, SenderSends, SnapshotReturns, FumaroleConnect,
           FumaroleForward, FumaroleEnds
<1>3. CASE source = "rpc"
    <2>1. ASSUME NEW t \in DOMAIN tasks, RpcFetch(t) \/ RpcSend(t) PROVE Failed'
        <3>1. /\ DOMAIN tasks' = DOMAIN tasks /\ \A v \in DOMAIN tasks \ {t} : tasks'[v] = tasks[v]
            BY <1>1, <1>3, <2>1, TaskChanges DEF Flow, RpcFlow
        <3>2. tasks[t].pc # "failed" /\ src = "running"
            BY <2>1 DEF RpcFetch, RpcSend
        <3>3. PICK v \in DOMAIN tasks : tasks[v].pc = "failed"
            BY <1>3, <3>2 DEF Failed
        <3>. QED BY <1>2, <1>3, <3>1, <3>2, <3>3 DEF Failed
    <2>2. CASE RpcConnect
        BY <1>1, <1>3, <2>2 DEF RpcConnect, Failed, Serving, Resting
    <2>3. CASE RpcJoin
        <3>1. UNCHANGED tasks /\ src = "running"
            BY <2>3 DEF RpcJoin
        <3>. QED BY <1>2, <1>3, <3>1 DEF Failed
    <2>4. sync = <<>> /\ held = None
        BY <1>1, <1>3 DEF Flow, RpcFlow
    <2>. QED BY <1>3, <2>1, <2>2, <2>3, <2>4 DEF SourceStep, SnapshotLoad, SnapshotSlot, SnapshotScan,
                SenderTakes, SenderSends, SnapshotReturns, FumaroleConnect, FumaroleForward, FumaroleEnds
<1>4. CASE source = "snapshot"
    <2>1. DOMAIN tasks = {} /\ src \in {"failing", "error"}
        BY <1>1, <1>4 DEF Flow, Failed
    <2>2. src' \in {"failing", "error"}
        BY <1>4, <2>1 DEF SourceStep, RpcConnect, RpcJoin, SnapshotLoad, SnapshotSlot, SnapshotScan,
           SenderTakes, SenderSends, SnapshotReturns, FumaroleConnect, FumaroleForward, FumaroleEnds
    <2>. QED BY <1>2, <1>4, <2>2 DEF Failed
<1>. QED BY <1>1, <1>3, <1>4

(* A step of the source leaves an account in one place, takes it up only   *)
(* from the source itself, and drops it only when it fails or the receiver *)
(* is gone.                                                                *)
MovesOn(a, id) ==
    /\ OneOf(a, id)'
    /\ OnWay(a, id)' => OnWay(a, id)
    /\ OnWay(a, id) /\ Wants(filters, id, a) /\ a \in Offered /\ rxOpen => OnWay(a, id)' \/ Failed'

LEMMA RpcMoves ==
    ASSUME Serving, Slots, source = "rpc", UNCHANGED filters, NEW a \in Accounts, NEW id, OneOf(a, id),
           RpcConnect \/ RpcJoin \/ (\E t \in DOMAIN tasks : RpcFetch(t) \/ RpcSend(t))
    PROVE  MovesOn(a, id)
<1> DEFINE t0 == <<id, OwnerOf[a]>>
           Left(ts) == t0 \in DOMAIN ts /\ (ts[t0].pc = "fetch" \/ (ts[t0].pc = "send" /\ a \in ts[t0].todo))
           C == In(chan, a, id)
<1>1. /\ UNCHANGED <<source, sync, held>> /\ sync = <<>> /\ held = None /\ IsSequence(chan)
      /\ \A t \in DOMAIN tasks : TaskKept(t, tasks[t], filters)
    BY DEF Serving, Slots, AllSlotted, Flow, RpcFlow, RpcConnect, RpcJoin, RpcFetch, RpcSend
<1>2. /\ Unsent(a, id) <=> src = "connect" \/ Left(tasks)
      /\ Unsent(a, id)' <=> src' = "connect" \/ Left(tasks')
    BY <1>1 DEF Unsent
<1>3. /\ ~In(sync, a, id) /\ ~In(sync', a, id) /\ ~Taken(a, id) /\ ~Taken(a, id)'
      /\ AtMostOnce(sync', a, id)
    BY <1>1, InEmpty DEF Taken
<1>4. /\ OnWay(a, id) <=> Unsent(a, id) \/ C
      /\ OnWay(a, id)' <=> Unsent(a, id)' \/ In(chan', a, id)
    BY <1>3 DEF OnWay
<1>5. AtMostOnce(chan, a, id) /\ (Unsent(a, id) => ~C)
    BY DEF OneOf
<1>6. SUFFICES /\ AtMostOnce(chan', a, id) /\ (Unsent(a, id)' => ~In(chan', a, id))
               /\ Unsent(a, id)' \/ In(chan', a, id) => Unsent(a, id) \/ C
               /\ (Unsent(a, id) \/ C) /\ Wants(filters, id, a) =>
                    Unsent(a, id)' \/ In(chan', a, id) \/ Failed'
    BY <1>3, <1>4 DEF MovesOn, OneOf
<1> HIDE DEF Left
<1>7. CASE RpcConnect
    <2>1. /\ UNCHANGED chan /\ src = "connect" /\ src' = "running"
          /\ tasks' = [t \in TaskIds |-> [pc |-> "fetch", slot |-> 0, todo |-> {}]]
        BY <1>7 DEF RpcConnect
    <2>2. Wants(filters, id, a) => t0 \in TaskIds
        BY DEF Wants, TaskIds
    <2>3. Wants(filters, id, a) => Left(tasks')
        BY <2>1, <2>2 DEF Left
    <2>. QED BY <1>2, <1>5, <2>1, <2>3
<1>8. CASE RpcJoin
    <2>1. UNCHANGED <<chan, tasks>> /\ src = "running" /\ src' # "connect"
        BY <1>8 DEF RpcJoin, RpcResult
    <2>2. Left(tasks') <=> Left(tasks)
        BY <2>1 DEF Left
    <2>. QED BY <1>2, <1>5, <2>1, <2>2
<1>9. ASSUME NEW t \in DOMAIN tasks, RpcFetch(t) \/ RpcSend(t)
      PROVE  /\ AtMostOnce(chan', a, id) /\ (Unsent(a, id)' => ~In(chan', a, id))
             /\ Unsent(a, id)' \/ In(chan', a, id) => Unsent(a, id) \/ C
             /\ (Unsent(a, id) \/ C) /\ Wants(filters, id, a) =>
                  Unsent(a, id)' \/ In(chan', a, id) \/ Failed'
    <2>1. src = "running" /\ src' = "running"
        BY <1>9 DEF RpcFetch, RpcSend
    <2>2. DOMAIN tasks' = DOMAIN tasks /\ \A v \in DOMAIN tasks \ {t} : tasks'[v] = tasks[v]
        BY <1>1, <1>9, TaskChanges
    <2>3. /\ t = <<t[1], t[2]>> /\ tasks[t].todo \subseteq {b \in Accounts : OwnerOf[b] = t[2]}
        BY <1>1 DEF TaskKept
    <2>4. CASE tasks'[t].pc = "failed" /\ UNCHANGED chan
        <3>1. Left(tasks') => Left(tasks)
            BY <2>2, <2>4 DEF Left
        <3>2. Failed'
            BY <1>1, <2>2, <2>4 DEF Failed
        <3>. QED BY <1>2, <1>5, <2>1, <2>4, <3>1, <3>2
    <2>5. CASE /\ tasks[t].pc = "fetch" /\ tasks'[t].pc = "send" /\ UNCHANGED chan
               /\ tasks'[t].todo = {b \in Accounts : OwnerOf[b] = t[2]}
        <3>1. Left(tasks') <=> Left(tasks)
            BY <2>2, <2>3, <2>5 DEF Left
        <3>. QED BY <1>2, <1>5, <2>1, <2>5, <3>1
    <2>6. CASE /\ tasks[t].pc = "send" /\ tasks[t].todo = {} /\ tasks'[t].pc = "ok" /\ UNCHANGED chan
        <3>1. Left(tasks') <=> Left(tasks)
            BY <2>2, <2>6 DEF Left
        <3>. QED BY <1>2, <1>5, <2>1, <2>6, <3>1
    <2>7. ASSUME NEW b \in tasks[t].todo, tasks[t].pc = "send", tasks'[t].pc = "send",
                 Send(AccountUpdate(b, tasks[t].slot, 0, {t[1]})), tasks'[t].todo = tasks[t].todo \ {b}
          PROVE  /\ AtMostOnce(chan', a, id) /\ (Unsent(a, id)' => ~In(chan', a, id))
                 /\ Unsent(a, id)' \/ In(chan', a, id) => Unsent(a, id) \/ C
                 /\ (Unsent(a, id) \/ C) /\ Wants(filters, id, a) =>
                      Unsent(a, id)' \/ In(chan', a, id) \/ Failed'
        <3> DEFINE u == AccountUpdate(b, tasks[t].slot, 0, {t[1]})
        <3>1. chan' = Append(chan, u)
            BY <2>7 DEF Send
        <3>2. Carries(u, a, id) <=> b = a /\ t[1] = id
            BY DEF Carries, AccountUpdate
        <3> HIDE DEF u
        <3>3. In(chan', a, id) <=> C \/ Carries(u, a, id)
            BY <1>1, <3>1, InAppend
        <3>4. (Carries(u, a, id) => ~C) => AtMostOnce(chan', a, id)
            BY <1>1, <1>5, <3>1, InAppend
        <3>5. CASE Carries(u, a, id)
            <4>1. b = a /\ t = t0
                BY <2>3, <3>2, <3>5
            <4>2. Left(tasks) /\ ~Left(tasks')
                BY <2>2, <2>7, <4>1 DEF Left
            <4>. QED BY <1>2, <1>5, <2>1, <3>3, <3>4, <3>5, <4>2
        <3>6. CASE ~Carries(u, a, id)
            <4>1. b # a \/ t # t0
                BY <3>2, <3>6
            <4>2. Left(tasks') <=> Left(tasks)
                BY <2>2, <2>7, <4>1 DEF Left
            <4>. QED BY <1>2, <1>5, <2>1, <3>3, <3>4, <3>6, <4>2
        <3>. QED BY <3>5, <3>6
    <2>. QED BY <1>1, <1>9, <2>4, <2>5, <2>6, <2>7, TaskChanges
<1>. QED BY <1>7, <1>8, <1>9

LEMMA SnapshotMoves ==
    ASSUME Serving, Slots, source = "snapshot", UNCHANGED filters, NEW a \in Accounts, NEW id, OneOf(a, id),
           SnapshotLoad \/ SnapshotSlot \/ SnapshotScan \/ SenderTakes \/ SenderSends \/ SnapshotReturns
    PROVE  MovesOn(a, id)
<1> DEFINE S == In(sync, a, id)
           H == Taken(a, id)
           C == In(chan, a, id)
           U == Unsent(a, id)
<1>1. /\ UNCHANGED source /\ IsSequence(chan) /\ IsSequence(sync) /\ left \subseteq Loadable
      /\ src \in {"connect", "slot"} => left = {} /\ sync = <<>> /\ held = None
      /\ \A k \in 1 .. Len(sync) : sync[k] # None
    BY DEF Serving, Slots, AllSlotted, Flow, SnapshotFlow, SnapshotLoad, SnapshotSlot, SnapshotScan,
           SenderTakes, SenderSends, SnapshotReturns
<1>2. /\ Unsent(a, id) <=> src \in {"connect", "slot"} \/ a \in left
      /\ Unsent(a, id)' <=> src' \in {"connect", "slot"} \/ a \in left'
    BY <1>1 DEF Unsent
<1>3. /\ AtMostOnce(sync, a, id) /\ AtMostOnce(chan, a, id)
      /\ (H => ~C) /\ (S => ~H /\ ~C) /\ (U => ~S /\ ~H /\ ~C)
    BY DEF OneOf
<1>4. a # None /\ ~Carries(Finished, a, id) /\ \A ids : ~Carries(SlotUpdate(1, ids), a, id)
    BY PathAssumption DEF Carries, Finished, SlotUpdate
<1>5. OnWay(a, id) <=> U \/ S \/ H \/ C
    BY DEF OnWay
<1>6. OnWay(a, id)' <=> U' \/ In(sync', a, id) \/ H' \/ In(chan', a, id)
    BY DEF OnWay
<1>7. OneOf(a, id)' <=> /\ AtMostOnce(sync', a, id) /\ AtMostOnce(chan', a, id)
                        /\ (H' => ~In(chan', a, id)) /\ (In(sync', a, id) => ~H' /\ ~In(chan', a, id))
                        /\ (U' => ~In(sync', a, id) /\ ~H' /\ ~In(chan', a, id))
    BY DEF OneOf
<1> HIDE DEF S, H, C, U
<1> USE DEF MovesOn
<1>8. CASE SnapshotLoad
    <2>1. src = "connect" /\ src' \in {"slot", "error"} /\ UNCHANGED <<left, sync, held, chan>>
        BY <1>8 DEF SnapshotLoad
    <2>2. H' <=> H
        BY <2>1 DEF H, Taken
    <2>3. U /\ (src' = "slot" => U')
        BY <1>2, <2>1 DEF U
    <2>4. src' = "error" => Failed'
        BY DEF Failed
    <2>. QED BY <1>3, <1>5, <1>6, <1>7, <2>1, <2>2, <2>3, <2>4 DEF S, C
<1>9. CASE SnapshotSlot
    <2>1. /\ src = "slot" /\ UNCHANGED <<sync, held>>
          /\ left' = {b \in Loadable : LookupByOwner(OwnerOf[b]) # {}}
          /\ \/ (\E ids : Send(SlotUpdate(1, ids))) /\ src' = "scan"
             \/ src' = "error" /\ UNCHANGED chan
        BY <1>9 DEF SnapshotSlot
    <2>2. H' <=> H
        BY <2>1 DEF H, Taken
    <2>3. U /\ (Wants(filters, id, a) /\ a \in Offered => U')
        BY <1>1, <1>2, <2>1 DEF U, Wants, Offered, LookupByOwner
    <2>4. (In(chan', a, id) <=> C) /\ AtMostOnce(chan', a, id)
        <3>1. ASSUME NEW ids, Send(SlotUpdate(1, ids))
              PROVE  (In(chan', a, id) <=> C) /\ AtMostOnce(chan', a, id)
            <4>1. chan' = Append(chan, SlotUpdate(1, ids)) /\ ~Carries(SlotUpdate(1, ids), a, id)
                BY <1>4, <3>1 DEF Send
            <4>. QED BY <1>1, <1>3, <4>1, InAppend DEF C
        <3>2. CASE UNCHANGED chan
            BY <1>3, <3>2 DEF C
        <3>. QED BY <2>1, <3>1, <3>2
    <2>. QED BY <1>3, <1>5, <1>6, <1>7, <2>1, <2>2, <2>3, <2>4 DEF S
<1>10. CASE SnapshotScan
    <2>1. src = "scan" /\ UNCHANGED <<held, chan>>
        BY <1>10 DEF SnapshotScan
    <2>2. H' <=> H
        BY <2>1 DEF H, Taken
    <2>3. CASE src' = "failing" /\ UNCHANGED <<sync, left>>
        <3>1. (U' => U) /\ Failed'
            BY <1>1, <1>2, <2>3 DEF U, Failed
        <3>. QED BY <1>3, <1>5, <1>6, <1>7, <2>1, <2>2, <2>3, <3>1 DEF S, C
    <2>4. CASE sync' = Append(sync, Finished) /\ src' = "finishing" /\ UNCHANGED left
        <3>1. U' <=> U
            BY <1>2, <2>1, <2>4 DEF U
        <3>2. (In(sync', a, id) <=> S) /\ AtMostOnce(sync', a, id)
            BY <1>1, <1>3, <1>4, <2>4, InAppend DEF S
        <3>. QED BY <1>3, <1>5, <1>6, <1>7, <2>1, <2>2, <3>1, <3>2 DEF C
    <2>5. ASSUME NEW b \in left, sync' = Append(sync, AccountUpdate(b, 1, 0, LookupByOwner(OwnerOf[b]))),
                 left' = left \ {b}, UNCHANGED src
          PROVE  MovesOn(a, id)
        <3> DEFINE u == AccountUpdate(b, 1, 0, LookupByOwner(OwnerOf[b]))
        <3>1. Carries(u, a, id) <=> b = a /\ Wants(filters, id, a)
            BY DEF Carries, AccountUpdate, LookupByOwner, Wants
        <3>2. (U' <=> a \in left /\ a # b) /\ (U <=> a \in left)
            BY <1>2, <2>1, <2>5 DEF U
        <3> HIDE DEF u
        <3>3. In(sync', a, id) <=> S \/ Carries(u, a, id)
            BY <1>1, <2>5, InAppend DEF S, u
        <3>4. (Carries(u, a, id) => ~S) => AtMostOnce(sync', a, id)
            BY <1>1, <1>3, <2>5, InAppend DEF S, u
        <3>. QED BY <1>3, <1>5, <1>6, <1>7, <2>1, <2>2, <3>1, <3>2, <3>3, <3>4 DEF C
    <2>. QED BY <1>10, <2>3, <2>4, <2>5 DEF SnapshotScan
<1>11. CASE SenderTakes
    <2>1. held = None /\ sync # <<>> /\ held' = Head(sync) /\ sync' = Tail(sync) /\ UNCHANGED <<src, left, chan>>
        BY <1>11 DEF SenderTakes
    <2>2. held' # None
        <3>1. Head(sync) = sync[1] /\ Len(sync) \in Nat \ {0}
            BY <1>1, <2>1, TailFacts
        <3>2. 1 \in 1 .. Len(sync)
            BY <3>1
        <3>. QED BY <1>1, <2>1, <3>1, <3>2
    <2>3. ~H /\ (H' <=> Carries(Head(sync), a, id)) /\ (U' <=> U)
        BY <1>2, <2>1, <2>2 DEF H, Taken, U
    <2>4. /\ S <=> Carries(Head(sync), a, id) \/ In(sync', a, id)
          /\ AtMostOnce(sync', a, id) /\ (Carries(Head(sync), a, id) => ~In(sync', a, id))
        BY <1>1, <1>3, <2>1, InTail DEF S
    <2>. QED BY <1>3, <1>5, <1>6, <1>7, <2>1, <2>3, <2>4 DEF C
<1>12. CASE SenderSends
    <2>1. held # None /\ held' = None /\ UNCHANGED <<src, left, sync>> /\ (Send(held) \/ (~rxOpen /\ UNCHANGED chan))
        BY <1>12 DEF SenderSends
    <2>2. (H <=> Carries(held, a, id)) /\ ~H' /\ (U' <=> U)
        BY <1>2, <2>1 DEF H, Taken, U
    <2>3. CASE Send(held)
        <3>1. /\ In(chan', a, id) <=> C \/ Carries(held, a, id)
              /\ (Carries(held, a, id) => ~C) => AtMostOnce(chan', a, id)
            BY <1>1, <1>3, <2>3, InAppend DEF Send, C
        <3>. QED BY <1>3, <1>5, <1>6, <1>7, <2>1, <2>2, <3>1 DEF S
    <2>4. CASE ~rxOpen /\ UNCHANGED chan
        BY <1>3, <1>5, <1>6, <1>7, <2>1, <2>2, <2>4 DEF S, C
    <2>. QED BY <2>1, <2>3, <2>4
<1>13. CASE SnapshotReturns
    <2>1. /\ UNCHANGED <<left, sync, held, chan>> /\ src \in {"finishing", "failing"}
          /\ src' \in {"completed", "error"}
        BY <1>13 DEF SnapshotReturns
    <2>2. (H' <=> H) /\ (U' <=> U)
        BY <1>2, <2>1 DEF H, Taken, U
    <2>. QED BY <1>3, <1>5, <1>6, <1>7, <2>1, <2>2 DEF S, C
<1>. QED BY <1>8, <1>9, <1>10, <1>11, <1>12, <1>13

LEMMA BuiltFrame ==
    ASSUME Serving, Built, Built', UNCHANGED <<filters, registered>>
    PROVE  /\ Registry' /\ Prefiltered' /\ AccountPipelines' = AccountPipelines
           /\ (UNCHANGED source => Offered' = Offered)
<1>1. AccountPipelines' = AccountPipelines /\ \A i : Alone(i)' <=> Alone(i)
    BY DEF AccountPipelines, Alone
<1>2. Registry'
    BY DEF Serving, Registry, Built
<1>3. Prefiltered'
    BY <1>1 DEF Serving, Prefiltered
<1>. QED BY <1>1, <1>2, <1>3 DEF Offered

LEMMA OfferedAreAccounts == Offered \subseteq Accounts
BY PathAssumption DEF Offered

LEMMA SourceServes ==
    ASSUME Serving, Slots, Source
    PROVE  Serving'
<1>1. /\ server = "up" /\ SourceStep /\ run \in {"running", "draining", "failing"}
      /\ UNCHANGED <<filters, rxOpen, registered, server, jobs, handled, run>>
    BY DEF Source, Running, serverVars
<1>2. Built /\ Built'
    BY <1>1 DEF Built
<1>3. Flow' /\ src' # "connect" /\ source' = source
    BY <1>1, SourceKeepsFlow
<1>4. Registry' /\ Prefiltered' /\ AccountPipelines' = AccountPipelines /\ Offered' = Offered
    BY <1>1, <1>2, <1>3, BuiltFrame
<1>5. Resting'
    BY <1>2, <1>3 DEF Serving, Resting
<1>6. Rights'
    <2>1. \A job : RightfulJob(job)' <=> RightfulJob(job)
        BY <1>1, <1>3, <1>4 DEF RightfulJob
    <2>. QED BY <1>1, <1>3, <1>4, <2>1, SourceKeepsRights DEF Serving, Rights
<1>7. ASSUME source # "fumarole", NEW a \in Accounts, NEW id, OneOf(a, id)
      PROVE  MovesOn(a, id)
    <2>1. source \in {"rpc", "snapshot"} /\ DOMAIN <<>> = {}
        BY <1>7 DEF Serving, Resting
    <2>2. CASE source = "rpc"
        <3>1. sync = <<>> /\ held = None
            BY <2>2 DEF Serving, Flow, RpcFlow
        <3>2. RpcConnect \/ RpcJoin \/ (\E t \in DOMAIN tasks : RpcFetch(t) \/ RpcSend(t))
            BY <1>1, <2>2 DEF SourceStep, SnapshotLoad, SnapshotSlot, SnapshotScan, SenderTakes,
               SenderSends, SnapshotReturns, FumaroleConnect, FumaroleForward, FumaroleEnds
        <3>. QED BY <1>1, <1>7, <2>2, <3>2, RpcMoves
    <2>3. CASE source = "snapshot"
        <3>1. DOMAIN tasks = {}
            BY <2>1, <2>3 DEF Serving, Flow
        <3>2. SnapshotLoad \/ SnapshotSlot \/ SnapshotScan \/ SenderTakes \/ SenderSends \/ SnapshotReturns
            BY <1>1, <2>3, <3>1 DEF SourceStep, RpcConnect, RpcJoin, FumaroleConnect, FumaroleForward,
               FumaroleEnds
        <3>. QED BY <1>1, <1>7, <2>3, <3>2, SnapshotMoves
    <2>. QED BY <2>1, <2>2, <2>3
<1>8. \A a, i : (Working(a, i)' <=> Working(a, i)) /\ (Done(a, i)' <=> Done(a, i))
    BY <1>1 DEF Working, Done
<1>9. ASSUME source # "fumarole", NEW a \in Accounts, NEW i, NEW id, OnceOnly(a, i, id)
      PROVE  OnceOnly(a, i, id)' /\ MovesOn(a, id)
    <2>1. MovesOn(a, id)
        BY <1>7, <1>9 DEF OnceOnly
    <2>. QED BY <1>1, <1>8, <1>9, <2>1 DEF OnceOnly, MovesOn
<1>10. Once'
    BY <1>1, <1>3, <1>4, <1>9 DEF Serving, Once
<1>11. NoneMissing'
    <2>1. ASSUME source # "fumarole", run = "running", NEW a \in Offered, NEW i \in AccountPipelines,
                 Wants(filters, registered[i].id, a)
          PROVE  Somewhere(a, i, registered[i].id)' \/ Failed'
        <3>1. PICK id : id = registered[i].id
            OBVIOUS
        <3>2. a \in Accounts /\ OnceOnly(a, i, id) /\ rxOpen /\ (Somewhere(a, i, id) \/ Failed)
            BY <1>2, <2>1, <3>1, OfferedAreAccounts DEF Serving, Once, NoneMissing
        <3>3. MovesOn(a, id) /\ (Failed => Failed')
            BY <1>1, <1>9, <2>1, <3>2, SourceStaysFailed
        <3>4. Somewhere(a, i, id)' \/ Failed'
            BY <1>8, <2>1, <3>1, <3>2, <3>3 DEF MovesOn, Somewhere
        <3>. QED BY <1>1, <3>1, <3>4
    <2>2. (run' = "running" => rxOpen') /\ run' # "ok"
        BY <1>1 DEF Serving, NoneMissing
    <2>. QED BY <1>1, <1>3, <1>4, <2>1, <2>2 DEF NoneMissing
<1>. QED BY <1>3, <1>4, <1>5, <1>6, <1>10, <1>11 DEF Serving

-----------------------------------------------------------------------------
(* Steps of the runtime and the handlers *)

LEMMA RuntimeFrame ==
    ASSUME Serving, Built, Built', UNCHANGED <<sourceVars, filters, registered>>
    PROVE  /\ Registry' /\ Prefiltered' /\ Resting' /\ Flow' /\ AccountPipelines' = AccountPipelines
           /\ Offered' = Offered /\ (\A job : RightfulJob(job)' <=> RightfulJob(job))
           /\ (\A a, id : (Unsent(a, id)' <=> Unsent(a, id)) /\ (Taken(a, id)' <=> Taken(a, id)))
           /\ (Failed' <=> Failed)
<1>1. /\ Registry' /\ Prefiltered' /\ AccountPipelines' = AccountPipelines /\ Offered' = Offered
    BY BuiltFrame DEF sourceVars
<1>2. Resting' /\ Flow'
    BY DEF Serving, Resting, Flow, RpcFlow, SnapshotFlow, sourceVars
<1>3. \A job : RightfulJob(job)' <=> RightfulJob(job)
    BY <1>1 DEF RightfulJob, sourceVars
<1>. QED BY <1>1, <1>2, <1>3 DEF Unsent, Taken, Failed, sourceVars

(* The channel is dropped, and perhaps the handlers. *)
LEMMA DropServes ==
    ASSUME Serving, Built, Built', UNCHANGED <<sourceVars, filters, registered, handled>>,
           chan' = <<>>, jobs' \subseteq jobs
    PROVE  Rights' /\ Once'
<1>1. /\ AccountPipelines' = AccountPipelines /\ Offered' = Offered
      /\ (\A job : RightfulJob(job)' <=> RightfulJob(job))
      /\ (\A a, id : (Unsent(a, id)' <=> Unsent(a, id)) /\ (Taken(a, id)' <=> Taken(a, id)))
    BY RuntimeFrame
<1>2. Rights'
    BY <1>1, RightfulEmpty DEF Serving, Rights, sourceVars
<1>3. ASSUME NEW a, NEW i, NEW id, OnceOnly(a, i, id) PROVE OnceOnly(a, i, id)'
    <2>1. ~In(chan', a, id) /\ AtMostOnce(chan', a, id)
        BY InEmpty
    <2>2. (Working(a, i)' => Working(a, i)) /\ (Done(a, i)' <=> Done(a, i))
        BY DEF Working, Done
    <2>3. OneOf(a, id)' /\ (OnWay(a, id)' => OnWay(a, id))
        BY <1>1, <1>3, <2>1 DEF OnceOnly, OneOf, OnWay, sourceVars
    <2>. QED BY <1>3, <2>2, <2>3 DEF OnceOnly
<1>. QED BY <1>1, <1>2, <1>3 DEF Serving, Once, sourceVars

(* An update becomes the jobs of its pipelines. *)
LEMMA TakeServes ==
    ASSUME Serving, Slots, Built, Built', UNCHANGED <<sourceVars, filters, registered, handled, run, rxOpen>>,
           run # "ok", chan # <<>>, chan' = Tail(chan),
           jobs' = jobs \cup (IF Head(chan).account = None THEN {} ELSE JobsOf(Head(chan)))
    PROVE  Serving'
<1> DEFINE u == Head(chan)
<1>1. /\ Registry' /\ Prefiltered' /\ Resting' /\ Flow' /\ AccountPipelines' = AccountPipelines
      /\ Offered' = Offered /\ (\A job : RightfulJob(job)' <=> RightfulJob(job))
      /\ (\A a, id : (Unsent(a, id)' <=> Unsent(a, id)) /\ (Taken(a, id)' <=> Taken(a, id)))
      /\ (Failed' <=> Failed)
    BY RuntimeFrame
<1>2. IsSequence(chan) /\ UNCHANGED <<source, sync, held>>
    BY DEF Slots, AllSlotted, sourceVars
<1>3. /\ \A job \in JobsOf(u) : /\ job.account = u.account /\ job.pipeline \in AccountPipelines
                                /\ registered[job.pipeline].id \in u.filters
      /\ \A j, k \in JobsOf(u) : j.pipeline = k.pipeline => j = k
      /\ \A i \in AccountPipelines : registered[i].id \in u.filters =>
           \E job \in JobsOf(u) : job.account = u.account /\ job.pipeline = i
    BY JobsFacts DEF Serving
<1>4. source # "fumarole" => Rightful(u, filters, Offered) /\ AllRightful(chan', filters, Offered)
    BY <1>2, RightfulTail DEF Serving, Rights
<1>5. Rights'
    <2>1. ASSUME u.account # None, NEW job \in JobsOf(u) PROVE RightfulJob(job)
        <3>1. CASE source = "fumarole"
            BY <1>3, <3>1 DEF RightfulJob
        <3>2. CASE source # "fumarole"
            <4>1. job.account \in Offered /\ Wants(filters, registered[job.pipeline].id, job.account)
                BY <1>3, <1>4, <2>1, <3>2 DEF Rightful
            <4>2. OwnerOf[job.account] \in OwnersOf(registered[job.pipeline])
                BY <1>3, <4>1, OfferedAreAccounts DEF Serving, Prefiltered
            <4>. QED BY <1>3, <4>1, <4>2 DEF RightfulJob
        <3>. QED BY <3>1, <3>2
    <2>2. \A job \in jobs' : RightfulJob(job)
        BY <2>1 DEF Serving, Rights
    <2>. QED BY <1>1, <1>2, <1>4, <2>2 DEF Serving, Rights
<1>6. ASSUME NEW a \in Accounts, NEW i \in AccountPipelines, NEW id, id = registered[i].id, OnceOnly(a, i, id)
      PROVE  OnceOnly(a, i, id)' /\ (Somewhere(a, i, id) => Somewhere(a, i, id)')
    <2> DEFINE C == Carries(u, a, id)
    <2>1. /\ In(chan, a, id) <=> C \/ In(chan', a, id)
          /\ AtMostOnce(chan', a, id) /\ (C => ~In(chan', a, id))
        BY <1>2, <1>6, InTail DEF OnceOnly, OneOf
    <2>2. OneOf(a, id)'
        BY <1>1, <1>2, <1>6, <2>1 DEF OnceOnly, OneOf
    <2>3. /\ OnWay(a, id)' => OnWay(a, id) /\ ~C
          /\ OnWay(a, id) => OnWay(a, id)' \/ C
          /\ C => OnWay(a, id)
        BY <1>1, <1>2, <1>6, <2>1 DEF OnceOnly, OneOf, OnWay
    <2>4. a # None
        BY PathAssumption
    <2>5. CASE ~C
        <3>1. \A job \in jobs' : IsFor(job, a, i) => job \in jobs
            BY <1>3, <1>6, <2>5 DEF IsFor, Carries
        <3>2. (Working(a, i)' <=> Working(a, i)) /\ (Done(a, i)' <=> Done(a, i))
            BY <3>1 DEF Working, Done
        <3>. QED BY <1>6, <2>2, <2>3, <2>5, <3>1, <3>2 DEF OnceOnly, Somewhere
    <2>6. CASE C
        <3>1. ~Working(a, i) /\ ~Done(a, i)
            BY <1>6, <2>3, <2>6 DEF OnceOnly
        <3>2. u.account = a /\ id \in u.filters /\ jobs' = jobs \cup JobsOf(u)
            BY <2>4, <2>6 DEF Carries
        <3>3. \A job \in jobs' : IsFor(job, a, i) => job \in JobsOf(u)
            BY <3>1, <3>2 DEF Working
        <3>4. \A j, k \in jobs' : IsFor(j, a, i) /\ IsFor(k, a, i) => j = k
            BY <1>3, <3>3 DEF IsFor
        <3>5. Working(a, i)'
            BY <1>3, <1>6, <3>2 DEF Working, IsFor
        <3>6. ~Done(a, i)'
            BY <3>1 DEF Done
        <3>. QED BY <1>6, <2>2, <2>3, <2>6, <3>4, <3>5, <3>6 DEF OnceOnly, Somewhere
    <2>. QED BY <2>5, <2>6
<1>7. Once'
    BY <1>1, <1>2, <1>6 DEF Serving, Once
<1>8. NoneMissing'
    <2>1. ASSUME source # "fumarole", run = "running", NEW a \in Offered, NEW i \in AccountPipelines,
                 Wants(filters, registered[i].id, a)
          PROVE  Somewhere(a, i, registered[i].id)' \/ Failed'
        <3>1. PICK id : id = registered[i].id
            OBVIOUS
        <3>2. a \in Accounts /\ OnceOnly(a, i, id) /\ (Somewhere(a, i, id) \/ Failed)
            BY <2>1, <3>1, OfferedAreAccounts DEF Serving, Once, NoneMissing
        <3>3. Somewhere(a, i, id)' \/ Failed'
            BY <1>1, <1>6, <3>1, <3>2
        <3>. QED BY <3>1, <3>3
    <2>2. run' = "running" => rxOpen'
        BY DEF Serving, NoneMissing
    <2>. QED BY <1>1, <1>2, <2>1, <2>2 DEF NoneMissing
<1>. QED BY <1>1, <1>5, <1>7, <1>8 DEF Serving

LEMMA RuntimeServes ==
    ASSUME Serving, Slots, RuntimeTakes \/ RuntimeStops \/ RuntimeReturns
    PROVE  Serving'
<1>1. /\ server = "up" /\ run \in {"running", "draining", "failing"}
      /\ UNCHANGED <<sourceVars, filters, registered, handled>>
    BY DEF RuntimeTakes, RuntimeStops, RuntimeReturns, Running, serverVars, ServerStopping
<1>2. server' \in {"up", "stopping", "abandoned"}
    BY <1>1 DEF RuntimeTakes, RuntimeStops, RuntimeReturns, serverVars, ServerStopping
<1>3. Built /\ Built'
    BY <1>1, <1>2 DEF Built
<1>4. CASE chan' = <<>> /\ jobs' \subseteq jobs /\ run' \notin {"running", "ok"}
    <2>1. NoneMissing'
        BY <1>4 DEF NoneMissing
    <2>. QED BY <1>1, <1>3, <1>4, <2>1, RuntimeFrame, DropServes DEF Serving
<1>5. CASE /\ RuntimeReturns /\ run = "running" /\ src = "completed" /\ jobs = {} /\ chan = <<>>
           /\ run' = "ok" /\ UNCHANGED jobs /\ chan' = <<>>
    <2>1. /\ AccountPipelines' = AccountPipelines /\ Offered' = Offered
          /\ (\A a, id : (Unsent(a, id)' <=> Unsent(a, id)) /\ (Taken(a, id)' <=> Taken(a, id)))
          /\ (Failed' <=> Failed)
        BY <1>1, <1>3, RuntimeFrame
    <2>2. \A a, i, id : Somewhere(a, i, id)' <=> Somewhere(a, i, id)
        BY <1>1, <1>5, <2>1 DEF Somewhere, OnWay, Working, Done, sourceVars
    <2>3. NoneMissing'
        BY <1>1, <1>3, <1>5, <2>1, <2>2 DEF Serving, NoneMissing, sourceVars
    <2>. QED BY <1>1, <1>3, <1>5, <2>3, RuntimeFrame, DropServes DEF Serving
<1>6. CASE RuntimeTakes
    <2>1. CASE Head(chan) = StreamError
        BY <1>4, <1>6, <2>1 DEF RuntimeTakes
    <2>2. CASE Head(chan) # StreamError
        <3>1. /\ chan # <<>> /\ chan' = Tail(chan) /\ UNCHANGED <<run, rxOpen>> /\ run # "ok"
              /\ jobs' = jobs \cup (IF Head(chan).account = None THEN {} ELSE JobsOf(Head(chan)))
            BY <1>1, <1>6, <2>2 DEF RuntimeTakes
        <3>. QED BY <1>1, <1>3, <3>1, TakeServes
    <2>. QED BY <2>1, <2>2
<1>7. CASE RuntimeStops
    BY <1>4, <1>7 DEF RuntimeStops
<1>8. CASE RuntimeReturns
    BY <1>4, <1>5, <1>8 DEF RuntimeReturns
<1>. QED BY <1>6, <1>7, <1>8

(* A job ends: it is the one for its account and pipeline. *)
LEMMA EndServes ==
    ASSUME Serving, Slots, server = "up", run # "ok", NEW job \in jobs, End(job),
           UNCHANGED <<sourceVars, filters, chan, rxOpen, registered, server, run>>
    PROVE  Serving'
<1>1. Built /\ Built'
    BY DEF Built
<1>2. /\ Registry' /\ Prefiltered' /\ Resting' /\ Flow' /\ AccountPipelines' = AccountPipelines
      /\ Offered' = Offered /\ (\A j : RightfulJob(j)' <=> RightfulJob(j))
      /\ (\A a, id : (Unsent(a, id)' <=> Unsent(a, id)) /\ (Taken(a, id)' <=> Taken(a, id)))
      /\ (Failed' <=> Failed)
    BY <1>1, RuntimeFrame
<1>3. /\ jobs' = jobs \ {job} /\ Len(handled) \in Nat /\ Len(handled') = Len(handled) + 1
      /\ handled'[Len(handled) + 1] = job /\ \A h \in 1 .. Len(handled) : handled'[h] = handled[h]
    BY AppendFacts DEF End, Slots
<1>4. /\ 1 .. Len(handled') = (1 .. Len(handled)) \cup {Len(handled) + 1}
      /\ Len(handled) + 1 \notin 1 .. Len(handled)
    BY <1>3
<1>5. Rights'
    <2>1. \A h \in 1 .. Len(handled') : RightfulJob(handled'[h])
        BY <1>3, <1>4 DEF Serving, Rights
    <2>2. \A j \in jobs' : RightfulJob(j)
        BY <1>3 DEF Serving, Rights
    <2>. QED BY <1>2, <2>1, <2>2 DEF Serving, Rights, sourceVars
<1>6. ASSUME NEW a, NEW i, NEW id, OnceOnly(a, i, id)
      PROVE  OnceOnly(a, i, id)' /\ (Somewhere(a, i, id) => Somewhere(a, i, id)')
    <2>1. (OneOf(a, id)' <=> OneOf(a, id)) /\ (OnWay(a, id)' <=> OnWay(a, id))
        BY <1>2 DEF OneOf, OnWay, sourceVars
    <2>2. Done(a, i)' <=> Done(a, i) \/ IsFor(job, a, i)
        BY <1>3, <1>4 DEF Done
    <2>3. Working(a, i)' <=> Working(a, i) /\ ~IsFor(job, a, i)
        BY <1>3, <1>6 DEF Working, OnceOnly
    <2>4. IsFor(job, a, i) => Working(a, i)
        BY DEF Working
    <2>5. \A j, k \in jobs' : IsFor(j, a, i) /\ IsFor(k, a, i) => j = k
        BY <1>3, <1>6 DEF OnceOnly
    <2>6. \A h, g \in 1 .. Len(handled') : IsFor(handled'[h], a, i) /\ IsFor(handled'[g], a, i) => h = g
        <3>1. IsFor(job, a, i) => \A h \in 1 .. Len(handled) : ~IsFor(handled'[h], a, i)
            BY <1>3, <1>6, <2>4 DEF OnceOnly, Done
        <3>2. \A h, g \in 1 .. Len(handled) : IsFor(handled'[h], a, i) /\ IsFor(handled'[g], a, i) => h = g
            BY <1>3, <1>6 DEF OnceOnly
        <3>. QED BY <1>3, <1>4, <3>1, <3>2
    <2>. QED BY <1>6, <2>1, <2>2, <2>3, <2>4, <2>5, <2>6 DEF OnceOnly, Somewhere
<1>7. Once'
    BY <1>2, <1>6 DEF Serving, Once, sourceVars
<1>8. NoneMissing'
    <2>1. ASSUME source # "fumarole", run = "running", NEW a \in Offered, NEW i \in AccountPipelines,
                 Wants(filters, registered[i].id, a)
          PROVE  Somewhere(a, i, registered[i].id)' \/ Failed'
        <3>1. PICK id : id = registered[i].id
            OBVIOUS
        <3>2. OnceOnly(a, i, id) /\ (Somewhere(a, i, id) \/ Failed)
            BY <1>1, <2>1, <3>1, OfferedAreAccounts DEF Serving, Once, NoneMissing
        <3>3. Somewhere(a, i, id)' \/ Failed'
            BY <1>2, <1>6, <3>2
        <3>. QED BY <3>1, <3>3
    <2>2. run' = "running" => rxOpen'
        BY DEF Serving, NoneMissing
    <2>. QED BY <1>2, <2>1, <2>2 DEF NoneMissing, sourceVars
<1>. QED BY <1>2, <1>5, <1>7, <1>8 DEF Serving

LEMMA ServingNext == Slots /\ Serving /\ [Next]_vars => Serving'
<1>. SUFFICES ASSUME Slots, Serving, [Next]_vars PROVE Serving'
    OBVIOUS
<1>1. CASE Register \/ BuildAll
    BY <1>1, BuildingServes
<1>2. CASE Source
    BY <1>2, SourceServes
<1>3. ASSUME NEW c \in Clients, Client(c) \/ ClientSubscribes(c) PROVE Serving'
    <2>1. UNCHANGED pathVars /\ server' = server
        BY <1>3 DEF Client, ClientSubscribes, Poll, StreamEnds, Subscribe, pathVars
    <2>. QED BY <2>1, RestServes
<1>4. CASE RuntimeTakes \/ RuntimeStops \/ RuntimeReturns
    BY <1>4, RuntimeServes
<1>5. CASE Stopped
    <2>1. UNCHANGED pathVars /\ server = "stopping" /\ server' = "stopped"
        BY <1>5 DEF Stopped, ServerStopped, pathVars
    <2>. QED BY <2>1, RestServes
<1>6. ASSUME NEW job \in jobs, StreamHandles(job) \/ PassthroughHandles(job) \/ BufferingHandles(job)
      PROVE  Serving'
    <2>1. /\ server = "up" /\ run # "ok" /\ End(job)
          /\ UNCHANGED <<sourceVars, filters, chan, rxOpen, registered, server, run>>
        BY <1>6 DEF StreamHandles, PassthroughHandles, BufferingHandles, Running, serverVars
    <2>. QED BY <2>1, EndServes
<1>7. CASE Passthrough
    <2>1. UNCHANGED sinkOthers
        BY <1>7 DEF Passthrough, SinkReceives, SinkCloses, SinkWritesRecord, SinkWritesWatermark,
                    SinkWritesLast
    <2>2. UNCHANGED pathVars /\ server' = server
        BY <2>1 DEF sinkOthers, serverVars, pathVars
    <2>. QED BY <2>2, RestServes
<1>8. CASE Idle \/ UNCHANGED vars
    <2>1. UNCHANGED pathVars /\ server' = server
        BY <1>8 DEF Idle, vars, serverVars, pathVars
    <2>. QED BY <2>1, RestServes
<1>. QED BY <1>1, <1>2, <1>3, <1>4, <1>5, <1>6, <1>7, <1>8 DEF Next, Handlers

-----------------------------------------------------------------------------
(* The bounds.                                                             *)

LEMMA BoundedInit == Init => Bounded
<1>. SUFFICES ASSUME Init PROVE Bounded
    OBVIOUS
<1>1. /\ chan = <<>> /\ rec = <<>> /\ events = <<>> /\ handled = <<>>
      /\ sink = [pc |-> "recv", slot |-> 0, message |-> None, attempt |-> 1]
    BY DEF Init, SourceInit
<1>2. 1 \in 1 .. WriteAttempts /\ 0 <= ChannelSize
    BY PathAssumption
<1>. QED BY <1>1, <1>2, EmptyFacts DEF Bounded, SinkFields

LEMMA SourceStepRoom ==
    ASSUME SourceStep
    PROVE  UNCHANGED chan \/ (Len(chan) < ChannelSize /\ \E u : chan' = Append(chan, u))
BY DEF SourceStep, RpcConnect, RpcJoin, RpcFetch, RpcSend, SnapshotLoad, SnapshotSlot,
       SnapshotScan, SenderTakes, SenderSends, SnapshotReturns, FumaroleConnect,
       FumaroleForward, FumaroleEnds, Send, Room

(* The coordinator is told one thing of an account. *)
LEMMA OneEvent ==
    ASSUME NEW job
    PROVE  \E e : AccountEvents(job) = <<e>>
<1> DEFINE result == ParseAccount(job)
<1> HIDE DEF result
<1>1. AccountEvents(job) =
        CASE result.record # <<>> /\ job.account \in Malformed -> <<"account_error">>
          [] result.record # <<>> /\ job.account \notin Malformed -> <<"account_parsed">>
          [] result.record = <<>> /\ result.had_error -> <<"account_error">>
          [] result.record = <<>> /\ ~result.had_error -> <<"account_filtered">>
    BY DEF AccountEvents, result
<1>. QED BY <1>1

LEMMA OneMore ==
    ASSUME NEW q, IsSequence(q), NEW e
    PROVE  IsSequence(q \o <<e>>) /\ Len(q \o <<e>>) = Len(q) + 1
<1>1. PICK S : q \in Seq(S)
    BY DEF IsSequence
<1>2. q \in Seq(S \cup {e}) /\ <<e>> \in Seq(S \cup {e}) /\ Len(<<e>>) = 1
    BY <1>1
<1>3. q \o <<e>> \in Seq(S \cup {e}) /\ Len(q \o <<e>>) = Len(q) + Len(<<e>>)
    BY <1>2
<1>. QED BY <1>2, <1>3 DEF IsSequence

LEMMA AfterRecordBounded ==
    ASSUME NEW s, DOMAIN s = SinkFields, NEW m
    PROVE  DOMAIN AfterRecord(s, m) = SinkFields /\ AfterRecord(s, m).attempt = 1
BY DEF AfterRecord, SinkFields

(* A write either counts an attempt or ends the sink. *)
LEMMA AttemptBounded ==
    ASSUME Bounded, NEW line, NEW next, Attempt(line, next), DOMAIN next = SinkFields, next.attempt = 1
    PROVE  /\ DOMAIN sink' = SinkFields /\ sink'.attempt \in 1 .. WriteAttempts
           /\ IsSequence(rec') /\ Len(rec') <= ChannelSize
<1>1. /\ DOMAIN sink = SinkFields /\ sink.attempt \in 1 .. WriteAttempts
      /\ IsSequence(rec) /\ Len(rec) <= ChannelSize /\ ChannelSize \in Nat /\ WriteAttempts \in Nat \ {0}
    BY PathAssumption DEF Bounded
<1>2. CASE sink' = next /\ UNCHANGED rec
    BY <1>1, <1>2
<1>3. CASE sink.attempt < WriteAttempts /\ sink' = [sink EXCEPT !.attempt = @ + 1] /\ UNCHANGED rec
    <2>1. sink.attempt + 1 \in 1 .. WriteAttempts
        BY <1>1, <1>3
    <2>2. DOMAIN sink' = SinkFields /\ sink'.attempt = sink.attempt + 1
        BY <1>1, <1>3 DEF SinkFields
    <2>. QED BY <1>1, <1>3, <2>1, <2>2
<1>4. CASE sink' = [sink EXCEPT !.pc = "failed"] /\ rec' = <<>>
    <2>1. DOMAIN sink' = SinkFields /\ sink'.attempt = sink.attempt
        BY <1>1, <1>4 DEF SinkFields
    <2>. QED BY <1>1, <1>4, <2>1, EmptyFacts
<1>. QED BY <1>2, <1>3, <1>4 DEF Attempt

LEMMA SinkBounded ==
    ASSUME Bounded, Passthrough
    PROVE  Bounded'
<1>1. /\ DOMAIN sink = SinkFields /\ sink.attempt \in 1 .. WriteAttempts
      /\ IsSequence(rec) /\ Len(rec) <= ChannelSize /\ ChannelSize \in Nat /\ WriteAttempts \in Nat \ {0}
    BY PathAssumption DEF Bounded
<1>2. UNCHANGED sinkOthers
    BY DEF Passthrough, SinkReceives, SinkCloses, SinkWritesRecord, SinkWritesWatermark,
           SinkWritesLast
<1>3. SUFFICES /\ DOMAIN sink' = SinkFields /\ sink'.attempt \in 1 .. WriteAttempts
               /\ IsSequence(rec') /\ Len(rec') <= ChannelSize
    BY <1>2 DEF Bounded, sinkOthers
<1>4. 1 \in 1 .. WriteAttempts
    BY <1>1
<1>5. CASE SinkReceives
    <2>1. rec # <<>> /\ rec' = Tail(rec)
        BY <1>5 DEF SinkReceives
    <2>2. IsSequence(rec') /\ Len(rec') <= ChannelSize
        BY <1>1, <2>1, TailFacts
    <2>3. \/ sink' = AfterRecord(sink, Head(rec))
          \/ sink' = [sink EXCEPT !.pc = "record", !.message = Head(rec), !.attempt = 1]
        BY <1>5 DEF SinkReceives
    <2>4. DOMAIN sink' = SinkFields /\ sink'.attempt = 1
        <3>1. CASE sink' = AfterRecord(sink, Head(rec))
            BY <1>1, <3>1, AfterRecordBounded
        <3>2. CASE sink' = [sink EXCEPT !.pc = "record", !.message = Head(rec), !.attempt = 1]
            BY <1>1, <3>2 DEF SinkFields
        <3>. QED BY <2>3, <3>1, <3>2
    <2>. QED BY <1>4, <2>2, <2>4
<1>6. CASE SinkCloses
    <2>1. UNCHANGED rec /\ sink' = [sink EXCEPT !.pc = IF sink.slot = 0 THEN "done" ELSE "last", !.attempt = 1]
        BY <1>6 DEF SinkCloses
    <2>2. DOMAIN sink' = SinkFields /\ sink'.attempt = 1
        BY <1>1, <2>1 DEF SinkFields
    <2>. QED BY <1>1, <1>4, <2>1, <2>2
<1>7. CASE SinkWritesRecord
    <2>1. Attempt(Written(sink.message), AfterRecord(sink, sink.message))
        BY <1>7 DEF SinkWritesRecord
    <2>2. /\ DOMAIN AfterRecord(sink, sink.message) = SinkFields
          /\ AfterRecord(sink, sink.message).attempt = 1
        BY <1>1, AfterRecordBounded
    <2>. QED BY <2>1, <2>2, AttemptBounded
<1>8. CASE SinkWritesWatermark
    <2> DEFINE next == [sink EXCEPT !.pc = "recv", !.slot = sink.message.slot, !.message = None, !.attempt = 1]
    <2>1. Attempt(Watermark(WatermarkSlot(sink)), next)
        BY <1>8 DEF SinkWritesWatermark
    <2>2. DOMAIN next = SinkFields /\ next.attempt = 1
        BY <1>1 DEF SinkFields
    <2>. HIDE DEF next
    <2>. QED BY <2>1, <2>2, AttemptBounded
<1>9. CASE SinkWritesLast
    <2> DEFINE next == [sink EXCEPT !.pc = "done", !.attempt = 1]
    <2>1. Attempt(Watermark(sink.slot), next)
        BY <1>9 DEF SinkWritesLast
    <2>2. DOMAIN next = SinkFields /\ next.attempt = 1
        BY <1>1 DEF SinkFields
    <2>. HIDE DEF next
    <2>. QED BY <2>1, <2>2, AttemptBounded
<1>. QED BY <1>5, <1>6, <1>7, <1>8, <1>9 DEF Passthrough

(* A handler ends. *)
LEMMA HandlerBounded ==
    ASSUME Slots, Bounded, NEW job \in jobs,
           StreamHandles(job) \/ PassthroughHandles(job) \/ BufferingHandles(job)
    PROVE  Bounded'
<1>1. End(job) /\ UNCHANGED <<chan, sink, consumer>>
    BY DEF StreamHandles, PassthroughHandles, BufferingHandles, consumerVars
<1>2. /\ Len(handled) \in Nat /\ Len(handled') = Len(handled) + 1
      /\ IsSequence(rec) /\ Len(rec) \in Nat /\ Len(rec) <= ChannelSize /\ ChannelSize \in Nat
      /\ IsSequence(events) /\ Len(events) \in Nat /\ Len(events) <= Len(handled)
    BY <1>1, AppendFacts, LenZero, PathAssumption DEF End, Slots, Bounded
<1>3. CASE StreamHandles(job)
    BY <1>1, <1>2, <1>3 DEF StreamHandles, Bounded, consumerVars
<1>4. CASE PassthroughHandles(job)
    <2>1. IsSequence(rec') /\ Len(rec') <= ChannelSize
        <3>1. UNCHANGED rec \/ (Len(rec) < ChannelSize /\ \E m : rec' = Append(rec, m))
            BY <1>4 DEF PassthroughHandles
        <3>2. ASSUME NEW m, rec' = Append(rec, m), Len(rec) < ChannelSize
              PROVE  IsSequence(rec') /\ Len(rec') <= ChannelSize
            <4>1. IsSequence(rec') /\ Len(rec') = Len(rec) + 1
                BY <1>2, <3>2, AppendFacts
            <4>. QED BY <1>2, <3>2, <4>1
        <3>3. CASE UNCHANGED rec
            BY <1>2, <3>3
        <3>. QED BY <3>1, <3>2, <3>3
    <2>2. consumer = "passthrough" /\ UNCHANGED events
        BY <1>4 DEF PassthroughHandles
    <2>. QED BY <1>1, <1>2, <2>1, <2>2 DEF Bounded
<1>5. CASE BufferingHandles(job)
    <2>1. consumer = "buffered" /\ UNCHANGED rec
        BY <1>5 DEF BufferingHandles
    <2>2. CASE events' = events \o AccountEvents(job) /\ UNCHANGED cancelled
        <3>1. PICK e : AccountEvents(job) = <<e>>
            BY OneEvent
        <3>2. IsSequence(events') /\ Len(events') = Len(events) + 1
            BY <1>2, <2>2, <3>1, OneMore
        <3>. QED BY <1>1, <1>2, <2>1, <2>2, <3>2 DEF Bounded
    <2>3. CASE cancelled' = TRUE /\ UNCHANGED events
        BY <1>1, <1>2, <2>1, <2>3 DEF Bounded
    <2>. QED BY <1>5, <2>2, <2>3 DEF BufferingHandles
<1>. QED BY <1>3, <1>4, <1>5

LEMMA BoundedNext == Slots /\ Bounded /\ [Next]_vars => Bounded'
<1>. SUFFICES ASSUME Slots, Bounded, [Next]_vars PROVE Bounded'
    OBVIOUS
<1>1. CASE UNCHANGED <<chan, consumer, handled, consumerVars>>
    BY <1>1 DEF Bounded, consumerVars
<1>2. CASE Len(chan') <= ChannelSize /\ UNCHANGED <<consumer, handled, consumerVars>>
    BY <1>2 DEF Bounded, consumerVars
<1>3. IsSequence(chan) /\ Len(chan) \in Nat /\ Len(chan) <= ChannelSize /\ ChannelSize \in Nat
    BY LenZero, PathAssumption DEF Slots, AllSlotted, Bounded
<1>4. CASE Register \/ BuildAll \/ Stopped
    BY <1>1, <1>4 DEF Register, BuildAll, Stopped
<1>5. CASE Source
    <2>1. UNCHANGED chan \/ (Len(chan) < ChannelSize /\ \E u : chan' = Append(chan, u))
        BY <1>5, SourceStepRoom DEF Source
    <2>2. Len(chan') <= ChannelSize
        BY <1>3, <2>1, AppendFacts
    <2>. QED BY <1>2, <1>5, <2>2 DEF Source
<1>6. ASSUME NEW c \in Clients, Client(c) \/ ClientSubscribes(c) PROVE Bounded'
    BY <1>1, <1>6 DEF Client, ClientSubscribes
<1>7. CASE RuntimeTakes \/ RuntimeStops \/ RuntimeReturns
    <2>1. chan' = <<>> \/ (chan # <<>> /\ chan' = Tail(chan))
        BY <1>7 DEF RuntimeTakes, RuntimeStops, RuntimeReturns
    <2>2. Len(chan') <= ChannelSize
        BY <1>3, <2>1, TailFacts, EmptyFacts
    <2>. QED BY <1>2, <1>7, <2>2 DEF RuntimeTakes, RuntimeStops, RuntimeReturns
<1>8. ASSUME NEW job \in jobs, StreamHandles(job) \/ PassthroughHandles(job) \/ BufferingHandles(job)
      PROVE  Bounded'
    BY <1>8, HandlerBounded
<1>9. CASE Passthrough
    BY <1>9, SinkBounded
<1>10. CASE Idle \/ UNCHANGED vars
    BY <1>1, <1>10 DEF Idle, vars
<1>. QED BY <1>4, <1>5, <1>6, <1>7, <1>8, <1>9, <1>10 DEF Next, Handlers

LEMMA ServedTypes == Slots /\ Served /\ Serving /\ Bounded => TypeOK
<1>. SUFFICES ASSUME Slots, Served, Serving, Bounded PROVE TypeOK
    OBVIOUS
<1>1. src \in Results \cup {"connect", "running", "slot", "scan", "finishing", "failing"}
    BY DEF Serving, Resting, Flow, RpcFlow, SnapshotFlow, Results
<1>2. \A c \in Clients : \A i \in DOMAIN clients[c].at : clients[c].tries[i] \in 0 .. MaxTries
    BY DEF Served, ClientKept, InStep
<1>3. DOMAIN handled = 1 .. Len(handled)
    BY LenZero DEF Slots
<1>4. \A i \in DOMAIN handled : registered[handled[i].pipeline].kind = "account"
    BY <1>3 DEF Serving, Rights, RightfulJob, AccountPipelines
<1>. QED BY <1>1, <1>2, <1>4 DEF TypeOK, Serving, Flow, Registry, Bounded

(* When the run is over and the source had completed, an account is on its *)
(* way to nobody.                                                          *)
LEMMA NothingOnItsWay ==
    ASSUME Slots, Serving, source # "fumarole", run = "ok", NEW a \in Accounts, NEW i, NEW id
    PROVE  ~OnWay(a, id) /\ ~Working(a, i) /\ ~Failed
<1>1. src = "completed" /\ jobs = {} /\ chan = <<>> /\ None \notin Accounts
    BY PathAssumption DEF Serving, NoneMissing
<1>2. ~Working(a, i)
    BY <1>1 DEF Working
<1>3. ~In(chan, a, id) /\ ~In(<<>>, a, id)
    BY <1>1, InEmpty
<1>4. CASE source = "rpc"
    <2>1. sync = <<>> /\ held = None /\ \A t \in DOMAIN tasks : tasks[t].pc = "ok"
        BY <1>1, <1>4 DEF Serving, Flow, RpcFlow
    <2>2. ~Unsent(a, id) /\ ~Failed
        BY <1>1, <1>4, <2>1 DEF Unsent, Failed
    <2>. QED BY <1>2, <1>3, <2>1, <2>2 DEF OnWay, Taken
<1>5. CASE source = "snapshot"
    <2>1. left = {} /\ held = Finished /\ sync = <<>>
        BY <1>1, <1>5 DEF Serving, Flow, SnapshotFlow
    <2>2. ~Unsent(a, id) /\ ~Failed
        BY <1>1, <1>5, <2>1 DEF Unsent, Failed
    <2>3. ~Taken(a, id)
        BY <1>1, <2>1 DEF Taken, Carries, Finished
    <2>. QED BY <1>2, <1>3, <2>1, <2>2, <2>3 DEF OnWay
<1>. QED BY <1>4, <1>5 DEF Serving, Resting

LEMMA ServedComplete == Slots /\ Serving => CompletedMeansServed
<1>. SUFFICES ASSUME Slots, Serving, source # "fumarole", NEW i \in DOMAIN registered,
                     registered[i].kind = "account", Built
              PROVE  LET mine == {a \in Accounts : OwnerOf[a] \in OwnersOf(registered[i])}
                         done == {handled[h].account : h \in HandledBy(i)}
                     IN /\ \A h, g \in HandledBy(i) : handled[h].account = handled[g].account => h = g
                        /\ done \subseteq mine
                        /\ run = "ok" /\ Alone(i) =>
                             done = mine \cap (IF source = "snapshot" THEN Loadable ELSE Accounts)
    BY DEF CompletedMeansServed, Built
<1> DEFINE mine == {a \in Accounts : OwnerOf[a] \in OwnersOf(registered[i])}
           done == {handled[h].account : h \in HandledBy(i)}
<1>1. i \in AccountPipelines
    BY DEF AccountPipelines
<1>2. PICK id : id = registered[i].id
    OBVIOUS
<1>3. DOMAIN handled = 1 .. Len(handled)
    BY LenZero DEF Slots
<1>4. ASSUME NEW h \in HandledBy(i)
      PROVE  /\ h \in 1 .. Len(handled) /\ handled[h].pipeline = i /\ handled[h].account \in Offered
             /\ handled[h].account \in Accounts /\ handled[h].account \in mine
    <2>1. h \in 1 .. Len(handled) /\ handled[h].pipeline = i
        BY <1>3 DEF HandledBy
    <2>2. handled[h].account \in Offered /\ OwnerOf[handled[h].account] \in OwnersOf(registered[i])
        BY <2>1 DEF Serving, Rights, RightfulJob
    <2>. QED BY <2>1, <2>2, OfferedAreAccounts
<1>5. ASSUME NEW h \in HandledBy(i), NEW g \in HandledBy(i), handled[h].account = handled[g].account
      PROVE  h = g
    <2>1. PICK a \in Accounts : a = handled[h].account
        BY <1>4
    <2>2. /\ h \in 1 .. Len(handled) /\ g \in 1 .. Len(handled)
          /\ IsFor(handled[h], a, i) /\ IsFor(handled[g], a, i)
        BY <1>4, <1>5, <2>1 DEF IsFor
    <2>3. OnceOnly(a, i, id)
        BY <1>1, <1>2 DEF Serving, Once
    <2>. QED BY <2>2, <2>3 DEF OnceOnly
<1>6. done \subseteq mine \cap Offered
    BY <1>4
<1>7. ASSUME run = "ok", Alone(i), NEW a \in mine \cap Offered
      PROVE  a \in done
    <2>1. a \in Accounts /\ Wants(filters, id, a)
        BY <1>1, <1>2, <1>7 DEF Serving, Prefiltered
    <2>2. Somewhere(a, i, id) \/ Failed
        BY <1>1, <1>2, <1>7, <2>1 DEF Serving, NoneMissing
    <2>3. ~OnWay(a, id) /\ ~Working(a, i) /\ ~Failed
        BY <1>7, <2>1, NothingOnItsWay
    <2>4. PICK h \in 1 .. Len(handled) : IsFor(handled[h], a, i)
        BY <2>2, <2>3 DEF Somewhere, Done
    <2>5. h \in HandledBy(i) /\ handled[h].account = a
        BY <1>3, <2>4 DEF HandledBy, IsFor
    <2>. QED BY <2>5
<1>8. Offered = IF source = "snapshot" THEN Loadable ELSE Accounts
    BY DEF Offered
<1>. HIDE DEF mine, done
<1>9. done \subseteq mine /\ (run = "ok" /\ Alone(i) => done = mine \cap Offered)
    BY <1>6, <1>7
<1>. QED BY <1>5, <1>8, <1>9 DEF mine, done

(***************************************************************************)
(* With solana-rpc-source and solana-snapshot-source, whichever of their   *)
(* tasks fail, however the runtime's handlers (get_pipelines, Pipeline::   *)
(* handle) interleave and whenever the run is stopped: no account pipeline *)
(* handles an account twice, or one of another owner, and when the source  *)
(* has completed and the run ends well every pipeline whose id no pipeline *)
(* of another kind has has handled each account of its owners.  The        *)
(* BufferingHandler has told the coordinator of each, once, unless it was  *)
(* cancelled, and the channels stay within their bounds.                   *)
(***************************************************************************)
THEOREM AccountsAreServed == Spec => []AccountsServed
<1> DEFINE I == Slots /\ Served /\ Serving /\ Bounded
<1>1. Init => I
    BY SlotsInit, ServedInit, ServingInit, BoundedInit
<1>2. I /\ [Next]_vars => I'
    BY SlotsNext, ServedNext, ServingNext, BoundedNext
<1>3. I => AccountsServed
    BY ServedTypes, ServedComplete DEF AccountsServed, AccountsCountedOnce, Bounded
<1>. QED BY <1>1, <1>2, <1>3, PTL DEF Spec
=============================================================================
