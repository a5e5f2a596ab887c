--------------------------- MODULE RuntimeProofs ---------------------------
(***************************************************************************)
(* Theorems about Runtime, for every number of jobs, channel size, number  *)
(* of updates and set of wedged handlers.                                  *)
(***************************************************************************)
EXTENDS Runtime, FiniteSetTheorems, TLAPS

-----------------------------------------------------------------------------
(* The inductive invariant *)

(* The update u is in the channel q. *)
In(q, u) == \E i \in 1..Len(q) : q[i] = u

(* Every update in q was sent after u. *)
AllAfter(q, u) == \A i \in 1..Len(q) : q[i] # 0 => u < q[i]

(* Every update in q is below u. *)
AllBefore(q, u) == \A i \in 1..Len(q) : q[i] < u

(* The updates in q are in the order they were sent. *)
Ascending(q) ==
    \A i, j \in 1..Len(q) : i < j /\ q[i] # 0 /\ q[j] # 0 => q[i] < q[j]

Holding == bridge \in {"check", "spawn"}
Waiting == prod = "permit"
Looping == prod \in {"recv", "permit"}

(* Updates move through the channels in the order they were sent, so none  *)
(* is in two places: jobs that were spawned precede the bridge's, which    *)
(* precedes the queue, the update that waits for a permit and the stream.  *)
JobOrder ==
    \A u \in running \cup ended :
        /\ u <= sent
        /\ Holding => u < job
        /\ AllAfter(queue, u)
        /\ Waiting => u < cur
        /\ AllAfter(stream, u)

BridgeOrder ==
    Holding =>
        /\ job \in 1..sent
        /\ AllAfter(queue, job)
        /\ Waiting => job < cur
        /\ AllAfter(stream, job)

QueueOrder ==
    /\ Ascending(queue)
    /\ AllBefore(queue, sent + 1)
    /\ Waiting => AllBefore(queue, cur)
    /\ \A u \in Updates : In(queue, u) => AllAfter(stream, u)

StreamOrder ==
    /\ Waiting => cur \in 1..sent /\ AllAfter(stream, cur)
    /\ Ascending(stream)
    /\ AllBefore(stream, sent + 1)

(* Nothing is lost as long as the buffer task receives, and by a drain.    *)
NothingLost ==
    Looping \/ drain =>
        \A u \in 1..sent :
            \/ u \in running \cup ended
            \/ Holding /\ u = job
            \/ In(queue, u)
            \/ Waiting /\ u = cur
            \/ In(stream, u)

(* How the buffer task left its loop. *)
LoopOK ==
    /\ Looping => result = "Ok" /\ ~drain /\ ~abort /\ ~timedOut
    /\ ~Looping => drain \/ stop \/ result = "Err"
    /\ drain => ~abort /\ result = "Ok" /\ stream = <<>> /\ src = "exited"

(* What the supervisor returns, and when. *)
SupervisorOK ==
    /\ main = "joining" => stop
    /\ outcome = "None" <=> main \notin {"returned", "dropped"}
    /\ outcome = "Ok" => prod = "done" /\ (result = "Ok" \/ stop)

IndInv ==
    /\ TypeOK /\ PermitsConserved /\ BarrierSound
    /\ JobOrder /\ BridgeOrder /\ QueueOrder /\ StreamOrder
    /\ NothingLost /\ LoopOK /\ SupervisorOK

-----------------------------------------------------------------------------
(* Channels *)

(* What is in a channel after a send. *)
LEMMA AppendFacts ==
    ASSUME NEW q \in Seq(Nat), NEW e \in Nat
    PROVE  /\ Append(q, e) \in Seq(Nat)
           /\ Len(Append(q, e)) = Len(q) + 1
           /\ \A u : In(Append(q, e), u) <=> In(q, u) \/ u = e
           /\ \A u \in Nat : AllAfter(Append(q, e), u) <=>
                               AllAfter(q, u) /\ (e # 0 => u < e)
           /\ \A u \in Nat : AllBefore(Append(q, e), u) <=>
                               AllBefore(q, u) /\ e < u
           /\ Ascending(q) /\ (e # 0 => AllBefore(q, e)) => Ascending(Append(q, e))
<1> DEFINE a == Append(q, e)
<1>1. /\ a \in Seq(Nat) /\ Len(q) \in Nat /\ Len(a) = Len(q) + 1
      /\ a[Len(q) + 1] = e
      /\ \A i \in 1..Len(q) : a[i] = q[i] /\ q[i] \in Nat
  OBVIOUS
<1>2. 1..Len(a) = 1..Len(q) \cup {Len(q) + 1}
  BY <1>1
<1> HIDE DEF a
<1>3. \A u : In(a, u) <=> In(q, u) \/ u = e
  BY <1>1, <1>2 DEF In
<1>4. \A u \in Nat : AllAfter(a, u) <=> AllAfter(q, u) /\ (e # 0 => u < e)
  BY <1>1, <1>2 DEF AllAfter
<1>5. \A u \in Nat : AllBefore(a, u) <=> AllBefore(q, u) /\ e < u
  BY <1>1, <1>2 DEF AllBefore
<1>6. Ascending(q) /\ (e # 0 => AllBefore(q, e)) => Ascending(a)
  <2>1. SUFFICES ASSUME Ascending(q), e # 0 => AllBefore(q, e),
                        NEW i \in 1..Len(a), NEW j \in 1..Len(a),
                        i < j, a[i] # 0, a[j] # 0
                 PROVE  a[i] < a[j]
    BY DEF Ascending
  <2>2. i \in 1..Len(q) /\ a[i] = q[i]
    BY <2>1, <1>1
  <2>3. CASE j \in 1..Len(q)
    BY <2>1, <2>2, <2>3, <1>1 DEF Ascending
  <2>4. CASE j = Len(q) + 1
    BY <2>1, <2>2, <2>4, <1>1 DEF AllBefore
  <2> QED
    BY <2>3, <2>4, <1>2
<1> QED
  BY <1>1, <1>3, <1>4, <1>5, <1>6 DEF a

(* What is in a channel after a receive. *)
LEMMA TailFacts ==
    ASSUME NEW q \in Seq(Nat), q # <<>>
    PROVE  /\ Tail(q) \in Seq(Nat) /\ Head(q) \in Nat
           /\ Len(q) > 0 /\ Len(Tail(q)) = Len(q) - 1
           /\ \A u : In(q, u) <=> u = Head(q) \/ In(Tail(q), u)
           /\ \A u \in Nat : AllAfter(q, u) =>
                  AllAfter(Tail(q), u) /\ (Head(q) # 0 => u < Head(q))
           /\ \A u \in Nat : AllBefore(q, u) =>
                  AllBefore(Tail(q), u) /\ Head(q) < u
           /\ Ascending(q) => Ascending(Tail(q))
           /\ Ascending(q) /\ Head(q) # 0 => AllAfter(Tail(q), Head(q))
<1> DEFINE t == Tail(q)
<1>1. /\ t \in Seq(Nat) /\ Len(q) \in Nat /\ Len(q) > 0 /\ Len(t) = Len(q) - 1
      /\ Head(q) = q[1] /\ Head(q) \in Nat
      /\ \A i \in 1..Len(t) : t[i] = q[i + 1]
  OBVIOUS
<1> HIDE DEF t
<1>2. /\ \A i \in 1..Len(t) : i + 1 \in 1..Len(q) /\ i + 1 # 1
      /\ \A i \in 1..Len(q) : i = 1 \/ (i - 1 \in 1..Len(t) /\ t[i - 1] = q[i])
      /\ 1 \in 1..Len(q)
  BY <1>1
<1>3. \A u : In(q, u) <=> u = Head(q) \/ In(t, u)
  BY <1>1, <1>2 DEF In
<1>4. \A u \in Nat : AllAfter(q, u) => AllAfter(t, u) /\ (Head(q) # 0 => u < Head(q))
  BY <1>1, <1>2 DEF AllAfter
<1>5. \A u \in Nat : AllBefore(q, u) => AllBefore(t, u) /\ Head(q) < u
  BY <1>1, <1>2 DEF AllBefore
<1>6. Ascending(q) => Ascending(t)
  <2>1. SUFFICES ASSUME Ascending(q), NEW i \in 1..Len(t), NEW j \in 1..Len(t),
                        i < j, t[i] # 0, t[j] # 0
                 PROVE  t[i] < t[j]
    BY DEF Ascending
  <2>2. i + 1 \in 1..Len(q) /\ j + 1 \in 1..Len(q) /\ i + 1 < j + 1
    BY <2>1, <1>1, <1>2
  <2> QED
    BY <2>1, <2>2, <1>1 DEF Ascending
<1>7. Ascending(q) /\ Head(q) # 0 => AllAfter(t, Head(q))
  <2>1. SUFFICES ASSUME Ascending(q), q[1] # 0, NEW i \in 1..Len(t), t[i] # 0
                 PROVE  q[1] < t[i]
    BY <1>1 DEF AllAfter
  <2>2. 1 \in 1..Len(q) /\ i + 1 \in 1..Len(q) /\ 1 < i + 1
    BY <1>1, <1>2
  <2> QED
    BY <2>1, <2>2, <1>1 DEF Ascending
<1> QED
  BY <1>1, <1>3, <1>4, <1>5, <1>6, <1>7 DEF t

LEMMA EmptyFacts ==
    /\ Len(<<>>) = 0
    /\ \A u : ~In(<<>>, u)
    /\ \A u : AllAfter(<<>>, u) /\ AllBefore(<<>>, u)
    /\ Ascending(<<>>)
BY DEF In, AllAfter, AllBefore, Ascending

(* An element of a channel that lies after u is not u. *)
LEMMA AfterIn ==
    ASSUME NEW q \in Seq(Nat), NEW u \in Nat, NEW v \in Nat \ {0},
           AllAfter(q, u), In(q, v)
    PROVE  u < v
BY DEF AllAfter, In

LEMMA BeforeIn ==
    ASSUME NEW q \in Seq(Nat), NEW u \in Nat, NEW v \in Nat,
           AllBefore(q, u), In(q, v)
    PROVE  v < u
BY DEF AllBefore, In

(* An earlier bound is a bound. *)
LEMMA BoundsWeaken ==
    ASSUME NEW q \in Seq(Nat), NEW u \in Nat, NEW v \in Nat, u <= v
    PROVE  /\ AllAfter(q, v) => AllAfter(q, u)
           /\ AllBefore(q, u) => AllBefore(q, v)
<1>1. \A i \in 1..Len(q) : q[i] \in Nat
  OBVIOUS
<1> QED
  BY <1>1 DEF AllAfter, AllBefore

-----------------------------------------------------------------------------
(* The parts of the invariant that a step leaves alone *)

(* A sequence over a set of naturals is a sequence of naturals. *)
LEMMA SeqOfNat ==
    ASSUME NEW S \in SUBSET Nat, NEW q \in Seq(S)
    PROVE  q \in Seq(Nat)
<1>1. Len(q) \in Nat /\ q \in [1..Len(q) -> S]
  OBVIOUS
<1>2. q \in [1..Len(q) -> Nat]
  BY <1>1
<1> QED
  BY <1>1, <1>2

(* Types in the form the lemmas above use. *)
LEMMA TypeFacts ==
    ASSUME TypeOK
    PROVE  /\ Jobs \in Nat /\ Jobs > 0 /\ free \in Nat
           /\ sent \in Nat /\ job \in Nat /\ cur \in Nat
           /\ stream \in Seq(Nat) /\ queue \in Seq(Nat)
           /\ Len(queue) \in Nat
           /\ running \subseteq Nat /\ ended \subseteq Nat
           /\ 0 \notin running \cup ended
           /\ IsFiniteSet(running) /\ Cardinality(running) \in Nat
<1>1. Updates \subseteq Nat /\ 0 \notin Updates /\ IsFiniteSet(Updates)
  BY RuntimeAssumption, FS_Interval DEF Updates
<1>2. IsFiniteSet(running) /\ Cardinality(running) \in Nat
  BY <1>1, FS_Subset, FS_CardinalityType DEF TypeOK
<1>3. stream \in Seq(Updates \cup {0}) /\ queue \in Seq(Updates)
  BY DEF TypeOK, StreamError
<1>4. stream \in Seq(Nat) /\ queue \in Seq(Nat)
  BY <1>1, <1>3, SeqOfNat
<1> QED
  BY <1>1, <1>2, <1>4, RuntimeAssumption DEF TypeOK, Jobs, NoUpdate

(* A step that moves no update. *)
LEMMA OrderFrame ==
    ASSUME JobOrder, BridgeOrder, QueueOrder, StreamOrder,
           UNCHANGED <<sent, stream, cur, queue, bridge, job, running, ended>>,
           Waiting' => Waiting
    PROVE  JobOrder' /\ BridgeOrder' /\ QueueOrder' /\ StreamOrder'
<1>1. Holding' = Holding
  BY DEF Holding
<1>2. JobOrder'
  BY <1>1 DEF JobOrder
<1>3. BridgeOrder'
  BY <1>1 DEF BridgeOrder
<1>4. QueueOrder'
  BY DEF QueueOrder
<1>5. StreamOrder'
  BY DEF StreamOrder
<1> QED
  BY <1>2, <1>3, <1>4, <1>5

(* A step that moves no permit. *)
LEMMA PermitFrame ==
    ASSUME PermitsConserved, BarrierSound,
           UNCHANGED <<free, queue, bridge, running, timedOut>>,
           prod' \in {"join", "done"} => prod \in {"join", "done"}
    PROVE  PermitsConserved' /\ BarrierSound'
BY DEF PermitsConserved, BarrierSound, BridgeHolds

(* A step that moves no update and does not leave the loop.                *)
LEMMA LossFrame ==
    ASSUME NothingLost,
           UNCHANGED <<sent, stream, cur, queue, bridge, job, running, ended>>,
           UNCHANGED <<prod, drain>>
    PROVE  NothingLost'
BY DEF NothingLost, Looping, Holding, Waiting

-----------------------------------------------------------------------------
(* Steps of the supervisor *)

LEMMA SupervisorStep ==
    ASSUME IndInv, SignalArrives \/ Supervisor
    PROVE  IndInv'
<1> USE DEF IndInv
<1>1. UNCHANGED othersOfMain
  BY DEF SignalArrives, Supervisor, PollSignal, PollStatus, PollBuffer,
         BufferJoined, BufferStopped, DropRuntime
<1>2. TypeOK'
  <2>1. /\ main' \in {"signal", "status", "buffer", "joining", "waiting",
                      "returned", "dropped"}
        /\ signal' \in BOOLEAN /\ stop' \in BOOLEAN
        /\ outcome' \in {"None", "Ok", "Err"}
    BY DEF SignalArrives, Supervisor, PollSignal, PollStatus, PollBuffer,
           BufferJoined, BufferStopped, DropRuntime, ForceStop, TypeOK
  <2> QED
    BY <2>1, <1>1 DEF TypeOK, othersOfMain, sourceVars, producerVars,
                      bridgeVars, jobVars
<1>3. JobOrder' /\ BridgeOrder' /\ QueueOrder' /\ StreamOrder'
  BY <1>1, OrderFrame DEF othersOfMain, sourceVars, producerVars, bridgeVars,
                          jobVars, Waiting
<1>4. PermitsConserved' /\ BarrierSound'
  BY <1>1, PermitFrame DEF othersOfMain, producerVars, bridgeVars, jobVars
<1>5. NothingLost'
  BY <1>1, LossFrame DEF othersOfMain, sourceVars, producerVars, bridgeVars,
                         jobVars
<1>6. stop => stop'
  BY DEF SignalArrives, Supervisor, PollSignal, PollStatus, PollBuffer,
         BufferJoined, BufferStopped, DropRuntime, ForceStop
<1>7. LoopOK'
  BY <1>1, <1>6 DEF LoopOK, Looping, othersOfMain, sourceVars, producerVars
<1>8. SupervisorOK'
  BY <1>1, <1>6 DEF SupervisorOK, othersOfMain, producerVars, SignalArrives,
     Supervisor, PollSignal, PollStatus, PollBuffer, BufferJoined,
     BufferStopped, DropRuntime, ForceStop, TypeOK, LoopOK, Looping
<1> QED
  BY <1>2, <1>3, <1>4, <1>5, <1>7, <1>8

-----------------------------------------------------------------------------
(* Steps of the source *)

LEMMA SendUpdateStep ==
    ASSUME IndInv, SendUpdate
    PROVE  IndInv'
<1> USE DEF IndInv
<1> DEFINE n == sent + 1
<1>1. /\ stream' = Append(stream, n) /\ sent' = n /\ n \in Updates
      /\ UNCHANGED <<src, status, erred, producerVars, free, queue,
                     bridgeVars, jobVars, mainVars>>
      /\ src = "running"
  BY RuntimeAssumption DEF SendUpdate, Send, TypeOK, Updates
<1>2. /\ sent \in Nat /\ n \in Nat /\ n # 0 /\ sent + 1 = n /\ n + 1 \in Nat
      /\ stream \in Seq(Nat) /\ queue \in Seq(Nat)
      /\ running \subseteq Nat /\ ended \subseteq Nat
      /\ job \in Nat /\ cur \in Nat
  BY TypeFacts
<1>3. /\ \A u : In(stream', u) <=> In(stream, u) \/ u = n
      /\ \A u \in Nat : AllAfter(stream', u) <=> AllAfter(stream, u) /\ (n # 0 => u < n)
      /\ \A u \in Nat : AllBefore(stream', u) <=> AllBefore(stream, u) /\ n < u
      /\ Ascending(stream) /\ (n # 0 => AllBefore(stream, n)) => Ascending(stream')
  BY <1>1, <1>2, AppendFacts
<1>4. UNCHANGED <<Holding, Waiting, Looping, prod, drain, cur, job, queue,
                  running, ended, bridge>>
  BY <1>1 DEF Holding, Waiting, Looping, producerVars, bridgeVars, jobVars
<1>5. TypeOK'
  <2>1. stream' \in Seq(Updates \cup {StreamError})
    BY <1>1 DEF TypeOK
  <2>2. sent' \in 0..MaxUpdates
    BY <1>1, RuntimeAssumption DEF Updates
  <2> QED
    BY <1>1, <2>1, <2>2 DEF TypeOK, producerVars, bridgeVars, jobVars, mainVars
<1> HIDE DEF n
<1>6. JobOrder'
  <2>1. SUFFICES ASSUME NEW u \in running \cup ended
                 PROVE  /\ u <= n
                        /\ Holding => u < job
                        /\ AllAfter(queue, u)
                        /\ Waiting => u < cur
                        /\ AllAfter(stream', u)
    BY <1>1, <1>4 DEF JobOrder
  <2>2. u \in Nat /\ u <= sent
    BY <1>2 DEF JobOrder
  <2> QED
    BY <2>2, <1>2, <1>3 DEF JobOrder
<1>7. BridgeOrder'
  BY <1>1, <1>2, <1>3, <1>4 DEF BridgeOrder
<1>8. QueueOrder'
  <2>1. AllBefore(queue, n) /\ AllBefore(queue, n + 1)
    BY <1>2, BoundsWeaken DEF QueueOrder
  <2>2. ASSUME NEW u \in Updates, In(queue, u)
        PROVE  AllAfter(stream', u)
    <3>1. u \in Nat
      BY RuntimeAssumption DEF Updates
    <3>2. u < n
      BY <2>1, <2>2, <3>1, <1>2, BeforeIn
    <3> QED
      BY <2>2, <3>1, <3>2, <1>3 DEF QueueOrder
  <2> QED
    BY <2>1, <2>2, <1>1, <1>4 DEF QueueOrder
<1>9. StreamOrder'
  <2>1. AllBefore(stream, n) /\ AllBefore(stream, n + 1)
    BY <1>2, BoundsWeaken DEF StreamOrder
  <2>2. AllBefore(stream', n + 1)
    BY <2>1, <1>2, <1>3
  <2> QED
    BY <2>1, <2>2, <1>1, <1>2, <1>3, <1>4 DEF StreamOrder
<1>10. NothingLost'
  <2>1. 1..n = 1..sent \cup {n}
    BY <1>2
  <2> QED
    BY <2>1, <1>1, <1>3, <1>4 DEF NothingLost
<1>11. PermitsConserved' /\ BarrierSound'
  BY <1>1, PermitFrame DEF producerVars, bridgeVars, jobVars
<1>12. LoopOK' /\ SupervisorOK'
  BY <1>1 DEF LoopOK, SupervisorOK, Looping, producerVars, mainVars
<1> QED
  BY <1>5, <1>6, <1>7, <1>8, <1>9, <1>10, <1>11, <1>12

LEMMA SendErrorStep ==
    ASSUME IndInv, SendError
    PROVE  IndInv'
<1> USE DEF IndInv
<1>1. /\ stream' = Append(stream, 0) /\ erred' = TRUE
      /\ UNCHANGED <<src, status, sent, producerVars, free, queue, bridgeVars,
                     jobVars, mainVars>>
      /\ src = "running"
  BY DEF SendError, Send, StreamError
<1>2. /\ sent \in Nat /\ sent + 1 > 0 /\ sent + 1 \in Nat
      /\ stream \in Seq(Nat) /\ queue \in Seq(Nat)
      /\ running \subseteq Nat /\ ended \subseteq Nat
      /\ job \in Nat /\ cur \in Nat /\ Updates \subseteq Nat
      /\ 0 \notin 1..sent
  BY TypeFacts, RuntimeAssumption DEF Updates
<1>3. /\ \A u : In(stream', u) <=> In(stream, u) \/ u = 0
      /\ \A u \in Nat : AllAfter(stream', u) <=> AllAfter(stream, u)
      /\ \A u \in Nat : AllBefore(stream', u) <=> AllBefore(stream, u) /\ 0 < u
      /\ Ascending(stream) => Ascending(stream')
  <2> 0 \in Nat
    OBVIOUS
  <2> QED
    BY <1>1, <1>2, AppendFacts
<1>4. UNCHANGED <<Holding, Waiting, Looping, prod, drain, cur, job, queue,
                  running, ended, bridge>>
  BY <1>1 DEF Holding, Waiting, Looping, producerVars, bridgeVars, jobVars
<1>5. TypeOK'
  <2>1. stream' \in Seq(Updates \cup {StreamError})
    BY <1>1 DEF TypeOK, StreamError
  <2> QED
    BY <1>1, <2>1 DEF TypeOK, producerVars, bridgeVars, jobVars, mainVars
<1>6. JobOrder' /\ BridgeOrder'
  BY <1>1, <1>2, <1>3, <1>4 DEF JobOrder, BridgeOrder
<1>7. QueueOrder' /\ StreamOrder'
  BY <1>1, <1>2, <1>3, <1>4 DEF QueueOrder, StreamOrder
<1>8. NothingLost'
  BY <1>1, <1>2, <1>3, <1>4 DEF NothingLost
<1>9. PermitsConserved' /\ BarrierSound'
  BY <1>1, PermitFrame DEF producerVars, bridgeVars, jobVars
<1>10. LoopOK' /\ SupervisorOK'
  BY <1>1 DEF LoopOK, SupervisorOK, Looping, producerVars, mainVars
<1> QED
  BY <1>5, <1>6, <1>7, <1>8, <1>9, <1>10

LEMMA SourceEndsStep ==
    ASSUME IndInv, SourceReturns \/ SourceReports
    PROVE  IndInv'
<1> USE DEF IndInv
<1>1. /\ UNCHANGED <<sent, erred, stream, producerVars, free, queue,
                     bridgeVars, jobVars, mainVars>>
      /\ src # "exited"
      /\ src' \in {"returned", "reported", "exited"}
      /\ status' \in Statuses
  BY DEF SourceReturns, SourceReports, Statuses, TypeOK
<1>2. TypeOK'
  BY <1>1 DEF TypeOK, producerVars, bridgeVars, jobVars, mainVars
<1>3. JobOrder' /\ BridgeOrder' /\ QueueOrder' /\ StreamOrder'
  BY <1>1, OrderFrame DEF producerVars, bridgeVars, jobVars, Waiting
<1>4. PermitsConserved' /\ BarrierSound'
  BY <1>1, PermitFrame DEF producerVars, bridgeVars, jobVars
<1>5. NothingLost'
  BY <1>1, LossFrame DEF producerVars, bridgeVars, jobVars
<1>6. LoopOK' /\ SupervisorOK'
  BY <1>1 DEF LoopOK, SupervisorOK, Looping, producerVars, mainVars
<1> QED
  BY <1>2, <1>3, <1>4, <1>5, <1>6

-----------------------------------------------------------------------------
(* Steps of the buffer task *)

(* An update moves from the stream to the wait for a permit. *)
LEMMA ReceiveUpdateStep ==
    ASSUME IndInv, Receive, stream # <<>>, Head(stream) # StreamError
    PROVE  IndInv'
<1> USE DEF IndInv
<1> DEFINE h == Head(stream)
<1>1. /\ prod = "recv" /\ prod' = "permit" /\ cur' = h /\ stream' = Tail(stream)
      /\ UNCHANGED <<drain, result, timedOut, abort, free, queue, sourceVars,
                     bridgeVars, jobVars, mainVars>>
  BY DEF Receive, othersOfProducer, Break
<1>2. /\ sent \in Nat /\ sent + 1 \in Nat
      /\ stream \in Seq(Nat) /\ queue \in Seq(Nat)
      /\ running \subseteq Nat /\ ended \subseteq Nat
      /\ job \in Nat /\ Updates \subseteq Nat
  BY TypeFacts, RuntimeAssumption DEF Updates
<1>3. /\ h \in Nat /\ stream' \in Seq(Nat)
      /\ \A u : In(stream, u) <=> u = h \/ In(stream', u)
      /\ \A u \in Nat : AllAfter(stream, u) =>
             AllAfter(stream', u) /\ (h # 0 => u < h)
      /\ \A u \in Nat : AllBefore(stream, u) => AllBefore(stream', u) /\ h < u
      /\ Ascending(stream) => Ascending(stream')
      /\ Ascending(stream) /\ h # 0 => AllAfter(stream', h)
  BY <1>1, <1>2, TailFacts
<1>4. h # 0 /\ h < sent + 1 /\ h \in 1..sent
  BY <1>2, <1>3 DEF StreamOrder, StreamError
<1>5. TypeOK'
  <2>1. h \in Updates
    BY <1>4, RuntimeAssumption DEF TypeOK, Updates
  <2>2. stream' \in Seq(Updates \cup {StreamError})
    BY <1>1 DEF TypeOK
  <2> QED
    BY <2>1, <2>2, <1>1 DEF TypeOK, sourceVars, bridgeVars, jobVars, mainVars
<1>6. UNCHANGED <<Holding, Looping, sent, job, queue, running, ended, bridge, drain>>
  BY <1>1 DEF Holding, Looping, sourceVars, bridgeVars, jobVars
<1>7. ~Waiting /\ Waiting'
  BY <1>1 DEF Waiting
<1> HIDE DEF h
<1>8. JobOrder' /\ BridgeOrder'
  BY <1>1, <1>2, <1>3, <1>4, <1>6 DEF JobOrder, BridgeOrder
<1>9. QueueOrder'
  <2>1. ASSUME NEW i \in 1..Len(queue) PROVE queue[i] < h
    <3>1. queue[i] \in Updates /\ In(queue, queue[i])
      BY DEF TypeOK, In
    <3>2. AllAfter(stream, queue[i])
      BY <3>1 DEF QueueOrder
    <3> QED
      BY <3>1, <3>2, <1>2, <1>3, <1>4
  <2>2. AllBefore(queue, h)
    BY <2>1 DEF AllBefore
  <2> QED
    BY <2>2, <1>1, <1>2, <1>3, <1>6 DEF QueueOrder
<1>10. StreamOrder'
  BY <1>1, <1>2, <1>3, <1>4, <1>6 DEF StreamOrder
<1>11. NothingLost'
  BY <1>1, <1>3, <1>6, <1>7 DEF NothingLost
<1>12. PermitsConserved' /\ BarrierSound'
  BY <1>1, PermitFrame DEF bridgeVars, jobVars
<1>13. LoopOK' /\ SupervisorOK'
  BY <1>1 DEF LoopOK, SupervisorOK, Looping, sourceVars, mainVars
<1> QED
  BY <1>5, <1>8, <1>9, <1>10, <1>11, <1>12, <1>13

(* The loop ends: the channel closed, an error, or a stop. *)
LEMMA BreakStep ==
    ASSUME IndInv,
           \/ Receive /\ (stream = <<>> \/ Head(stream) = StreamError)
           \/ TakeStop
    PROVE  IndInv'
<1> USE DEF IndInv
<1>1. /\ prod \in {"recv", "permit"} /\ prod' = "break"
      /\ UNCHANGED <<cur, timedOut, abort, free, queue, sourceVars, bridgeVars,
                     jobVars, mainVars>>
      /\ \/ /\ stream # <<>> /\ stream' = Tail(stream)
            /\ result' = "Err" /\ drain' = FALSE
         \/ /\ stream = <<>> /\ stream' = stream /\ src = "exited"
            /\ prod = "recv" /\ result' = "Ok" /\ drain' = TRUE
         \/ /\ stop /\ stream' = stream /\ result' = "Ok" /\ drain' = FALSE
  BY DEF Receive, TakeStop, Break, othersOfProducer, StreamClosed
<1>2. /\ sent \in Nat /\ sent + 1 \in Nat
      /\ stream \in Seq(Nat)
      /\ running \subseteq Nat /\ ended \subseteq Nat
      /\ job \in Nat /\ cur \in Nat /\ Updates \subseteq Nat
  BY TypeFacts, RuntimeAssumption DEF Updates
<1>3. /\ \A u \in Nat : AllAfter(stream, u) => AllAfter(stream', u)
      /\ \A u \in Nat : AllBefore(stream, u) => AllBefore(stream', u)
      /\ Ascending(stream) => Ascending(stream')
  <2>1. CASE stream # <<>> /\ stream' = Tail(stream)
    BY <2>1, <1>2, TailFacts
  <2>2. CASE stream' = stream
    BY <2>2
  <2> QED
    BY <2>1, <2>2, <1>1
<1>4. TypeOK'
  <2>1. stream \in Seq(Updates \cup {StreamError})
    BY DEF TypeOK
  <2>2. stream # <<>> => Tail(stream) \in Seq(Updates \cup {StreamError})
    BY <2>1
  <2>3. /\ stream' \in Seq(Updates \cup {StreamError})
        /\ drain' \in BOOLEAN /\ result' \in {"Ok", "Err"}
    <3>1. CASE stream # <<>> /\ stream' = Tail(stream) /\ result' = "Err" /\ drain' = FALSE
      BY <2>2, <3>1
    <3>2. CASE stream' = stream /\ result' = "Ok" /\ drain' \in BOOLEAN
      BY <2>1, <3>2
    <3> QED
      BY <3>1, <3>2, <1>1
  <2> QED
    BY <2>3, <1>1 DEF TypeOK, sourceVars, bridgeVars, jobVars, mainVars
<1>5. /\ UNCHANGED <<Holding, sent, job, queue, running, ended, bridge, cur>>
      /\ Looping /\ ~Looping' /\ ~Waiting'
  BY <1>1 DEF Holding, Looping, Waiting, sourceVars, bridgeVars, jobVars
<1>6. JobOrder' /\ BridgeOrder'
  BY <1>2, <1>3, <1>5 DEF JobOrder, BridgeOrder
<1>7. QueueOrder' /\ StreamOrder'
  BY <1>2, <1>3, <1>5 DEF QueueOrder, StreamOrder
<1>8. NothingLost'
  BY <1>1, <1>5 DEF NothingLost, Waiting
<1>9. PermitsConserved' /\ BarrierSound'
  BY <1>1, PermitFrame DEF bridgeVars, jobVars
<1>10. LoopOK' /\ SupervisorOK'
  BY <1>1, <1>5 DEF LoopOK, SupervisorOK, sourceVars, mainVars
<1> QED
  BY <1>4, <1>6, <1>7, <1>8, <1>9, <1>10

(* An update moves, with a permit, from the wait to the queue. *)
LEMMA AcquirePermitStep ==
    ASSUME IndInv, AcquirePermit
    PROVE  IndInv'
<1> USE DEF IndInv
<1>1. /\ prod = "permit" /\ prod' = "recv" /\ cur' = 0
      /\ free > 0 /\ free' = free - 1 /\ queue' = Append(queue, cur)
      /\ UNCHANGED <<stream, drain, result, timedOut, abort, sourceVars,
                     bridgeVars, jobVars, mainVars>>
  BY DEF AcquirePermit, othersOfProducer, NoUpdate
<1>2. /\ sent \in Nat /\ sent + 1 \in Nat
      /\ stream \in Seq(Nat) /\ queue \in Seq(Nat)
      /\ running \subseteq Nat /\ ended \subseteq Nat
      /\ job \in Nat /\ cur \in Nat /\ Updates \subseteq Nat
      /\ Jobs \in Nat /\ free \in Nat /\ Len(queue) \in Nat
      /\ Cardinality(running) \in Nat
  BY TypeFacts, RuntimeAssumption DEF Updates
<1>3. /\ Len(queue') = Len(queue) + 1
      /\ \A u : In(queue', u) <=> In(queue, u) \/ u = cur
      /\ \A u \in Nat : AllAfter(queue', u) <=>
             AllAfter(queue, u) /\ (cur # 0 => u < cur)
      /\ \A u \in Nat : AllBefore(queue', u) <=> AllBefore(queue, u) /\ cur < u
      /\ Ascending(queue) /\ (cur # 0 => AllBefore(queue, cur)) => Ascending(queue')
  BY <1>1, <1>2, AppendFacts
<1>4. /\ Waiting /\ ~Waiting' /\ Looping /\ Looping'
      /\ UNCHANGED <<Holding, BridgeHolds, sent, job, running, ended, bridge,
                     drain, stream>>
  BY <1>1 DEF Holding, BridgeHolds, Looping, Waiting, sourceVars, bridgeVars, jobVars
<1>5. cur \in Updates /\ cur \in 1..sent /\ cur < sent + 1
  BY <1>2, <1>4, RuntimeAssumption DEF StreamOrder, TypeOK, Updates
<1>6. TypeOK'
  <2>1. queue' \in Seq(Updates)
    BY <1>1, <1>5 DEF TypeOK
  <2>2. free' \in 0..Jobs
    BY <1>1, <1>2 DEF TypeOK
  <2> QED
    BY <2>1, <2>2, <1>1 DEF TypeOK, sourceVars, bridgeVars, jobVars, mainVars,
                            NoUpdate
<1>7. JobOrder' /\ BridgeOrder'
  BY <1>2, <1>3, <1>4 DEF JobOrder, BridgeOrder
<1>8. QueueOrder' /\ StreamOrder'
  BY <1>2, <1>3, <1>4, <1>5 DEF QueueOrder, StreamOrder
<1>9. NothingLost'
  BY <1>3, <1>4 DEF NothingLost
<1>10. PermitsConserved'
  <2>1. BridgeHolds \in Nat
    BY DEF BridgeHolds
  <2> QED
    BY <2>1, <1>1, <1>2, <1>3, <1>4 DEF PermitsConserved
<1>11. BarrierSound'
  BY <1>1 DEF BarrierSound
<1>12. LoopOK' /\ SupervisorOK'
  BY <1>1, <1>4 DEF LoopOK, SupervisorOK, sourceVars, mainVars
<1> QED
  BY <1>6, <1>7, <1>8, <1>9, <1>10, <1>11, <1>12

(* The end of the buffer task, which moves nothing. *)
LEMMA CloseStep ==
    ASSUME IndInv, StoreAbort \/ DropSender \/ JoinBridge
    PROVE  IndInv'
<1> USE DEF IndInv
<1>1. /\ prod \in {"break", "drop", "join"}
      /\ prod' \in {"drop", "drain", "done"}
      /\ prod' = "done" => prod = "join"
      /\ abort' \in BOOLEAN /\ (drain /\ ~abort => ~abort')
      /\ UNCHANGED <<stream, cur, drain, result, timedOut, free, queue,
                     sourceVars, bridgeVars, jobVars, mainVars>>
  <2>1. drain \in BOOLEAN /\ abort \in BOOLEAN
    BY DEF TypeOK
  <2>2. CASE StoreAbort
    <3>1. abort' \in BOOLEAN /\ (drain /\ ~abort => ~abort')
      BY <2>1, <2>2, Zenon DEF StoreAbort
    <3> QED
      BY <2>2, <3>1 DEF StoreAbort, othersOfProducer
  <2>3. CASE DropSender
    BY <2>1, <2>3 DEF DropSender, othersOfProducer
  <2>4. CASE JoinBridge
    BY <2>1, <2>4 DEF JoinBridge, othersOfProducer
  <2> QED
    BY <2>2, <2>3, <2>4
<1>2. TypeOK'
  BY <1>1 DEF TypeOK, sourceVars, bridgeVars, jobVars, mainVars
<1>3. ~Looping /\ ~Looping' /\ ~Waiting /\ ~Waiting'
  BY <1>1 DEF Looping, Waiting
<1>4. JobOrder' /\ BridgeOrder' /\ QueueOrder' /\ StreamOrder'
  BY <1>1, <1>3, OrderFrame DEF sourceVars, bridgeVars, jobVars
<1>5. PermitsConserved' /\ BarrierSound'
  BY <1>1, PermitFrame DEF bridgeVars, jobVars
<1>6. NothingLost'
  BY <1>1, <1>3 DEF NothingLost, Holding, sourceVars, bridgeVars, jobVars
<1>7. LoopOK' /\ SupervisorOK'
  BY <1>1, <1>3 DEF LoopOK, SupervisorOK, sourceVars, mainVars
<1> QED
  BY <1>2, <1>4, <1>5, <1>6, <1>7

(* The barrier: when every permit is back, no job has one. *)
LEMMA DrainStep ==
    ASSUME IndInv, DrainInFlight
    PROVE  IndInv'
<1> USE DEF IndInv
<1>1. /\ prod = "drain" /\ prod' = "join" /\ timedOut' = (free < Jobs)
      /\ UNCHANGED <<stream, cur, drain, result, abort, free, queue,
                     sourceVars, bridgeVars, jobVars, mainVars>>
  BY DEF DrainInFlight, othersOfProducer
<1>2. TypeOK'
  BY <1>1 DEF TypeOK, sourceVars, bridgeVars, jobVars, mainVars
<1>3. ~Looping /\ ~Looping' /\ ~Waiting /\ ~Waiting'
  BY <1>1 DEF Looping, Waiting
<1>4. JobOrder' /\ BridgeOrder' /\ QueueOrder' /\ StreamOrder'
  BY <1>1, <1>3, OrderFrame DEF sourceVars, bridgeVars, jobVars
<1>5. PermitsConserved'
  BY <1>1 DEF PermitsConserved, BridgeHolds, bridgeVars, jobVars
<1>6. BarrierSound'
  <2>1. SUFFICES ASSUME ~(free < Jobs)
                 PROVE  running = {} /\ queue = <<>> /\ BridgeHolds = 0
    BY <1>1 DEF BarrierSound, BridgeHolds, bridgeVars, jobVars
  <2>2. /\ free \in Nat /\ Jobs \in Nat /\ free <= Jobs
        /\ Len(queue) \in Nat /\ Cardinality(running) \in Nat
        /\ BridgeHolds \in Nat /\ IsFiniteSet(running)
    BY TypeFacts DEF TypeOK, BridgeHolds
  <2>3. Len(queue) = 0 /\ Cardinality(running) = 0 /\ BridgeHolds = 0
    BY <2>1, <2>2 DEF PermitsConserved
  <2>4. running = {}
    BY <2>2, <2>3, FS_EmptySet
  <2>5. queue \in Seq(Updates)
    BY DEF TypeOK
  <2> QED
    BY <2>3, <2>4, <2>5
<1>7. NothingLost'
  BY <1>1, <1>3 DEF NothingLost, Holding, sourceVars, bridgeVars, jobVars
<1>8. LoopOK' /\ SupervisorOK'
  BY <1>1, <1>3 DEF LoopOK, SupervisorOK, sourceVars, mainVars
<1> QED
  BY <1>2, <1>4, <1>5, <1>6, <1>7, <1>8

-----------------------------------------------------------------------------
(* Steps of the bridge and of the jobs *)

(* A job moves from the queue to the bridge, or the bridge exits. *)
LEMMA BridgeReceiveStep ==
    ASSUME IndInv, BridgeReceive
    PROVE  IndInv'
<1> USE DEF IndInv
<1>1. /\ bridge = "recv"
      /\ UNCHANGED <<free, jobVars, sourceVars, stream, producerVars, mainVars>>
  BY DEF BridgeReceive, othersOfBridge
<1>2. /\ sent \in Nat /\ sent + 1 \in Nat
      /\ stream \in Seq(Nat) /\ queue \in Seq(Nat)
      /\ running \subseteq Nat /\ ended \subseteq Nat
      /\ job \in Nat /\ cur \in Nat /\ Updates \subseteq Nat
      /\ free \in Nat /\ Len(queue) \in Nat /\ Cardinality(running) \in Nat
  BY TypeFacts, RuntimeAssumption DEF Updates
<1>3. /\ UNCHANGED <<Waiting, Looping, sent, running, ended, drain, stream, cur>>
      /\ ~Holding /\ BridgeHolds = 0
  BY <1>1 DEF Holding, BridgeHolds, Looping, Waiting, sourceVars, producerVars,
              jobVars
<1>4. LoopOK' /\ SupervisorOK'
  BY <1>1, <1>3 DEF LoopOK, SupervisorOK, sourceVars, producerVars, mainVars
<1>5. CASE queue # <<>> /\ job' = Head(queue) /\ queue' = Tail(queue)
             /\ bridge' = "check"
  <2> DEFINE h == Head(queue)
  <2>1. /\ h \in Nat /\ Len(queue) > 0 /\ Len(queue') = Len(queue) - 1
        /\ \A u : In(queue, u) <=> u = h \/ In(queue', u)
        /\ \A u \in Nat : AllAfter(queue, u) =>
               AllAfter(queue', u) /\ (h # 0 => u < h)
        /\ \A u \in Nat : AllBefore(queue, u) => AllBefore(queue', u) /\ h < u
        /\ Ascending(queue) => Ascending(queue')
        /\ Ascending(queue) /\ h # 0 => AllAfter(queue', h)
    BY <1>2, <1>5, TailFacts
  <2>2. h \in Updates /\ queue' \in Seq(Updates)
    BY <1>5 DEF TypeOK
  <2>3. h # 0 /\ h \in 1..sent /\ AllAfter(stream, h) /\ In(queue, h)
    BY <2>1, <2>2, <1>2, RuntimeAssumption DEF QueueOrder, Updates
  <2>4. Holding' /\ BridgeHolds' = 1 /\ job' = h
    BY <1>5 DEF Holding, BridgeHolds
  <2> HIDE DEF h
  <2>5. TypeOK'
    BY <2>2, <2>4, <1>1, <1>5 DEF TypeOK, sourceVars, producerVars, jobVars,
                                  mainVars
  <2>6. JobOrder' /\ BridgeOrder'
    BY <2>1, <2>3, <2>4, <1>2, <1>3 DEF JobOrder, BridgeOrder, QueueOrder
  <2>7. QueueOrder' /\ StreamOrder'
    BY <2>1, <1>2, <1>3 DEF QueueOrder, StreamOrder
  <2>8. NothingLost'
    BY <2>1, <2>4, <1>3 DEF NothingLost
  <2>9. PermitsConserved'
    BY <2>1, <2>4, <1>1, <1>2, <1>3 DEF PermitsConserved
  <2>10. BarrierSound'
    BY <1>1, <1>5 DEF BarrierSound, producerVars
  <2> QED
    BY <2>5, <2>6, <2>7, <2>8, <2>9, <2>10, <1>4
<1>6. CASE UNCHANGED <<job, queue>> /\ bridge' = "exited"
  <2>1. ~Holding' /\ BridgeHolds' = 0
    BY <1>6 DEF Holding, BridgeHolds
  <2>2. TypeOK'
    BY <1>1, <1>6 DEF TypeOK, sourceVars, producerVars, jobVars, mainVars
  <2>3. JobOrder' /\ BridgeOrder' /\ QueueOrder' /\ StreamOrder' /\ NothingLost'
    BY <2>1, <1>3, <1>6 DEF JobOrder, BridgeOrder, QueueOrder, StreamOrder,
                            NothingLost
  <2>4. PermitsConserved' /\ BarrierSound'
    BY <2>1, <1>1, <1>3, <1>6 DEF PermitsConserved, BarrierSound, producerVars,
                                  jobVars
  <2> QED
    BY <2>2, <2>3, <2>4, <1>4
<1> QED
  BY <1>5, <1>6 DEF BridgeReceive

(* A job is discarded with its permit given back, or kept. *)
LEMMA BridgeCheckStep ==
    ASSUME IndInv, BridgeCheck
    PROVE  IndInv'
<1> USE DEF IndInv
<1>1. /\ bridge = "check"
      /\ UNCHANGED <<queue, jobVars, sourceVars, stream, producerVars, mainVars>>
  BY DEF BridgeCheck, othersOfBridge
<1>2. /\ UNCHANGED <<Waiting, Looping, sent, running, ended, drain, stream, cur>>
      /\ Holding /\ BridgeHolds = 1
  BY <1>1 DEF Holding, BridgeHolds, Looping, Waiting, sourceVars, producerVars,
              jobVars
<1>3. LoopOK' /\ SupervisorOK'
  BY <1>1, <1>2 DEF LoopOK, SupervisorOK, sourceVars, producerVars, mainVars
<1>4. CASE abort /\ bridge' = "recv" /\ job' = NoUpdate /\ free' = free + 1
  <2>1. ~Holding' /\ BridgeHolds' = 0 /\ ~Looping /\ ~drain
    BY <1>4 DEF Holding, BridgeHolds, LoopOK
  <2>2. /\ free \in Nat /\ Jobs \in Nat /\ Len(queue) \in Nat
        /\ Cardinality(running) \in Nat
    BY TypeFacts
  <2>3. PermitsConserved' /\ free' \in 0..Jobs
    BY <2>1, <2>2, <1>1, <1>2, <1>4 DEF PermitsConserved
  <2>4. TypeOK'
    BY <2>3, <1>1, <1>4 DEF TypeOK, sourceVars, producerVars, jobVars, mainVars
  <2>5. JobOrder' /\ BridgeOrder' /\ QueueOrder' /\ StreamOrder' /\ NothingLost'
    BY <2>1, <1>1, <1>2 DEF JobOrder, BridgeOrder, QueueOrder, StreamOrder,
                            NothingLost
  <2>6. BarrierSound'
    BY <2>1, <1>1, <1>2 DEF BarrierSound, producerVars
  <2> QED
    BY <2>3, <2>4, <2>5, <2>6, <1>3
<1>5. CASE ~abort /\ bridge' = "spawn" /\ UNCHANGED <<job, free>>
  <2>1. Holding' /\ BridgeHolds' = 1
    BY <1>5 DEF Holding, BridgeHolds
  <2>2. TypeOK'
    BY <1>1, <1>5 DEF TypeOK, sourceVars, producerVars, jobVars, mainVars
  <2>3. JobOrder' /\ BridgeOrder' /\ QueueOrder' /\ StreamOrder' /\ NothingLost'
    BY <2>1, <1>1, <1>2, <1>5 DEF JobOrder, BridgeOrder, QueueOrder,
                                  StreamOrder, NothingLost
  <2>4. PermitsConserved' /\ BarrierSound'
    BY <2>1, <1>1, <1>2, <1>5 DEF PermitsConserved, BarrierSound, producerVars,
                                  jobVars
  <2> QED
    BY <2>2, <2>3, <2>4, <1>3
<1> QED
  BY <1>4, <1>5 DEF BridgeCheck

(* The bridge's job starts; it was not running. *)
LEMMA BridgeSpawnStep ==
    ASSUME IndInv, BridgeSpawn
    PROVE  IndInv'
<1> USE DEF IndInv
<1>1. /\ bridge = "spawn" /\ bridge' = "recv" /\ job' = NoUpdate
      /\ running' = running \cup {job}
      /\ UNCHANGED <<ended, free, queue, sourceVars, stream, producerVars,
                     mainVars>>
  BY DEF BridgeSpawn, othersOfBridge
<1>2. /\ UNCHANGED <<Waiting, Looping, sent, ended, drain, stream, cur, queue>>
      /\ Holding /\ BridgeHolds = 1 /\ ~Holding' /\ BridgeHolds' = 0
  BY <1>1 DEF Holding, BridgeHolds, Looping, Waiting, sourceVars, producerVars
<1>3. /\ free \in Nat /\ Jobs \in Nat /\ Len(queue) \in Nat
      /\ Cardinality(running) \in Nat /\ IsFiniteSet(running)
      /\ running \subseteq Nat /\ job \in Nat /\ sent \in Nat
  BY TypeFacts
<1>4. job \in 1..sent /\ job \in Updates /\ job <= sent
  BY <1>2, <1>3, RuntimeAssumption DEF BridgeOrder, TypeOK, Updates
<1>5. job \notin running
  BY <1>2, <1>3 DEF JobOrder
<1>6. Cardinality(running') = Cardinality(running) + 1
  BY <1>1, <1>3, <1>5, FS_AddElement
<1>7. PermitsConserved'
  BY <1>1, <1>2, <1>3, <1>6 DEF PermitsConserved
<1>8. BarrierSound'
  BY <1>1, <1>2 DEF BarrierSound, producerVars
<1>9. TypeOK'
  BY <1>1, <1>4 DEF TypeOK, sourceVars, producerVars, mainVars
<1>10. JobOrder' /\ BridgeOrder' /\ QueueOrder' /\ StreamOrder'
  BY <1>1, <1>2, <1>4 DEF JobOrder, BridgeOrder, QueueOrder, StreamOrder
<1>11. NothingLost'
  BY <1>1, <1>2 DEF NothingLost
<1>12. LoopOK' /\ SupervisorOK'
  BY <1>1, <1>2 DEF LoopOK, SupervisorOK, sourceVars, producerVars, mainVars
<1> QED
  BY <1>7, <1>8, <1>9, <1>10, <1>11, <1>12

(* A job ends and gives its permit back. *)
LEMMA EndJobStep ==
    ASSUME IndInv, NEW u \in Updates, EndJob(u)
    PROVE  IndInv'
<1> USE DEF IndInv
<1>1. /\ u \in running /\ running' = running \ {u} /\ ended' = ended \cup {u}
      /\ free' = free + 1
      /\ UNCHANGED <<queue, bridgeVars, sourceVars, stream, producerVars, mainVars>>
  BY DEF EndJob, othersOfBridge
<1>2. /\ UNCHANGED <<Waiting, Looping, Holding, BridgeHolds, sent, drain, stream,
                     cur, queue, job, bridge>>
      /\ BridgeHolds \in Nat
  BY <1>1 DEF Holding, BridgeHolds, Looping, Waiting, sourceVars, producerVars,
              bridgeVars
<1>3. /\ free \in Nat /\ Jobs \in Nat /\ Len(queue) \in Nat
      /\ Cardinality(running) \in Nat /\ IsFiniteSet(running)
  BY TypeFacts
<1>4. /\ Cardinality(running') = Cardinality(running) - 1
      /\ IsFiniteSet(running') /\ Cardinality(running') \in Nat
  BY <1>1, <1>3, FS_RemoveElement, FS_CardinalityType
<1>5. PermitsConserved' /\ free' \in 0..Jobs
  BY <1>1, <1>2, <1>3, <1>4 DEF PermitsConserved
<1>6. BarrierSound'
  BY <1>1, <1>2 DEF BarrierSound, producerVars
<1>7. TypeOK'
  BY <1>1, <1>5 DEF TypeOK, sourceVars, producerVars, bridgeVars, mainVars
<1>8. running' \cup ended' = running \cup ended
  BY <1>1
<1>9. JobOrder' /\ BridgeOrder' /\ QueueOrder' /\ StreamOrder' /\ NothingLost'
  BY <1>2, <1>8 DEF JobOrder, BridgeOrder, QueueOrder, StreamOrder, NothingLost
<1>10. LoopOK' /\ SupervisorOK'
  BY <1>1, <1>2 DEF LoopOK, SupervisorOK, sourceVars, producerVars, mainVars
<1> QED
  BY <1>5, <1>6, <1>7, <1>9, <1>10

-----------------------------------------------------------------------------
(* Theorems *)

LEMMA IndInvInit == Init => IndInv
<1>1. SUFFICES ASSUME Init PROVE IndInv
  OBVIOUS
<1>2. TypeOK
  <2>1. 0 \in 0..MaxUpdates /\ Jobs \in 0..Jobs
    BY RuntimeAssumption DEF Jobs
  <2>2. stream \in Seq(Updates \cup {StreamError}) /\ queue \in Seq(Updates)
    BY <1>1 DEF Init
  <2> QED
    BY <1>1, <2>1, <2>2 DEF Init, TypeOK, Statuses, NoUpdate
<1>3. PermitsConserved
  <2>1. Cardinality(running) = 0 /\ Len(queue) = 0 /\ BridgeHolds = 0
    BY <1>1, FS_EmptySet, EmptyFacts DEF Init, BridgeHolds
  <2> QED
    BY <2>1, <1>1, <1>2, TypeFacts DEF Init, PermitsConserved
<1>4. ~Holding /\ ~Waiting
  BY <1>1 DEF Init, Holding, Waiting
<1>5. JobOrder /\ BridgeOrder /\ QueueOrder /\ StreamOrder
  BY <1>1, <1>4, EmptyFacts DEF Init, JobOrder, BridgeOrder, QueueOrder, StreamOrder
<1>6. NothingLost
  <2>1. 1..sent = {}
    BY <1>1 DEF Init
  <2> QED
    BY <2>1 DEF NothingLost
<1>7. BarrierSound /\ LoopOK /\ SupervisorOK
  BY <1>1 DEF Init, BarrierSound, LoopOK, Looping, SupervisorOK
<1> QED
  BY <1>2, <1>3, <1>5, <1>6, <1>7 DEF IndInv

LEMMA IndInvNext == IndInv /\ [Next]_vars => IndInv'
<1>1. SUFFICES ASSUME IndInv, [Next]_vars PROVE IndInv'
  OBVIOUS
<1>2. CASE Source
  BY <1>1, <1>2, SendUpdateStep, SendErrorStep, SourceEndsStep DEF Source
<1>3. CASE Producer
  <2>1. CASE Receive
    BY <1>1, <2>1, ReceiveUpdateStep, BreakStep
  <2>2. CASE TakeStop
    BY <1>1, <2>2, BreakStep
  <2> QED
    BY <1>1, <1>3, <2>1, <2>2, AcquirePermitStep, CloseStep, DrainStep DEF Producer
<1>4. CASE Bridge
  BY <1>1, <1>4, BridgeReceiveStep, BridgeCheckStep, BridgeSpawnStep DEF Bridge
<1>5. CASE \E u \in Updates : EndJob(u)
  BY <1>1, <1>5, EndJobStep
<1>6. CASE SignalArrives \/ Supervisor
  BY <1>1, <1>6, SupervisorStep
<1>7. CASE UNCHANGED vars
  BY <1>1, <1>7 DEF vars, sourceVars, producerVars, bridgeVars, jobVars,
     mainVars, IndInv, TypeOK, PermitsConserved, BarrierSound, BridgeHolds,
     JobOrder, BridgeOrder, QueueOrder, StreamOrder, NothingLost, LoopOK,
     SupervisorOK, Holding, Waiting, Looping
<1> QED
  BY <1>1, <1>2, <1>3, <1>4, <1>5, <1>6, <1>7 DEF Next

(* The inductive invariant holds in every run. *)
THEOREM RuntimeInvariant == Spec => []IndInv
BY IndInvInit, IndInvNext, PTL DEF Spec

(* Every variable keeps its type: the semaphore of buffer.rs never holds   *)
(* more than Jobs permits.                                                 *)
THEOREM RuntimeTypeCorrect == Spec => []TypeOK
<1>1. IndInv => TypeOK
  BY DEF IndInv
<1> QED
  BY <1>1, RuntimeInvariant, PTL

(* buffer.rs:219, no permit is lost or duplicated. *)
THEOREM RuntimePermits == Spec => []PermitsConserved
<1>1. IndInv => PermitsConserved
  BY DEF IndInv
<1> QED
  BY <1>1, RuntimeInvariant, PTL

(* buffer.rs:272, past the drain barrier no job runs and none can start,   *)
(* unless the ceiling was hit.                                             *)
THEOREM RuntimeBarrier == Spec => []BarrierSound
<1>1. IndInv => BarrierSound
  BY DEF IndInv
<1> QED
  BY <1>1, RuntimeInvariant, PTL

(* buffer.rs:299, try_run does not return Ok while a job runs, unless the  *)
(* drain gave up.                                                          *)
THEOREM RuntimeHandlersFinish == Spec => []HandlersNotCutOff
<1>1. IndInv => HandlersNotCutOff
  BY DEF IndInv, HandlersNotCutOff, BarrierSound, SupervisorOK
<1> QED
  BY <1>1, RuntimeInvariant, PTL

(* A source that completed and was not interrupted had every update it     *)
(* sent processed before try_run returned Ok.                              *)
THEOREM RuntimeDrains == Spec => []CleanExitDrained
<1>1. IndInv => CleanExitDrained
  <2>1. SUFFICES ASSUME IndInv, outcome = "Ok", ~stop, ~timedOut
                 PROVE  ended = 1..sent
    BY DEF CleanExitDrained
  <2>2. prod = "done" /\ result = "Ok" /\ ~Looping /\ ~Waiting
    BY <2>1 DEF IndInv, SupervisorOK, Looping, Waiting
  <2>3. drain /\ stream = <<>>
    BY <2>1, <2>2 DEF IndInv, LoopOK
  <2>4. running = {} /\ queue = <<>> /\ ~Holding
    BY <2>1, <2>2 DEF IndInv, BarrierSound, BridgeHolds, Holding
  <2>5. 1..sent \subseteq ended
    BY <2>1, <2>2, <2>3, <2>4, EmptyFacts DEF IndInv, NothingLost
  <2>6. ended \subseteq 1..sent
    <3>1. TypeOK
      BY <2>1 DEF IndInv
    <3>2. sent \in Nat /\ ended \subseteq Nat \ {0}
      BY <3>1, TypeFacts
    <3> QED
      BY <2>1, <3>2 DEF IndInv, JobOrder
  <2> QED
    BY <2>5, <2>6
<1> QED
  BY <1>1, RuntimeInvariant, PTL

(* lib.rs:180, for every pool, every number of updates and every handler   *)
(* that hangs: try_run returns Ok only with its work done, unless the      *)
(* drain's ceiling passed.                                                 *)
THEOREM RuntimeOkMeansFinished == Spec => []OkMeansFinished
BY RuntimeHandlersFinish, RuntimeDrains, PTL DEF OkMeansFinished

-----------------------------------------------------------------------------
(* What a stream error leads to *)

(* The supervisor forces a stop, and so drops the buffer's result, only    *)
(* after a signal or a source that found the receiver gone; neither is     *)
(* taken back.                                                             *)
StopsExplained ==
    /\ status = "ReceiverDropped" => src # "running"
    /\ main = "joining" => signal \/ status = "ReceiverDropped"
    /\ outcome = "Ok" => result = "Ok" \/ signal \/ status = "ReceiverDropped"

LEMMA StopsExplainedInit == Init => StopsExplained
BY DEF Init, StopsExplained

LEMMA StopsExplainedNext ==
    IndInv /\ StopsExplained /\ [Next]_vars => StopsExplained'
<1>1. SUFFICES ASSUME IndInv, StopsExplained, [Next]_vars PROVE StopsExplained'
  OBVIOUS
<1>2. outcome = "Ok" => prod = "done"
  BY <1>1 DEF IndInv, SupervisorOK
<1>3. CASE Source
  BY <1>1, <1>3 DEF StopsExplained, Source, SendUpdate, SendError, Send,
     SourceReturns, SourceReports, producerVars, mainVars
<1>4. CASE Producer
  <2>1. UNCHANGED othersOfProducer
    BY <1>4 DEF Producer, Receive, TakeStop, AcquirePermit, StoreAbort,
                DropSender, DrainInFlight, JoinBridge
  <2>2. prod # "done"
    BY <1>4 DEF Producer, Receive, TakeStop, AcquirePermit, StoreAbort,
                DropSender, DrainInFlight, JoinBridge
  <2> QED
    BY <1>1, <1>2, <2>1, <2>2 DEF StopsExplained, othersOfProducer, sourceVars,
                                  mainVars
<1>5. CASE Bridge \/ \E u \in Updates : EndJob(u)
  <2>1. UNCHANGED othersOfBridge
    BY <1>5 DEF Bridge, BridgeReceive, BridgeCheck, BridgeSpawn, EndJob
  <2> QED
    BY <1>1, <2>1 DEF StopsExplained, othersOfBridge, sourceVars, producerVars,
                      mainVars
<1>6. CASE SignalArrives \/ Supervisor
  <2>1. UNCHANGED <<src, status, result>> /\ (signal => signal')
    BY <1>6 DEF SignalArrives, Supervisor, PollSignal, PollStatus, PollBuffer,
       BufferJoined, BufferStopped, DropRuntime, othersOfMain, sourceVars,
       producerVars
  <2>2. CASE SignalArrives \/ PollSignal \/ DropRuntime
    BY <1>1, <2>1, <2>2 DEF StopsExplained, SignalArrives, PollSignal,
                            DropRuntime, ForceStop
  <2>3. CASE PollStatus
    BY <1>1, <2>1, <2>3 DEF StopsExplained, PollStatus, ForceStop
  <2>4. CASE PollBuffer \/ BufferJoined \/ BufferStopped
    BY <1>1, <2>1, <2>4 DEF StopsExplained, PollBuffer, BufferJoined,
                            BufferStopped
  <2> QED
    BY <1>6, <2>2, <2>3, <2>4 DEF Supervisor
<1>7. CASE UNCHANGED vars
  BY <1>1, <1>7 DEF vars, sourceVars, producerVars, mainVars, StopsExplained
<1> QED
  BY <1>1, <1>3, <1>4, <1>5, <1>6, <1>7 DEF Next

(* runtime_tests.rs:1139, "a stream error must surface as an error": a run *)
(* whose buffer task stopped on a stream error does not return Ok, unless  *)
(* a signal came or the source reports that the receiver is gone, in which *)
(* case force_stop_buffer drops the error.                                 *)
THEOREM RuntimeStreamErrors == Spec => []StreamErrorSurfaces
<1>1. StopsExplained => StreamErrorSurfaces
  BY DEF StopsExplained, StreamErrorSurfaces
<1> QED
  BY <1>1, RuntimeInvariant, StopsExplainedInit, StopsExplainedNext, PTL DEF Spec
=============================================================================
