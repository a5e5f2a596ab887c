------------------------ MODULE FilterUpdatesProofs ------------------------
(***************************************************************************)
(* Theorems about FilterUpdates, for every set of callers and entries, with *)
(* and without auto-reconnect.                                              *)
(***************************************************************************)
EXTENDS FilterUpdates, TLAPS

(* The lock has one holder, whose snapshot is the published set. *)
LockOK ==
    /\ \A c, d \in lock : c = d
    /\ \A c \in lock : snap[c] = slot.set

(* What the sink took is not newer than what is held, which is not newer   *)
(* than what the source saw.                                               *)
VersionsOK ==
    /\ seen <= slot.ver
    /\ src = "starting" => first \in Published /\ first.ver <= seen
    /\ src \in {"built", "starting"} => recorded = None /\ pending = None
    /\ recorded.ver <= seen
    /\ pending # None => recorded.ver <= pending.ver /\ pending.ver <= seen

IndInv == TypeOK /\ NoEditLost /\ LockOK /\ VersionsOK

LEMMA NoneFacts == None.ver = -1 /\ None \notin Published /\ None.ver \in Int
BY DEF None, Published

LEMMA IndInvInit == Init => IndInv
<1>1. SUFFICES ASSUME Init PROVE IndInv
  OBVIOUS
<1>2. TypeOK
  BY <1>1, FilterAssumption DEF Init, TypeOK, Published, Filters
<1>3. NoEditLost /\ LockOK
  BY <1>1 DEF Init, NoEditLost, LockOK
<1>4. VersionsOK
  BY <1>1, NoneFacts DEF Init, VersionsOK
<1> QED
  BY <1>2, <1>3, <1>4 DEF IndInv

(* Steps of a handle. *)
LEMMA HandleStep ==
    ASSUME IndInv, NEW c \in Callers, Handle(c)
    PROVE  IndInv'
<1> USE DEF IndInv
<1>1. UNCHANGED <<sourceVars, clientVars>>
  BY DEF Handle, BeginUpdate, FinishUpdate, EditPanics
<1>2. CASE BeginUpdate(c)
  <2>1. /\ lock = {} /\ lock' = {c} /\ snap' = [snap EXCEPT ![c] = slot.set]
        /\ UNCHANGED <<slot, serial, handles>>
    BY <1>2 DEF BeginUpdate
  <2>2. snap' \in [Callers -> Filters] /\ snap'[c] = slot.set
    BY <2>1, FilterAssumption DEF TypeOK, Published, Filters
  <2>3. TypeOK'
    BY <2>1, <2>2, <1>1 DEF TypeOK, sourceVars, clientVars
  <2>4. NoEditLost' /\ LockOK'
    BY <2>1, <2>2 DEF NoEditLost, LockOK
  <2>5. VersionsOK'
    BY <2>1, <1>1 DEF VersionsOK, sourceVars, clientVars
  <2> QED
    BY <2>3, <2>4, <2>5
<1>3. ASSUME NEW edit \in Edits, FinishUpdate(c, edit)
      PROVE  IndInv'
  <2> DEFINE next == Apply(edit, snap[c])
  <2>1. /\ c \in lock /\ lock' = lock \ {c} /\ UNCHANGED <<snap, handles>>
        /\ \/ /\ next \subseteq Registered
              /\ slot' = [set |-> next, ver |-> slot.ver + 1]
              /\ serial' = Apply(edit, serial)
           \/ UNCHANGED <<slot, serial>>
    BY <1>3 DEF FinishUpdate
  <2>2. lock' = {} /\ snap[c] = slot.set /\ serial = slot.set
    BY <2>1 DEF LockOK, NoEditLost
  <2>3. LockOK'
    BY <2>2 DEF LockOK
  <2>4. CASE UNCHANGED <<slot, serial>>
    <3>1. TypeOK'
      BY <2>1, <2>2, <2>4, <1>1 DEF TypeOK, sourceVars, clientVars
    <3> QED
      BY <3>1, <2>3, <2>4, <1>1 DEF NoEditLost, VersionsOK, sourceVars, clientVars
  <2>5. CASE /\ next \subseteq Registered
             /\ slot' = [set |-> next, ver |-> slot.ver + 1]
             /\ serial' = Apply(edit, serial)
    <3>1. serial' = next /\ slot'.set = next /\ slot'.ver = slot.ver + 1
      BY <2>2, <2>5
    <3>2. slot.ver \in Nat /\ seen \in Nat
      BY DEF TypeOK, Published
    <3>3. slot' \in Published /\ serial' \in Filters
      BY <2>5, <3>1, <3>2, FilterAssumption DEF Published, Filters
    <3>4. TypeOK'
      BY <2>1, <2>2, <3>3, <1>1 DEF TypeOK, sourceVars, clientVars
    <3>5. VersionsOK'
      BY <3>1, <3>2, <1>1 DEF VersionsOK, sourceVars, clientVars
    <3> QED
      BY <3>1, <3>4, <3>5, <2>3 DEF NoEditLost
  <2> QED
    BY <2>1, <2>4, <2>5
<1>4. CASE EditPanics(c)
  <2>1. /\ c \in lock /\ lock' = lock \ {c}
        /\ UNCHANGED <<slot, serial, snap, handles>>
    BY <1>4 DEF EditPanics
  <2>2. TypeOK'
    BY <2>1, <1>1 DEF TypeOK, sourceVars, clientVars
  <2> QED
    BY <2>1, <2>2, <1>1 DEF NoEditLost, LockOK, VersionsOK, sourceVars, clientVars
<1> QED
  BY <1>2, <1>3, <1>4 DEF Handle

(* Steps of the source, the client and the last handle: the slot stays,    *)
(* and what the sink takes is not older than what it took.                 *)
LEMMA OtherStep ==
    ASSUME IndInv, DropHandles \/ Source \/ Client
    PROVE  IndInv' /\ recorded'.ver >= recorded.ver
<1> USE DEF IndInv
<1>1. UNCHANGED <<slot, serial, lock, snap>>
  BY DEF DropHandles, Source, Client, StartRun, Subscribe, NextFilterUpdate,
         RetryHeld, RetireUpdates, SourceEnds, ServerApplies, LoseConnection,
         Reconnect, handleVars
<1>2. NoEditLost' /\ LockOK'
  BY <1>1 DEF NoEditLost, LockOK
<1>3. /\ slot.ver \in Nat /\ seen \in Nat /\ slot \in Published
      /\ recorded.ver \in Int /\ pending.ver \in Int
      /\ None.ver = -1 /\ None \notin Published
  BY NoneFacts DEF TypeOK, Published
<1>4. CASE DropHandles
  <2>1. handles' \in BOOLEAN /\ UNCHANGED <<sourceVars, clientVars>>
    BY <1>4 DEF DropHandles
  <2> QED
    BY <2>1, <1>1, <1>2, <1>3 DEF TypeOK, VersionsOK, sourceVars, clientVars
<1>5. CASE StartRun
  <2>1. /\ src = "built" /\ src' = "starting" /\ first' = slot /\ seen' = slot.ver
        /\ UNCHANGED <<handles, rxOpen, pending, clientVars>>
    BY <1>5 DEF StartRun, handleVars
  <2>2. TypeOK'
    BY <2>1, <1>1, <1>3 DEF TypeOK, clientVars
  <2> QED
    BY <2>1, <2>2, <1>1, <1>2, <1>3 DEF VersionsOK, clientVars
<1>6. CASE Subscribe
  <2>1. /\ src = "starting" /\ src' = "streaming" /\ conn' = TRUE
        /\ recorded' = first
        /\ UNCHANGED <<handles, rxOpen, seen, first, pending, drops, live>>
    BY <1>6 DEF Subscribe, handleVars
  <2>2. first.ver \in Nat
    BY <2>1 DEF VersionsOK, Published
  <2>3. TypeOK'
    BY <2>1, <1>1 DEF TypeOK
  <2> QED
    BY <2>1, <2>2, <2>3, <1>1, <1>2, <1>3 DEF VersionsOK
<1>7. CASE NextFilterUpdate \/ RetryHeld
  <2>1. /\ src = "streaming"
        /\ UNCHANGED <<handles, src, rxOpen, first, conn, drops, live>>
    BY <1>7 DEF NextFilterUpdate, RetryHeld, handleVars
  <2>2. PICK f \in {slot, pending} :
          /\ SendOrHold(f) /\ f \in Published
          /\ recorded.ver <= f.ver /\ f.ver <= seen'
          /\ seen' \in Nat /\ seen' <= slot.ver
    <3>1. CASE NextFilterUpdate
      BY <3>1, <1>3 DEF NextFilterUpdate, VersionsOK
    <3>2. CASE RetryHeld
      BY <3>2, <1>3 DEF RetryHeld, VersionsOK, TypeOK
    <3> QED
      BY <3>1, <3>2, <1>7
  <2>3. /\ \/ recorded' = f /\ pending' = None
           \/ recorded' = recorded /\ pending' \in {f, None}
    BY <2>2 DEF SendOrHold
  <2>4. TypeOK'
    BY <2>1, <2>2, <2>3, <1>1 DEF TypeOK
  <2>5. f.ver \in Nat
    BY <2>2 DEF Published
  <2> QED
    BY <2>1, <2>2, <2>3, <2>4, <2>5, <1>1, <1>2, <1>3 DEF VersionsOK
<1>8. CASE RetireUpdates \/ Client
  <2>1. /\ UNCHANGED <<handles, src, seen, first, pending, recorded>>
        /\ rxOpen' \in BOOLEAN
    BY <1>8 DEF RetireUpdates, Client, ServerApplies, LoseConnection,
       Reconnect, handleVars, sourceVars, clientVars, TypeOK
  <2>2. conn' \in BOOLEAN /\ drops' \in Nat /\ live' \in Nat \cup {-1}
    <3>1. CASE RetireUpdates
      BY <3>1 DEF RetireUpdates, clientVars, TypeOK
    <3>2. CASE ServerApplies
      <4>1. recorded.ver \in Nat \cup {-1}
        BY <1>3 DEF TypeOK, Published
      <4> QED
        BY <3>2, <4>1 DEF ServerApplies, TypeOK
    <3>3. CASE LoseConnection
      <4>1. conn' = FALSE /\ live' = -1 /\ drops' = drops + 1
        BY <3>3 DEF LoseConnection
      <4>2. drops' \in Nat
        BY <4>1 DEF TypeOK
      <4>3. conn' \in BOOLEAN
        BY <4>1
      <4>4. live' \in Nat \cup {-1}
        BY <4>1
      <4> QED
        BY <4>2, <4>3, <4>4
    <3>4. CASE Reconnect
      BY <3>4 DEF Reconnect, TypeOK
    <3> QED
      BY <1>8, <3>1, <3>2, <3>3, <3>4 DEF Client
  <2>3. TypeOK'
    BY <2>1, <2>2, <1>1 DEF TypeOK
  <2>4. VersionsOK' /\ recorded'.ver >= recorded.ver
    BY <2>1, <1>1, <1>3 DEF VersionsOK
  <2> QED
    BY <2>3, <2>4, <1>2
<1>9. CASE SourceEnds
  <2>1. /\ src' = "ended" /\ rxOpen' = FALSE /\ conn' = FALSE /\ live' = -1
        /\ UNCHANGED <<handles, seen, first, pending, drops, recorded>>
    BY <1>9 DEF SourceEnds, handleVars
  <2>2. TypeOK'
    BY <2>1, <1>1 DEF TypeOK
  <2>3. VersionsOK' /\ recorded'.ver >= recorded.ver
    BY <2>1, <1>1, <1>3 DEF VersionsOK
  <2> QED
    BY <2>2, <2>3, <1>2
<1> QED
  BY <1>4, <1>5, <1>6, <1>7, <1>8, <1>9 DEF Source

LEMMA StepFacts ==
    ASSUME IndInv, [Next]_vars
    PROVE  IndInv' /\ recorded'.ver >= recorded.ver
<1>1. recorded.ver \in Int
  BY NoneFacts DEF IndInv, TypeOK, Published
<1>2. CASE \E c \in Callers : Handle(c)
  <2>1. UNCHANGED recorded
    BY <1>2 DEF Handle, BeginUpdate, FinishUpdate, EditPanics, clientVars
  <2> QED
    BY <1>1, <1>2, <2>1, HandleStep
<1>3. CASE DropHandles \/ Source \/ Client
  BY <1>3, OtherStep
<1>4. CASE UNCHANGED vars
  BY <1>1, <1>4 DEF vars, handleVars, sourceVars, clientVars, IndInv, TypeOK,
     NoEditLost, LockOK, VersionsOK
<1> QED
  BY <1>2, <1>3, <1>4 DEF Next

(* The inductive invariant holds in every run. *)
THEOREM FilterInvariant == Spec => []IndInv
<1>1. IndInv /\ [Next]_vars => IndInv'
  BY StepFacts
<1> QED
  BY <1>1, IndInvInit, PTL DEF Spec

(* Types; only registered parsers are published (handle.rs:55). *)
THEOREM FilterTypeCorrect == Spec => []TypeOK
<1>1. IndInv => TypeOK
  BY DEF IndInv
<1> QED
  BY <1>1, FilterInvariant, PTL

(* handle.rs:128, no edit is lost, however many callers there are. *)
THEOREM FilterNoEditLost == Spec => []NoEditLost
<1>1. IndInv => NoEditLost
  BY DEF IndInv
<1> QED
  BY <1>1, FilterInvariant, PTL

(* handle.rs:98, no request goes back to an older set. *)
THEOREM FilterNewestWins == Spec => NewestWins
<1>1. IndInv /\ [Next]_vars => [recorded'.ver >= recorded.ver]_vars
  BY StepFacts
<1> QED
  BY <1>1, FilterInvariant, PTL DEF Spec, NewestWins
=============================================================================
