--------------------------- MODULE FilterUpdates ---------------------------
(***************************************************************************)
(* Changing a live subscription: RuntimeHandle::update_filters on any       *)
(* number of handles, the watch slot between them and the source, and the   *)
(* filter branches of YellowstoneGrpcSource::connect with the set it holds  *)
(* while the sink rejects it.                                               *)
(*                                                                          *)
(* A filter set is a set of entries; an edit keeps some and adds some       *)
(* (merge: keep all, add one; remove: keep the others; send_filter_update   *)
(* and reset_filters: keep none, add the new set).  The slot and everything *)
(* read from it carry the version the watch channel counts.  The client     *)
(* library (external) records a request when its sink takes it and          *)
(* resubscribes with the recorded one when it reconnects.                   *)
(***************************************************************************)
EXTENDS Integers

CONSTANTS
    Callers,        \* tasks that call a handle
    Entries,        \* filter entries that edits may name
    Registered,     \* those whose parser has a pipeline
    Initial,        \* the set the pipelines were built with
    AutoReconnect,  \* YellowstoneGrpcConfig::reconnect_config is set
    MaxVersion,     \* bound: sets published
    MaxDrops        \* bound: connections lost

ASSUME FilterAssumption ==
    /\ Registered \subseteq Entries /\ Initial \subseteq Registered
    /\ AutoReconnect \in BOOLEAN
    /\ MaxVersion \in Nat /\ MaxDrops \in Nat

Filters == SUBSET Entries
Edits ==
    {[keep |-> Entries, add |-> {e}] : e \in Entries}
        \cup {[keep |-> Entries \ {e}, add |-> {}] : e \in Entries}
        \cup {[keep |-> {}, add |-> f] : f \in Filters}
Apply(edit, f) == (f \cap edit.keep) \cup edit.add

None == [set |-> {}, ver |-> -1]
Published == [set : SUBSET Registered, ver : Nat]

VARIABLES
    slot,       \* the watch slot
    serial,     \* the accepted edits, applied in the order they were accepted
    lock,       \* the caller that holds update_lock, as a set
    snap,       \* the snapshot each caller edits
    handles,    \* some handle is left
    src,        \* source: "built", "starting", "streaming", "ended"
    rxOpen,     \* the receiver of the slot is alive
    seen,       \* the version the receiver has seen
    first,      \* the set handed to connect
    pending,    \* pending_filters
    conn,       \* the sink takes requests
    drops,      \* connections lost
    recorded,   \* the last request the sink took
    live        \* version of the subscription the server serves

handleVars == <<slot, serial, lock, snap, handles>>
sourceVars == <<src, rxOpen, seen, first, pending>>
clientVars == <<conn, drops, recorded, live>>
vars == <<handleVars, sourceVars, clientVars>>

Init ==
    /\ slot = [set |-> Initial, ver |-> 0] /\ serial = Initial
    /\ lock = {} /\ snap = [c \in Callers |-> Initial] /\ handles = TRUE
    /\ src = "built" /\ rxOpen = TRUE /\ seen = 0
    /\ first = None /\ pending = None
    /\ conn = FALSE /\ drops = 0 /\ recorded = None /\ live = -1

-----------------------------------------------------------------------------
(* RuntimeHandle::update_filters: the lock and the snapshot, then the edit, *)
(* its validation and the send.  For comparison, without the lock.         *)

BeginUnlocked(c) ==
    /\ handles /\ c \notin lock
    /\ lock' = lock \cup {c} /\ snap' = [snap EXCEPT ![c] = slot.set]
    /\ UNCHANGED <<slot, serial, handles, sourceVars, clientVars>>
BeginUpdate(c) ==
    /\ handles /\ lock = {}
    /\ lock' = {c} /\ snap' = [snap EXCEPT ![c] = slot.set]
    /\ UNCHANGED <<slot, serial, handles, sourceVars, clientVars>>

(* UnknownParser, an edit that changes nothing, Closed, or published; for  *)
(* comparison, without the validation.                                     *)
FinishUnvalidated(c, edit) ==
    LET next == Apply(edit, snap[c])
    IN  /\ c \in lock /\ lock' = lock \ {c}
        /\ next # slot.set /\ rxOpen /\ slot.ver < MaxVersion
        /\ slot' = [set |-> next, ver |-> slot.ver + 1]
        /\ serial' = Apply(edit, serial)
        /\ UNCHANGED <<snap, handles, sourceVars, clientVars>>
FinishUpdate(c, edit) ==
    LET next == Apply(edit, snap[c])
        accepted == /\ next \subseteq Registered
                    /\ next # slot.set
                    /\ rxOpen
    IN  /\ c \in lock /\ lock' = lock \ {c}
        /\ \/ /\ accepted
              /\ slot.ver < MaxVersion
              /\ slot' = [set |-> next, ver |-> slot.ver + 1]
              /\ serial' = Apply(edit, serial)
           \/ ~accepted /\ UNCHANGED <<slot, serial>>
        /\ UNCHANGED <<snap, handles, sourceVars, clientVars>>

(* The edit closure panics: the lock is poisoned, which the next caller    *)
(* ignores, and nothing was published.                                     *)
EditPanics(c) ==
    /\ c \in lock /\ lock' = lock \ {c}
    /\ UNCHANGED <<slot, serial, snap, handles, sourceVars, clientVars>>

DropHandles ==
    /\ handles /\ lock = {}
    /\ handles' = FALSE
    /\ UNCHANGED <<slot, serial, lock, snap, sourceVars, clientVars>>

-----------------------------------------------------------------------------
(* The source *)

(* try_run_async: borrow_and_update before the source task starts.         *)
StartRun ==
    /\ src = "built" /\ src' = "starting"
    /\ first' = slot /\ seen' = slot.ver
    /\ UNCHANGED <<handleVars, rxOpen, pending, clientVars>>

(* connect and subscribe_with_request. *)
Subscribe ==
    /\ src = "starting" /\ src' = "streaming"
    /\ conn' = TRUE /\ recorded' = first
    /\ UNCHANGED <<handleVars, rxOpen, seen, first, pending, drops, live>>

(* send_or_hold; for comparison, one whose success does not clear what was *)
(* held before, and one that does not hold.                                *)
SendKeepingHeld(f) ==
    \/ /\ conn /\ recorded' = f /\ UNCHANGED pending
    \/ /\ ~conn /\ UNCHANGED recorded
       /\ pending' = IF AutoReconnect THEN f ELSE None
SendOrDrop(f) ==
    \/ /\ conn /\ recorded' = f /\ pending' = None
    \/ /\ ~conn /\ UNCHANGED recorded /\ pending' = None
SendOrHold(f) ==
    \/ /\ conn /\ recorded' = f /\ pending' = None
    \/ /\ ~conn /\ UNCHANGED recorded
       /\ pending' = IF AutoReconnect THEN f ELSE None

(* A new set supersedes the one held. *)
NextFilterUpdate ==
    /\ src = "streaming" /\ rxOpen /\ seen # slot.ver
    /\ seen' = slot.ver
    /\ SendOrHold(slot)
    /\ UNCHANGED <<handleVars, src, rxOpen, first, conn, drops, live>>

RetryHeld ==
    /\ src = "streaming" /\ pending # None
    /\ SendOrHold(pending)
    /\ UNCHANGED <<handleVars, src, rxOpen, seen, first, conn, drops, live>>

(* Every handle is gone and every set was seen. *)
RetireUpdates ==
    /\ src = "streaming" /\ rxOpen /\ ~handles /\ seen = slot.ver
    /\ rxOpen' = FALSE
    /\ UNCHANGED <<handleVars, src, seen, first, pending, clientVars>>

(* connect returns: the stream ended, a terminal status, or no connection. *)
SourceEnds ==
    /\ src \in {"starting", "streaming"} /\ src' = "ended"
    /\ rxOpen' = FALSE
    /\ conn' = FALSE /\ live' = -1
    /\ UNCHANGED <<handleVars, seen, first, pending, drops, recorded>>

-----------------------------------------------------------------------------
(* The client library and the server *)

ServerApplies ==
    /\ conn /\ live' = recorded.ver
    /\ live # recorded.ver
    /\ UNCHANGED <<handleVars, sourceVars, conn, drops, recorded>>

LoseConnection ==
    /\ conn /\ drops < MaxDrops
    /\ conn' = FALSE /\ live' = -1 /\ drops' = drops + 1
    /\ UNCHANGED <<handleVars, sourceVars, recorded>>

Reconnect ==
    /\ src = "streaming" /\ ~conn /\ AutoReconnect
    /\ conn' = TRUE
    /\ UNCHANGED <<handleVars, sourceVars, drops, recorded, live>>

-----------------------------------------------------------------------------
Handle(c) ==
    \/ BeginUpdate(c)
    \/ \E edit \in Edits : FinishUpdate(c, edit)
    \/ EditPanics(c)

Source ==
    StartRun \/ Subscribe \/ NextFilterUpdate \/ RetryHeld \/ RetireUpdates
        \/ SourceEnds

Client == ServerApplies \/ LoseConnection \/ Reconnect

Next == (\E c \in Callers : Handle(c)) \/ DropHandles \/ Source \/ Client

Spec == Init /\ [][Next]_vars

(* The source's loop serves every ready branch of its select, the retry    *)
(* timer ticks, the client reconnects and the server reads what it is sent. *)
Fairness ==
    /\ WF_vars(NextFilterUpdate) /\ WF_vars(RetryHeld)
    /\ WF_vars(ServerApplies) /\ WF_vars(Reconnect)

FairSpec == Spec /\ Fairness

-----------------------------------------------------------------------------
(* Properties *)

(* Every variable keeps its type: in particular only registered parsers    *)
(* are ever published.                                                     *)
TypeOK ==
    /\ slot \in Published /\ serial \in Filters
    /\ lock \in SUBSET Callers /\ snap \in [Callers -> Filters]
    /\ handles \in BOOLEAN /\ rxOpen \in BOOLEAN /\ conn \in BOOLEAN
    /\ src \in {"built", "starting", "streaming", "ended"}
    /\ seen \in Nat /\ drops \in Nat /\ live \in Nat \cup {-1}
    /\ first \in Published \cup {None} /\ pending \in Published \cup {None}
    /\ recorded \in Published \cup {None}

(* handle.rs:128, "Concurrent calls apply one after another, so no edit is *)
(* lost": the published set is what the accepted edits make of the initial *)
(* one, applied in the order they were accepted.                           *)
NoEditLost == slot.set = serial

(* handle.rs:98, "Only the newest set is sent": the server never goes back *)
(* to a set older than one it was sent, whatever was held and retried.     *)
NewestWins == [][recorded'.ver >= recorded.ver]_vars

(* grpc-source lib.rs:372, a held set is retried and not forgotten: if the *)
(* connection stays up, the server ends up serving the last set published  *)
(* while the run lasts.                                                    *)
Converges ==
    <>[](src = "streaming" /\ conn) => <>[](live = slot.ver)
=============================================================================
