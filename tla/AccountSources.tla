---------------------------- MODULE AccountSources ----------------------------
(***************************************************************************)
(* Three sources of account updates: solana-rpc-source, which asks an RPC  *)
(* node for the accounts of every program, solana-snapshot-source, which   *)
(* scans a snapshot, and yellowstone-fumarole-source, which forwards a     *)
(* stream.  One of them runs, and sends to the runtime's bounded channel.  *)
(*                                                                         *)
(* filters gives the prefilter of each pipeline by its id: the owners whose*)
(* accounts it wants and whether it wants slot updates.  Accounts are what *)
(* the RPC node or the snapshot holds; each has one owner.                 *)
(***************************************************************************)
EXTENDS Integers, Sequences, FiniteSets

CONSTANTS
  None,
  Accounts, OwnerOf,  \* accounts, and the program that owns each
  Loadable,           \* accounts the snapshot can load
  ChannelSize,        \* the runtime's channel
  SyncSize            \* channel_size, between the scan and the sender

VARIABLES
  bounds,    \* bounds: the slots that updates carry, the updates of a fumarole
             \*   stream and their accounts
  source,    \* "rpc", "snapshot" or "fumarole"
  filters,   \* id -> [owners, slot]
  src,       \* where connect stands, at the end its result
  tasks,     \* rpc: the tasks, by filter and owner
  left,      \* snapshot: accounts still to be scanned; fumarole: updates so far
  sync,      \* snapshot: events from the scan to the sender
  held,      \* snapshot: the event the sender is about to send
  chan,      \* the runtime's channel
  rxOpen     \* the runtime receives

sourceVars == <<bounds, source, src, tasks, left, sync, held>>

Results == {"completed", "stream_ended", "receiver_dropped", "error"}
Returned == src \in Results

SourceInit ==
  /\ source \in {"rpc", "snapshot", "fumarole"}
  /\ src = "connect" /\ tasks = <<>> /\ left = {} /\ sync = <<>> /\ held = None
  /\ chan = <<>> /\ rxOpen = TRUE

-----------------------------------------------------------------------------
(* Updates.                                                                *)

AccountUpdate(a, slot, version, ids) ==
  [account |-> a, slot |-> slot, version |-> version, filters |-> ids]
SlotUpdate(slot, ids) == [account |-> None, slot |-> slot, version |-> 0, filters |-> ids]
StreamError == [account |-> None, slot |-> 0, version |-> 0, filters |-> {}]

\* FilterOwnerKeyLookup: the filters that want the accounts of an owner.
LookupByOwner(owner) == {id \in DOMAIN filters : owner \in filters[id].owners}

Room == rxOpen /\ Len(chan) < ChannelSize
\* A mutation: the source does not wait for room.
SendUnbounded(update) == rxOpen /\ chan' = Append(chan, update)

Send(update) == Room /\ chan' = Append(chan, update)

-----------------------------------------------------------------------------
(* solana-rpc-source.                                                      *)

\* One task for each filter and owner.
TaskIds == UNION {{<<id, o>> : o \in filters[id].owners} : id \in DOMAIN filters}

RpcConnect ==
  /\ source = "rpc" /\ src = "connect" /\ src' = "running"
  /\ tasks' = [t \in TaskIds |-> [pc |-> "fetch", slot |-> 0, todo |-> {}]]
  /\ UNCHANGED <<bounds, source, left, sync, held, chan>>

\* get_slot, then get_program_ui_accounts_with_config; either may fail.
RpcFetch(t) ==
  /\ src = "running" /\ tasks[t].pc = "fetch"
  /\ \/ \E slot \in 1 .. bounds.slots :
          tasks' = [tasks EXCEPT ![t] =
            [pc |-> "send", slot |-> slot, todo |-> {a \in Accounts : OwnerOf[a] = t[2]}]]
     \/ tasks' = [tasks EXCEPT ![t].pc = "failed"]
  /\ UNCHANGED <<bounds, source, src, left, sync, held, chan>>

\* The accounts one after the other.  An account that cannot be decoded, or a receiver
\* that is gone, ends the task.
RpcSend(t) ==
  /\ src = "running" /\ tasks[t].pc = "send"
  /\ \/ /\ tasks[t].todo = {}
        /\ tasks' = [tasks EXCEPT ![t].pc = "ok"] /\ UNCHANGED chan
     \/ \E a \in tasks[t].todo :
          /\ Send(AccountUpdate(a, tasks[t].slot, 0, {t[1]}))
          /\ tasks' = [tasks EXCEPT ![t].todo = @ \ {a}]
     \/ /\ tasks[t].todo # {}
        /\ tasks' = [tasks EXCEPT ![t].pc = "failed"] /\ UNCHANGED chan
  /\ UNCHANGED <<bounds, source, src, left, sync, held>>

\* A mutation: the tasks' errors are only logged.
RpcResultIgnored == "completed"

RpcResult == IF \E t \in DOMAIN tasks : tasks[t].pc = "failed" THEN "error" ELSE "completed"

\* All tasks are joined before the first error is returned.
RpcJoin ==
  /\ source = "rpc" /\ src = "running"
  /\ \A t \in DOMAIN tasks : tasks[t].pc \in {"ok", "failed"}
  /\ src' = RpcResult
  /\ UNCHANGED <<bounds, source, tasks, left, sync, held, chan>>

-----------------------------------------------------------------------------
(* solana-snapshot-source.                                                 *)

Finished == [account |-> None, slot |-> 0, version |-> 0, filters |-> {"finished"}]

SnapshotLoad ==
  /\ source = "snapshot" /\ src = "connect" /\ src' \in {"slot", "error"}
  /\ UNCHANGED <<bounds, source, tasks, left, sync, held, chan>>

\* The slot first; then the scan starts.
SnapshotSlot ==
  /\ source = "snapshot" /\ src = "slot"
  /\ \/ Send(SlotUpdate(1, {id \in DOMAIN filters : filters[id].slot})) /\ src' = "scan"
     \/ ~rxOpen /\ src' = "error" /\ UNCHANGED chan
  /\ left' = {a \in Loadable : LookupByOwner(OwnerOf[a]) # {}}
  /\ UNCHANGED <<bounds, source, tasks, sync, held>>

\* The scan hands its accounts to the sender; it may fail, which leaves the sender to
\* forward what it was handed.
SnapshotScan ==
  /\ source = "snapshot" /\ src = "scan"
  /\ \/ \E a \in left :
          /\ Len(sync) < SyncSize
          /\ sync' = Append(sync, AccountUpdate(a, 1, 0, LookupByOwner(OwnerOf[a])))
          /\ left' = left \ {a} /\ UNCHANGED src
     \/ /\ left = {} /\ Len(sync) < SyncSize
        /\ sync' = Append(sync, Finished) /\ src' = "finishing" /\ UNCHANGED left
     \/ src' = "failing" /\ UNCHANGED <<sync, left>>
  /\ UNCHANGED <<bounds, source, tasks, held, chan>>

\* The sender takes an event and sends it; when the receiver is gone it only logs.
SenderTakes ==
  /\ source = "snapshot" /\ held = None /\ sync # <<>>
  /\ held' = Head(sync) /\ sync' = Tail(sync)
  /\ UNCHANGED <<bounds, source, src, tasks, left, chan>>
SenderSends ==
  /\ source = "snapshot" /\ held \notin {None, Finished}
  /\ \/ Send(held)
     \/ ~rxOpen /\ UNCHANGED chan
  /\ held' = None
  /\ UNCHANGED <<bounds, source, src, tasks, left, sync>>

\* The sender ended: after Finished, or when the channel of a failed scan is empty.
SnapshotReturns ==
  /\ source = "snapshot"
  /\ \/ src = "finishing" /\ held = Finished /\ src' = "completed"
     \/ src = "failing" /\ held = None /\ sync = <<>> /\ src' = "error"
  /\ UNCHANGED <<bounds, source, tasks, left, sync, held, chan>>

-----------------------------------------------------------------------------
(* yellowstone-fumarole-source.                                            *)

\* The connection, then the subscription.
FumaroleConnect ==
  /\ source = "fumarole" /\ src = "connect" /\ src' \in {"running", "error"}
  /\ UNCHANGED <<bounds, source, tasks, left, sync, held, chan>>

\* An update or an error of the stream is forwarded as it is.
FumaroleForward ==
  /\ source = "fumarole" /\ src = "running"
  /\ \/ /\ Cardinality(left) < bounds.updates /\ left' = left \cup {Cardinality(left) + 1}
        /\ UNCHANGED src
        /\ \/ Send(StreamError)
           \/ \E a \in bounds.accounts, slot \in 1 .. bounds.slots :
                /\ LookupByOwner(OwnerOf[a]) # {}
                /\ Send(AccountUpdate(a, slot, Cardinality(left) + 1, LookupByOwner(OwnerOf[a])))
     \/ /\ ~rxOpen /\ src' = "receiver_dropped" /\ UNCHANGED <<left, chan>>
  /\ UNCHANGED <<bounds, source, tasks, sync, held>>

\* The handle or the stream of the client ends.
FumaroleEnds ==
  /\ source = "fumarole" /\ src = "running" /\ src' = "stream_ended"
  /\ UNCHANGED <<bounds, source, tasks, left, sync, held, chan>>

SourceStep ==
  \/ RpcConnect \/ RpcJoin
  \/ \E t \in DOMAIN tasks : RpcFetch(t) \/ RpcSend(t)
  \/ SnapshotLoad \/ SnapshotSlot \/ SnapshotScan \/ SenderTakes \/ SenderSends \/ SnapshotReturns
  \/ FumaroleConnect \/ FumaroleForward \/ FumaroleEnds
=============================================================================
