--------------------------- MODULE MCPreconfSource ---------------------------
EXTENDS PreconfSource

Tx(result, decodes, signed, vote, filters, version) ==
    [result |-> result, decodes |-> decodes, signed |-> signed, vote |-> vote,
     filters |-> filters, version |-> version]

(* One transaction for each way through Framer::transaction, the one that  *)
(* is delivered in every slot.                                             *)
Delivered == Tx(Some("Success"), TRUE, TRUE, FALSE, {"p", "q"}, "V0")
NotDelivered == {Tx(None, TRUE, TRUE, FALSE, {"p"}, "Legacy"),
                 Tx(Some("FeesOnly"), TRUE, TRUE, FALSE, {"q"}, "V1"),
                 Tx(Some("Success"), TRUE, FALSE, FALSE, {"p"}, "Legacy"),
                 Tx(Some("Success"), TRUE, TRUE, FALSE, {}, "Legacy")}
MCUpdates == [kind : {"Transaction"}, slot : Slots, tx : {Delivered}]
                \cup [kind : {"Transaction"}, slot : {2}, tx : NotDelivered]
                \cup [kind : {"SlotStart", "SlotEnd"}, slot : Slots]
                \cup [kind : {"Clip", "Ping", "Other"}, slot : {1}]
(* p takes everything, q only votes. *)
MCVoteRules == [p |-> None, q |-> Some(TRUE)]
MCMaxRetries == Some(1)
MCMaxUpdates == [n \in 0 .. 2 |-> IF n = 1 THEN 4 ELSE 2]
=============================================================================
