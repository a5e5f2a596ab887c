---------------------------- MODULE MCAccountPath ----------------------------
(***************************************************************************)
(* Two accounts of program "P", one of "Q".  A stream server is given up to*)
(* two of four parsers: two for "P", and two for "Q" with an id that is    *)
(* taken, one of them of another kind.                                     *)
(***************************************************************************)
EXTENDS AccountPath

MCBounds ==
  [k \in {"stream", "passthrough", "buffered"} |->
     IF k = "stream" THEN [slots |-> 1, updates |-> 3, accounts |-> {"c"}]
     ELSE [slots |-> 2, updates |-> 2, accounts |-> Accounts]]

MCOwnerOf == [a \in Accounts |-> IF a = "c" THEN "Q" ELSE "P"]

MCStreamParsers ==
  {[id |-> "x", kind |-> "account", program |-> "P"],
   [id |-> "y", kind |-> "account", program |-> "P"],
   [id |-> "x", kind |-> "account", program |-> "Q"],
   [id |-> "x", kind |-> "transaction", program |-> "Q"]}

MCSinkParsers ==
  <<SinkParser("P", "p"), SinkParserWithFallback("P", "p2", "raw"), SinkParser("Q", "q")>>

MCSchemas == [t \in {} |-> [schema_id |-> 1, message_index |-> 0]]

MCOutcomeOf ==
  [a \in Accounts |-> CASE a = "a" -> <<"parsed", "filtered", "filtered">>
                        [] a = "b" -> <<"error", "error", "filtered">>
                        [] a = "c" -> <<"filtered", "filtered", "filtered">>]
=============================================================================
