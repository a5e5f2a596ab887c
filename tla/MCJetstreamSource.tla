--------------------------- MODULE MCJetstreamSource ---------------------------
(***************************************************************************)
(* jetstreamer-source with two parsers, two workers and replays of up to   *)
(* two slots.                                                              *)
(***************************************************************************)
EXTENDS JetstreamSource, TLC

CONSTANTS p1, p2, w1, w2

Nothing == [block |-> None, block_meta |-> FALSE, slot |-> FALSE, transaction |-> FALSE]
Everything ==
  [block |-> {"entries"}, block_meta |-> TRUE, slot |-> TRUE, transaction |-> TRUE]

\* A parser that wants everything next to one that wants nothing, blocks without entries
\* next to entries, a block prefilter that asks for no part next to slots, and metas and
\* transactions alone.
MCPrefilterSets ==
  {p1 :> Everything @@ p2 :> Nothing,
   p1 :> [Nothing EXCEPT !.block = {"accounts"}] @@ p2 :> [Nothing EXCEPT !.block = {"entries", "transactions"}],
   p1 :> [Nothing EXCEPT !.block = {}, !.slot = TRUE] @@ p2 :> [Nothing EXCEPT !.block = {"accounts"}],
   p1 :> [Nothing EXCEPT !.transaction = TRUE] @@ p2 :> [Nothing EXCEPT !.block_meta = TRUE]}
=============================================================================
