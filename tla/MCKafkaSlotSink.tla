-------------------------- MODULE MCKafkaSlotSink --------------------------
(* A process and its replacement. *)
EXTENDS KafkaSlotSink
=============================================================================
