----------------------------- MODULE MCRuntime -----------------------------
(* Instances of Runtime: a permit pool smaller than the backlog. *)
EXTENDS Runtime
=============================================================================
