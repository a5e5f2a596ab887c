-------------------------- MODULE MCFilterUpdates --------------------------
(* Two callers and two connections lost. *)
EXTENDS FilterUpdates
=============================================================================
