------------------------------- MODULE MCSync -------------------------------
(* Sync with two configurations. *)
EXTENDS Sync
=============================================================================
