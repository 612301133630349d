----------------------------- MODULE MCRecorder -----------------------------
(* Recorder with two drive modes and two mapping versions. *)
EXTENDS Recorder
=============================================================================
