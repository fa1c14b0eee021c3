----------------------------- MODULE MCRecorder -----------------------------
(* Instances of Recorder for TLC. *)
EXTENDS Recorder
=============================================================================
