-------------------------- MODULE MCRunnerSession ---------------------------
(* Instances of RunnerSession for TLC. *)
EXTENDS RunnerSession
=============================================================================
