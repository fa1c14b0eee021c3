-------------------------- MODULE MCEvidenceCommit --------------------------
(* Instances of EvidenceCommit for TLC. *)
EXTENDS EvidenceCommit

\* The first batch has two items, so that pieces of batches can mix.
TwoThenOne(c) == IF c = 1 THEN 2 ELSE 1
=============================================================================
