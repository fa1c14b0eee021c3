----------------------------- MODULE MCRunQueue -----------------------------
(* Instances of RunQueue and of its refinement mapping for TLC. *)
EXTENDS RunQueueRefinement, TLC

CONSTANTS w1, w2, iA, iB

Slots == {w1, w2}
Conversations == {iA, iB}

\* Worker slots of one kind are interchangeable, and so are conversations.
SlotSymmetry == Permutations(Slots)
Symmetry == Permutations(Slots) \cup Permutations(Conversations)
=============================================================================
