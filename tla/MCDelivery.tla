----------------------------- MODULE MCDelivery -----------------------------
(* Instances of Delivery and of its refinement mapping for TLC. *)
EXTENDS DeliveryRefinement, TLC

CONSTANTS t1, t2, go1, go2

Ticks == {t1, t2}
GoAdapters == {go1, go2}

\* The ticks of one timer are interchangeable, and so are adapters.
SenderSymmetry == Permutations(Ticks) \cup Permutations(GoAdapters)
=============================================================================
