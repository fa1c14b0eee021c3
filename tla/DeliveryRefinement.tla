------------------------- MODULE DeliveryRefinement -------------------------
(***************************************************************************)
(* Delivery implements Outbox: a delivery that waits or is being sent is   *)
(* owed, and the copies of it are the calls the platform accepted.         *)
(***************************************************************************)
EXTENDS Delivery, FiniteSets

Fate == [d \in Deliveries |->
  CASE status[d] = "absent" -> "none"
    [] status[d] \in {"pending", "sending"} -> "owed"
    [] status[d] = "uncertain" -> "unknown"
    [] OTHER -> status[d]]

Copies == [d \in Deliveries |-> Cardinality({c \in arrived : c.id = d})]

Promise == INSTANCE Outbox WITH
  Messages <- Deliveries, fate <- Fate, copies <- Copies

\* Seen by the people who are owed a message, the table keeps its promise.
ImplementsOutbox == Promise!OutboxSpec
=============================================================================
