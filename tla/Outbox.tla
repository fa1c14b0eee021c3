------------------------------- MODULE Outbox -------------------------------
(***************************************************************************)
(* What the delivery table promises, without senders, leases, attempts or  *)
(* networks: a message people are owed reaches them at most once, and what *)
(* is recorded about it is true unless it is recorded as unknown.          *)
(***************************************************************************)
EXTENDS Integers

CONSTANT Messages

VARIABLES
  fate,              \* what is recorded of each message
  copies             \* how many copies of it people have

outboxVars == <<fate, copies>>

OutboxInit ==
  /\ fate = [m \in Messages |-> "none"]
  /\ copies = [m \in Messages |-> 0]

Owe(m) ==
  /\ fate[m] = "none"
  /\ fate' = [fate EXCEPT ![m] = "owed"]
  /\ UNCHANGED copies

\* A copy arrives while it may: after a refusal was recorded it cannot.
Reach(m) ==
  /\ fate[m] \in {"owed", "unknown"} /\ copies[m] = 0
  /\ copies' = [copies EXCEPT ![m] = 1]
  /\ UNCHANGED fate

\* The truth about one message is established, or that it can be sent again.
Establish(m) ==
  /\ fate[m] \in {"owed", "unknown"}
  /\ \/ copies[m] = 1 /\ fate' = [fate EXCEPT ![m] = "sent"]
     \/ copies[m] = 0 /\ \E f \in {"owed", "failed"} : fate' = [fate EXCEPT ![m] = f]
  /\ UNCHANGED copies

\* Nobody knows what became of some messages that were owed.
GiveUp(unknown) ==
  /\ \A m \in unknown : fate[m] = "owed"
  /\ fate' = [m \in Messages |-> IF m \in unknown THEN "unknown" ELSE fate[m]]
  /\ UNCHANGED copies

OutboxNext ==
  \/ \E m \in Messages : Owe(m) \/ Reach(m) \/ Establish(m)
  \/ \E unknown \in SUBSET Messages : GiveUp(unknown)

OutboxSpec == OutboxInit /\ [][OutboxNext]_outboxVars
=============================================================================
