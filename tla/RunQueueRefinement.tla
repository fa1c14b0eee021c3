------------------------- MODULE RunQueueRefinement -------------------------
(***************************************************************************)
(* RunQueue implements RoundService: a round's phase is the status of its  *)
(* run, and it is answered when its report or its reply is in deliveries.  *)
(***************************************************************************)
EXTENDS RunQueue

Answered == {r \in Runs : <<"report", r>> \in deliveries
                            \/ <<"reply", r>> \in deliveries}

Service == INSTANCE RoundService WITH
  Rounds <- Runs,
  Conversations <- Investigations,
  NoConversation <- NoInvestigation,
  Audience <- ImRuns,
  conversation <- investigation,
  phase <- status,
  answered <- Answered

\* Workers, leases, fencing and retries are invisible from outside: seen by a
\* conversation, the queue is the service that answers its rounds in turn.
ImplementsRoundService == Service!ServiceSpec
=============================================================================
