------------------------------ MODULE Delivery ------------------------------
(***************************************************************************)
(* Sending the rows of the deliveries table to an IM platform.  Two kinds  *)
(* of sender drain it: the ticks of the Host's own delivery timer          *)
(* (src/delivery/delivery.ts, not awaited, so several may be under way),   *)
(* and Go adapters that claim and report over HTTP                         *)
(* (adapters/go/internal/adapter/adapter.go, src/host/server.ts).          *)
(*                                                                         *)
(* The HTTP link between an adapter and the Host loses answers and delays  *)
(* requests; the platform may accept a message whose sender never learns   *)
(* of it.  Time is the comparisons "lease expired" and "available_at <=    *)
(* now".  Database errors are not modelled.                                *)
(***************************************************************************)
EXTENDS Integers

CONSTANTS
  MaxDeliveries,     \* bound: rows ever enqueued
  DirectSenders,     \* ticks of the delivery timer under way at once
  Adapters,          \* Go adapters polling the Host
  MaxAttempts        \* config.delivery.maxAttempts

Deliveries == 1 .. MaxDeliveries
Senders == DirectSenders \cup Adapters

ASSUME DeliveryAssumption ==
  /\ MaxDeliveries \in Nat
  /\ MaxAttempts \in Nat \ {0}
  /\ DirectSenders \cap Adapters = {}

VARIABLES
  enqueued,          \* rows of deliveries: 1 .. enqueued, by created_at
  status,            \* deliveries.status
  attempt,           \* deliveries.attempt
  due,               \* deliveries.available_at <= now
  lease,             \* deliveries.lease_expires_at
  job,               \* the delivery and attempt a sender works on
  calls,             \* calls to the platform that may still arrive
  arrived,           \* calls the platform accepted: messages people see
  reports            \* results on their way from an adapter to the Host

rowVars == <<status, attempt, due, lease>>
wireVars == <<calls, arrived, reports>>
vars == <<enqueued, rowVars, job, wireVars>>

DeliveryStatus == {"pending", "sending", "sent", "uncertain", "failed"}
Attempt == [id : Deliveries, attempt : 1 .. MaxAttempts]
NoJob == [id |-> 0, attempt |-> 0]
Outcome == {"sent", "retry", "uncertain", "failed"}
Report == [of : Attempt, outcome : Outcome]

TypeOK ==
  /\ enqueued \in 0 .. MaxDeliveries
  /\ status \in [Deliveries -> DeliveryStatus \cup {"absent"}]
  /\ attempt \in [Deliveries -> 0 .. MaxAttempts]
  /\ due \in [Deliveries -> BOOLEAN]
  /\ lease \in [Deliveries -> {"null", "live", "expired"}]
  /\ job \in [Senders -> Attempt \cup {NoJob}]
  /\ calls \subseteq Attempt
  /\ arrived \subseteq Attempt
  /\ reports \subseteq Report

Init ==
  /\ enqueued = 0
  /\ status = [d \in Deliveries |-> "absent"]
  /\ attempt = [d \in Deliveries |-> 0]
  /\ due = [d \in Deliveries |-> FALSE]
  /\ lease = [d \in Deliveries |-> "null"]
  /\ job = [s \in Senders |-> NoJob]
  /\ calls = {}
  /\ arrived = {}
  /\ reports = {}

\* enqueueDelivery with a new idempotency key; an old one is ignored.
EnqueueDelivery ==
  LET d == enqueued + 1 IN
  /\ enqueued < MaxDeliveries
  /\ enqueued' = d
  /\ status' = [status EXCEPT ![d] = "pending"]
  /\ due' = [due EXCEPT ![d] = TRUE]
  /\ UNCHANGED <<attempt, lease, job, wireVars>>

-----------------------------------------------------------------------------
(* Claiming.                                                               *)

\* A broken Overdue that never finds one.
Overdue_Never == {}

Overdue == {d \in Deliveries : status[d] = "sending" /\ lease[d] = "expired"}

\* A broken Recovered that sends again what may have been sent.
Recovered_Pending ==
  [d \in Deliveries |-> IF d \in Overdue THEN "pending" ELSE status[d]]

\* recoverExpiredDeliveries: what becomes of the rows whose sender went silent.
Recovered ==
  [d \in Deliveries |-> IF d \in Overdue THEN "uncertain" ELSE status[d]]

Released == [d \in Deliveries |-> IF d \in Overdue THEN "null" ELSE lease[d]]

Ready == {d \in Deliveries : status[d] = "pending" /\ due[d]}

\* recoverExpiredDeliveries and claimNextDelivery find nothing to send.
SweepOnly(s) ==
  /\ job[s] = NoJob
  /\ Ready = {} /\ Overdue # {}
  /\ status' = Recovered
  /\ lease' = Released
  /\ UNCHANGED <<enqueued, attempt, due, job, wireVars>>

\* Both, with a row to send: the sender that gets it calls the platform, but
\* an adapter may never see the Host's answer.
Claim(s, d) ==
  LET a == [id |-> d, attempt |-> attempt[d] + 1] IN
  /\ job[s] = NoJob
  /\ d \in Ready /\ \A e \in Ready : d <= e
  /\ status' = [Recovered EXCEPT ![d] = "sending"]
  /\ lease' = [Released EXCEPT ![d] = "live"]
  /\ attempt' = [attempt EXCEPT ![d] = @ + 1]
  /\ \/ job' = [job EXCEPT ![s] = a] /\ calls' = calls \cup {a}
     \/ s \in Adapters /\ UNCHANGED <<job, calls>>
  /\ UNCHANGED <<enqueued, due, arrived, reports>>

-----------------------------------------------------------------------------
(* The platform.                                                           *)

\* A call arrives, possibly after its sender has given up on it.
PlatformAccepts(c) ==
  /\ c \in calls
  /\ calls' = calls \ {c}
  /\ arrived' = arrived \cup {c}
  /\ UNCHANGED <<enqueued, rowVars, job, reports>>

\* What the platform can still do for the attempt a once its sender has taken
\* the verdict v: a refusal is definite.
CallsAfter(a, v) == IF v \in {"retryable", "fatal"} THEN calls \ {a} ELSE calls

\* The verdicts that tell what happened to the call of attempt a.
Truthful(a, v) ==
  CASE v = "success" -> a \in arrived
    [] v = "uncertain" -> TRUE
    [] OTHER -> a \in calls

\* FeishuClient.send maps every error it cannot read to "uncertain".  The Go
\* client ignores an error while reading the body of the answer, and then takes
\* the text it cannot parse for a fatal refusal.
Verdict(s, a, v) ==
  Truthful(a, v) \/ (s \in Adapters /\ v = "fatal" /\ a \in arrived)

-----------------------------------------------------------------------------
(* Settling.                                                               *)

\* A broken Final that has no state for "unknown".
Final_UnknownFails(v, n) ==
  CASE v = "success" -> "sent"
    [] v = "retryable" /\ n < MaxAttempts -> "retry"
    [] OTHER -> "failed"

\* Where a verdict leads after n attempts: decided by the direct sender, and for
\* an adapter by the Host when its result comes in.
Final(v, n) ==
  CASE v = "success" -> "sent"
    [] v = "retryable" /\ n < MaxAttempts -> "retry"
    [] v = "uncertain" -> "uncertain"
    [] OTHER -> "failed"

\* markDelivery* and the switch of settleDelivery write the same columns.
Mark(d, outcome) ==
  /\ status' = [status EXCEPT ![d] =
                  IF outcome = "retry" THEN "pending" ELSE outcome]
  /\ due' = [due EXCEPT ![d] = IF outcome = "retry" THEN FALSE ELSE @]
  /\ lease' = [lease EXCEPT ![d] = "null"]
  /\ UNCHANGED attempt

\* A direct sender marks the row by its id alone, whatever became of it.
SettleDirect(s, v) ==
  LET a == job[s] IN
  /\ s \in DirectSenders /\ a # NoJob
  /\ Verdict(s, a, v)
  /\ Mark(a.id, Final(v, a.attempt))
  /\ calls' = CallsAfter(a, v)
  /\ job' = [job EXCEPT ![s] = NoJob]
  /\ UNCHANGED <<enqueued, arrived, reports>>

\* An adapter posts its result once and moves on, whether or not it got there.
PostResult(s, v) ==
  LET a == job[s] IN
  /\ s \in Adapters /\ a # NoJob
  /\ Verdict(s, a, v)
  /\ calls' = CallsAfter(a, v)
  /\ reports' = reports \cup {[of |-> a, outcome |-> Final(v, a.attempt)]}
  /\ job' = [job EXCEPT ![s] = NoJob]
  /\ UNCHANGED <<enqueued, rowVars, arrived>>

\* The Host receives a result and settles the row if it is still the attempt
\* it is waiting for.
SettleDelivery(m) ==
  LET d == m.of.id IN
  /\ m \in reports
  /\ reports' = reports \ {m}
  /\ IF status[d] = "sending" /\ attempt[d] = m.of.attempt
     THEN Mark(d, m.outcome) ELSE UNCHANGED rowVars
  /\ UNCHANGED <<enqueued, job, calls, arrived>>

Crash(s) ==
  /\ job[s] # NoJob
  /\ job' = [job EXCEPT ![s] = NoJob]
  /\ UNCHANGED <<enqueued, rowVars, wireVars>>

LeaseExpires(d) ==
  /\ status[d] = "sending" /\ lease[d] = "live"
  /\ lease' = [lease EXCEPT ![d] = "expired"]
  /\ UNCHANGED <<enqueued, status, attempt, due, job, wireVars>>

BackoffElapses(d) ==
  /\ status[d] = "pending" /\ ~due[d]
  /\ due' = [due EXCEPT ![d] = TRUE]
  /\ UNCHANGED <<enqueued, status, attempt, lease, job, wireVars>>

-----------------------------------------------------------------------------
Verdicts == {"success", "retryable", "fatal", "uncertain"}

Poll(s) == SweepOnly(s) \/ \E d \in Deliveries : Claim(s, d)
Answer(s) == \E v \in Verdicts : SettleDirect(s, v) \/ PostResult(s, v)

Next ==
  \/ EnqueueDelivery
  \/ \E s \in Senders : Poll(s) \/ Answer(s) \/ Crash(s)
  \/ \E c \in calls : PlatformAccepts(c)
  \/ \E m \in reports : SettleDelivery(m)
  \/ \E d \in Deliveries : LeaseExpires(d) \/ BackoffElapses(d)

Spec == Init /\ [][Next]_vars

\* Timers keep ticking, an adapter's calls have a time limit, and leases and
\* delays run out.  A direct call may hang for ever, a result may never reach
\* the Host, and a sender may die at every attempt.
Fairness ==
  /\ \A s \in Senders : WF_vars(Poll(s))
  /\ \A s \in Adapters : WF_vars(Answer(s))
  /\ \A d \in Deliveries : WF_vars(LeaseExpires(d)) /\ WF_vars(BackoffElapses(d))

FairSpec == Spec /\ Fairness
-----------------------------------------------------------------------------
(* Properties.                                                             *)

\* Nobody sees a message twice: of all the attempts at one delivery the
\* platform accepts at most one, although senders die, overlap and report late.
AtMostOnce == \A c, e \in arrived : c.id = e.id => c = e

\* A delivery waiting for another attempt was not sent by any earlier one, and
\* nothing of an earlier one is still under way.
PendingIsUnsent ==
  \A d \in Deliveries : status[d] \in {"absent", "pending"} =>
    /\ \A c \in calls \cup arrived : c.id # d
    /\ \A s \in Senders : job[s].id # d
    /\ \A m \in reports : m.of.id # d

\* The recorded outcome is the true one: "sent" was accepted by the platform,
\* "failed" was not and cannot be any more.
OutcomeIsTrue ==
  \A d \in Deliveries :
    /\ status[d] = "sent" => \E c \in arrived : c.id = d
    /\ status[d] = "failed" => \A c \in calls \cup arrived : c.id # d

\* A known outcome is never overwritten, by whatever sender comes back late.
KnownOutcomeIsFinal ==
  [][\A d \in Deliveries :
       status[d] \in {"sent", "failed"} => status'[d] = status[d]]_vars

\* Every delivery is settled in the end, if only as "uncertain".
EveryDeliverySettles ==
  \A d \in Deliveries :
    status[d] = "pending" ~> status[d] \in {"sent", "uncertain", "failed"}

-----------------------------------------------------------------------------
(* What these rest on, kept by every step.                                 *)

\* Only the latest attempt at a delivery was ever put to the platform.
OnlyLatest ==
  /\ \A c \in calls \cup arrived : c.attempt = attempt[c.id]
  /\ \A s \in Senders : job[s] # NoJob => job[s].attempt = attempt[job[s].id]
  /\ \A m \in reports : m.of.attempt = attempt[m.of.id]
  /\ calls \cap arrived = {}

\* A delivery somebody works on has no known outcome yet.
HeldIsOpen ==
  \A s \in Senders : job[s] # NoJob => status[job[s].id] \in {"sending", "uncertain"}

\* An attempt has one sender or one result, and a result that asks for a retry
\* is of a call the platform refused.
OneOwner ==
  /\ \A s, t \in Senders : job[s] = job[t] /\ job[s] # NoJob => s = t
  /\ \A m \in reports : \A s \in Senders : job[s] # m.of
  /\ \A m, n \in reports : m.of = n.of => m = n
  /\ \A m \in reports : m.outcome = "retry" =>
       m.of \notin calls \cup arrived /\ m.of.attempt < MaxAttempts

AttemptLeft ==
  \A d \in Deliveries :
    /\ d > enqueued <=> status[d] = "absent"
    /\ status[d] \in {"absent", "pending"} => attempt[d] < MaxAttempts

\* The inductive invariant: whatever is still under way belongs to the latest
\* attempt of a delivery that is not waiting to be sent.
DeliveryInvariant ==
  TypeOK /\ PendingIsUnsent /\ HeldIsOpen /\ OnlyLatest /\ OneOwner /\ AttemptLeft
=============================================================================
