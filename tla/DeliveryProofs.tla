--------------------------- MODULE DeliveryProofs ---------------------------
(***************************************************************************)
(* Machine-checked theorems about Delivery, for any number of deliveries,  *)
(* senders of either kind and attempts, and about its refinement of Outbox.*)
(***************************************************************************)
EXTENDS DeliveryRefinement, FiniteSetTheorems, TLAPS

USE DeliveryAssumption DEF Deliveries, Senders

LEMMA InitInvariant == Init => DeliveryInvariant
BY DEF Init, DeliveryInvariant, TypeOK, PendingIsUnsent, OnlyLatest, OneOwner,
       AttemptLeft, HeldIsOpen, NoJob, Attempt, Report

LEMMA EnqueueInvariant ==
  ASSUME DeliveryInvariant, EnqueueDelivery
  PROVE  DeliveryInvariant'
<1> USE DEF DeliveryInvariant, EnqueueDelivery, wireVars
<1>1. TypeOK' BY DEF TypeOK, DeliveryStatus
<1>2. PendingIsUnsent' BY DEF TypeOK, PendingIsUnsent, AttemptLeft
<1>3. OnlyLatest' BY DEF OnlyLatest
<1>4. OneOwner' BY DEF OneOwner
<1>5. AttemptLeft' BY DEF TypeOK, AttemptLeft
<1>6. HeldIsOpen' BY DEF TypeOK, HeldIsOpen, AttemptLeft, Attempt
<1> QED BY <1>1, <1>2, <1>3, <1>4, <1>5, <1>6

LEMMA SweepInvariant ==
  ASSUME DeliveryInvariant, NEW s \in Senders, SweepOnly(s)
  PROVE  DeliveryInvariant'
<1> USE DEF DeliveryInvariant, SweepOnly, wireVars, Recovered, Released, Overdue
<1>1. TypeOK' BY DEF TypeOK, DeliveryStatus
<1>2. PendingIsUnsent' BY DEF PendingIsUnsent
<1>3. OnlyLatest' BY DEF OnlyLatest
<1>4. OneOwner' BY DEF OneOwner
<1>5. AttemptLeft' BY DEF AttemptLeft
<1>6. HeldIsOpen' BY DEF HeldIsOpen, TypeOK, Attempt
<1> QED BY <1>1, <1>2, <1>3, <1>4, <1>5, <1>6

LEMMA ClaimInvariant ==
  ASSUME DeliveryInvariant, NEW s \in Senders, NEW d \in Deliveries, Claim(s, d)
  PROVE  DeliveryInvariant'
<1> DEFINE a == [id |-> d, attempt |-> attempt[d] + 1]
<1> USE DEF DeliveryInvariant
<1>1. /\ job[s] = NoJob /\ status[d] = "pending"
      /\ status' = [Recovered EXCEPT ![d] = "sending"]
      /\ lease' = [Released EXCEPT ![d] = "live"]
      /\ attempt' = [attempt EXCEPT ![d] = @ + 1]
      /\ \/ job' = [job EXCEPT ![s] = a] /\ calls' = calls \cup {a}
         \/ UNCHANGED <<job, calls>>
      /\ UNCHANGED <<enqueued, due, arrived, reports>>
  BY DEF Claim, Ready
<1>2. a \in Attempt /\ a.id = d /\ a.attempt = attempt[d] + 1 /\ a # NoJob
      /\ attempt[d] + 1 \in 1 .. MaxAttempts
  BY <1>1 DEF TypeOK, AttemptLeft, Attempt, NoJob
<1>3. /\ \A c \in calls \cup arrived : c.id # d
      /\ \A t \in Senders : job[t].id # d
      /\ \A m \in reports : m.of.id # d
  BY <1>1 DEF PendingIsUnsent
<1>4. a \notin calls \cup arrived /\ \A t \in Senders : job[t] # a
      /\ \A m \in reports : m.of # a
  BY <1>2, <1>3
<1>5. \A e \in Deliveries : attempt'[e] = IF e = d THEN attempt[e] + 1 ELSE attempt[e]
  BY <1>1 DEF TypeOK
<1>6. \A e \in Deliveries :
        /\ status'[e] \in DeliveryStatus \cup {"absent"}
        /\ status'[e] \in {"absent", "pending"} => e # d /\ status'[e] = status[e]
        /\ status'[e] = "absent" <=> status[e] = "absent"
  BY <1>1 DEF Recovered, Overdue, TypeOK, DeliveryStatus
<1>7. TypeOK'
  <2>1. status' \in [Deliveries -> DeliveryStatus \cup {"absent"}]
    BY <1>1 DEF Recovered, TypeOK, DeliveryStatus
  <2>2. lease' \in [Deliveries -> {"null", "live", "expired"}]
    BY <1>1 DEF Released, TypeOK
  <2>3. attempt' \in [Deliveries -> 0 .. MaxAttempts]
    BY <1>1, <1>2 DEF TypeOK
  <2>4. /\ job' \in [Senders -> Attempt \cup {NoJob}] /\ calls' \subseteq Attempt
    BY <1>1, <1>2 DEF TypeOK
  <2> QED BY <1>1, <2>1, <2>2, <2>3, <2>4 DEF TypeOK
<1> HIDE DEF a
<1>8. PendingIsUnsent'
  <2> SUFFICES ASSUME NEW e \in Deliveries, status'[e] \in {"absent", "pending"}
               PROVE  /\ \A c \in calls' \cup arrived' : c.id # e
                      /\ \A t \in Senders : job'[t].id # e
                      /\ \A m \in reports' : m.of.id # e
    BY DEF PendingIsUnsent
  <2>1. e # d /\ status[e] \in {"absent", "pending"} BY <1>6
  <2>2. \A t \in Senders : job'[t] \in {job[t], a} BY <1>1 DEF TypeOK
  <2>3. calls' \subseteq calls \cup {a} /\ arrived' = arrived /\ reports' = reports
    BY <1>1
  <2> QED BY <1>2, <2>1, <2>2, <2>3 DEF PendingIsUnsent
<1>9. OnlyLatest'
  <2>1. \A c \in calls' \cup arrived' : c.attempt = attempt'[c.id]
    BY <1>1, <1>2, <1>3, <1>5 DEF OnlyLatest, TypeOK, Attempt
  <2>2. \A t \in Senders : job'[t] # NoJob => job'[t].attempt = attempt'[job'[t].id]
    BY <1>1, <1>2, <1>3, <1>5 DEF OnlyLatest, TypeOK, Attempt
  <2>3. \A m \in reports' : m.of.attempt = attempt'[m.of.id]
    BY <1>1, <1>3, <1>5 DEF OnlyLatest, TypeOK, Report, Attempt
  <2>4. calls' \cap arrived' = {} BY <1>1, <1>4 DEF OnlyLatest
  <2> QED BY <2>1, <2>2, <2>3, <2>4 DEF OnlyLatest
<1>10. OneOwner'
  <2>1. \A t \in Senders : job'[t] = job[t] \/ (job'[t] = a /\ t = s)
    BY <1>1 DEF TypeOK
  <2>2. \A m \in reports : m.outcome = "retry" => m.of \notin calls' \cup arrived'
    BY <1>1, <1>4 DEF OneOwner
  <2> QED BY <1>1, <1>4, <2>1, <2>2 DEF OneOwner
<1>11. AttemptLeft' BY <1>1, <1>5, <1>6 DEF AttemptLeft
<1>12. HeldIsOpen'
  <2> SUFFICES ASSUME NEW t \in Senders, job'[t] # NoJob
               PROVE  status'[job'[t].id] \in {"sending", "uncertain"}
    BY DEF HeldIsOpen
  <2>1. CASE job'[t] = a
    BY <1>1, <1>2, <2>1 DEF Recovered
  <2>2. CASE job'[t] = job[t]
    <3>1. job[t].id \in Deliveries /\ job[t].id # d
          /\ status[job[t].id] \in {"sending", "uncertain"}
      BY <1>3, <2>2 DEF HeldIsOpen, TypeOK, Attempt
    <3> QED BY <1>1, <2>2, <3>1 DEF Recovered
  <2>3. job'[t] \in {job[t], a} BY <1>1 DEF TypeOK
  <2> QED BY <2>1, <2>2, <2>3
<1> QED BY <1>7, <1>8, <1>9, <1>10, <1>11, <1>12

LEMMA AcceptsInvariant ==
  ASSUME DeliveryInvariant, NEW c \in calls, PlatformAccepts(c)
  PROVE  DeliveryInvariant'
<1> USE DEF DeliveryInvariant, PlatformAccepts, rowVars
<1>1. TypeOK' BY DEF TypeOK
<1>2. calls' \cup arrived' = calls \cup arrived OBVIOUS
<1>3. PendingIsUnsent' BY <1>2 DEF PendingIsUnsent
<1>4. OnlyLatest' BY <1>2 DEF OnlyLatest
<1>5. OneOwner' BY <1>2 DEF OneOwner
<1>6. AttemptLeft' BY DEF AttemptLeft
<1>7. HeldIsOpen' BY DEF HeldIsOpen
<1> QED BY <1>1, <1>3, <1>4, <1>5, <1>6, <1>7

-----------------------------------------------------------------------------
(* Settling.                                                               *)

\* What a verdict leaves of the call of an attempt that somebody owns.
LEMMA VerdictEffect ==
  ASSUME DeliveryInvariant, NEW a \in Attempt, NEW s \in Senders, NEW v \in Verdicts,
         Verdict(s, a, v)
  PROVE  /\ CallsAfter(a, v) \subseteq calls
         /\ Final(v, a.attempt) \in Outcome
         /\ Final(v, a.attempt) = "retry"
              => /\ a \notin CallsAfter(a, v) \cup arrived
                 /\ a.attempt < MaxAttempts
<1>1. CallsAfter(a, v) \subseteq calls BY DEF CallsAfter
<1>2. Final(v, a.attempt) \in Outcome BY DEF Final, Outcome
<1>3. ASSUME Final(v, a.attempt) = "retry"
      PROVE  a \notin CallsAfter(a, v) \cup arrived /\ a.attempt < MaxAttempts
  <2>1. v = "retryable" /\ a.attempt < MaxAttempts
    BY <1>3 DEF Final, Verdicts
  <2>2. a \in calls BY <2>1 DEF Verdict, Truthful
  <2> QED BY <2>1, <2>2 DEF CallsAfter, DeliveryInvariant, OnlyLatest
<1> QED BY <1>1, <1>2, <1>3

\* Marking a row that is not absent, after its last attempt has been given up.
LEMMA MarkEffect ==
  ASSUME TypeOK, AttemptLeft, NEW d \in Deliveries, NEW outcome \in Outcome,
         status[d] # "absent", Mark(d, outcome), UNCHANGED enqueued,
         outcome = "retry" => attempt[d] < MaxAttempts
  PROVE  /\ status' \in [Deliveries -> DeliveryStatus \cup {"absent"}]
         /\ due' \in [Deliveries -> BOOLEAN]
         /\ lease' \in [Deliveries -> {"null", "live", "expired"}]
         /\ attempt' = attempt
         /\ AttemptLeft'
         /\ \A e \in Deliveries \ {d} : status'[e] = status[e]
         /\ status'[d] # "absent" /\ (status'[d] = "pending" => outcome = "retry")
<1> USE DEF Mark, TypeOK, DeliveryStatus, Outcome
<1>1. status' \in [Deliveries -> DeliveryStatus \cup {"absent"}] OBVIOUS
<1>2. due' \in [Deliveries -> BOOLEAN] OBVIOUS
<1>3. lease' \in [Deliveries -> {"null", "live", "expired"}] OBVIOUS
<1>4. \A e \in Deliveries :
        IF e = d THEN /\ status'[e] # "absent"
                      /\ status'[e] = "pending" => outcome = "retry"
        ELSE status'[e] = status[e]
  OBVIOUS
<1>5. attempt' = attempt OBVIOUS
<1>6. AttemptLeft' BY <1>4, <1>5 DEF AttemptLeft
<1> HIDE DEF Mark, TypeOK, DeliveryStatus, Outcome
<1> QED BY <1>1, <1>2, <1>3, <1>4, <1>5, <1>6

LEMMA SettleDirectInvariant ==
  ASSUME DeliveryInvariant, NEW s \in Senders, NEW v \in Verdicts, SettleDirect(s, v)
  PROVE  DeliveryInvariant'
<1> DEFINE a == job[s]
<1> USE DEF DeliveryInvariant
<1>1. /\ a \in Attempt /\ a.id \in Deliveries /\ a.attempt = attempt[a.id]
      /\ status[a.id] \notin {"absent", "pending"}
      /\ \A m \in reports : m.of # a
  BY DEF SettleDirect, TypeOK, Attempt, OnlyLatest, PendingIsUnsent, OneOwner
<1>2. /\ Mark(a.id, Final(v, a.attempt)) /\ Verdict(s, a, v)
      /\ calls' = CallsAfter(a, v) /\ job' = [job EXCEPT ![s] = NoJob]
      /\ UNCHANGED <<enqueued, arrived, reports>>
  BY DEF SettleDirect
<1>3. /\ calls' \subseteq calls
      /\ Final(v, a.attempt) \in Outcome
      /\ Final(v, a.attempt) = "retry"
           => a \notin calls' \cup arrived /\ a.attempt < MaxAttempts
  BY <1>1, <1>2, VerdictEffect
<1>4. \A t \in Senders : job'[t] = IF t = s THEN NoJob ELSE job[t]
  BY <1>2 DEF TypeOK
<1> HIDE DEF a
<1>5. /\ status' \in [Deliveries -> DeliveryStatus \cup {"absent"}]
      /\ due' \in [Deliveries -> BOOLEAN]
      /\ lease' \in [Deliveries -> {"null", "live", "expired"}]
      /\ attempt' = attempt
      /\ AttemptLeft'
      /\ \A e \in Deliveries \ {a.id} : status'[e] = status[e]
      /\ status'[a.id] # "absent"
      /\ status'[a.id] = "pending" => Final(v, a.attempt) = "retry"
  BY <1>1, <1>2, <1>3, MarkEffect
<1>6. TypeOK' BY <1>2, <1>3, <1>5 DEF TypeOK
<1>7. PendingIsUnsent'
  <2> SUFFICES ASSUME NEW e \in Deliveries, status'[e] \in {"absent", "pending"}
               PROVE  /\ \A c \in calls' \cup arrived' : c.id # e
                      /\ \A t \in Senders : job'[t].id # e
                      /\ \A m \in reports' : m.of.id # e
    BY DEF PendingIsUnsent
  <2>0. NoJob.id # e BY DEF NoJob
  <2>1. CASE e # a.id
    BY <2>0, <2>1, <1>2, <1>3, <1>4, <1>5 DEF PendingIsUnsent
  <2>2. CASE e = a.id
    <3>0. Final(v, a.attempt) = "retry" BY <1>5, <2>2
    <3>1. \A x \in Attempt : x.id = e /\ x.attempt = attempt[e] => x = a
      BY <1>1, <2>2 DEF Attempt
    <3>2. \A c \in calls' \cup arrived' : c.id # e
      BY <1>2, <1>3, <2>2, <3>0, <3>1 DEF OnlyLatest, TypeOK
    <3>3. \A t \in Senders : job'[t].id # e
      <4> SUFFICES ASSUME NEW t \in Senders, t # s, job[t].id = e PROVE FALSE
        BY <1>4, <2>0
      <4>1. job[t] \in Attempt /\ job[t] # NoJob BY <2>0 DEF TypeOK
      <4>2. job[t] = a BY <3>1, <4>1 DEF OnlyLatest
      <4> QED BY <4>1, <4>2 DEF OneOwner, a
    <3>4. \A m \in reports' : m.of.id # e
      BY <1>1, <1>2, <3>1 DEF OnlyLatest, TypeOK, Report
    <3> QED BY <3>2, <3>3, <3>4
  <2> QED BY <2>1, <2>2, <1>5
<1>8. OnlyLatest' BY <1>2, <1>3, <1>4, <1>5 DEF OnlyLatest
<1>9. OneOwner'
  BY <1>2, <1>3, <1>4 DEF OneOwner, TypeOK, Report, Attempt, NoJob
<1>10. HeldIsOpen'
  <2> SUFFICES ASSUME NEW t \in Senders, job'[t] # NoJob
               PROVE  status'[job'[t].id] \in {"sending", "uncertain"}
    BY DEF HeldIsOpen
  <2>1. t # s /\ job'[t] = job[t] BY <1>4
  <2>2. job[t] \in Attempt /\ job[t].attempt = attempt[job[t].id] /\ job[t] # a
    BY <2>1 DEF TypeOK, OnlyLatest, OneOwner, a
  <2>3. job[t].id \in Deliveries \ {a.id} BY <1>1, <2>2 DEF Attempt
  <2> QED BY <1>5, <2>1, <2>3 DEF HeldIsOpen
<1> QED BY <1>5, <1>6, <1>7, <1>8, <1>9, <1>10

LEMMA PostResultInvariant ==
  ASSUME DeliveryInvariant, NEW s \in Senders, NEW v \in Verdicts, PostResult(s, v)
  PROVE  DeliveryInvariant'
<1> DEFINE a == job[s]
           m == [of |-> a, outcome |-> Final(v, a.attempt)]
<1> USE DEF DeliveryInvariant
<1>1. /\ a \in Attempt /\ a # NoJob
      /\ a.attempt = attempt[a.id] /\ a.id \in Deliveries
      /\ status[a.id] \notin {"absent", "pending"}
      /\ \A n \in reports : n.of # a
  BY DEF PostResult, TypeOK, Attempt, OnlyLatest, PendingIsUnsent, OneOwner
<1>2. /\ Verdict(s, a, v)
      /\ calls' = CallsAfter(a, v) /\ job' = [job EXCEPT ![s] = NoJob]
      /\ reports' = reports \cup {m}
      /\ UNCHANGED <<enqueued, status, attempt, due, lease, arrived>>
  BY DEF PostResult, rowVars
<1>3. /\ calls' \subseteq calls
      /\ m \in Report /\ m.of = a
      /\ m.outcome = "retry" => a \notin calls' \cup arrived /\ a.attempt < MaxAttempts
  BY <1>1, <1>2, VerdictEffect DEF Report
<1>4. \A t \in Senders : job'[t] = IF t = s THEN NoJob ELSE job[t]
  BY <1>2 DEF TypeOK
<1>5. \A t \in Senders : t # s => job[t] # a
  BY <1>1 DEF OneOwner
<1> HIDE DEF a, m
<1>6. TypeOK' BY <1>2, <1>3 DEF TypeOK
<1>7. PendingIsUnsent'
  <2>1. \A d \in Deliveries : NoJob.id # d BY DEF NoJob
  <2> QED BY <1>1, <1>2, <1>3, <1>4, <2>1 DEF PendingIsUnsent
<1>8. OnlyLatest' BY <1>1, <1>2, <1>3, <1>4 DEF OnlyLatest
<1>9. OneOwner'
  <2>1. \A t, u \in Senders : job'[t] = job'[u] /\ job'[t] # NoJob => t = u
    BY <1>4 DEF OneOwner
  <2>2. \A n \in reports' : \A t \in Senders : job'[t] # n.of
    <3>1. \A n \in reports' : n.of \in Attempt /\ n.of # NoJob
      BY <1>1, <1>2, <1>3 DEF TypeOK, Report, Attempt, NoJob
    <3> QED BY <1>2, <1>3, <1>4, <1>5, <3>1 DEF OneOwner
  <2>3. \A n, o \in reports' : n.of = o.of => n = o
    BY <1>1, <1>2, <1>3 DEF OneOwner
  <2>4. \A n \in reports' : n.outcome = "retry" =>
          n.of \notin calls' \cup arrived' /\ n.of.attempt < MaxAttempts
    BY <1>2, <1>3 DEF OneOwner
  <2> QED BY <2>1, <2>2, <2>3, <2>4 DEF OneOwner
<1>10. AttemptLeft' BY <1>2 DEF AttemptLeft
<1>11. HeldIsOpen' BY <1>2, <1>4 DEF HeldIsOpen
<1> QED BY <1>6, <1>7, <1>8, <1>9, <1>10, <1>11

LEMMA SettleDeliveryInvariant ==
  ASSUME DeliveryInvariant, NEW m \in reports, SettleDelivery(m)
  PROVE  DeliveryInvariant'
<1> DEFINE d == m.of.id
<1> USE DEF DeliveryInvariant
<1>1. /\ m.of \in Attempt /\ d \in Deliveries /\ m.outcome \in Outcome
      /\ m.of.attempt = attempt[d]
      /\ status[d] \notin {"absent", "pending"}
      /\ \A s \in Senders : job[s] # m.of
      /\ m.outcome = "retry" => m.of \notin calls \cup arrived /\ attempt[d] < MaxAttempts
  BY DEF TypeOK, Report, Attempt, OnlyLatest, PendingIsUnsent, OneOwner
<1>2. reports' = reports \ {m} /\ UNCHANGED <<enqueued, job, calls, arrived>>
  BY DEF SettleDelivery
<1>3. CASE Mark(d, m.outcome)
  <2> HIDE DEF d
  <2>1. /\ status' \in [Deliveries -> DeliveryStatus \cup {"absent"}]
        /\ due' \in [Deliveries -> BOOLEAN]
        /\ lease' \in [Deliveries -> {"null", "live", "expired"}]
        /\ attempt' = attempt
        /\ AttemptLeft'
        /\ \A e \in Deliveries \ {d} : status'[e] = status[e]
        /\ status'[d] # "absent" /\ (status'[d] = "pending" => m.outcome = "retry")
    BY <1>1, <1>2, <1>3, MarkEffect
  <2>2. TypeOK' BY <1>2, <2>1 DEF TypeOK
  <2>3. PendingIsUnsent'
    <3> SUFFICES ASSUME NEW e \in Deliveries, status'[e] \in {"absent", "pending"}
                 PROVE  /\ \A c \in calls \cup arrived : c.id # e
                        /\ \A s \in Senders : job[s].id # e
                        /\ \A n \in reports' : n.of.id # e
      BY <1>2 DEF PendingIsUnsent
    <3>1. CASE e # d BY <1>2, <2>1, <3>1 DEF PendingIsUnsent
    <3>2. CASE e = d
      <4>1. \A x \in Attempt : x.id = d /\ x.attempt = attempt[d] => x = m.of
        BY <1>1 DEF Attempt, d
      <4>2. \A c \in calls \cup arrived : c.id # d
        BY <1>1, <2>1, <3>2, <4>1 DEF OnlyLatest, TypeOK
      <4>3. \A s \in Senders : job[s].id # d
        <5> SUFFICES ASSUME NEW s \in Senders, job[s].id = d PROVE FALSE
          OBVIOUS
        <5>1. job[s] \in Attempt /\ job[s] # NoJob BY <1>1 DEF TypeOK, NoJob
        <5> QED BY <1>1, <4>1, <5>1 DEF OnlyLatest
      <4>4. \A n \in reports' : n.of.id # d
        BY <1>2, <4>1 DEF OnlyLatest, OneOwner, TypeOK, Report
      <4> QED BY <3>2, <4>2, <4>3, <4>4
    <3> QED BY <3>1, <3>2
  <2>4. OnlyLatest' BY <1>2, <2>1 DEF OnlyLatest
  <2>5. OneOwner' BY <1>2 DEF OneOwner
  <2>6. HeldIsOpen'
    <3> SUFFICES ASSUME NEW t \in Senders, job[t] # NoJob
                 PROVE  status'[job[t].id] \in {"sending", "uncertain"}
      BY <1>2 DEF HeldIsOpen
    <3>1. job[t] \in Attempt /\ job[t].attempt = attempt[job[t].id] /\ job[t] # m.of
      BY <1>1 DEF TypeOK, OnlyLatest
    <3>2. job[t].id \in Deliveries \ {d} BY <1>1, <3>1 DEF Attempt, d
    <3> QED BY <2>1, <3>2 DEF HeldIsOpen
  <2> QED BY <2>1, <2>2, <2>3, <2>4, <2>5, <2>6
<1>4. CASE UNCHANGED rowVars
  BY <1>2, <1>4 DEF rowVars, TypeOK, PendingIsUnsent, OnlyLatest, OneOwner,
     AttemptLeft, HeldIsOpen
<1> QED BY <1>3, <1>4 DEF SettleDelivery

LEMMA CrashInvariant ==
  ASSUME DeliveryInvariant, NEW s \in Senders, Crash(s)
  PROVE  DeliveryInvariant'
<1> USE DEF DeliveryInvariant, Crash, rowVars, wireVars
<1>1. \A t \in Senders : job'[t] = IF t = s THEN NoJob ELSE job[t] BY DEF TypeOK
<1>2. \A d \in Deliveries : NoJob.id # d BY DEF NoJob
<1>3. \A m \in reports : m.of # NoJob BY DEF TypeOK, Report, Attempt, NoJob
<1>4. TypeOK' BY DEF TypeOK
<1>5. PendingIsUnsent' BY <1>1, <1>2 DEF PendingIsUnsent
<1>6. OnlyLatest' BY <1>1 DEF OnlyLatest
<1>7. OneOwner' BY <1>1, <1>3 DEF OneOwner
<1>8. AttemptLeft' BY DEF AttemptLeft
<1>9. HeldIsOpen' BY <1>1 DEF HeldIsOpen
<1> QED BY <1>4, <1>5, <1>6, <1>7, <1>8, <1>9

LEMMA TimeInvariant ==
  ASSUME DeliveryInvariant, NEW d \in Deliveries, LeaseExpires(d) \/ BackoffElapses(d)
  PROVE  DeliveryInvariant'
<1> USE DEF LeaseExpires, BackoffElapses, wireVars, DeliveryInvariant
<1>1. TypeOK' BY DEF TypeOK
<1>2. PendingIsUnsent' BY DEF PendingIsUnsent
<1>3. OnlyLatest' BY DEF OnlyLatest
<1>4. OneOwner' BY DEF OneOwner
<1>5. AttemptLeft' BY DEF AttemptLeft
<1>6. HeldIsOpen' BY DEF HeldIsOpen
<1> QED BY <1>1, <1>2, <1>3, <1>4, <1>5, <1>6

-----------------------------------------------------------------------------
LEMMA StepInvariant == DeliveryInvariant /\ [Next]_vars => DeliveryInvariant'
<1> SUFFICES ASSUME DeliveryInvariant, [Next]_vars PROVE DeliveryInvariant'
  OBVIOUS
<1>1. CASE EnqueueDelivery BY <1>1, EnqueueInvariant
<1>2. ASSUME NEW s \in Senders, Poll(s) \/ Answer(s) \/ Crash(s)
      PROVE  DeliveryInvariant'
  BY <1>2, SweepInvariant, ClaimInvariant, SettleDirectInvariant,
     PostResultInvariant, CrashInvariant DEF Poll, Answer
<1>3. CASE \E c \in calls : PlatformAccepts(c) BY <1>3, AcceptsInvariant
<1>4. CASE \E m \in reports : SettleDelivery(m) BY <1>4, SettleDeliveryInvariant
<1>5. CASE \E d \in Deliveries : LeaseExpires(d) \/ BackoffElapses(d)
  BY <1>5, TimeInvariant
<1>6. CASE UNCHANGED vars
  BY <1>6 DEF vars, rowVars, wireVars, DeliveryInvariant, TypeOK,
     PendingIsUnsent, OnlyLatest, OneOwner, AttemptLeft, HeldIsOpen
<1> QED BY <1>1, <1>2, <1>3, <1>4, <1>5, <1>6 DEF Next

\* In every reachable state, whatever is still under way belongs to the latest
\* attempt of a delivery, which is then not waiting to be sent: the reason why
\* the delivery states of src/storage/store.ts make a blind resend impossible.
THEOREM DeliveryInvariantHolds == Spec => []DeliveryInvariant
BY InitInvariant, StepInvariant, PTL DEF Spec

\* The delivery table is well-typed; in particular no row is attempted more
\* than config.delivery.maxAttempts times.
THEOREM DeliveryTypeCorrect == Spec => []TypeOK
<1>1. DeliveryInvariant => TypeOK BY DEF DeliveryInvariant
<1> QED BY <1>1, DeliveryInvariantHolds, PTL

\* Nobody sees a message twice, with any number of overlapping timer ticks and
\* adapters that die, lose answers and report late.
THEOREM AtMostOnceHolds == Spec => []AtMostOnce
<1>1. ASSUME DeliveryInvariant PROVE AtMostOnce
  <2> SUFFICES ASSUME NEW c \in arrived, NEW e \in arrived, c.id = e.id
               PROVE  c = e
    BY DEF AtMostOnce
  <2>1. c \in Attempt /\ e \in Attempt BY <1>1 DEF DeliveryInvariant, TypeOK
  <2>2. c.attempt = e.attempt BY <1>1 DEF DeliveryInvariant, OnlyLatest
  <2> QED BY <2>1, <2>2 DEF Attempt
<1> QED BY <1>1, DeliveryInvariantHolds, PTL

LEMMA StepKeepsOutcome ==
  ASSUME DeliveryInvariant, [Next]_vars, NEW d \in Deliveries,
         status[d] \in {"sent", "failed"}
  PROVE  status'[d] = status[d]
<1>1. CASE EnqueueDelivery
  BY <1>1 DEF EnqueueDelivery, DeliveryInvariant, TypeOK, AttemptLeft
<1>2. ASSUME NEW s \in Senders, Poll(s) PROVE status'[d] = status[d]
  BY <1>2 DEF Poll, SweepOnly, Claim, Ready, Recovered, Overdue, DeliveryInvariant, TypeOK
<1>3. ASSUME NEW s \in Senders, NEW v \in Verdicts, SettleDirect(s, v)
      PROVE  status'[d] = status[d]
  <2>1. job[s].id # d BY <1>3 DEF SettleDirect, DeliveryInvariant, HeldIsOpen
  <2> QED BY <1>3, <2>1 DEF SettleDirect, Mark, DeliveryInvariant, TypeOK
<1>4. ASSUME NEW m \in reports, SettleDelivery(m) PROVE status'[d] = status[d]
  BY <1>4 DEF SettleDelivery, Mark, rowVars, DeliveryInvariant, TypeOK
<1>5. CASE UNCHANGED status BY <1>5
<1> QED
  BY <1>1, <1>2, <1>3, <1>4, <1>5 DEF Next, Answer, PostResult, Crash,
     PlatformAccepts, LeaseExpires, BackoffElapses, rowVars, vars

\* A known outcome is never overwritten by a sender that comes back late, guard
\* or no guard on the row (markDelivery* has none, settleDelivery has one).
THEOREM KnownOutcomeIsFinalHolds == Spec => KnownOutcomeIsFinal
<1>1. DeliveryInvariant /\ [Next]_vars =>
        [\A d \in Deliveries :
           status[d] \in {"sent", "failed"} => status'[d] = status[d]]_vars
  BY StepKeepsOutcome
<1> QED BY <1>1, DeliveryInvariantHolds, PTL DEF Spec, KnownOutcomeIsFinal

-----------------------------------------------------------------------------
(* The truth of what is recorded.                                          *)

\* "sent" is only ever recorded, or on its way to being recorded, of a call that the
\* platform accepted.
SentIsTrue ==
  /\ \A d \in Deliveries : status[d] = "sent" => \E c \in arrived : c.id = d
  /\ \A m \in reports : m.outcome = "sent" => m.of \in arrived

\* "failed" is only recorded, or on its way to being recorded, of a call that the
\* platform refused.
RefusedIsTrue ==
  /\ \A d \in Deliveries : status[d] = "failed" => \A c \in calls \cup arrived : c.id # d
  /\ \A m \in reports : m.outcome = "failed" => m.of \notin calls \cup arrived

\* No adapter takes an answer whose body it could not read for a refusal: what
\* FeishuClient.send makes sure of in the Host, and the Go client does not.
AnswersAreRead ==
  [][\A s \in Adapters, v \in Verdicts : PostResult(s, v) => Truthful(job[s], v)]_vars

\* Marking a row changes no other.
LEMMA MarkedStatus ==
  ASSUME TypeOK, NEW d \in Deliveries, NEW outcome \in Outcome, Mark(d, outcome),
         NEW e \in Deliveries
  PROVE  status'[e] = IF e = d THEN IF outcome = "retry" THEN "pending" ELSE outcome
                      ELSE status[e]
BY DEF Mark, TypeOK

\* Nothing but an outcome that is marked makes a row "sent" or "failed".
LEMMA UnmarkedStatus ==
  ASSUME DeliveryInvariant, [Next]_vars, NEW d \in Deliveries, status'[d] \in {"sent", "failed"},
         status'[d] # status[d]
  PROVE  \/ \E s \in Senders, v \in Verdicts :
              SettleDirect(s, v) /\ d = job[s].id /\ status'[d] = Final(v, job[s].attempt)
         \/ \E m \in reports : SettleDelivery(m) /\ d = m.of.id /\ status'[d] = m.outcome
<1>1. CASE EnqueueDelivery BY <1>1 DEF EnqueueDelivery, DeliveryInvariant, TypeOK
<1>2. ASSUME NEW s \in Senders, Poll(s) PROVE FALSE
  BY <1>2 DEF Poll, SweepOnly, Claim, Recovered, DeliveryInvariant, TypeOK
<1>3. ASSUME NEW s \in Senders, NEW v \in Verdicts, SettleDirect(s, v)
      PROVE  d = job[s].id /\ status'[d] = Final(v, job[s].attempt)
  <2>1. /\ job[s].id \in Deliveries /\ Final(v, job[s].attempt) \in Outcome
        /\ Mark(job[s].id, Final(v, job[s].attempt))
    BY <1>3, VerdictEffect DEF SettleDirect, DeliveryInvariant, TypeOK, Attempt
  <2> QED BY <2>1, MarkedStatus DEF DeliveryInvariant
<1>4. ASSUME NEW m \in reports, SettleDelivery(m)
      PROVE  d = m.of.id /\ status'[d] = m.outcome
  <2>1. m.of.id \in Deliveries /\ m.outcome \in Outcome /\ Mark(m.of.id, m.outcome)
    BY <1>4 DEF SettleDelivery, rowVars, DeliveryInvariant, TypeOK, Report, Attempt
  <2> QED BY <2>1, MarkedStatus DEF DeliveryInvariant
<1>5. CASE UNCHANGED status BY <1>5
<1> QED
  BY <1>1, <1>2, <1>3, <1>4, <1>5 DEF Next, Answer, PostResult, Crash, PlatformAccepts,
     LeaseExpires, BackoffElapses, rowVars, vars

\* A verdict of acceptance is only given of a call that was accepted.
LEMMA SuccessIsTrue ==
  ASSUME NEW s, NEW a, NEW v \in Verdicts, Verdict(s, a, v), Final(v, a.attempt) = "sent"
  PROVE  a \in arrived
<1>1. v = "success" BY DEF Final, Verdicts
<1> QED BY <1>1 DEF Verdict, Truthful

LEMMA StepSent == DeliveryInvariant /\ SentIsTrue /\ [Next]_vars => SentIsTrue'
<1> SUFFICES ASSUME DeliveryInvariant, SentIsTrue, [Next]_vars PROVE SentIsTrue'
  OBVIOUS
<1>1. arrived \subseteq arrived'
  BY DEF Next, EnqueueDelivery, Poll, SweepOnly, Claim, Answer, SettleDirect, PostResult, Crash,
         PlatformAccepts, SettleDelivery, LeaseExpires, BackoffElapses, wireVars, vars
<1>2. ASSUME NEW d \in Deliveries, status'[d] = "sent" PROVE \E c \in arrived' : c.id = d
  <2>1. CASE status[d] = "sent" BY <1>1, <2>1 DEF SentIsTrue
  <2>2. CASE \E s \in Senders, v \in Verdicts :
               SettleDirect(s, v) /\ d = job[s].id /\ status'[d] = Final(v, job[s].attempt)
    BY <1>1, <1>2, <2>2, SuccessIsTrue DEF SettleDirect
  <2>3. CASE \E m \in reports : SettleDelivery(m) /\ d = m.of.id /\ status'[d] = m.outcome
    BY <1>1, <1>2, <2>3 DEF SentIsTrue
  <2> QED BY <1>2, <2>1, <2>2, <2>3, UnmarkedStatus
<1>3. ASSUME NEW m \in reports', m.outcome = "sent" PROVE m.of \in arrived'
  <2>1. CASE m \in reports BY <1>1, <1>3, <2>1 DEF SentIsTrue
  <2>2. CASE m \notin reports
    <3>1. PICK s \in Senders, v \in Verdicts : PostResult(s, v)
      BY <2>2 DEF Next, EnqueueDelivery, Poll, SweepOnly, Claim, Answer, SettleDirect, Crash,
                  PlatformAccepts, SettleDelivery, LeaseExpires, BackoffElapses, wireVars, vars
    <3>2. m = [of |-> job[s], outcome |-> Final(v, job[s].attempt)] /\ Verdict(s, job[s], v)
      BY <2>2, <3>1 DEF PostResult
    <3> QED BY <1>1, <1>3, <3>2, SuccessIsTrue
  <2> QED BY <2>1, <2>2
<1> QED BY <1>2, <1>3 DEF SentIsTrue

\* Whoever sends it, directly or through an adapter whose result comes late: a
\* delivery recorded as sent was accepted by the platform.
THEOREM SentIsTrueHolds == Spec => []SentIsTrue
<1>1. Init => SentIsTrue BY DEF Init, SentIsTrue
<1> QED BY <1>1, StepSent, DeliveryInvariantHolds, PTL DEF Spec

\* All that was ever put to the platform of a delivery is the attempt of its owner.
LEMMA OwnAttempt ==
  ASSUME DeliveryInvariant, NEW s \in Senders, job[s] # NoJob,
         NEW c \in calls \cup arrived, c.id = job[s].id
  PROVE  c = job[s]
BY DEF DeliveryInvariant, TypeOK, Attempt, OnlyLatest

\* After a true verdict that settles it as failed nothing of an attempt is left.
LEMMA FailureIsTrue ==
  ASSUME DeliveryInvariant, NEW a, NEW v \in Verdicts, Truthful(a, v),
         Final(v, a.attempt) = "failed"
  PROVE  a \notin CallsAfter(a, v) \cup arrived
<1>1. v \in {"retryable", "fatal"} BY DEF Final, Verdicts
<1>2. a \in calls BY <1>1 DEF Truthful
<1> QED BY <1>1, <1>2 DEF CallsAfter, DeliveryInvariant, OnlyLatest

\* Only a claim puts anything new to the platform.
LEMMA NewCall ==
  ASSUME [Next]_vars, NEW c \in calls' \cup arrived', c \notin calls \cup arrived
  PROVE  \E s \in Senders, e \in Deliveries :
           Claim(s, e) /\ c = [id |-> e, attempt |-> attempt[e] + 1]
BY DEF Next, EnqueueDelivery, Poll, SweepOnly, Claim, Answer, SettleDirect, PostResult, CallsAfter, Crash,
       PlatformAccepts, SettleDelivery, LeaseExpires, BackoffElapses, wireVars, vars

LEMMA StepRefused ==
  ASSUME DeliveryInvariant, RefusedIsTrue, [Next]_vars,
         [\A s \in Adapters, v \in Verdicts : PostResult(s, v) => Truthful(job[s], v)]_vars
  PROVE  RefusedIsTrue'
<1>1. ASSUME NEW d \in Deliveries, status'[d] = "failed",
             NEW c \in calls' \cup arrived', c.id = d
      PROVE  FALSE
  <2>1. CASE c \notin calls \cup arrived
    <3>1. PICK s \in Senders, e \in Deliveries : Claim(s, e) /\ c = [id |-> e, attempt |-> attempt[e] + 1]
      BY <2>1, NewCall
    <3> QED BY <1>1, <3>1 DEF Claim, DeliveryInvariant, TypeOK, Recovered
  <2>2. CASE c \in calls \cup arrived /\ status[d] = "failed"
    BY <1>1, <2>2 DEF RefusedIsTrue
  <2>3. ASSUME c \in calls \cup arrived,
               NEW s \in Senders, NEW v \in Verdicts, SettleDirect(s, v), d = job[s].id,
               Final(v, job[s].attempt) = "failed"
        PROVE  FALSE
    <3>1. /\ job[s] # NoJob /\ Verdict(s, job[s], v) /\ s \notin Adapters
          /\ arrived' = arrived /\ calls' = CallsAfter(job[s], v)
      BY <2>3, DeliveryAssumption DEF SettleDirect
    <3>2. c = job[s] BY <1>1, <2>3, <3>1, OwnAttempt
    <3>3. Truthful(job[s], v) BY <3>1 DEF Verdict
    <3> QED BY <2>3, <3>1, <3>2, <3>3, FailureIsTrue
  <2>4. ASSUME c \in calls \cup arrived,
               NEW m \in reports, SettleDelivery(m), d = m.of.id, m.outcome = "failed"
        PROVE  FALSE
    <3>1. m.of \notin calls \cup arrived BY <2>4 DEF RefusedIsTrue
    <3>2. m.of \in Attempt /\ c \in Attempt /\ m.of.attempt = attempt[d] /\ c.attempt = attempt[d]
      BY <1>1, <2>4 DEF DeliveryInvariant, TypeOK, Report, OnlyLatest
    <3> QED BY <1>1, <2>4, <3>1, <3>2 DEF Attempt
  <2> QED BY <1>1, <2>1, <2>2, <2>3, <2>4, UnmarkedStatus
<1>2. ASSUME NEW m \in reports', m.outcome = "failed", m.of \in calls' \cup arrived'
      PROVE  FALSE
  <2>1. CASE m \in reports
    <3>1. m.of \notin calls \cup arrived BY <1>2, <2>1 DEF RefusedIsTrue
    <3>2. PICK s \in Senders, e \in Deliveries :
            Claim(s, e) /\ m.of = [id |-> e, attempt |-> attempt[e] + 1]
      BY <1>2, <3>1, NewCall
    <3>3. status[m.of.id] = "pending" BY <3>2 DEF Claim, Ready
    <3> QED BY <2>1, <3>2, <3>3 DEF DeliveryInvariant, PendingIsUnsent
  <2>2. CASE m \notin reports
    <3>1. PICK s \in Senders, v \in Verdicts : PostResult(s, v)
      BY <2>2 DEF Next, EnqueueDelivery, Poll, SweepOnly, Claim, Answer, SettleDirect, Crash,
                  PlatformAccepts, SettleDelivery, LeaseExpires, BackoffElapses, wireVars, vars
    <3>2. /\ m = [of |-> job[s], outcome |-> Final(v, job[s].attempt)]
          /\ s \in Adapters /\ arrived' = arrived /\ calls' = CallsAfter(job[s], v)
          /\ job[s] # NoJob /\ job' = [job EXCEPT ![s] = NoJob]
      BY <2>2, <3>1 DEF PostResult
    <3>3. ~UNCHANGED vars BY <3>2 DEF vars, DeliveryInvariant, TypeOK
    <3>4. Truthful(job[s], v) BY <3>1, <3>2, <3>3
    <3> QED BY <1>2, <3>2, <3>4, FailureIsTrue
  <2> QED BY <2>1, <2>2
<1> QED BY <1>1, <1>2 DEF RefusedIsTrue

LEMMA RefusedIsTrueHolds == Spec /\ AnswersAreRead => []RefusedIsTrue
<1>1. Init => RefusedIsTrue BY DEF Init, RefusedIsTrue
<1>2. /\ DeliveryInvariant /\ RefusedIsTrue /\ [Next]_vars
      /\ [\A s \in Adapters, v \in Verdicts : PostResult(s, v) => Truthful(job[s], v)]_vars
      => RefusedIsTrue'
  BY StepRefused
<1> QED BY <1>1, <1>2, DeliveryInvariantHolds, PTL DEF Spec, AnswersAreRead

\* The one thing that can make the record untrue is an adapter that misreads the
\* platform's answer: without that "sent" was accepted, and "failed" neither was nor
\* can be any more, whatever is lost, delayed or sent by several at once.
THEOREM OutcomeIsTrueIfRead == Spec /\ AnswersAreRead => []OutcomeIsTrue
<1>1. SentIsTrue /\ RefusedIsTrue => OutcomeIsTrue
  BY DEF SentIsTrue, RefusedIsTrue, OutcomeIsTrue
<1> QED BY <1>1, SentIsTrueHolds, RefusedIsTrueHolds, PTL

LEMMA DirectSendersRead == ASSUME Adapters = {} PROVE Spec => AnswersAreRead
<1>1. [Next]_vars =>
        [\A s \in Adapters, v \in Verdicts : PostResult(s, v) => Truthful(job[s], v)]_vars
  OBVIOUS
<1> QED BY <1>1, PTL DEF Spec, AnswersAreRead

\* So where the Host sends by itself (src/delivery/delivery.ts) what it records is true.
THEOREM OutcomeIsTrueHolds == ASSUME Adapters = {} PROVE Spec => []OutcomeIsTrue
BY DirectSendersRead, OutcomeIsTrueIfRead, PTL

-----------------------------------------------------------------------------
(* The refinement.                                                         *)

\* An attempt is known by its delivery and its number.
LEMMA SameAttempt == \A c, e \in Attempt : c.id = e.id /\ c.attempt = e.attempt => c = e
BY DEF Attempt

LEMMA OneOrNone ==
  ASSUME NEW A, NEW d, \A c, e \in A : c.id = d /\ e.id = d => c = e
  PROVE  Cardinality({c \in A : c.id = d}) = IF \E c \in A : c.id = d THEN 1 ELSE 0
<1> DEFINE S == {c \in A : c.id = d}
<1>1. CASE \E c \in A : c.id = d
  <2>1. PICK c \in A : c.id = d BY <1>1
  <2>2. S = {c} BY <2>1
  <2> QED BY <1>1, <2>2, FS_Singleton
<1>2. CASE ~\E c \in A : c.id = d
  <2>1. S = {} BY <1>2
  <2> QED BY <1>2, <2>1, FS_EmptySet
<1> QED BY <1>1, <1>2

\* How many copies of a delivery people have: one or none.
LEMMA CopiesCount ==
  /\ DeliveryInvariant => \A d \in Deliveries :
       Copies[d] = IF \E c \in arrived : c.id = d THEN 1 ELSE 0
  /\ DeliveryInvariant' => \A d \in Deliveries :
       Copies'[d] = IF \E c \in arrived' : c.id = d THEN 1 ELSE 0
<1>1. DeliveryInvariant => \A c, e \in arrived : c.id = e.id => c = e
  BY DEF DeliveryInvariant, TypeOK, Attempt, OnlyLatest
<1>2. DeliveryInvariant' => \A c, e \in arrived' : c.id = e.id => c = e
  BY DEF DeliveryInvariant, TypeOK, Attempt, OnlyLatest
<1> QED BY <1>1, <1>2, OneOrNone DEF Copies

LEMMA FateOf ==
  ASSUME TypeOK
  PROVE  /\ Fate \in [Deliveries -> {"none", "owed", "unknown", "sent", "failed"}]
         /\ \A d \in Deliveries :
              /\ Fate[d] = "none" <=> status[d] = "absent"
              /\ Fate[d] = "owed" <=> status[d] \in {"pending", "sending"}
              /\ Fate[d] = "unknown" <=> status[d] = "uncertain"
              /\ Fate[d] = "sent" <=> status[d] = "sent"
              /\ Fate[d] = "failed" <=> status[d] = "failed"
BY DEF TypeOK, DeliveryStatus, Fate

\* A sweep, and the claim that may follow it, gives up on what is overdue.
LEMMA SweepImplements ==
  ASSUME DeliveryInvariant, DeliveryInvariant', NEW s \in Senders, Poll(s)
  PROVE  Promise!OutboxNext
<1>1. UNCHANGED arrived /\ \A d \in Deliveries :
        IF d \in Overdue THEN status[d] = "sending" /\ status'[d] = "uncertain"
        ELSE \/ status'[d] = status[d]
             \/ status[d] = "pending" /\ status'[d] = "sending"
  BY DEF Poll, SweepOnly, Claim, Ready, Recovered, Overdue, wireVars, DeliveryInvariant, TypeOK
<1>2. \A d \in Deliveries : Fate'[d] = IF d \in Overdue THEN "unknown" ELSE Fate[d]
  BY <1>1 DEF Fate
<1>3. Fate' = [d \in Deliveries |-> IF d \in Overdue THEN "unknown" ELSE Fate[d]]
  BY <1>2 DEF Fate
<1>4. \A d \in Overdue : Fate[d] = "owed" BY <1>1 DEF Fate, Overdue
<1>5. Copies' = Copies BY <1>1 DEF Copies
<1>6. Overdue \in SUBSET Deliveries BY DEF Overdue
<1>7. Promise!GiveUp(Overdue) BY <1>3, <1>4, <1>5 DEF Promise!GiveUp
<1> QED BY <1>6, <1>7 DEF Promise!OutboxNext

\* Marking a row somebody waits for, with an outcome that is true, establishes it.
LEMMA MarkImplements ==
  ASSUME DeliveryInvariant, DeliveryInvariant', NEW d \in Deliveries, NEW outcome \in Outcome,
         status[d] \in {"sending", "uncertain"}, Mark(d, outcome), UNCHANGED arrived,
         outcome = "sent" => \E c \in arrived : c.id = d,
         outcome \in {"retry", "failed"} => \A c \in arrived : c.id # d
  PROVE  Promise!OutboxNext \/ UNCHANGED Promise!outboxVars
<1>1. \A e \in Deliveries :
        status'[e] = IF e = d THEN IF outcome = "retry" THEN "pending" ELSE outcome
                     ELSE status[e]
  BY MarkedStatus DEF DeliveryInvariant
<1>2. Copies' = Copies BY DEF Copies
<1>3. Fate[d] \in {"owed", "unknown"} /\ Fate \in [Deliveries -> {"none", "owed", "unknown", "sent", "failed"}]
  BY FateOf DEF DeliveryInvariant
<1>4. CASE outcome = "sent"
  <2>1. Fate' = [Fate EXCEPT ![d] = "sent"] BY <1>1, <1>4 DEF Fate
  <2>2. Copies[d] = 1 BY <1>4, CopiesCount
  <2> QED BY <1>2, <1>3, <2>1, <2>2 DEF Promise!Establish, Promise!OutboxNext
<1>5. CASE outcome \in {"retry", "failed"}
  <2>1. Fate' = [Fate EXCEPT ![d] = IF outcome = "retry" THEN "owed" ELSE "failed"]
    BY <1>1, <1>5 DEF Fate
  <2>2. Copies[d] = 0 BY <1>5, CopiesCount
  <2> QED BY <1>2, <1>3, <1>5, <2>1, <2>2 DEF Promise!Establish, Promise!OutboxNext
<1>6. CASE outcome = "uncertain"
  <2>1. CASE status[d] = "sending"
    <3>1. Fate' = [e \in Deliveries |-> IF e \in {d} THEN "unknown" ELSE Fate[e]]
      BY <1>1, <1>6 DEF Fate
    <3>2. Fate[d] = "owed" BY <2>1 DEF Fate
    <3>3. Promise!GiveUp({d}) BY <1>2, <3>1, <3>2 DEF Promise!GiveUp
    <3> QED BY <3>3 DEF Promise!OutboxNext
  <2>2. CASE status[d] = "uncertain"
    <3>1. Fate' = Fate BY <1>1, <1>6, <2>2 DEF Fate
    <3> QED BY <1>2, <3>1 DEF Promise!outboxVars
  <2> QED BY <2>1, <2>2
<1> QED BY <1>4, <1>5, <1>6 DEF Outcome

\* A call reaches people while nothing definite is recorded of its delivery.
LEMMA AcceptsImplements ==
  ASSUME DeliveryInvariant, DeliveryInvariant', SentIsTrue, RefusedIsTrue,
         NEW c \in calls, PlatformAccepts(c)
  PROVE  Promise!OutboxNext
<1> DEFINE d == c.id
<1>1. d \in Deliveries /\ \A e \in arrived : e.id # d
  <2>1. c \in Attempt BY DEF DeliveryInvariant, TypeOK
  <2>2. \A e \in arrived : e.id = d => e = c
    BY <2>1, SameAttempt DEF DeliveryInvariant, TypeOK, OnlyLatest
  <2> QED BY <2>1, <2>2 DEF DeliveryInvariant, OnlyLatest, Attempt
<1>2. status[d] \in {"sending", "uncertain"}
  <2>1. status[d] \in DeliveryStatus \cup {"absent"} BY <1>1 DEF DeliveryInvariant, TypeOK
  <2>2. status[d] \notin {"absent", "pending"} BY <1>1 DEF DeliveryInvariant, PendingIsUnsent
  <2>3. status[d] \notin {"sent", "failed"} BY <1>1 DEF SentIsTrue, RefusedIsTrue
  <2> QED BY <2>1, <2>2, <2>3 DEF DeliveryStatus
<1>3. Fate[d] \in {"owed", "unknown"} /\ Fate' = Fate
  BY <1>1, <1>2 DEF Fate, PlatformAccepts, rowVars
<1>4. Copies[d] = 0 BY <1>1, CopiesCount
<1>5. ASSUME NEW e \in Deliveries PROVE Copies'[e] = IF e = d THEN 1 ELSE Copies[e]
  <2>1. Copies'[e] = IF \E x \in arrived' : x.id = e THEN 1 ELSE 0
    BY CopiesCount
  <2>2. (\E x \in arrived' : x.id = e) <=> (e = d \/ \E x \in arrived : x.id = e)
    BY DEF PlatformAccepts
  <2>3. Copies[e] = IF \E x \in arrived : x.id = e THEN 1 ELSE 0
    BY CopiesCount
  <2>4. CASE e = d BY <2>1, <2>2, <2>4
  <2>5. CASE e # d
    <3>1. (\E x \in arrived' : x.id = e) <=> \E x \in arrived : x.id = e BY <2>2, <2>5
    <3> QED BY <2>1, <2>3, <2>5, <3>1
  <2> QED BY <2>4, <2>5
<1>6. Copies' = [Copies EXCEPT ![d] = 1]
  BY <1>5 DEF Copies
<1> QED BY <1>1, <1>3, <1>4, <1>6 DEF Promise!Reach, Promise!OutboxNext

LEMMA StepImplements ==
  ASSUME DeliveryInvariant, DeliveryInvariant', SentIsTrue, RefusedIsTrue, RefusedIsTrue', [Next]_vars
  PROVE  Promise!OutboxNext \/ UNCHANGED Promise!outboxVars
<1>1. CASE EnqueueDelivery
  <2> DEFINE d == enqueued + 1
  <2>1. d \in Deliveries /\ status' = [status EXCEPT ![d] = "pending"] /\ UNCHANGED arrived
    BY <1>1 DEF EnqueueDelivery, wireVars, DeliveryInvariant, TypeOK
  <2>2. status[d] = "absent" BY <2>1 DEF DeliveryInvariant, AttemptLeft, TypeOK
  <2>3. Fate' = [Fate EXCEPT ![d] = "owed"] /\ Fate[d] = "none" /\ Copies' = Copies
    BY <2>1, <2>2 DEF Fate, Copies, DeliveryInvariant, TypeOK
  <2> QED BY <2>1, <2>3 DEF Promise!Owe, Promise!OutboxNext
<1>2. ASSUME NEW s \in Senders, Poll(s) PROVE Promise!OutboxNext
  BY <1>2, SweepImplements
<1>3. ASSUME NEW s \in Senders, NEW v \in Verdicts, SettleDirect(s, v)
      PROVE  Promise!OutboxNext \/ UNCHANGED Promise!outboxVars
  <2> DEFINE a == job[s]
             d == job[s].id
             outcome == Final(v, job[s].attempt)
  <2>1. /\ a # NoJob /\ Mark(d, outcome) /\ Verdict(s, a, v) /\ UNCHANGED arrived
        /\ a \in Attempt /\ d \in Deliveries
        /\ status[d] \in {"sending", "uncertain"}
    BY <1>3 DEF SettleDirect, DeliveryInvariant, TypeOK, HeldIsOpen, Attempt
  <2>2. /\ outcome \in Outcome
        /\ outcome = "retry" => a \notin arrived
    BY <2>1, VerdictEffect
  <2>3. outcome = "sent" => a \in arrived BY <2>1, SuccessIsTrue
  <2>4. outcome = "failed" => status'[d] = "failed"
    BY <2>1, <2>2, MarkedStatus DEF DeliveryInvariant
  <2>5. outcome = "failed" => \A c \in arrived : c.id # d
    BY <2>1, <2>4 DEF RefusedIsTrue
  <2>6. outcome = "retry" => \A c \in arrived : c.id # d
    BY <2>1, <2>2, OwnAttempt
  <2> HIDE DEF a, d, outcome
  <2>7. outcome = "sent" => \E c \in arrived : c.id = d BY <2>3 DEF a, d
  <2> QED BY <2>1, <2>2, <2>5, <2>6, <2>7, MarkImplements
<1>4. ASSUME NEW m \in reports, SettleDelivery(m)
      PROVE  Promise!OutboxNext \/ UNCHANGED Promise!outboxVars
  <2> DEFINE d == m.of.id
  <2>1. UNCHANGED arrived BY <1>4 DEF SettleDelivery
  <2>2. CASE UNCHANGED rowVars
    BY <2>1, <2>2 DEF rowVars, Fate, Copies, Promise!outboxVars
  <2>3. CASE status[d] = "sending" /\ Mark(d, m.outcome)
    <3>1. /\ m.of \in Attempt /\ d \in Deliveries /\ m.outcome \in Outcome
          /\ m.of.attempt = attempt[d]
          /\ m.outcome = "retry" => m.of \notin arrived
      BY DEF DeliveryInvariant, TypeOK, Report, Attempt, OnlyLatest, OneOwner
    <3>2. m.outcome = "failed" => m.of \notin arrived BY DEF RefusedIsTrue
    <3>3. \A c \in arrived : c.id = d => c = m.of
      BY <3>1, SameAttempt DEF DeliveryInvariant, TypeOK, OnlyLatest
    <3>4. m.outcome = "sent" => \E c \in arrived : c.id = d BY DEF SentIsTrue
    <3> HIDE DEF d
    <3> QED BY <2>1, <2>3, <3>1, <3>2, <3>3, <3>4, MarkImplements
  <2> QED BY <1>4, <2>2, <2>3 DEF SettleDelivery
<1>5. ASSUME NEW c \in calls, PlatformAccepts(c) PROVE Promise!OutboxNext
  BY <1>5, AcceptsImplements
<1>6. CASE UNCHANGED <<status, arrived>>
  BY <1>6 DEF Fate, Copies, Promise!outboxVars
<1> QED
  BY <1>1, <1>2, <1>3, <1>4, <1>5, <1>6 DEF Next, Answer, PostResult, Crash, LeaseExpires,
     BackoffElapses, rowVars, wireVars, vars

\* The delivery table keeps the promise of Outbox to the people who are owed a message
\* - at most one copy, and a true record of it unless it is unknown - as long as no
\* adapter misreads an answer.
THEOREM OutboxImplementedIfRead == Spec /\ AnswersAreRead => ImplementsOutbox
<1>1. Init => Promise!OutboxInit
  <2> SUFFICES ASSUME Init PROVE Promise!OutboxInit OBVIOUS
  <2>1. Fate = [d \in Deliveries |-> "none"] BY DEF Init, Fate
  <2>2. \A d \in Deliveries : Copies[d] = 0
    BY InitInvariant, CopiesCount DEF Init
  <2>3. Copies = [d \in Deliveries |-> 0] BY <2>2 DEF Copies
  <2> QED BY <2>1, <2>3 DEF Promise!OutboxInit
<1>2. /\ DeliveryInvariant /\ DeliveryInvariant' /\ SentIsTrue /\ RefusedIsTrue /\ RefusedIsTrue'
      /\ [Next]_vars
      => [Promise!OutboxNext]_(Promise!outboxVars)
  BY StepImplements
<1> QED
  BY <1>1, <1>2, DeliveryInvariantHolds, SentIsTrueHolds, RefusedIsTrueHolds, PTL
  DEF Spec, ImplementsOutbox, Promise!OutboxSpec

\* Where the Host sends by itself the promise is kept without that condition.
THEOREM OutboxImplemented == ASSUME Adapters = {} PROVE Spec => ImplementsOutbox
BY DirectSendersRead, OutboxImplementedIfRead, PTL
=============================================================================
