--------------------------- MODULE RunQueueProofs ---------------------------
(***************************************************************************)
(* Machine-checked theorems about RunQueue, for any number of runs,        *)
(* conversations, workers of either kind, attempts and manual retries.     *)
(***************************************************************************)
EXTENDS RunQueueRefinement, TLAPS

USE RunQueueAssumption DEF Runs, Generations

\* The columns of one run that are numbers, as numbers.
LEMMA CounterTypes ==
  ASSUME TypeOK, NEW r \in Runs
  PROVE  /\ MaxAttempts \in Nat \ {0} /\ MaxManualRetries \in Nat
         /\ generation[r] \in {0} \cup Generations
         /\ attemptCount[r] \in {0} \cup Generations
         /\ generation[r] \in Nat /\ attemptCount[r] \in Nat
         /\ retried[r] \in 0 .. MaxManualRetries
BY DEF TypeOK

LEMMA InitInvariant == Init => QueueInvariant
BY DEF Init, QueueInvariant, TypeOK, RowsFollowAcceptance, AttemptsLeft,
       ClaimsArePast, NoClaim

LEMMA CreateRunInvariant ==
  ASSUME QueueInvariant, NEW i \in Investigations, NEW n \in 1 .. MaxRuns,
         CreateRun(i, n)
  PROVE  QueueInvariant'
<1> USE DEF CreateRun, counterVars, outcomeVars, workerVars, QueueInvariant
<1>1. TypeOK'
  <2>1. /\ accepted' \in 0 .. MaxRuns
        /\ investigation' \in [Runs -> Investigations \cup {NoInvestigation}]
        /\ round' \in [Runs -> Nat]
    BY DEF TypeOK
  <2>2. /\ status' \in [Runs -> RunStatus \cup {"absent"}]
        /\ available' \in [Runs -> BOOLEAN]
    BY DEF TypeOK, RunStatus
  <2> QED BY <2>1, <2>2 DEF TypeOK
<1>2. RowsFollowAcceptance' BY DEF TypeOK, RowsFollowAcceptance
<1>3. AttemptsLeft' BY DEF TypeOK, RowsFollowAcceptance, AttemptsLeft
<1>4. ClaimsArePast' BY DEF TypeOK, ClaimsArePast
<1> QED BY <1>1, <1>2, <1>3, <1>4

LEMMA RecoverInvariant ==
  ASSUME QueueInvariant, NEW w \in Workers, RecoverExpiredLeases(w)
  PROVE  QueueInvariant'
<1> USE DEF RecoverExpiredLeases, rowVars, counterVars, outcomeVars, workerVars,
            QueueInvariant
<1>1. TypeOK' BY DEF TypeOK, RunStatus, AttemptStatus
<1>2. RowsFollowAcceptance' BY DEF TypeOK, RowsFollowAcceptance, Expired
<1>3. AttemptsLeft'
  <2> SUFFICES ASSUME NEW r \in Runs
               PROVE  /\ attemptCount[r] = generation[r]
                      /\ generation[r] <= MaxAttempts + retried[r]
                      /\ status'[r] = "queued"
                           => generation[r] < MaxAttempts + retried[r]
    BY DEF AttemptsLeft
  <2>1. status'[r] = "queued" => status[r] = "queued" \/ RetryLeft(r)
    OBVIOUS
  <2> QED BY <2>1, CounterTypes DEF AttemptsLeft, RetryLeft
<1>4. ClaimsArePast' BY DEF TypeOK, ClaimsArePast
<1> QED BY <1>1, <1>2, <1>3, <1>4

LEMMA ClaimInvariant ==
  ASSUME QueueInvariant, NEW w \in Workers, NEW r \in Runs, ClaimNextRun(w, r)
  PROVE  QueueInvariant'
<1> USE DEF ClaimNextRun, rowVars, outcomeVars, QueueInvariant, Claimable
<1>0. generation[r] + 1 \in Generations /\ attemptCount[r] = generation[r]
  <2>1. generation[r] < MaxAttempts + retried[r]
        /\ attemptCount[r] = generation[r]
    BY DEF AttemptsLeft
  <2> QED BY <2>1, CounterTypes
<1>1. TypeOK'
  BY <1>0 DEF TypeOK, RunStatus, AttemptStatus, ClaimedRun, Signal
<1>2. RowsFollowAcceptance' BY DEF TypeOK, RowsFollowAcceptance
<1>3. AttemptsLeft'
  <2> SUFFICES ASSUME NEW q \in Runs
               PROVE  /\ attemptCount'[q] = generation'[q]
                      /\ generation'[q] <= MaxAttempts + retried[q]
                      /\ status'[q] = "queued"
                           => generation'[q] < MaxAttempts + retried[q]
    BY DEF AttemptsLeft
  <2>1. CASE q # r BY <2>1 DEF TypeOK, AttemptsLeft
  <2>2. CASE q = r
    <3>1. /\ attemptCount'[q] = attemptCount[q] + 1
          /\ generation'[q] = generation[q] + 1
          /\ status'[q] = "running"
      BY <2>2 DEF TypeOK
    <3> QED BY <2>2, <3>1, CounterTypes DEF AttemptsLeft
  <2> QED BY <2>1, <2>2
<1>4. ClaimsArePast' BY <1>0 DEF TypeOK, ClaimsArePast, ClaimedRun
<1> QED BY <1>1, <1>2, <1>3, <1>4

LEMMA HeartbeatInvariant ==
  ASSUME QueueInvariant, NEW w \in Workers, Heartbeat(w)
  PROVE  QueueInvariant'
<1> USE DEF Heartbeat, rowVars, counterVars, outcomeVars, QueueInvariant
<1>1. TypeOK'
  <2>1. lease' \in [Runs -> {"null", "live", "expired"}]
    BY DEF TypeOK, Owns
  <2>2. signals' \in [Workers -> SUBSET Signal]
    BY DEF TypeOK, Signal
  <2> QED BY <2>1, <2>2 DEF TypeOK
<1>2. RowsFollowAcceptance' BY DEF RowsFollowAcceptance
<1>3. AttemptsLeft' BY DEF AttemptsLeft
<1>4. ClaimsArePast' BY DEF ClaimsArePast
<1> QED BY <1>1, <1>2, <1>3, <1>4

LEMMA TimeLimitInvariant ==
  ASSUME QueueInvariant, NEW w \in Workers, TimeLimit(w)
  PROVE  QueueInvariant'
<1> USE DEF TimeLimit, rowVars, leaseVars, counterVars, outcomeVars,
            QueueInvariant
<1>1. TypeOK' BY DEF TypeOK, Signal
<1>2. RowsFollowAcceptance' BY DEF RowsFollowAcceptance
<1>3. AttemptsLeft' BY DEF AttemptsLeft
<1>4. ClaimsArePast' BY DEF ClaimsArePast
<1> QED BY <1>1, <1>2, <1>3, <1>4

LEMMA ClockInvariant ==
  ASSUME QueueInvariant, NEW r \in Runs, LeaseExpires(r) \/ BackoffElapses(r)
  PROVE  QueueInvariant'
<1> USE DEF LeaseExpires, BackoffElapses, rowVars, counterVars, outcomeVars,
            workerVars, QueueInvariant
<1>1. TypeOK' BY DEF TypeOK
<1>2. RowsFollowAcceptance' BY DEF RowsFollowAcceptance
<1>3. AttemptsLeft' BY DEF AttemptsLeft
<1>4. ClaimsArePast' BY DEF ClaimsArePast
<1> QED BY <1>1, <1>2, <1>3, <1>4

\* A worker that forgets its claim keeps the claims of all in the past.
LEMMA ReleaseTypes ==
  ASSUME TypeOK, NEW w \in Workers, Release(w)
  PROVE  /\ pc' \in [Workers -> {"idle", "executing", "notifying"}]
         /\ claim' \in [Workers -> ClaimedRun \cup {NoClaim}]
         /\ signals' \in [Workers -> SUBSET Signal]
BY DEF TypeOK, Release, Signal

LEMMA ReleaseClaims ==
  ASSUME TypeOK, ClaimsArePast, NEW w \in Workers, Release(w),
         UNCHANGED generation
  PROVE  ClaimsArePast'
BY DEF TypeOK, ClaimsArePast, Release

LEMMA CrashInvariant ==
  ASSUME QueueInvariant, NEW w \in Workers, Crash(w)
  PROVE  QueueInvariant'
<1> USE DEF Crash, rowVars, leaseVars, counterVars, outcomeVars, QueueInvariant
<1>1. TypeOK' BY ReleaseTypes DEF TypeOK
<1>2. RowsFollowAcceptance' BY DEF RowsFollowAcceptance
<1>3. AttemptsLeft' BY DEF AttemptsLeft
<1>4. ClaimsArePast' BY ReleaseClaims
<1> QED BY <1>1, <1>2, <1>3, <1>4

LEMMA EnqueueNoticeInvariant ==
  ASSUME QueueInvariant, NEW w \in Workers, EnqueueNotice(w)
  PROVE  QueueInvariant'
<1> USE DEF EnqueueNotice, rowVars, leaseVars, counterVars, outcomeVars,
            QueueInvariant
<1>0. claim[w].run \in Runs BY DEF ClaimsArePast, ClaimedRun
<1>1. TypeOK'
  <2>1. deliveries' \subseteq DeliveryKey BY <1>0 DEF TypeOK, DeliveryKey
  <2> QED BY <2>1, ReleaseTypes DEF TypeOK
<1>2. RowsFollowAcceptance' BY DEF RowsFollowAcceptance
<1>3. AttemptsLeft' BY DEF AttemptsLeft
<1>4. ClaimsArePast' BY ReleaseClaims
<1> QED BY <1>1, <1>2, <1>3, <1>4

LEMMA UserInvariant ==
  ASSUME QueueInvariant, NEW r \in Runs, RequestCancel(r) \/ RetryRun(r)
  PROVE  QueueInvariant'
<1>1. CASE RequestCancel(r)
  <2> USE <1>1 DEF RequestCancel, rowVars, counterVars, outcomeVars, workerVars,
                   QueueInvariant
  <2>1. TypeOK' BY DEF TypeOK, RunStatus
  <2>2. RowsFollowAcceptance' BY DEF TypeOK, RowsFollowAcceptance
  <2>3. AttemptsLeft' BY DEF TypeOK, AttemptsLeft
  <2>4. ClaimsArePast' BY DEF ClaimsArePast
  <2> QED BY <2>1, <2>2, <2>3, <2>4
<1>2. CASE RetryRun(r)
  <2> USE <1>2 DEF RetryRun, rowVars, outcomeVars, workerVars, QueueInvariant
  <2>0. retried[r] \in 0 .. MaxManualRetries /\ retried[r] + 1 \in 0 .. MaxManualRetries
    BY CounterTypes
  <2>1. TypeOK' BY <2>0 DEF TypeOK, RunStatus
  <2>2. RowsFollowAcceptance' BY DEF TypeOK, RowsFollowAcceptance
  <2>3. AttemptsLeft'
    <3> SUFFICES ASSUME NEW q \in Runs
                 PROVE  /\ attemptCount[q] = generation[q]
                        /\ generation[q] <= MaxAttempts + retried'[q]
                        /\ status'[q] = "queued"
                             => generation[q] < MaxAttempts + retried'[q]
      BY DEF AttemptsLeft
    <3>1. CASE q # r BY <3>1 DEF TypeOK, AttemptsLeft
    <3>2. CASE q = r
      <4>1. retried'[q] = retried[q] + 1 BY <3>2 DEF TypeOK
      <4> QED BY <3>2, <4>1, CounterTypes DEF AttemptsLeft
    <3> QED BY <3>1, <3>2
  <2>4. ClaimsArePast' BY DEF ClaimsArePast
  <2> QED BY <2>1, <2>2, <2>3, <2>4
<1> QED BY <1>1, <1>2

-----------------------------------------------------------------------------
(* Settling.                                                               *)

\* What a settling transaction does to the tables, guard or no guard.
LEMMA SettleEffect ==
  ASSUME QueueInvariant, NEW w \in Workers, pc[w] = "executing",
         NEW runStatus \in {"succeeded", "failed", "cancelled", "queued"},
         NEW attemptStatus \in AttemptStatus,
         Settle(w, runStatus, attemptStatus)
  PROVE  /\ status' \in [Runs -> RunStatus \cup {"absent"}]
         /\ attempts' \in [Runs -> [Generations -> AttemptStatus \cup {"absent"}]]
         /\ lease' \in [Runs -> {"null", "live", "expired"}]
         /\ \A r \in Runs :
              IF Owns(w) /\ r = claim[w].run
              THEN status[r] = "running" /\ status'[r] = runStatus
              ELSE status'[r] = status[r]
<1>1. claim[w].run \in Runs /\ claim[w].generation \in Generations
  BY DEF QueueInvariant, ClaimsArePast, ClaimedRun
<1>2. CASE Owns(w)
  <2>0. /\ status \in [Runs -> RunStatus \cup {"absent"}]
        /\ attempts \in [Runs -> [Generations -> AttemptStatus \cup {"absent"}]]
    BY DEF QueueInvariant, TypeOK
  <2>1. /\ status' \in [Runs -> RunStatus \cup {"absent"}]
        /\ \A r \in Runs :
             IF r = claim[w].run
             THEN status[r] = "running" /\ status'[r] = runStatus
             ELSE status'[r] = status[r]
    <3>1. status' = [status EXCEPT ![claim[w].run] = runStatus]
          /\ status[claim[w].run] = "running"
      BY <1>2 DEF Settle, Owns
    <3>2. runStatus \in RunStatus BY DEF RunStatus
    <3> QED BY <1>1, <2>0, <3>1, <3>2
  <2>2. attempts' \in [Runs -> [Generations -> AttemptStatus \cup {"absent"}]]
    <3>1. attempts' = [attempts EXCEPT ![claim[w].run] =
                        [@ EXCEPT ![claim[w].generation] = attemptStatus]]
      BY <1>2 DEF Settle
    <3>2. [attempts[claim[w].run] EXCEPT ![claim[w].generation] = attemptStatus]
            \in [Generations -> AttemptStatus \cup {"absent"}]
      BY <1>1, <2>0
    <3> QED BY <1>1, <2>0, <3>1, <3>2
  <2>3. lease' \in [Runs -> {"null", "live", "expired"}]
    BY <1>1, <1>2 DEF Settle, QueueInvariant, TypeOK
  <2> QED BY <1>2, <2>1, <2>2, <2>3
<1>3. CASE ~Owns(w)
  BY <1>3 DEF Settle, QueueInvariant, TypeOK
<1> QED BY <1>2, <1>3

\* Settling keeps the invariant on the rows, provided a run is queued again
\* only with an attempt left.
LEMMA SettleRows ==
  ASSUME QueueInvariant, NEW w \in Workers, pc[w] = "executing",
         NEW runStatus \in {"succeeded", "failed", "cancelled", "queued"},
         NEW attemptStatus \in AttemptStatus,
         Settle(w, runStatus, attemptStatus),
         runStatus = "queued" => claim[w].attempts < MaxAttempts,
         UNCHANGED <<accepted, investigation, generation, attemptCount, retried>>
  PROVE  RowsFollowAcceptance' /\ AttemptsLeft'
<1>1. RowsFollowAcceptance'
  BY SettleEffect DEF QueueInvariant, RowsFollowAcceptance
<1>2. AttemptsLeft'
  <2> SUFFICES ASSUME NEW r \in Runs, status'[r] = "queued"
               PROVE  generation[r] < MaxAttempts + retried[r]
    BY DEF QueueInvariant, AttemptsLeft
  <2>1. CASE Owns(w) /\ r = claim[w].run
    <3>1. claim[w].attempts < MaxAttempts BY <2>1, SettleEffect
    <3>2. claim[w].attempts = generation[r]
      BY <2>1 DEF Owns, QueueInvariant, ClaimsArePast
    <3> QED BY <3>1, <3>2, CounterTypes DEF QueueInvariant
  <2>2. CASE ~(Owns(w) /\ r = claim[w].run)
    BY <2>2, SettleEffect DEF QueueInvariant, AttemptsLeft
  <2> QED BY <2>1, <2>2
<1> QED BY <1>1, <1>2

LEMMA FinalizeInvariant ==
  ASSUME QueueInvariant, NEW w \in Workers, FinalizeSuccess(w) \/ FinalizeReply(w)
  PROVE  QueueInvariant'
<1> USE DEF FinalizeSuccess, FinalizeReply, rowVars, counterVars, outcomeVars,
            QueueInvariant
<1>0. pc[w] = "executing" /\ Settle(w, "succeeded", "succeeded") /\ Release(w)
      /\ "succeeded" \in AttemptStatus
  BY DEF AttemptStatus
<1>1. TypeOK'
  <2>1. claim[w].run \in Runs BY <1>0 DEF ClaimsArePast, ClaimedRun
  <2>2. Owns(w) => investigation[claim[w].run] \in Investigations
    BY <2>1 DEF Owns, TypeOK, RowsFollowAcceptance
  <2>3. reports' \subseteq Runs BY <2>1 DEF TypeOK
  <2>4. deliveries' \subseteq DeliveryKey BY <2>1 DEF TypeOK, DeliveryKey
  <2>5. totalRounds' \in [Investigations -> Nat] BY <2>1, <2>2 DEF TypeOK
  <2> QED BY <1>0, <2>3, <2>4, <2>5, ReleaseTypes, SettleEffect DEF TypeOK
<1>2. RowsFollowAcceptance' /\ AttemptsLeft' BY <1>0, SettleRows
<1>3. ClaimsArePast' BY <1>0, ReleaseClaims
<1> QED BY <1>1, <1>2, <1>3

LEMMA FinishCancelledInvariant ==
  ASSUME QueueInvariant, NEW w \in Workers, FinishCancelled(w)
  PROVE  QueueInvariant'
<1> USE DEF FinishCancelled, rowVars, counterVars, outcomeVars, QueueInvariant
<1>0. pc[w] = "executing" /\ Settle(w, "cancelled", "cancelled") /\ Release(w)
      /\ "cancelled" \in AttemptStatus
  BY DEF AttemptStatus
<1>1. TypeOK' BY <1>0, ReleaseTypes, SettleEffect DEF TypeOK
<1>2. RowsFollowAcceptance' /\ AttemptsLeft' BY <1>0, SettleRows
<1>3. ClaimsArePast' BY <1>0, ReleaseClaims
<1> QED BY <1>1, <1>2, <1>3

LEMMA FailRunInvariant ==
  ASSUME QueueInvariant, NEW w \in Workers, NEW code \in RunErrorCode,
         FailRun(w, code)
  PROVE  QueueInvariant'
<1> DEFINE next == OnFailure(code, claim[w].attempts)
           closed == IF next = "queued" THEN "interrupted" ELSE "failed"
<1> USE DEF rowVars, counterVars, outcomeVars, QueueInvariant
<1>0. /\ pc[w] = "executing" /\ Settle(w, next, closed)
      /\ next \in {"failed", "queued"} /\ closed \in AttemptStatus
      /\ next = "queued" => claim[w].attempts < MaxAttempts
  BY DEF FailRun, OnFailure, AttemptStatus
<1> HIDE DEF next, closed
<1>1. /\ pc' \in [Workers -> {"idle", "executing", "notifying"}]
      /\ claim' \in [Workers -> ClaimedRun \cup {NoClaim}]
      /\ signals' \in [Workers -> SUBSET Signal]
      /\ ClaimsArePast'
  <2>1. CASE Release(w)
    BY <2>1, ReleaseTypes, ReleaseClaims DEF FailRun
  <2>2. CASE /\ pc' = [pc EXCEPT ![w] = "notifying"]
             /\ signals' = [signals EXCEPT ![w] = {}]
             /\ UNCHANGED claim
    <3>1. /\ pc' \in [Workers -> {"idle", "executing", "notifying"}]
          /\ signals' \in [Workers -> SUBSET Signal]
      BY <2>2 DEF TypeOK, Signal
    <3>2. ClaimsArePast'
      BY <1>0, <2>2 DEF FailRun, TypeOK, ClaimsArePast
    <3> QED BY <2>2, <3>1, <3>2 DEF TypeOK
  <2> QED BY <2>1, <2>2 DEF FailRun
<1>2. available' \in [Runs -> BOOLEAN] BY DEF FailRun, TypeOK
<1>3. TypeOK'
  <2>1. /\ status' \in [Runs -> RunStatus \cup {"absent"}]
        /\ attempts' \in [Runs -> [Generations -> AttemptStatus \cup {"absent"}]]
        /\ lease' \in [Runs -> {"null", "live", "expired"}]
    BY <1>0, SettleEffect
  <2>2. UNCHANGED <<accepted, investigation, round, generation, attemptCount,
                    retried, cancelRequested, reports, totalRounds, deliveries>>
    BY DEF FailRun
  <2> QED BY <1>1, <1>2, <2>1, <2>2 DEF TypeOK
<1>4. RowsFollowAcceptance' /\ AttemptsLeft'
  BY <1>0, SettleRows DEF FailRun
<1> QED BY <1>1, <1>3, <1>4

-----------------------------------------------------------------------------
LEMMA StepInvariant == QueueInvariant /\ [Next]_vars => QueueInvariant'
<1> SUFFICES ASSUME QueueInvariant, [Next]_vars PROVE QueueInvariant'
  OBVIOUS
<1>1. ASSUME NEW w \in Workers, Worker(w) PROVE QueueInvariant'
  BY <1>1, RecoverInvariant, ClaimInvariant, HeartbeatInvariant,
     TimeLimitInvariant, FinalizeInvariant, FinishCancelledInvariant,
     FailRunInvariant, EnqueueNoticeInvariant, CrashInvariant
     DEF Worker, Poll, Conclude
<1>2. CASE User BY <1>2, CreateRunInvariant, UserInvariant DEF User
<1>3. CASE Clock BY <1>3, ClockInvariant DEF Clock
<1>4. CASE UNCHANGED vars
  BY <1>4 DEF vars, rowVars, leaseVars, counterVars, outcomeVars, workerVars,
     QueueInvariant, TypeOK, RowsFollowAcceptance, AttemptsLeft, ClaimsArePast
<1> QED BY <1>1, <1>2, <1>3, <1>4 DEF Next

\* In every reachable state the tables have the shape the code relies on: rows
\* exist exactly for accepted messages, a queued run has an attempt left and a
\* worker can only hold the claim of a current or past generation.
THEOREM QueueInvariantHolds == Spec => []QueueInvariant
BY InitInvariant, StepInvariant, PTL DEF Spec

\* Type correctness of the run queue.
THEOREM TypeCorrect == Spec => []TypeOK
<1>1. QueueInvariant => TypeOK BY DEF QueueInvariant
<1> QED BY <1>1, QueueInvariantHolds, PTL

\* Automatic retries never spend more than MaxAttempts attempts of a run,
\* however failures, lost leases, crashes and stale executors interleave.
THEOREM RetryBudgetHolds == Spec => []RetryBudget
<1>1. QueueInvariant => RetryBudget
  <2> SUFFICES ASSUME QueueInvariant, NEW r \in Runs
               PROVE  /\ attemptCount[r] <= MaxAttempts + retried[r]
                      /\ status[r] = "queued" /\ attemptCount[r] >= MaxAttempts
                           => retried[r] > 0
    BY DEF RetryBudget
  <2> QED BY CounterTypes DEF QueueInvariant, AttemptsLeft
<1> QED BY <1>1, QueueInvariantHolds, PTL

-----------------------------------------------------------------------------
(* What rests on the invariant: stale executors are fenced off, the rounds of *)
(* a conversation are executed in order, and the queue implements RoundService. *)

\* A run succeeds through its last attempt ...
SucceededOnce ==
  \A r \in Runs : \A g \in Generations :
    attempts[r][g] = "succeeded" <=> (status[r] = "succeeded" /\ g = generation[r])

\* ... and then has its answer: AnswerIffSucceeded in two.
AnswersFollowRun ==
  \A r \in Runs :
    /\ r \in reports => status[r] = "succeeded"
    /\ (<<"report", r>> \in deliveries \/ <<"reply", r>> \in deliveries)
         <=> (status[r] = "succeeded" /\ r \in ImRuns)
    /\ <<"report", r>> \in deliveries => r \in reports
    /\ <<"reply", r>> \in deliveries => r \notin reports

LEMMA FencedParts ==
  /\ Fenced <=> /\ OneRunningPerInvestigation /\ AttemptsFollowRun
                /\ SucceededOnce /\ AnswersFollowRun
  /\ Fenced' <=> /\ OneRunningPerInvestigation' /\ AttemptsFollowRun'
                 /\ SucceededOnce' /\ AnswersFollowRun'
BY DEF Fenced, AnswerIffSucceeded, SucceededOnce, AnswersFollowRun

-----------------------------------------------------------------------------
(* Fencing.                                                                *)

LEMMA InitFenced == Init => Fenced
<1> SUFFICES ASSUME Init PROVE Fenced OBVIOUS
<1>1. OneRunningPerInvestigation /\ AttemptsFollowRun /\ SucceededOnce /\ AnswersFollowRun
  BY DEF Init, OneRunningPerInvestigation, AttemptsFollowRun, SucceededOnce, AnswersFollowRun
<1> QED BY <1>1, FencedParts

\* What a settling transaction does to the attempts: it closes the one it owns.
LEMMA SettleAttempts ==
  ASSUME QueueInvariant, NEW w \in Workers, pc[w] = "executing",
         NEW runStatus, NEW attemptStatus, Settle(w, runStatus, attemptStatus)
  PROVE  /\ claim[w].run \in Runs /\ claim[w].generation \in Generations
         /\ Owns(w) => claim[w].generation = generation[claim[w].run]
         /\ \A r \in Runs, g \in Generations :
              attempts'[r][g] = IF Owns(w) /\ r = claim[w].run /\ g = claim[w].generation
                                THEN attemptStatus ELSE attempts[r][g]
<1>1. claim[w].run \in Runs /\ claim[w].generation \in Generations
  BY DEF QueueInvariant, ClaimsArePast, ClaimedRun
<1>2. Owns(w) => claim[w].generation = generation[claim[w].run]
  BY DEF Owns
<1>3. attempts \in [Runs -> [Generations -> AttemptStatus \cup {"absent"}]]
  BY DEF QueueInvariant, TypeOK
<1> QED BY <1>1, <1>2, <1>3 DEF Settle

LEMMA SettleFenced ==
  ASSUME QueueInvariant, Fenced, NEW w \in Workers, pc[w] = "executing",
         NEW runStatus \in {"succeeded", "failed", "cancelled", "queued"},
         NEW attemptStatus \in {"succeeded", "failed", "cancelled", "interrupted"},
         runStatus = "succeeded" <=> attemptStatus = "succeeded",
         Settle(w, runStatus, attemptStatus),
         UNCHANGED <<investigation, generation, attemptCount>>
  PROVE  OneRunningPerInvestigation' /\ AttemptsFollowRun' /\ SucceededOnce'
<1>0. attemptStatus \in AttemptStatus BY DEF AttemptStatus
<1>1. \A r \in Runs :
        IF Owns(w) /\ r = claim[w].run
        THEN status[r] = "running" /\ status'[r] = runStatus
        ELSE status'[r] = status[r]
  BY <1>0, SettleEffect
<1>2. OneRunningPerInvestigation /\ AttemptsFollowRun /\ SucceededOnce
  BY FencedParts
<1>3. OneRunningPerInvestigation'
  BY <1>1, <1>2 DEF OneRunningPerInvestigation, SameInvestigation
<1>4. AttemptsFollowRun'
  BY <1>1, <1>2, SettleAttempts DEF AttemptsFollowRun
<1>5. SucceededOnce'
  BY <1>1, <1>2, SettleAttempts DEF AttemptsFollowRun, SucceededOnce
<1> QED BY <1>3, <1>4, <1>5

LEMMA FinalizeFenced ==
  ASSUME QueueInvariant, Fenced, NEW w \in Workers, FinalizeSuccess(w) \/ FinalizeReply(w)
  PROVE  Fenced'
<1>1. /\ pc[w] = "executing" /\ Settle(w, "succeeded", "succeeded")
      /\ UNCHANGED <<investigation, generation, attemptCount>>
  BY DEF FinalizeSuccess, FinalizeReply, rowVars, counterVars
<1>2. OneRunningPerInvestigation' /\ AttemptsFollowRun' /\ SucceededOnce'
  BY <1>1, SettleFenced
<1>3. /\ claim[w].run \in Runs
      /\ \A r \in Runs : IF Owns(w) /\ r = claim[w].run
                         THEN status[r] = "running" /\ status'[r] = "succeeded"
                         ELSE status'[r] = status[r]
  BY <1>1, SettleEffect, SettleAttempts DEF AttemptStatus
<1>4. AnswersFollowRun BY FencedParts
<1>5. AnswersFollowRun'
  <2>1. CASE ~Owns(w)
    BY <1>3, <1>4, <2>1 DEF AnswersFollowRun, FinalizeSuccess, FinalizeReply, outcomeVars
  <2>2. CASE Owns(w) /\ FinalizeSuccess(w)
    <3>1. /\ reports' = reports \cup {claim[w].run}
          /\ \A q \in Runs :
               /\ <<"report", q>> \in deliveries' <=>
                    <<"report", q>> \in deliveries \/ (q = claim[w].run /\ q \in ImRuns)
               /\ <<"reply", q>> \in deliveries' <=> <<"reply", q>> \in deliveries
      BY <2>2 DEF FinalizeSuccess
    <3> QED BY <1>3, <1>4, <2>2, <3>1 DEF AnswersFollowRun
  <2>3. CASE Owns(w) /\ FinalizeReply(w)
    <3>1. /\ reports' = reports
          /\ \A q \in Runs :
               /\ <<"reply", q>> \in deliveries' <=>
                    <<"reply", q>> \in deliveries \/ (q = claim[w].run /\ q \in ImRuns)
               /\ <<"report", q>> \in deliveries' <=> <<"report", q>> \in deliveries
      BY <2>3 DEF FinalizeReply
    <3> QED BY <1>3, <1>4, <2>3, <3>1 DEF AnswersFollowRun
  <2> QED BY <2>1, <2>2, <2>3
<1> QED BY <1>2, <1>5, FencedParts

\* Settling a run as anything but succeeded leaves its answers alone.
LEMMA UnsuccessfulFenced ==
  ASSUME QueueInvariant, Fenced, NEW w \in Workers,
         FinishCancelled(w) \/ \E code \in RunErrorCode : FailRun(w, code)
  PROVE  Fenced'
<1>1. PICK runStatus \in {"failed", "cancelled", "queued"},
           attemptStatus \in {"failed", "cancelled", "interrupted"} :
             Settle(w, runStatus, attemptStatus)
  BY DEF FinishCancelled, FailRun, OnFailure
<1>2. pc[w] = "executing" /\ UNCHANGED <<investigation, generation, attemptCount, reports, deliveries>>
  BY DEF FinishCancelled, FailRun, rowVars, counterVars, outcomeVars
<1>3. OneRunningPerInvestigation' /\ AttemptsFollowRun' /\ SucceededOnce'
  BY <1>1, <1>2, SettleFenced
<1>4. \A r \in Runs : IF Owns(w) /\ r = claim[w].run
                      THEN status[r] = "running" /\ status'[r] = runStatus
                      ELSE status'[r] = status[r]
  BY <1>1, <1>2, SettleEffect DEF AttemptStatus
<1>5. AnswersFollowRun'
  BY <1>1, <1>2, <1>4, FencedParts DEF AnswersFollowRun
<1> QED BY <1>3, <1>5, FencedParts

LEMMA RecoverFenced ==
  ASSUME QueueInvariant, Fenced, NEW w \in Workers, RecoverExpiredLeases(w)
  PROVE  Fenced'
<1> USE DEF RecoverExpiredLeases, rowVars, counterVars, outcomeVars
<1>1. \A r \in Runs :
        /\ r \in Expired => status[r] = "running" /\ status'[r] \in {"queued", "failed"}
        /\ r \notin Expired => status'[r] = status[r]
  BY DEF Expired
<1>2. \A r \in Runs, g \in Generations :
        attempts'[r][g] = IF r \in Expired /\ g = generation[r] /\ attempts[r][g] = "running"
                          THEN "interrupted" ELSE attempts[r][g]
  OBVIOUS
<1>3. OneRunningPerInvestigation /\ AttemptsFollowRun /\ SucceededOnce /\ AnswersFollowRun
  BY FencedParts
<1>4. UNCHANGED <<investigation, generation, attemptCount, reports, deliveries>>
  OBVIOUS
<1> HIDE DEF RecoverExpiredLeases
<1>5. OneRunningPerInvestigation'
  BY <1>1, <1>3, <1>4 DEF OneRunningPerInvestigation, SameInvestigation
<1>6. AttemptsFollowRun' BY <1>1, <1>2, <1>3, <1>4 DEF AttemptsFollowRun
<1>7. SucceededOnce' BY <1>1, <1>2, <1>3, <1>4 DEF SucceededOnce
<1>8. AnswersFollowRun' BY <1>1, <1>3, <1>4 DEF AnswersFollowRun
<1> QED BY <1>5, <1>6, <1>7, <1>8, FencedParts

LEMMA ClaimFenced ==
  ASSUME QueueInvariant, Fenced, NEW w \in Workers, NEW r \in Runs, ClaimNextRun(w, r)
  PROVE  Fenced'
<1>0. generation[r] + 1 \in Generations
  <2>1. generation[r] < MaxAttempts + retried[r]
    BY DEF QueueInvariant, AttemptsLeft, ClaimNextRun, Claimable
  <2> QED BY <2>1, CounterTypes DEF QueueInvariant
<1>1. /\ status[r] = "queued" /\ NoneRunning(r)
      /\ UNCHANGED <<investigation, reports, deliveries>>
  BY DEF ClaimNextRun, Claimable, rowVars, outcomeVars
<1>2. \A q \in Runs :
        /\ status'[q] = IF q = r THEN "running" ELSE status[q]
        /\ generation'[q] = IF q = r THEN generation[q] + 1 ELSE generation[q]
        /\ attemptCount'[q] = IF q = r THEN attemptCount[q] + 1 ELSE attemptCount[q]
        /\ \A g \in Generations :
             attempts'[q][g] = IF q = r /\ g = generation[r] + 1 THEN "running" ELSE attempts[q][g]
  BY <1>0 DEF ClaimNextRun, QueueInvariant, TypeOK
<1>3. OneRunningPerInvestigation /\ AttemptsFollowRun /\ SucceededOnce /\ AnswersFollowRun
  BY FencedParts
<1>4. OneRunningPerInvestigation'
  BY <1>1, <1>2, <1>3 DEF OneRunningPerInvestigation, SameInvestigation, NoneRunning
<1>5. AttemptsFollowRun'
  <2> SUFFICES ASSUME NEW q \in Runs
               PROVE  /\ attemptCount'[q] = generation'[q]
                      /\ \A g \in Generations :
                           /\ (attempts'[q][g] = "running")
                                <=> (status'[q] = "running" /\ g = generation'[q])
                           /\ (attempts'[q][g] = "absent") <=> (g > generation'[q])
    BY DEF AttemptsFollowRun
  <2>1. CASE q # r BY <1>2, <1>3, <2>1 DEF AttemptsFollowRun
  <2>2. CASE q = r
    <3>1. generation[r] \in Nat BY CounterTypes DEF QueueInvariant
    <3>2. /\ attemptCount[r] = generation[r]
          /\ \A g \in Generations : /\ attempts[r][g] # "running"
                                    /\ (attempts[r][g] = "absent") <=> (g > generation[r])
      BY <1>1, <1>3 DEF AttemptsFollowRun
    <3> QED BY <1>0, <1>2, <2>2, <3>1, <3>2
  <2> QED BY <2>1, <2>2
<1>6. SucceededOnce'
  BY <1>1, <1>2, <1>3 DEF SucceededOnce
<1>7. AnswersFollowRun' BY <1>1, <1>2, <1>3 DEF AnswersFollowRun
<1> QED BY <1>4, <1>5, <1>6, <1>7, FencedParts

\* A run that is accepted, cancelled while it waits, or retried.
LEMMA UserFenced ==
  ASSUME QueueInvariant, Fenced, User
  PROVE  Fenced'
<1>1. OneRunningPerInvestigation /\ AttemptsFollowRun /\ SucceededOnce /\ AnswersFollowRun
  BY FencedParts
<1>2. UNCHANGED <<generation, attemptCount, attempts, reports, deliveries>>
  BY DEF User, CreateRun, RequestCancel, RetryRun, counterVars, outcomeVars
<1>3. \A q \in Runs :
        \/ status'[q] = status[q]
        \/ status[q] \in {"absent", "queued", "failed", "cancelled"}
             /\ status'[q] \in {"queued", "cancelled"}
  <2>1. ASSUME NEW i \in Investigations, NEW n \in 1 .. MaxRuns, CreateRun(i, n), NEW q \in Runs
        PROVE  status'[q] = status[q] \/ (status[q] = "absent" /\ status'[q] = "queued")
    BY <2>1 DEF CreateRun, QueueInvariant, TypeOK, RowsFollowAcceptance
  <2>2. ASSUME NEW r \in Runs, RequestCancel(r) \/ RetryRun(r), NEW q \in Runs
        PROVE  \/ status'[q] = status[q]
               \/ status[q] \in {"queued", "failed", "cancelled"}
                    /\ status'[q] \in {"queued", "cancelled"}
    BY <2>2 DEF RequestCancel, RetryRun, QueueInvariant, TypeOK
  <2> QED BY <2>1, <2>2 DEF User
<1>4. \A q \in Runs : investigation'[q] = investigation[q] \/ status'[q] = "queued"
  BY DEF User, CreateRun, RequestCancel, RetryRun, QueueInvariant, TypeOK, rowVars
<1>5. OneRunningPerInvestigation'
  BY <1>1, <1>3, <1>4 DEF OneRunningPerInvestigation, SameInvestigation
<1>6. AttemptsFollowRun' BY <1>1, <1>2, <1>3 DEF AttemptsFollowRun
<1>7. SucceededOnce' BY <1>1, <1>2, <1>3 DEF SucceededOnce
<1>8. AnswersFollowRun' BY <1>1, <1>2, <1>3 DEF AnswersFollowRun
<1> QED BY <1>5, <1>6, <1>7, <1>8, FencedParts

\* Steps that touch neither the runs nor what was made of them; a notice of failure
\* is not an answer.
LEMMA QuietFenced ==
  ASSUME Fenced, UNCHANGED <<investigation, status, generation, attemptCount, attempts, reports>>,
         \A r \in Runs : /\ <<"report", r>> \in deliveries' <=> <<"report", r>> \in deliveries
                         /\ <<"reply", r>> \in deliveries' <=> <<"reply", r>> \in deliveries
  PROVE  Fenced'
<1>1. OneRunningPerInvestigation /\ AttemptsFollowRun /\ SucceededOnce /\ AnswersFollowRun
  BY FencedParts
<1>2. OneRunningPerInvestigation' /\ AttemptsFollowRun' /\ SucceededOnce'
  BY <1>1 DEF OneRunningPerInvestigation, SameInvestigation, AttemptsFollowRun, SucceededOnce
<1>3. AnswersFollowRun' BY <1>1 DEF AnswersFollowRun
<1> QED BY <1>2, <1>3, FencedParts

LEMMA StepFenced == QueueInvariant /\ Fenced /\ [Next]_vars => Fenced'
<1> SUFFICES ASSUME QueueInvariant, Fenced, [Next]_vars PROVE Fenced'
  OBVIOUS
<1>1. ASSUME NEW w \in Workers, Heartbeat(w) \/ TimeLimit(w) \/ Crash(w) PROVE Fenced'
  <2>1. UNCHANGED <<investigation, status, generation, attemptCount, attempts, reports, deliveries>>
    BY <1>1 DEF Heartbeat, TimeLimit, Crash, rowVars, counterVars, outcomeVars
  <2> QED BY <2>1, QuietFenced
<1>2. ASSUME NEW w \in Workers, EnqueueNotice(w) PROVE Fenced'
  BY <1>2, QuietFenced DEF EnqueueNotice, rowVars, counterVars
<1>3. ASSUME NEW w \in Workers, Worker(w) PROVE Fenced'
  BY <1>1, <1>2, <1>3, RecoverFenced, ClaimFenced, FinalizeFenced, UnsuccessfulFenced
  DEF Worker, Poll, Conclude
<1>4. CASE Clock \/ UNCHANGED vars
  <2>1. UNCHANGED <<investigation, status, generation, attemptCount, attempts, reports, deliveries>>
    BY <1>4 DEF Clock, LeaseExpires, BackoffElapses, vars, rowVars, counterVars, outcomeVars
  <2> QED BY <2>1, QuietFenced
<1> QED BY <1>3, <1>4, UserFenced DEF Next

\* Two runs of one conversation never run at once, the attempts table tells what
\* happened to each run, and an answer exists exactly for what succeeded: whichever
\* executors come back late (claimNextRun and the guard id, generation, running of
\* every settling transaction).
THEOREM FencedHolds == Spec => []Fenced
BY InitFenced, StepFenced, QueueInvariantHolds, PTL DEF Spec

-----------------------------------------------------------------------------
(* What is settled.                                                        *)

LEMMA SettleKeeps ==
  ASSUME QueueInvariant, Fenced, NEW w \in Workers, pc[w] = "executing",
         NEW runStatus \in {"succeeded", "failed", "cancelled", "queued"},
         NEW attemptStatus \in AttemptStatus,
         Settle(w, runStatus, attemptStatus), NEW r \in Runs
  PROVE  /\ status[r] = "succeeded" => status'[r] = "succeeded"
         /\ \A g \in Generations :
              attempts[r][g] \notin {"absent", "running"} => attempts'[r][g] = attempts[r][g]
<1>1. status[r] = "succeeded" => status'[r] = "succeeded"
  BY SettleEffect
<1>2. \A g \in Generations :
        attempts[r][g] \notin {"absent", "running"} => attempts'[r][g] = attempts[r][g]
  <2> SUFFICES ASSUME NEW g \in Generations, attempts'[r][g] # attempts[r][g]
               PROVE  attempts[r][g] = "running"
    OBVIOUS
  <2>1. Owns(w) /\ r = claim[w].run /\ g = generation[r]
    BY SettleAttempts
  <2> QED BY <2>1 DEF Owns, Fenced, AttemptsFollowRun
<1> QED BY <1>1, <1>2

LEMMA StepKeepsSettled ==
  ASSUME QueueInvariant, Fenced, [Next]_vars, NEW r \in Runs
  PROVE  /\ status[r] = "succeeded" => status'[r] = "succeeded"
         /\ \A g \in Generations :
              attempts[r][g] \notin {"absent", "running"} => attempts'[r][g] = attempts[r][g]
<1> DEFINE Kept == /\ status[r] = "succeeded" => status'[r] = "succeeded"
                   /\ \A g \in Generations :
                        attempts[r][g] \notin {"absent", "running"}
                          => attempts'[r][g] = attempts[r][g]
<1>1. ASSUME NEW w \in Workers, RecoverExpiredLeases(w) PROVE Kept
  BY <1>1 DEF RecoverExpiredLeases, Expired
<1>2. ASSUME NEW w \in Workers, NEW q \in Runs, ClaimNextRun(w, q) PROVE Kept
  <2>1. status[q] = "queued" /\ status' = [status EXCEPT ![q] = "running"]
        /\ attempts' = [attempts EXCEPT ![q] = [@ EXCEPT ![generation[q] + 1] = "running"]]
    BY <1>2 DEF ClaimNextRun, Claimable
  <2>2. generation[q] \in Nat /\ \A g \in Generations : g > generation[q] => attempts[q][g] = "absent"
    BY CounterTypes DEF QueueInvariant, Fenced, AttemptsFollowRun
  <2> QED BY <2>1, <2>2 DEF QueueInvariant, TypeOK
<1>3. ASSUME NEW w \in Workers, Conclude(w) PROVE Kept
  <2>1. PICK runStatus \in {"succeeded", "failed", "cancelled", "queued"},
             attemptStatus \in AttemptStatus : Settle(w, runStatus, attemptStatus)
    BY <1>3 DEF Conclude, FinalizeSuccess, FinalizeReply, FinishCancelled, FailRun, OnFailure,
                AttemptStatus
  <2>2. pc[w] = "executing"
    BY <1>3 DEF Conclude, FinalizeSuccess, FinalizeReply, FinishCancelled, FailRun
  <2> QED BY <2>1, <2>2, SettleKeeps
<1>4. CASE User
  BY <1>4 DEF User, CreateRun, RequestCancel, RetryRun, QueueInvariant, TypeOK, RowsFollowAcceptance
<1>5. CASE UNCHANGED <<status, attempts>> BY <1>5
<1> QED
  BY <1>1, <1>2, <1>3, <1>4, <1>5
  DEF Next, Worker, Poll, Heartbeat, TimeLimit, EnqueueNotice, Crash, Clock, LeaseExpires,
      BackoffElapses, vars

\* No step reopens a succeeded run or rewrites a closed attempt, whichever executor
\* comes back with whatever result.
THEOREM SettledIsFinalHolds == Spec => SettledIsFinal
<1>1. QueueInvariant /\ Fenced /\ [Next]_vars =>
        [\A r \in Runs :
           /\ status[r] = "succeeded" => status'[r] = "succeeded"
           /\ \A g \in Generations :
                attempts[r][g] \notin {"absent", "running"}
                  => attempts'[r][g] = attempts[r][g]]_vars
  BY StepKeepsSettled
<1> QED BY <1>1, QueueInvariantHolds, FencedHolds, PTL DEF Spec, SettledIsFinal

\* What the heartbeat of an executor saw of its run, as long as the run is its own,
\* is still so: the user takes no cancel back.
CancelWasSeen ==
  \A w \in Workers :
    pc[w] = "executing" /\ Owns(w) /\ "cancel_requested" \in signals[w]
      => cancelRequested[claim[w].run]

LEMMA InitCancel == Init => CancelWasSeen
BY DEF Init, CancelWasSeen

\* A worker that keeps its claim, its signals and the request, of a run that was
\* running before, still saw it rightly.
LEMMA CancelStays ==
  ASSUME CancelWasSeen, NEW w \in Workers, pc[w] = "executing",
         claim'[w] = claim[w], "cancel_requested" \in signals[w],
         claim[w].run \in Runs => /\ generation'[claim[w].run] = generation[claim[w].run]
                                  /\ status[claim[w].run] = "running"
                                  /\ cancelRequested[claim[w].run] => cancelRequested'[claim[w].run],
         Owns(w)'
  PROVE  cancelRequested'[claim'[w].run]
BY DEF CancelWasSeen, Owns

LEMMA StepCancel == QueueInvariant /\ CancelWasSeen /\ [Next]_vars => CancelWasSeen'
<1> SUFFICES ASSUME QueueInvariant, CancelWasSeen, [Next]_vars,
                    NEW w \in Workers, pc'[w] = "executing", Owns(w)',
                    "cancel_requested" \in signals'[w]
             PROVE  cancelRequested'[claim'[w].run]
  BY DEF CancelWasSeen
<1> DEFINE q == claim[w].run
<1>1. ASSUME NEW v \in Workers, RecoverExpiredLeases(v) PROVE cancelRequested'[claim'[w].run]
  BY <1>1, CancelStays DEF RecoverExpiredLeases, Expired, Owns, counterVars, workerVars
<1>2. ASSUME NEW v \in Workers, NEW r \in Runs, ClaimNextRun(v, r)
      PROVE  cancelRequested'[claim'[w].run]
  <2>1. w # v
    BY <1>2 DEF ClaimNextRun, QueueInvariant, TypeOK
  <2>2. /\ claim'[w] = claim[w] /\ pc[w] = "executing" /\ signals'[w] = signals[w]
        /\ cancelRequested' = cancelRequested
        /\ \A x \in Runs : /\ status'[x] = IF x = r THEN "running" ELSE status[x]
                           /\ generation'[x] = IF x = r THEN generation[x] + 1 ELSE generation[x]
    BY <1>2, <2>1 DEF ClaimNextRun, QueueInvariant, TypeOK
  <2>3. claim[w].generation <= generation[q] /\ q \in Runs /\ claim[w].generation \in Nat
    BY <2>2 DEF QueueInvariant, ClaimsArePast, ClaimedRun
  <2>4. q # r
    <3>1. generation'[q] = claim[w].generation BY <2>2, <2>3 DEF Owns
    <3>2. generation[q] \in Nat BY <2>3, CounterTypes DEF QueueInvariant
    <3> QED BY <2>2, <2>3, <3>1, <3>2
  <2>5. status[q] = "running" BY <2>2, <2>3, <2>4 DEF Owns
  <2> QED BY <2>2, <2>3, <2>4, <2>5, CancelStays
<1>3. ASSUME NEW v \in Workers, Heartbeat(v) PROVE cancelRequested'[claim'[w].run]
  <2>1. UNCHANGED <<pc, claim, status, generation, cancelRequested>>
    BY <1>3 DEF Heartbeat, counterVars
  <2>2. CASE "cancel_requested" \in signals[w]
    BY <2>1, <2>2, CancelStays DEF Owns
  <2>3. CASE "cancel_requested" \notin signals[w]
    BY <1>3, <2>1, <2>3 DEF Heartbeat, QueueInvariant, TypeOK
  <2> QED BY <2>2, <2>3
<1>4. ASSUME NEW v \in Workers, TimeLimit(v) PROVE cancelRequested'[claim'[w].run]
  <2>1. /\ UNCHANGED <<pc, claim, status, generation, cancelRequested>>
        /\ "cancel_requested" \in signals[w]
    BY <1>4 DEF TimeLimit, counterVars, QueueInvariant, TypeOK
  <2> QED BY <2>1, CancelStays DEF Owns
<1>5. ASSUME NEW v \in Workers, Conclude(v) PROVE cancelRequested'[claim'[w].run]
  <2>1. PICK runStatus \in {"succeeded", "failed", "cancelled", "queued"},
             attemptStatus \in AttemptStatus : Settle(v, runStatus, attemptStatus)
    BY <1>5 DEF Conclude, FinalizeSuccess, FinalizeReply, FinishCancelled, FailRun, OnFailure,
                AttemptStatus
  <2>2. pc[v] = "executing" /\ UNCHANGED <<generation, cancelRequested>>
    BY <1>5 DEF Conclude, FinalizeSuccess, FinalizeReply, FinishCancelled, FailRun, counterVars
  <2>3. \A r \in Runs : status'[r] = "running" => status[r] = "running"
    BY <2>1, <2>2, SettleEffect
  <2>4. w # v /\ pc'[w] = pc[w] /\ claim'[w] = claim[w] /\ signals'[w] = signals[w]
    BY <1>5 DEF Conclude, FinalizeSuccess, FinalizeReply, FinishCancelled, FailRun, Release,
                QueueInvariant, TypeOK
  <2> QED BY <2>2, <2>3, <2>4, CancelStays DEF Owns
<1>6. ASSUME NEW v \in Workers, EnqueueNotice(v) \/ Crash(v)
      PROVE  cancelRequested'[claim'[w].run]
  <2>1. /\ w # v /\ pc'[w] = pc[w] /\ claim'[w] = claim[w] /\ signals'[w] = signals[w]
        /\ UNCHANGED <<status, generation, cancelRequested>>
    BY <1>6 DEF EnqueueNotice, Crash, Release, QueueInvariant, TypeOK, counterVars
  <2> QED BY <2>1, CancelStays DEF Owns
<1>7. CASE User
  <2>1. UNCHANGED <<pc, claim, signals, generation>>
    BY <1>7 DEF User, CreateRun, RequestCancel, RetryRun, counterVars, workerVars
  <2>2. claim[w].run \in Runs /\ status'[q] = "running"
    BY <2>1 DEF Owns
  <2>3. status[q] = "running"
    BY <1>7, <2>2 DEF User, CreateRun, RequestCancel, RetryRun, QueueInvariant, TypeOK
  <2>4. \/ cancelRequested' = cancelRequested
        \/ \E r \in Runs : cancelRequested' = [cancelRequested EXCEPT ![r] = TRUE]
        \/ \E r \in Runs : r # q /\ cancelRequested' = [cancelRequested EXCEPT ![r] = FALSE]
    BY <1>7, <2>3 DEF User, CreateRun, RequestCancel, RetryRun
  <2>5. cancelRequested[q] => cancelRequested'[q]
    BY <2>2, <2>4 DEF QueueInvariant, TypeOK
  <2> QED BY <2>1, <2>3, <2>5, CancelStays DEF Owns
<1>8. CASE Clock \/ UNCHANGED vars
  <2>1. UNCHANGED <<pc, claim, signals, status, generation, cancelRequested>>
    BY <1>8 DEF Clock, LeaseExpires, BackoffElapses, vars, counterVars, workerVars
  <2> QED BY <2>1, CancelStays DEF Owns
<1> QED BY <1>1, <1>2, <1>3, <1>4, <1>5, <1>6, <1>7, <1>8 DEF Next, Worker, Poll

LEMMA StepCancelsOnRequest ==
  ASSUME InlineWorkers = Workers, QueueInvariant, CancelWasSeen, [Next]_vars,
         NEW r \in Runs, status[r] = "running", status'[r] = "cancelled"
  PROVE  cancelRequested[r]
<1>1. PICK w \in Workers : FinishCancelled(w)
  <2>1. ASSUME NEW w \in Workers, Worker(w), ~FinishCancelled(w) PROVE FALSE
    <3>1. CASE Conclude(w)
      <4>1. PICK runStatus \in {"succeeded", "failed", "queued"},
                 attemptStatus \in AttemptStatus : Settle(w, runStatus, attemptStatus)
        BY <2>1, <3>1 DEF Conclude, FinalizeSuccess, FinalizeReply, FailRun, OnFailure,
                          AttemptStatus
      <4>2. pc[w] = "executing"
        BY <2>1, <3>1 DEF Conclude, FinalizeSuccess, FinalizeReply, FailRun
      <4> QED BY <4>1, <4>2, SettleEffect
    <3>2. CASE RecoverExpiredLeases(w) BY <3>2 DEF RecoverExpiredLeases
    <3>3. CASE Poll(w) BY <3>3 DEF Poll, ClaimNextRun, QueueInvariant, TypeOK
    <3> QED BY <2>1, <3>1, <3>2, <3>3
            DEF Worker, Heartbeat, TimeLimit, EnqueueNotice, Crash
  <2>2. ASSUME User PROVE FALSE
    <3>1. status'[r] = "queued" \/ status'[r] = status[r] \/ status[r] = "queued"
      BY <2>2 DEF User, CreateRun, RequestCancel, RetryRun, QueueInvariant, TypeOK
    <3> QED BY <3>1
  <2>3. ~Clock /\ ~UNCHANGED vars
    BY DEF Clock, LeaseExpires, BackoffElapses, vars
  <2> QED BY <2>1, <2>2, <2>3 DEF Next
<1>2. pc[w] = "executing" /\ Settle(w, "cancelled", "cancelled") /\ "cancel_requested" \in signals[w]
  BY <1>1 DEF FinishCancelled, EndsCancelled, InlineCancels
<1>3. Owns(w) /\ r = claim[w].run
  BY <1>2, SettleEffect DEF AttemptStatus
<1> QED BY <1>2, <1>3 DEF CancelWasSeen

\* Where runs are executed inline, a running run is cancelled only because a user
\* asked for it: not by a heartbeat of an execution before, of which an earlier
\* request may have been taken back by a retry.
THEOREM CancelIsRequestedHolds ==
  ASSUME InlineWorkers = Workers
  PROVE  Spec => CancelIsRequested
<1>1. QueueInvariant /\ CancelWasSeen /\ [Next]_vars =>
        [\A r \in Runs :
           status[r] = "running" /\ status'[r] = "cancelled" => cancelRequested[r]]_vars
  BY StepCancelsOnRequest
<1>2. Init => CancelWasSeen BY InitCancel
<1>3. QueueInvariant /\ CancelWasSeen /\ [Next]_vars => CancelWasSeen' BY StepCancel
<1> QED BY <1>1, <1>2, <1>3, QueueInvariantHolds, PTL DEF Spec, CancelIsRequested

-----------------------------------------------------------------------------
(* The order of the rounds.                                                *)

\* Nothing later has run, or succeeded, while an earlier round that no user reopened
\* is unfinished: RoundsInOrder, strengthened by what has already succeeded.
Unovertaken ==
  \A r, q \in Runs :
    /\ SameInvestigation(r, q) /\ round[r] < round[q]
    /\ status[r] \in {"queued", "running"} /\ retried[r] = 0
    => status[q] \notin {"running", "succeeded"}

\* The inductive invariant of the order of rounds and of the context they leave.
OrderInvariant == Unovertaken /\ ContextIsLatestRound

LEMMA InitOrder == Init => OrderInvariant
<1> SUFFICES ASSUME Init PROVE OrderInvariant OBVIOUS
<1>1. Unovertaken BY DEF Init, Unovertaken
<1>2. ContextIsLatestRound BY DEF Init, ContextIsLatestRound, RunsOf
<1> QED BY <1>1, <1>2 DEF OrderInvariant

\* A step that lets nothing begin and nothing be reopened overtakes nothing.
LEMMA UnovertakenKept ==
  ASSUME Unovertaken, UNCHANGED <<investigation, round, retried>>,
         \A r \in Runs :
           /\ status'[r] \in {"queued", "running"} => status[r] \in {"queued", "running"}
           /\ status'[r] \in {"running", "succeeded"} => status[r] \in {"running", "succeeded"}
  PROVE  Unovertaken'
BY DEF Unovertaken, SameInvestigation

\* A step after which the same runs have succeeded leaves the context right.
LEMMA ContextKept ==
  ASSUME ContextIsLatestRound, UNCHANGED <<investigation, round, retried, totalRounds>>,
         \A r \in Runs : status'[r] = "succeeded" <=> status[r] = "succeeded"
  PROVE  ContextIsLatestRound'
BY DEF ContextIsLatestRound, RunsOf

LEMMA ConcludeOrder ==
  ASSUME QueueInvariant, OrderInvariant, NEW w \in Workers, Conclude(w)
  PROVE  OrderInvariant'
<1> DEFINE r == claim[w].run
<1>1. PICK runStatus \in {"succeeded", "failed", "cancelled", "queued"},
           attemptStatus \in AttemptStatus :
        /\ Settle(w, runStatus, attemptStatus)
        /\ IF Owns(w) /\ runStatus = "succeeded"
           THEN totalRounds' = [totalRounds EXCEPT ![investigation[r]] = round[r]]
           ELSE UNCHANGED totalRounds
  BY DEF Conclude, FinalizeSuccess, FinalizeReply, FinishCancelled, FailRun, OnFailure,
         AttemptStatus, outcomeVars
<1>2. pc[w] = "executing" /\ UNCHANGED <<investigation, round, retried>>
  BY DEF Conclude, FinalizeSuccess, FinalizeReply, FinishCancelled, FailRun, rowVars, counterVars
<1>3. r \in Runs /\ \A q \in Runs : IF Owns(w) /\ q = r
                                   THEN status[q] = "running" /\ status'[q] = runStatus
                                   ELSE status'[q] = status[q]
  BY <1>1, <1>2, SettleEffect, SettleAttempts
<1>4. Unovertaken'
  BY <1>2, <1>3, UnovertakenKept DEF OrderInvariant
<1>5. ContextIsLatestRound'
  <2>1. CASE ~(Owns(w) /\ runStatus = "succeeded")
    BY <1>1, <1>2, <1>3, <2>1, ContextKept DEF OrderInvariant
  <2>2. CASE Owns(w) /\ runStatus = "succeeded"
    <3> SUFFICES ASSUME NEW i \in Investigations, \A q \in RunsOf(i) : retried[q] = 0
                 PROVE  /\ \A q \in RunsOf(i) :
                             status'[q] = "succeeded" => round[q] <= totalRounds'[i]
                        /\ totalRounds'[i] # 0 =>
                             \E q \in RunsOf(i) : status'[q] = "succeeded" /\ round[q] = totalRounds'[i]
      BY <1>2 DEF ContextIsLatestRound, RunsOf
    <3>1. CASE i # investigation[r]
      <4>1. totalRounds'[i] = totalRounds[i]
        BY <1>1, <2>2, <3>1 DEF QueueInvariant, TypeOK
      <4>2. \A q \in RunsOf(i) : q \in Runs /\ status'[q] = status[q]
        BY <1>3, <3>1 DEF RunsOf
      <4> QED BY <4>1, <4>2 DEF OrderInvariant, ContextIsLatestRound
    <3>2. CASE i = investigation[r]
      <4>1. totalRounds'[i] = round[r] /\ r \in RunsOf(i) /\ retried[r] = 0
        BY <1>1, <1>3, <2>2, <3>2 DEF QueueInvariant, TypeOK, RunsOf
      <4>2. status[r] = "running" /\ status'[r] = "succeeded"
        BY <1>3, <2>2
      <4>3. ASSUME NEW q \in RunsOf(i), status'[q] = "succeeded" PROVE round[q] <= round[r]
        <5>1. q \in Runs /\ SameInvestigation(r, q) /\ round[q] \in Nat /\ round[r] \in Nat
          BY <1>3, <3>2 DEF RunsOf, SameInvestigation, QueueInvariant, TypeOK
        <5>2. CASE q = r BY <5>1, <5>2
        <5>3. CASE q # r
          BY <1>3, <4>1, <4>2, <4>3, <5>1, <5>3 DEF OrderInvariant, Unovertaken
        <5> QED BY <5>2, <5>3
      <4> QED BY <4>1, <4>2, <4>3
    <3> QED BY <3>1, <3>2
  <2> QED BY <2>1, <2>2
<1> QED BY <1>4, <1>5 DEF OrderInvariant

LEMMA ClaimOrder ==
  ASSUME QueueInvariant, OrderInvariant, NEW w \in Workers, NEW r \in Runs, ClaimNextRun(w, r)
  PROVE  OrderInvariant'
<1>1. /\ status[r] = "queued" /\ FirstRound(r)
      /\ UNCHANGED <<investigation, round, retried, totalRounds>>
  BY DEF ClaimNextRun, Claimable, rowVars, outcomeVars
<1>2. \A q \in Runs : status'[q] = IF q = r THEN "running" ELSE status[q]
  BY DEF ClaimNextRun, QueueInvariant, TypeOK
<1>3. Unovertaken'
  <2> SUFFICES ASSUME NEW p \in Runs, NEW q \in Runs,
                      SameInvestigation(p, q), round[p] < round[q],
                      status'[p] \in {"queued", "running"}, retried[p] = 0
               PROVE  status'[q] \notin {"running", "succeeded"}
    BY <1>1 DEF Unovertaken, SameInvestigation
  <2>1. status[p] \in {"queued", "running"} /\ status[q] \notin {"running", "succeeded"}
    BY <1>1, <1>2 DEF OrderInvariant, Unovertaken
  <2>2. q # r BY <1>1, <2>1 DEF FirstRound
  <2> QED BY <1>2, <2>1, <2>2
<1>4. ContextIsLatestRound'
  BY <1>1, <1>2, ContextKept DEF OrderInvariant
<1> QED BY <1>3, <1>4 DEF OrderInvariant

LEMMA CreateOrder ==
  ASSUME QueueInvariant, OrderInvariant, NEW i \in Investigations, NEW n \in 1 .. MaxRuns,
         CreateRun(i, n)
  PROVE  OrderInvariant'
<1> DEFINE r == accepted + 1
<1>1. r \in Runs /\ IsNextRound(i, n) /\ UNCHANGED <<retried, totalRounds>>
  BY DEF CreateRun, QueueInvariant, TypeOK, counterVars, outcomeVars
<1>2. status[r] = "absent" /\ investigation[r] = NoInvestigation
  BY <1>1 DEF QueueInvariant, RowsFollowAcceptance, TypeOK
<1>3. \A q \in Runs : /\ status'[q] = IF q = r THEN "queued" ELSE status[q]
                      /\ investigation'[q] = IF q = r THEN i ELSE investigation[q]
                      /\ round'[q] = IF q = r THEN n ELSE round[q]
  BY DEF CreateRun, QueueInvariant, TypeOK
<1>4. Unovertaken'
  <2> SUFFICES ASSUME NEW p \in Runs, NEW q \in Runs,
                      investigation'[p] = investigation'[q], round'[p] < round'[q],
                      status'[p] \in {"queued", "running"}, retried[p] = 0,
                      status'[q] \in {"running", "succeeded"}
               PROVE  FALSE
    BY <1>1 DEF Unovertaken, SameInvestigation
  <2>1. q # r BY <1>1, <1>3
  <2>2. CASE p = r
    <3>1. q \in RunsOf(i) BY <1>3, <2>1, <2>2 DEF RunsOf
    <3> QED BY <1>1, <1>3, <2>1, <2>2, <3>1 DEF IsNextRound, QueueInvariant, TypeOK
  <2>3. CASE p # r
    BY <1>3, <2>1, <2>3 DEF OrderInvariant, Unovertaken, SameInvestigation
  <2> QED BY <2>2, <2>3
<1>5. ContextIsLatestRound'
  <2> SUFFICES ASSUME NEW j \in Investigations, \A q \in RunsOf(j)' : retried[q] = 0
               PROVE  /\ \A q \in RunsOf(j)' :
                           status'[q] = "succeeded" => round'[q] <= totalRounds[j]
                      /\ totalRounds[j] # 0 =>
                           \E q \in RunsOf(j)' : status'[q] = "succeeded" /\ round'[q] = totalRounds[j]
    BY <1>1 DEF ContextIsLatestRound, RunsOf
  <2>1. \A q \in Runs : q \in RunsOf(j) <=> q \in RunsOf(j)' /\ q # r
    BY <1>2, <1>3, RunQueueAssumption DEF RunsOf
  <2>2. \A q \in RunsOf(j)' : q \in Runs
    BY DEF RunsOf
  <2>3. \A q \in RunsOf(j) : q \in RunsOf(j)' /\ retried[q] = 0 /\ q \in Runs
    BY <2>1 DEF RunsOf
  <2>4. /\ \A q \in RunsOf(j) : status[q] = "succeeded" => round[q] <= totalRounds[j]
        /\ totalRounds[j] # 0 =>
             \E q \in RunsOf(j) : status[q] = "succeeded" /\ round[q] = totalRounds[j]
    BY <2>3 DEF OrderInvariant, ContextIsLatestRound
  <2> QED BY <1>2, <1>3, <2>1, <2>2, <2>3, <2>4
<1> QED BY <1>4, <1>5 DEF OrderInvariant

LEMMA RetryOrder ==
  ASSUME QueueInvariant, OrderInvariant, NEW r \in Runs, RetryRun(r)
  PROVE  OrderInvariant'
<1>1. UNCHANGED <<investigation, round, totalRounds>>
  BY DEF RetryRun, rowVars, outcomeVars
<1>2. \A q \in Runs :
        IF q = r THEN status[q] \in {"failed", "cancelled"} /\ status'[q] = "queued" /\ retried'[q] # 0
        ELSE status'[q] = status[q] /\ retried'[q] = retried[q]
  BY DEF RetryRun, QueueInvariant, TypeOK
<1>3. Unovertaken'
  BY <1>1, <1>2 DEF OrderInvariant, Unovertaken, SameInvestigation
<1>4. ContextIsLatestRound'
  <2> SUFFICES ASSUME NEW j \in Investigations, \A q \in RunsOf(j) : retried'[q] = 0
               PROVE  /\ \A q \in RunsOf(j) :
                           status'[q] = "succeeded" => round[q] <= totalRounds[j]
                      /\ totalRounds[j] # 0 =>
                           \E q \in RunsOf(j) : status'[q] = "succeeded" /\ round[q] = totalRounds[j]
    BY <1>1 DEF ContextIsLatestRound, RunsOf
  <2>1. \A q \in RunsOf(j) : retried[q] = 0 /\ status'[q] = status[q]
    BY <1>2 DEF RunsOf
  <2> QED BY <2>1 DEF OrderInvariant, ContextIsLatestRound
<1> QED BY <1>3, <1>4 DEF OrderInvariant

LEMMA StepOrder == QueueInvariant /\ OrderInvariant /\ [Next]_vars => OrderInvariant'
<1> SUFFICES ASSUME QueueInvariant, OrderInvariant, [Next]_vars PROVE OrderInvariant'
  OBVIOUS
<1>1. ASSUME UNCHANGED <<investigation, round, retried, totalRounds>>,
             \A r \in Runs :
               \/ status'[r] = status[r]
               \/ status[r] \in {"queued", "running"}
                    /\ status'[r] \in {"queued", "failed", "cancelled"}
      PROVE  OrderInvariant'
  BY <1>1, UnovertakenKept, ContextKept DEF OrderInvariant
<1>2. ASSUME NEW w \in Workers, RecoverExpiredLeases(w) PROVE OrderInvariant'
  BY <1>1, <1>2 DEF RecoverExpiredLeases, Expired, rowVars, counterVars, outcomeVars
<1>3. ASSUME NEW w \in Workers, Heartbeat(w) \/ TimeLimit(w) \/ EnqueueNotice(w) \/ Crash(w)
      PROVE  OrderInvariant'
  BY <1>1, <1>3 DEF Heartbeat, TimeLimit, EnqueueNotice, Crash, rowVars, counterVars, outcomeVars
<1>4. ASSUME NEW w \in Workers, Worker(w) PROVE OrderInvariant'
  BY <1>2, <1>3, <1>4, ClaimOrder, ConcludeOrder DEF Worker, Poll
<1>5. ASSUME NEW r \in Runs, RequestCancel(r) PROVE OrderInvariant'
  BY <1>1, <1>5 DEF RequestCancel, QueueInvariant, TypeOK, rowVars, counterVars, outcomeVars
<1>6. CASE User
  BY <1>5, <1>6, CreateOrder, RetryOrder DEF User
<1>7. CASE Clock \/ UNCHANGED vars
  BY <1>1, <1>7 DEF Clock, LeaseExpires, BackoffElapses, vars, rowVars, counterVars, outcomeVars
<1> QED BY <1>4, <1>6, <1>7 DEF Next

\* The rounds of a conversation run in the order of their messages, past an earlier
\* one only when a user reopened it, and the conversation's context is the one the
\* latest successful round has left (claimNextRun's ORDER BY, updateInvestigation).
THEOREM RoundsBuildOnEachOtherHolds == Spec => []RoundsBuildOnEachOther
<1>1. QueueInvariant /\ OrderInvariant => RoundsBuildOnEachOther
  BY DEF QueueInvariant, TypeOK, OrderInvariant, Unovertaken, RoundsBuildOnEachOther, RoundsInOrder
<1> QED BY <1>1, InitOrder, StepOrder, QueueInvariantHolds, PTL DEF Spec

-----------------------------------------------------------------------------
(* The refinement.                                                         *)

\* Rows are numbered in the order their messages came, and so are their rounds.
RoundsFollowIds ==
  \A q, r \in Runs :
    q < r /\ r <= accepted /\ SameInvestigation(q, r) => round[q] < round[r]

LEMMA StepRoundsFollowIds ==
  QueueInvariant /\ RoundsFollowIds /\ [Next]_vars => RoundsFollowIds'
<1> SUFFICES ASSUME QueueInvariant, RoundsFollowIds, [Next]_vars PROVE RoundsFollowIds'
  OBVIOUS
<1>1. ASSUME NEW i \in Investigations, NEW n \in 1 .. MaxRuns, CreateRun(i, n)
      PROVE  RoundsFollowIds'
  <2>1. IsNextRound(i, n) /\ accepted' = accepted + 1 /\ accepted \in 0 .. MaxRuns
    BY <1>1 DEF CreateRun, QueueInvariant, TypeOK
  <2>2. \A q \in Runs :
          /\ investigation'[q] = IF q = accepted + 1 THEN i ELSE investigation[q]
          /\ round'[q] = IF q = accepted + 1 THEN n ELSE round[q]
    BY <1>1 DEF CreateRun, QueueInvariant, TypeOK
  <2> SUFFICES ASSUME NEW q \in Runs, NEW r \in Runs, q < r, r <= accepted + 1,
                      investigation'[q] = investigation'[r]
               PROVE  round'[q] < round'[r]
    BY <2>1 DEF RoundsFollowIds, SameInvestigation
  <2>3. CASE r = accepted + 1
    <3>1. q \in RunsOf(i) BY <2>1, <2>2, <2>3 DEF RunsOf
    <3> QED BY <2>1, <2>2, <2>3, <3>1 DEF IsNextRound
  <2>4. CASE r # accepted + 1
    BY <2>1, <2>2, <2>4 DEF RoundsFollowIds, SameInvestigation
  <2> QED BY <2>3, <2>4
<1>2. UNCHANGED rowVars \/ \E i \in Investigations, n \in 1 .. MaxRuns : CreateRun(i, n)
  BY DEF Next, Worker, Poll, User, Clock, RecoverExpiredLeases, ClaimNextRun, Heartbeat, TimeLimit,
         Conclude, FinalizeSuccess, FinalizeReply, FinishCancelled, FailRun, EnqueueNotice, Crash,
         RequestCancel, RetryRun, LeaseExpires, BackoffElapses, vars
<1>3. CASE UNCHANGED rowVars
  BY <1>3 DEF rowVars, RoundsFollowIds, SameInvestigation
<1> QED BY <1>1, <1>2, <1>3

LEMMA RoundsFollowIdsHolds == Spec => []RoundsFollowIds
<1>1. Init => RoundsFollowIds BY DEF Init, RoundsFollowIds
<1> QED BY <1>1, StepRoundsFollowIds, QueueInvariantHolds, PTL DEF Spec

LEMMA InitImplements == Init => Service!ServiceInit
BY DEF Init, Answered, Service!ServiceInit

\* What keeps the conversations, the statuses and the answers is invisible.
LEMMA QuietImplements ==
  ASSUME UNCHANGED <<investigation, status>>,
         \A r \in Runs : /\ <<"report", r>> \in deliveries' <=> <<"report", r>> \in deliveries
                         /\ <<"reply", r>> \in deliveries' <=> <<"reply", r>> \in deliveries
  PROVE  UNCHANGED Service!serviceVars
BY DEF Answered, Service!serviceVars

LEMMA CreateImplements ==
  ASSUME QueueInvariant, NEW i \in Investigations, NEW n \in 1 .. MaxRuns, CreateRun(i, n)
  PROVE  Service!ServiceNext
<1> DEFINE r == accepted + 1
<1>1. r \in Runs /\ UNCHANGED deliveries
  BY DEF CreateRun, QueueInvariant, TypeOK, outcomeVars
<1>2. \A q \in Runs : q >= r => status[q] = "absent"
  BY <1>1 DEF QueueInvariant, TypeOK, RowsFollowAcceptance
<1>3. Service!Submit(r, i)
  BY <1>1, <1>2 DEF CreateRun, Service!Submit, Answered
<1> QED BY <1>1, <1>3 DEF Service!ServiceNext

LEMMA ClaimImplements ==
  ASSUME QueueInvariant, RoundsFollowIds, NEW w \in Workers, NEW r \in Runs, ClaimNextRun(w, r)
  PROVE  Service!ServiceNext
<1>1. /\ status[r] = "queued" /\ NoneRunning(r) /\ FirstRound(r)
      /\ status' = [status EXCEPT ![r] = "running"] /\ UNCHANGED <<investigation, deliveries>>
  BY DEF ClaimNextRun, Claimable, rowVars, outcomeVars
<1>2. r <= accepted
  BY <1>1 DEF QueueInvariant, RowsFollowAcceptance
<1>3. ASSUME NEW q \in Runs \ {r}, investigation[q] = investigation[r]
      PROVE  status[q] # "running" /\ (q < r => status[q] # "queued")
  BY <1>1, <1>2, <1>3 DEF NoneRunning, FirstRound, RoundsFollowIds, SameInvestigation
<1>4. Service!Start(r)
  BY <1>1, <1>3 DEF Service!Start, Answered
<1> QED BY <1>4 DEF Service!ServiceNext

LEMMA RecoverImplements ==
  ASSUME QueueInvariant, NEW w \in Workers, RecoverExpiredLeases(w)
  PROVE  Service!ServiceNext
<1> DEFINE again == {r \in Expired : RetryLeft(r)}
           lost == Expired \ again
<1>1. Service!BreakOff(again, lost)
  BY DEF RecoverExpiredLeases, Expired, Service!BreakOff, Answered, rowVars, outcomeVars
<1>2. again \in SUBSET Runs /\ lost \in SUBSET Runs
  BY DEF Expired
<1> QED BY <1>1, <1>2 DEF Service!ServiceNext

LEMMA FinalizeImplements ==
  ASSUME QueueInvariant, NEW w \in Workers, FinalizeSuccess(w) \/ FinalizeReply(w)
  PROVE  Service!ServiceNext \/ UNCHANGED Service!serviceVars
<1> DEFINE r == claim[w].run
<1>1. /\ pc[w] = "executing" /\ Settle(w, "succeeded", "succeeded") /\ UNCHANGED investigation
  BY DEF FinalizeSuccess, FinalizeReply, rowVars
<1>2. CASE ~Owns(w)
  BY <1>1, <1>2, QuietImplements DEF FinalizeSuccess, FinalizeReply, Settle, outcomeVars
<1>3. CASE Owns(w)
  <2>1. r \in Runs /\ status[r] = "running" /\ status' = [status EXCEPT ![r] = "succeeded"]
    BY <1>1, <1>3 DEF Owns, Settle
  <2>2. Answered' = Answered \cup ({r} \cap ImRuns)
    BY <1>3, <2>1 DEF FinalizeSuccess, FinalizeReply, Answered
  <2>3. Service!Answer(r)
    BY <1>1, <2>1, <2>2 DEF Service!Answer
  <2> QED BY <2>1, <2>3 DEF Service!ServiceNext
<1> QED BY <1>2, <1>3

LEMMA UnsuccessfulImplements ==
  ASSUME QueueInvariant, NEW w \in Workers,
         FinishCancelled(w) \/ \E code \in RunErrorCode : FailRun(w, code)
  PROVE  Service!ServiceNext \/ UNCHANGED Service!serviceVars
<1> DEFINE r == claim[w].run
<1>1. PICK runStatus \in {"failed", "cancelled", "queued"}, attemptStatus \in AttemptStatus :
             Settle(w, runStatus, attemptStatus)
  BY DEF FinishCancelled, FailRun, OnFailure, AttemptStatus
<1>2. UNCHANGED <<investigation, deliveries>>
  BY DEF FinishCancelled, FailRun, rowVars, outcomeVars
<1>3. CASE ~Owns(w)
  BY <1>1, <1>2, <1>3, QuietImplements DEF Settle
<1>4. CASE Owns(w)
  <2>1. r \in Runs /\ status[r] = "running" /\ status' = [status EXCEPT ![r] = runStatus]
    BY <1>1, <1>4 DEF Owns, Settle
  <2>2. Answered' = Answered BY <1>2 DEF Answered
  <2>3. CASE runStatus = "cancelled"
    BY <1>2, <2>1, <2>2, <2>3 DEF Service!Cancel, Service!ServiceNext
  <2>4. CASE runStatus = "queued"
    <3>1. status' = [q \in Runs |-> IF q \in {r} THEN "queued"
                                    ELSE IF q \in {} THEN "failed" ELSE status[q]]
      BY <2>1, <2>4 DEF QueueInvariant, TypeOK
    <3>2. Service!BreakOff({r}, {}) BY <1>2, <2>1, <2>2, <3>1 DEF Service!BreakOff
    <3> QED BY <2>1, <3>2 DEF Service!ServiceNext
  <2>5. CASE runStatus = "failed"
    <3>1. status' = [q \in Runs |-> IF q \in {} THEN "queued"
                                    ELSE IF q \in {r} THEN "failed" ELSE status[q]]
      BY <2>1, <2>5 DEF QueueInvariant, TypeOK
    <3>2. Service!BreakOff({}, {r}) BY <1>2, <2>1, <2>2, <3>1 DEF Service!BreakOff
    <3> QED BY <2>1, <3>2 DEF Service!ServiceNext
  <2> QED BY <2>3, <2>4, <2>5
<1> QED BY <1>3, <1>4

LEMMA UserImplements ==
  ASSUME QueueInvariant, NEW r \in Runs, RequestCancel(r) \/ RetryRun(r)
  PROVE  Service!ServiceNext \/ UNCHANGED Service!serviceVars
<1>1. UNCHANGED <<investigation, deliveries>> /\ Answered' = Answered
  BY DEF RequestCancel, RetryRun, rowVars, outcomeVars, Answered
<1>2. CASE RequestCancel(r) /\ status[r] = "queued"
  BY <1>1, <1>2 DEF RequestCancel, Service!Cancel, Service!ServiceNext
<1>3. CASE RequestCancel(r) /\ status[r] # "queued"
  BY <1>1, <1>3, QuietImplements DEF RequestCancel
<1>4. CASE RetryRun(r)
  BY <1>1, <1>4 DEF RetryRun, Service!Reopen, Service!ServiceNext
<1> QED BY <1>2, <1>3, <1>4

LEMMA StepImplements ==
  QueueInvariant /\ RoundsFollowIds /\ [Next]_vars => [Service!ServiceNext]_(Service!serviceVars)
<1> SUFFICES ASSUME QueueInvariant, RoundsFollowIds, [Next]_vars
             PROVE  Service!ServiceNext \/ UNCHANGED Service!serviceVars
  OBVIOUS
<1>1. ASSUME NEW w \in Workers, Heartbeat(w) \/ TimeLimit(w) \/ EnqueueNotice(w) \/ Crash(w)
      PROVE  UNCHANGED Service!serviceVars
  BY <1>1, QuietImplements DEF Heartbeat, TimeLimit, EnqueueNotice, Crash, rowVars, outcomeVars
<1>2. ASSUME NEW w \in Workers, Worker(w)
      PROVE  Service!ServiceNext \/ UNCHANGED Service!serviceVars
  BY <1>1, <1>2, RecoverImplements, ClaimImplements, FinalizeImplements, UnsuccessfulImplements
  DEF Worker, Poll, Conclude
<1>3. CASE User BY <1>3, CreateImplements, UserImplements DEF User
<1>4. CASE Clock \/ UNCHANGED vars
  BY <1>4, QuietImplements DEF Clock, LeaseExpires, BackoffElapses, vars, rowVars, outcomeVars
<1> QED BY <1>2, <1>3, <1>4 DEF Next

\* Seen by the people in a conversation the queue is the service that works on their
\* rounds one at a time, in order, and answers each success in the step that commits
\* it: workers, leases, generations and late executors cannot be told from outside.
THEOREM RoundServiceImplemented == Spec => ImplementsRoundService
BY InitImplements, StepImplements, RoundsFollowIdsHolds, QueueInvariantHolds, PTL
DEF Spec, ImplementsRoundService, Service!ServiceSpec
=============================================================================
