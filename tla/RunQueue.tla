------------------------------ MODULE RunQueue ------------------------------
(***************************************************************************)
(* The run queue of the Host: the tables runs, attempts, reports,          *)
(* investigations and deliveries of src/storage/store.ts, the worker loops *)
(* of src/scheduling/worker-pool.ts that claim runs under a lease, and the *)
(* two executors that settle a claimed run: the inline one                 *)
(* (src/diagnosis/orchestrator.ts) and the one that supervises a Runner    *)
(* child process (src/host/runner-executor.ts).                            *)
(*                                                                         *)
(* One action is one SQLite transaction (BEGIN IMMEDIATE), so transactions *)
(* of different processes interleave freely and a process may die between  *)
(* two of them.  Wall-clock time is abstracted to the two comparisons the  *)
(* code makes with it: "the lease has expired" and "available_at <= now".  *)
(***************************************************************************)
EXTENDS Integers, RunOutcomes

CONSTANTS
  MaxRuns,           \* bound: how many inbound messages become runs
  Investigations,    \* one element per bug conversation
  NoInvestigation,   \* the column of a run that does not exist yet
  Workers,           \* executor slots, of one process or of several
  InlineWorkers,     \* the slots that run the engine in the worker's process
  ImRuns,            \* the runs whose message came from an IM platform
  MaxAttempts,       \* config.scheduler.maxAttempts
  MaxManualRetries   \* bound: manual retries of one run

Runs == 1 .. MaxRuns
Generations == 1 .. (MaxAttempts + MaxManualRetries)

ASSUME RunQueueAssumption ==
  /\ MaxRuns \in Nat
  /\ NoInvestigation \notin Investigations
  /\ InlineWorkers \subseteq Workers
  /\ ImRuns \subseteq Runs
  /\ MaxAttempts \in Nat \ {0}
  /\ MaxManualRetries \in Nat

VARIABLES
  accepted,         \* rows of runs: 1 .. accepted, numbered by created_at
  investigation,    \* runs.investigation_id
  round,            \* runs.round
  status,           \* runs.status
  generation,       \* runs.generation
  attemptCount,     \* runs.attempt_count
  cancelRequested,  \* runs.cancel_requested
  available,        \* runs.available_at <= now
  lease,            \* runs.lease_expires_at: NULL, in the future or past
  retried,          \* how often retryRun succeeded (counts the bound)
  attempts,         \* attempts.status of each (run_id, generation)
  reports,          \* the run_id column of reports
  totalRounds,      \* investigations.total_rounds
  deliveries,       \* idempotency keys present in deliveries
  pc,               \* where each worker's loop stands
  claim,            \* the ClaimedRun a worker holds
  signals           \* the executor's flags cancelRequested/leaseLost/timedOut

rowVars == <<accepted, investigation, round>>
leaseVars == <<available, lease>>
counterVars == <<generation, attemptCount, retried>>
outcomeVars == <<reports, totalRounds, deliveries>>
workerVars == <<pc, claim, signals>>
vars == <<rowVars, status, leaseVars, counterVars, cancelRequested, attempts,
          outcomeVars, workerVars>>

RunStatus == {"queued", "running", "succeeded", "failed", "cancelled"}
AttemptStatus == {"running", "succeeded", "failed", "interrupted", "cancelled"}
DeliveryKey == {"report", "reply", "notice"} \X Runs

NoClaim == [run |-> 0, generation |-> 0, attempts |-> 0]
ClaimedRun == [run : Runs, generation : Generations, attempts : Generations]

TypeOK ==
  /\ accepted \in 0 .. MaxRuns
  /\ investigation \in [Runs -> Investigations \cup {NoInvestigation}]
  /\ round \in [Runs -> Nat]
  /\ status \in [Runs -> RunStatus \cup {"absent"}]
  /\ generation \in [Runs -> {0} \cup Generations]
  /\ attemptCount \in [Runs -> {0} \cup Generations]
  /\ cancelRequested \in [Runs -> BOOLEAN]
  /\ available \in [Runs -> BOOLEAN]
  /\ lease \in [Runs -> {"null", "live", "expired"}]
  /\ retried \in [Runs -> 0 .. MaxManualRetries]
  /\ attempts \in [Runs -> [Generations -> AttemptStatus \cup {"absent"}]]
  /\ reports \subseteq Runs
  /\ totalRounds \in [Investigations -> Nat]
  /\ deliveries \subseteq DeliveryKey
  /\ pc \in [Workers -> {"idle", "executing", "notifying"}]
  /\ claim \in [Workers -> ClaimedRun \cup {NoClaim}]
  /\ signals \in [Workers -> SUBSET Signal]

Init ==
  /\ accepted = 0
  /\ investigation = [r \in Runs |-> NoInvestigation]
  /\ round = [r \in Runs |-> 0]
  /\ status = [r \in Runs |-> "absent"]
  /\ generation = [r \in Runs |-> 0]
  /\ attemptCount = [r \in Runs |-> 0]
  /\ cancelRequested = [r \in Runs |-> FALSE]
  /\ available = [r \in Runs |-> FALSE]
  /\ lease = [r \in Runs |-> "null"]
  /\ retried = [r \in Runs |-> 0]
  /\ attempts = [r \in Runs |-> [g \in Generations |-> "absent"]]
  /\ reports = {}
  /\ totalRounds = [i \in Investigations |-> 0]
  /\ deliveries = {}
  /\ pc = [w \in Workers |-> "idle"]
  /\ claim = [w \in Workers |-> NoClaim]
  /\ signals = [w \in Workers |-> {}]

-----------------------------------------------------------------------------
(* Accepting a message: createRun inside acceptInbound's transaction.      *)

RunsOf(i) == {r \in Runs : investigation[r] = i}

\* COALESCE(MAX(round), 0) + 1 over the runs of the investigation.
IsNextRound(i, n) ==
  /\ \A r \in RunsOf(i) : round[r] < n
  /\ n = 1 \/ \E r \in RunsOf(i) : round[r] = n - 1

CreateRun(i, n) ==
  LET r == accepted + 1 IN
  /\ accepted < MaxRuns
  /\ IsNextRound(i, n)
  /\ accepted' = r
  /\ investigation' = [investigation EXCEPT ![r] = i]
  /\ round' = [round EXCEPT ![r] = n]
  /\ status' = [status EXCEPT ![r] = "queued"]
  /\ available' = [available EXCEPT ![r] = TRUE]
  /\ UNCHANGED <<lease, counterVars, cancelRequested, attempts, outcomeVars,
                 workerVars>>

-----------------------------------------------------------------------------
(* The worker loop: recoverExpiredLeases, claimNextRun, execute.           *)

Expired == {r \in Runs : status[r] = "running" /\ lease[r] = "expired"}

RetryLeft(r) == attemptCount[r] < MaxAttempts

\* Every run whose lease has expired is put back or failed, its attempt closed.
\* With none expired the transaction writes nothing.  It precedes the claim in
\* the loop, but a lease may run out between the two transactions, so the claim
\* below does not assume that none has.
RecoverExpiredLeases(w) ==
  /\ pc[w] = "idle"
  /\ Expired # {}
  /\ attempts' = [r \in Runs |-> [g \in Generations |->
       IF r \in Expired /\ g = generation[r] /\ attempts[r][g] = "running"
       THEN "interrupted" ELSE attempts[r][g]]]
  /\ status' = [r \in Runs |->
       IF r \notin Expired THEN status[r]
       ELSE IF RetryLeft(r) THEN "queued" ELSE "failed"]
  /\ available' = [r \in Runs |-> r \in Expired \/ available[r]]
  /\ lease' = [r \in Runs |-> IF r \in Expired THEN "null" ELSE lease[r]]
  /\ UNCHANGED <<rowVars, counterVars, cancelRequested, outcomeVars, workerVars>>

SameInvestigation(r, q) == investigation[r] = investigation[q]

\* No other run of the investigation is running.
NoneRunning(r) ==
  \A q \in Runs \ {r} : SameInvestigation(q, r) => status[q] # "running"

\* Broken forms of FirstRound: one lets a round overtake an earlier one that
\* waits for its retry, the other waits for an earlier round to succeed.
FirstRound_Overtaking(r) ==
  \A q \in Runs : SameInvestigation(q, r) /\ round[q] < round[r]
                    => status[q] # "running"

FirstRound_AfterSuccess(r) ==
  \A q \in Runs : SameInvestigation(q, r) /\ round[q] < round[r]
                    => status[q] = "succeeded"

\* No earlier round of the investigation is unfinished.
FirstRound(r) ==
  \A q \in Runs : SameInvestigation(q, r) /\ round[q] < round[r]
                    => status[q] \notin {"queued", "running"}

Claimable(r) ==
  status[r] = "queued" /\ available[r] /\ NoneRunning(r) /\ FirstRound(r)

Queued(r) == {q \in Runs : SameInvestigation(q, r) /\ status[q] = "queued"}

\* ORDER BY the oldest queued row of the run's investigation, then round.
Precedes(r, q) ==
  IF SameInvestigation(r, q) THEN round[r] <= round[q]
  ELSE \E h \in Queued(r) : \A k \in Queued(q) : h < k

ClaimNextRun(w, r) ==
  LET g == generation[r] + 1 IN
  /\ pc[w] = "idle"
  /\ Claimable(r)
  /\ \A q \in Runs : Claimable(q) => Precedes(r, q)
  /\ status' = [status EXCEPT ![r] = "running"]
  /\ generation' = [generation EXCEPT ![r] = g]
  /\ attemptCount' = [attemptCount EXCEPT ![r] = @ + 1]
  /\ lease' = [lease EXCEPT ![r] = "live"]
  /\ attempts' = [attempts EXCEPT ![r] = [@ EXCEPT ![g] = "running"]]
  /\ pc' = [pc EXCEPT ![w] = "executing"]
  /\ claim' = [claim EXCEPT ![w] =
                 [run |-> r, generation |-> g, attempts |-> attemptCount[r] + 1]]
  /\ signals' = [signals EXCEPT ![w] = {}]
  /\ UNCHANGED <<rowVars, available, retried, cancelRequested, outcomeVars>>

-----------------------------------------------------------------------------
(* While the engine runs: heartbeat, timeout, loss of the process.         *)

\* Broken guards: one forgets the generation, the other the status.
Owns_AnyGeneration(w) ==
  claim[w].run \in Runs /\ status[claim[w].run] = "running"

Owns_AnyStatus(w) ==
  claim[w].run \in Runs /\ generation[claim[w].run] = claim[w].generation

\* The guard of every settling transaction: WHERE id = ? AND generation = ?
\* AND status = 'running'.
Owns(w) ==
  /\ claim[w].run \in Runs
  /\ generation[claim[w].run] = claim[w].generation
  /\ status[claim[w].run] = "running"

\* The lease is renewed even after it has expired, as long as nobody has
\* recovered it; isCancelRequested reads the flag of the run, whoever runs it.
Heartbeat(w) ==
  LET r == claim[w].run
      renewed == Owns(w) /\ attempts[r][claim[w].generation] = "running"
  IN
  /\ pc[w] = "executing"
  /\ lease' = IF Owns(w) THEN [lease EXCEPT ![r] = "live"] ELSE lease
  /\ signals' = [signals EXCEPT ![w] = @
       \cup (IF cancelRequested[r] THEN {"cancel_requested"} ELSE {})
       \cup (IF renewed THEN {} ELSE {"lease_lost"})]
  /\ UNCHANGED <<rowVars, status, available, counterVars, cancelRequested,
                 attempts, outcomeVars, pc, claim>>

TimeLimit(w) ==
  /\ pc[w] = "executing"
  /\ signals' = [signals EXCEPT ![w] = @ \cup {"timed_out"}]
  /\ UNCHANGED <<rowVars, status, leaseVars, counterVars, cancelRequested,
                 attempts, outcomeVars, pc, claim>>

\* lease_expires_at passes: the holder died, or its event loop is blocked.
LeaseExpires(r) ==
  /\ status[r] = "running" /\ lease[r] = "live"
  /\ lease' = [lease EXCEPT ![r] = "expired"]
  /\ UNCHANGED <<rowVars, status, available, counterVars, cancelRequested,
                 attempts, outcomeVars, workerVars>>

\* The retry delay passes: available_at <= now.
BackoffElapses(r) ==
  /\ status[r] = "queued" /\ ~available[r]
  /\ available' = [available EXCEPT ![r] = TRUE]
  /\ UNCHANGED <<rowVars, status, lease, counterVars, cancelRequested,
                 attempts, outcomeVars, workerVars>>

\* The worker forgets its claim and goes round the loop.
Release(w) ==
  /\ pc' = [pc EXCEPT ![w] = "idle"]
  /\ claim' = [claim EXCEPT ![w] = NoClaim]
  /\ signals' = [signals EXCEPT ![w] = {}]

\* The process dies and is restarted; the tables are all that is left.
Crash(w) ==
  /\ pc[w] \in {"executing", "notifying"}
  /\ Release(w)
  /\ UNCHANGED <<rowVars, status, leaseVars, counterVars, cancelRequested,
                 attempts, outcomeVars>>

-----------------------------------------------------------------------------
(* Settling a run: each transaction is fenced by Owns and writes nothing   *)
(* when the guard fails.                                                   *)

\* The run and its attempt leave "running" together.
Settle(w, runStatus, attemptStatus) ==
  LET r == claim[w].run  g == claim[w].generation IN
  IF Owns(w)
  THEN /\ status' = [status EXCEPT ![r] = runStatus]
       /\ attempts' = [attempts EXCEPT ![r] = [@ EXCEPT ![g] = attemptStatus]]
       /\ lease' = [lease EXCEPT ![r] = "null"]
  ELSE UNCHANGED <<status, attempts, lease>>

\* finalizeSuccess: report row, final status, answer and context together.
FinalizeSuccess(w) ==
  LET r == claim[w].run IN
  /\ pc[w] = "executing"
  /\ Settle(w, "succeeded", "succeeded")
  /\ IF Owns(w)
     THEN /\ reports' = reports \cup {r}
          /\ deliveries' = deliveries
               \cup (IF r \in ImRuns THEN {<<"report", r>>} ELSE {})
          /\ totalRounds' = [totalRounds EXCEPT ![investigation[r]] = round[r]]
     ELSE UNCHANGED outcomeVars
  /\ Release(w)
  /\ UNCHANGED <<rowVars, available, counterVars, cancelRequested>>

\* finalizeReply: chat or a question back to the user, without a report.
FinalizeReply(w) ==
  LET r == claim[w].run IN
  /\ pc[w] = "executing"
  /\ Settle(w, "succeeded", "succeeded")
  /\ IF Owns(w)
     THEN /\ deliveries' = deliveries
               \cup (IF r \in ImRuns THEN {<<"reply", r>>} ELSE {})
          /\ totalRounds' = [totalRounds EXCEPT ![investigation[r]] = round[r]]
     ELSE UNCHANGED <<deliveries, totalRounds>>
  /\ Release(w)
  /\ UNCHANGED <<rowVars, available, counterVars, cancelRequested, reports>>

\* A broken EndsCancelled that takes any abort for the user's.
EndsCancelled_AnyAbort(w) == signals[w] # {}

EndsCancelled(w) ==
  IF w \in InlineWorkers THEN InlineCancels(signals[w])
  ELSE ProcessCancels(signals[w])

FinishCancelled(w) ==
  /\ pc[w] = "executing"
  /\ EndsCancelled(w)
  /\ Settle(w, "cancelled", "cancelled")
  /\ Release(w)
  /\ UNCHANGED <<rowVars, available, counterVars, cancelRequested, outcomeVars>>

FailureCodes(w) ==
  IF w \in InlineWorkers THEN InlineFailures(signals[w])
  ELSE ProcessFailures(signals[w])

Retryable == {"interrupted", "timeout", "provider_unavailable", "rate_limited"}

\* A broken OnFailure that grants one attempt too many.
OnFailure_OffByOne(code, count) ==
  IF code \in Retryable /\ count <= MaxAttempts THEN "queued" ELSE "failed"

\* domain/run-state.ts: where a failure leads, given the attempts so far.
OnFailure(code, count) ==
  IF code \in Retryable /\ count < MaxAttempts THEN "queued" ELSE "failed"

\* failRun, first transaction.  The result of finishFailure is ignored: the
\* notice of an IM run that "failed" follows whether or not the row changed.
FailRun(w, code) ==
  LET r == claim[w].run
      next == OnFailure(code, claim[w].attempts)
  IN
  /\ pc[w] = "executing"
  /\ code \in FailureCodes(w)
  /\ Settle(w, next, IF next = "queued" THEN "interrupted" ELSE "failed")
  /\ available' = IF Owns(w) THEN [available EXCEPT ![r] = FALSE] ELSE available
  /\ IF next = "failed" /\ r \in ImRuns
     THEN /\ pc' = [pc EXCEPT ![w] = "notifying"]
          /\ signals' = [signals EXCEPT ![w] = {}]
          /\ UNCHANGED claim
     ELSE Release(w)
  /\ UNCHANGED <<rowVars, counterVars, cancelRequested, outcomeVars>>

\* failRun, second transaction: INSERT OR IGNORE of failure-notice:<run>.
EnqueueNotice(w) ==
  /\ pc[w] = "notifying"
  /\ deliveries' = deliveries \cup {<<"notice", claim[w].run>>}
  /\ Release(w)
  /\ UNCHANGED <<rowVars, status, leaseVars, counterVars, cancelRequested,
                 attempts, reports, totalRounds>>

-----------------------------------------------------------------------------
(* The user, through the Web API.                                          *)

RequestCancel(r) ==
  /\ status[r] \in {"queued", "running"}
  /\ IF status[r] = "queued"
     THEN /\ status' = [status EXCEPT ![r] = "cancelled"]
          /\ lease' = [lease EXCEPT ![r] = "null"]
          /\ UNCHANGED cancelRequested
     ELSE /\ cancelRequested' = [cancelRequested EXCEPT ![r] = TRUE]
          /\ UNCHANGED <<status, lease>>
  /\ UNCHANGED <<rowVars, available, counterVars, attempts, outcomeVars,
                 workerVars>>

RetryRun(r) ==
  /\ status[r] \in {"failed", "cancelled"}
  /\ retried[r] < MaxManualRetries
  /\ status' = [status EXCEPT ![r] = "queued"]
  /\ available' = [available EXCEPT ![r] = TRUE]
  /\ lease' = [lease EXCEPT ![r] = "null"]
  /\ cancelRequested' = [cancelRequested EXCEPT ![r] = FALSE]
  /\ retried' = [retried EXCEPT ![r] = @ + 1]
  /\ UNCHANGED <<rowVars, generation, attemptCount, attempts, outcomeVars,
                 workerVars>>

-----------------------------------------------------------------------------
Conclude(w) ==
  \/ FinalizeSuccess(w)
  \/ FinalizeReply(w)
  \/ FinishCancelled(w)
  \/ \E code \in RunErrorCode : FailRun(w, code)

Poll(w) == \E r \in Runs : ClaimNextRun(w, r)

Worker(w) ==
  \/ RecoverExpiredLeases(w)
  \/ Poll(w)
  \/ Heartbeat(w)
  \/ TimeLimit(w)
  \/ Conclude(w)
  \/ EnqueueNotice(w)
  \/ Crash(w)

User ==
  \/ \E i \in Investigations, n \in 1 .. MaxRuns : CreateRun(i, n)
  \/ \E r \in Runs : RequestCancel(r) \/ RetryRun(r)

Clock == \E r \in Runs : LeaseExpires(r) \/ BackoffElapses(r)

Next == (\E w \in Workers : Worker(w)) \/ User \/ Clock

Spec == Init /\ [][Next]_vars

(***************************************************************************)
(* Fairness.  Every worker loop keeps turning (while (!stopped)) and every *)
(* settling handler runs; an execution ends because the time limit aborts  *)
(* it, the Runner child being killed two seconds later.  A lease nobody    *)
(* renews runs out and a retry delay passes, as clocks do.  The user never *)
(* has to act, and a process may die at any time.                          *)
(***************************************************************************)
Held(r) == \E w \in Workers : claim[w].run = r /\ Owns(w)

Fairness ==
  /\ \A w \in Workers :
       /\ WF_vars(RecoverExpiredLeases(w))
       /\ WF_vars(Poll(w))
       /\ WF_vars(Conclude(w))
       /\ WF_vars(EnqueueNotice(w))
  /\ \A r \in Runs :
       /\ WF_vars(LeaseExpires(r) /\ ~Held(r))
       /\ WF_vars(BackoffElapses(r))

FairSpec == Spec /\ Fairness

-----------------------------------------------------------------------------
(* Properties.                                                             *)

\* One effective executor per investigation: two runs of one investigation
\* are never running at once, however leases expire and users retry.
OneRunningPerInvestigation ==
  \A r, q \in Runs :
    /\ status[r] = "running" /\ status[q] = "running"
    /\ SameInvestigation(r, q)
    => r = q

\* The attempts table tells the story of the run: the attempt of the current
\* generation is open exactly while the run is running, no older attempt is
\* still open, no newer one exists, and every claim left one row.
AttemptsFollowRun ==
  \A r \in Runs :
    /\ attemptCount[r] = generation[r]
    /\ \A g \in Generations :
         /\ (attempts[r][g] = "running")
              <=> (status[r] = "running" /\ g = generation[r])
         /\ (attempts[r][g] = "absent") <=> (g > generation[r])

\* A run succeeds through exactly one attempt, the last; a report exists only
\* for such a run; and an IM run has an answer in deliveries exactly when it
\* succeeded: never an answer without the commit, nor a commit without one.
AnswerIffSucceeded ==
  \A r \in Runs :
    /\ \A g \in Generations :
         attempts[r][g] = "succeeded"
           <=> (status[r] = "succeeded" /\ g = generation[r])
    /\ r \in reports => status[r] = "succeeded"
    /\ (<<"report", r>> \in deliveries \/ <<"reply", r>> \in deliveries)
         <=> (status[r] = "succeeded" /\ r \in ImRuns)
    /\ <<"report", r>> \in deliveries => r \in reports
    /\ <<"reply", r>> \in deliveries => r \notin reports

\* A run is fenced: executors that come back late can neither run beside its effective
\* one nor leave its attempts, its report or its answer at odds with its status.
Fenced ==
  OneRunningPerInvestigation /\ AttemptsFollowRun /\ AnswerIffSucceeded

\* Failures, lost leases and crashes spend at most MaxAttempts attempts of a
\* run between them; past that, each attempt was asked for by a manual retry.
RetryBudget ==
  \A r \in Runs :
    /\ attemptCount[r] <= MaxAttempts + retried[r]
    /\ status[r] = "queued" /\ attemptCount[r] >= MaxAttempts => retried[r] > 0

\* Strict round order: while a round runs, an earlier round of the same
\* investigation can be unfinished only because a user reopened it.
RoundsInOrder ==
  \A r, q \in Runs :
    /\ SameInvestigation(r, q) /\ round[r] < round[q]
    /\ status[q] = "running" /\ status[r] \in {"queued", "running"}
    => retried[r] > 0

\* total_rounds (written with context_summary) names the latest round that
\* succeeded, unless a manual retry finished rounds out of order.
ContextIsLatestRound ==
  \A i \in Investigations :
    (\A r \in RunsOf(i) : retried[r] = 0) =>
      /\ \A r \in RunsOf(i) : status[r] = "succeeded" => round[r] <= totalRounds[i]
      /\ totalRounds[i] # 0 =>
           \E r \in RunsOf(i) : status[r] = "succeeded" /\ round[r] = totalRounds[i]

\* The rounds of a conversation are executed in order, and its context is the one the
\* latest of them has left.
RoundsBuildOnEachOther ==
  RoundsInOrder /\ ContextIsLatestRound

\* What is settled stays settled: no step reopens a succeeded run or rewrites
\* a closed attempt, whichever stale executor comes back with whatever result.
SettledIsFinal ==
  [][\A r \in Runs :
       /\ status[r] = "succeeded" => status'[r] = "succeeded"
       /\ \A g \in Generations :
            attempts[r][g] \notin {"absent", "running"}
              => attempts'[r][g] = attempts[r][g]]_vars

\* A running run is only ever cancelled because a user asked for it.
CancelIsRequested ==
  [][\A r \in Runs :
       status[r] = "running" /\ status'[r] = "cancelled" => cancelRequested[r]]_vars

\* Every accepted run is eventually settled: lost leases, retries and an
\* executor that dies at every attempt cannot keep it, or a round behind it,
\* in the queue forever.
EveryRunSettles ==
  \A r \in Runs :
    status[r] = "queued" ~> status[r] \in {"succeeded", "failed", "cancelled"}

-----------------------------------------------------------------------------
(* What the invariants above rest on: it holds initially and every step    *)
(* keeps it.                                                               *)

\* The rows are 1 .. accepted, each with a conversation.
RowsFollowAcceptance ==
  \A r \in Runs :
    IF r <= accepted
    THEN status[r] # "absent" /\ investigation[r] \in Investigations
    ELSE /\ status[r] = "absent" /\ investigation[r] = NoInvestigation
         /\ generation[r] = 0 /\ attemptCount[r] = 0

\* A queued run has an attempt left: an automatic one or one asked for.
AttemptsLeft ==
  \A r \in Runs :
    /\ attemptCount[r] = generation[r]
    /\ generation[r] <= MaxAttempts + retried[r]
    /\ status[r] = "queued" => generation[r] < MaxAttempts + retried[r]

\* A busy worker holds a claim, of the current generation or of a past one.
ClaimsArePast ==
  \A w \in Workers :
    IF pc[w] = "idle" THEN claim[w] = NoClaim
    ELSE /\ claim[w] \in ClaimedRun
         /\ claim[w].attempts = claim[w].generation
         /\ claim[w].generation <= generation[claim[w].run]

\* The inductive invariant: which rows exist, which attempts are left to them
\* and which claims the workers can hold, in every reachable state.
QueueInvariant ==
  TypeOK /\ RowsFollowAcceptance /\ AttemptsLeft /\ ClaimsArePast

-----------------------------------------------------------------------------
(* Statements of the documentation that the code does not meet.            *)

Superseded(w) ==
  claim[w].run \in Runs /\ generation[claim[w].run] > claim[w].generation

\* "Once the lease has expired nothing can be written": a step of a worker
\* whose run has since been claimed again leaves every table as it was.
SupersededWritesNothing ==
  [][\A w \in Workers :
       Superseded(w) /\ claim'[w] # claim[w] =>
         UNCHANGED <<status, attempts, outcomeVars>>]_vars
=============================================================================
