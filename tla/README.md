# Verification of ticket-doctor

TLA+ specifications of ticket-doctor, a pre-diagnosis agent for bug tickets:
messages from an IM platform or the Web become *rounds* of an *investigation*,
each round is executed by a worker that drives a model with read-only tools,
and the answer is delivered back. The specifications are translated from the
code; TLC checks them on small instances and TLAPS proves the central
invariants for every value of the constants.

## 1. The system

One SQLite database, written by the Host and, in the older layout, by separate
`worker` and `gateway` processes. Every multi-statement write is one
`BEGIN IMMEDIATE` transaction (`src/storage/db.ts`), so a transaction is an
atomic action and processes interleave, or die, between transactions.

| part | state it keeps | operations | hard behaviour | what makes it correct |
|---|---|---|---|---|
| run queue (`storage/store.ts`, `scheduling/worker-pool.ts`, `domain/run-state.ts`) | `runs`, `attempts`, `reports`, `investigations` | createRun, claimNextRun, heartbeat, recoverExpiredLeases, finalizeSuccess, finalizeReply, finishFailure, finishCancelled, requestCancel, retryRun | several workers and processes, leases, crashes, stale executors, retries in three places | one executor per investigation, strict round order, bounded retries, an answer exactly for a success, finality, every run settles |
| executors (`diagnosis/orchestrator.ts`, `diagnosis/finalize.ts`, `host/runner-executor.ts`) | flags `cancelRequested`, `leaseLost`, `timedOut` | run the engine, beat the heart, settle the run | abort for several reasons at once, two transactions on failure | a run ends with the outcome that happened |
| delivery (`delivery/delivery.ts`, `host/server.ts`, `adapters/go`) | `deliveries` | enqueue, claim, settle, recover | overlapping ticks, lost answers, late results, a platform that accepts without telling | nobody sees a message twice; what is recorded is true or "uncertain"; known outcomes are final |
| Runner supervision (`host/runner-executor.ts`, `entrypoints/runner.ts`, `runner/protocol.ts`) | child process, pipes, timers | spawn, messages, timeout, kill, exit | the exit event races the last line of output; illegal lines; late acknowledgements | every claimed run is settled once; a result that was sent is not lost |
| evidence (`evidence/*`, `commitEvidenceBatch`) | `evidence_batches`, `evidence` | commit, acknowledge, recover | retried commits over a pipe, lost leases, crash after commit | numbers are dense and stable; the model only sees committed evidence |
| session log (`agent/session-recovery.ts`, `session_entries`) | one log per investigation | append, reconcile | a crash between a tool call and its result | the next attempt sees each saved result once |
| intake (`intake/router.ts`, `acceptInbound`, `integrations/feishu`, Go adapter) | `investigations`, `messages`, session codes | deduplicate, route, accept | redelivery, lost answers, several lookups, a bot that does not know itself | a message becomes at most one run, of the right investigation |
| event stream (`host/event-store.ts`, `host/server.ts`, `host/web/app.js`) | `events`, subscribers; a page's list, requests and timer | publish, replay, subscribe; open, refresh, render | reconnection, bounded replay, answers in any order, events during a refresh | no event lost or shown twice; a page at rest is up to date |
| diagnosis loop (`diagnosis/diagnosis-loop.ts`, `audit.ts`, `validate.ts`, `agent/toolbox.ts`) | draft, audit, rounds, tool budget, evidence | diagnose, audit, supplement, validate, publish | aborts at any moment, drafts replaced by later ones, evidence of other versions | a status is carried by evidence and audit of this draft; budgets hold; it ends |
| observability (`observability/langfuse.ts`, `pi-observer.ts`) | nodes, pending events | start, end, drain, close | events out of order, twice, too many | the trace is the same whatever the order; nothing stays open |
| evaluation and evolve (`eval/lf`, `evolve`) | one case's database, results, budget ledger | check isolation, run rounds, grade, stop | shared disks and repositories, retries between rounds, trials that fail | no round sees a later one; a score is earned; every item is accounted for |
| sources, configuration, database, deployment | files | I/O | — | — |

Calls: intake → `createRun` → queue → executor → (evidence, session log) →
`finalize*` → `deliveries` → delivery. The Web API calls `requestCancel`,
`retryRun` and the event stream; adapters call intake and delivery over HTTP.

## 2. Plan

Ordered by importance: what decides who executes a run and what the user is
told comes first, pure computation last.

| step | modules | state |
|---|---|---|
| 1 | `RunQueue` with `RunOutcomes`, abstract `RoundService`, `RunQueueRefinement`, `RunQueueProofs` | done |
| 2 | `Delivery`, abstract `Outbox`, `DeliveryRefinement`, `DeliveryProofs` | done |
| 3 | `RunnerSession`: the Host side and the child side of one supervised execution, their pipes, timers and the exit event; abstract `Attempt`, which is what `RunQueue` assumes of it; `ExecutionProofs` | done |
| 4 | `EvidenceCommit`: the retried batch over the pipe, numbering, leases, crash and the session log's reconciliation; `Ordering`, the order in which the store hands out rows; `OrderingProofs`, `EvidenceCommitProofs` | done |
| 5 | `Intake`: deduplication and routing of inbound messages through the Go adapter, the older gateway and the web page, redelivery by the platform; `IntakeProofs` | done |
| 6 | `EventStream`: persisted events, subscribers, bounded replay, and the page that follows them; `EventStreamProofs` | done |
| 7 | `Diagnosis`: drafts, audits, supplements, tool budget, validators and aborts of one attempt; `ExecutionProofs` | done |
| 8 | `Recorder`: the tree of a trace from events in any order; `ExecutionProofs` | done |
| 9 | `CaseMaterials`, `CaseGrading`, `CaseRun`, `Experiment`: the frozen material of a case, its marks, a case carried out round by round, and the drivers over cases; `EvaluationProofs` | done |

`RunQueue` composes with `Delivery` at `deliveries` (its rows are `Delivery`'s
`EnqueueDelivery`), with `Intake` at `CreateRun`, and with `RunnerSession` at
`RunOutcomes`: the queue lets a process executor end a run in the ways of
`ProcessFailures` and `ProcessCancels`, and `RunnerSession` is shown to end it
in no other. `EvidenceCommit` refines the lines `RunnerSession` only counts, for
successive executions; its `Claim` and `Released` are what the queue and the
session let happen to `owner`. `Diagnosis` is what happens between claim and
settlement of an inline worker of `RunQueue`: its `Outcomes` are the choices
`RunQueue` leaves to an executor. `CaseRun` puts queue, preparation, tools, loop and
delivery together once more for one worker and one conversation, as the evaluation
does, and `Experiment` extends it with the drivers. The runs are kept few: one or
two a module, each with the properties that fit one instance; properties that
need the same states are conjuncts of one (`Fenced`, `EvidenceInvariant`,
`IntakeInvariant` and the like), each conjunct with a comment of its own.

Every invariant and action property that a passing run checks is proved, and so are the
three refinements; what is left to TLC is liveness (section 6). `ExecutionProofs` has the
proofs of the three modules about one execution, its supervision, its loop and its trace,
so their specifications have names of their own (`Spec`, `LoopSpec`, `TraceSpec`).

## 3. How the models read the code

**`RunQueue`.** A row of `runs` is one index of `Runs`, numbered by
`created_at` (ties are ordered by acceptance); `status`, `generation`,
`attemptCount`, `cancelRequested`, `round` and `investigation` are its columns.
`available` is the comparison `available_at <= now` and `lease` the comparison
of `lease_expires_at` with now; `BackoffElapses` and `LeaseExpires` are the
clock passing them. `attempts[r][g]` is the status of the attempt
`(run_id, generation)`. `reports`, `totalRounds` and `deliveries` hold what a
settling transaction writes besides: the report's `run_id`, the investigation's
`total_rounds` (the code writes `context_summary` with it) and the idempotency
key of the queued message. `pc`, `claim` and `signals` are the local variables
of a worker loop, its `ClaimedRun` and its executor's flags.

| action | code |
|---|---|
| `CreateRun` | `createRun`, the last part of `acceptInbound`'s transaction |
| `RecoverExpiredLeases`, `ClaimNextRun` | the two transactions of `runOnce` |
| `Heartbeat` | the interval of the executor: `heartbeat`, then `isCancelRequested` |
| `TimeLimit` | the executor's timer |
| `FinalizeSuccess`, `FinalizeReply`, `FinishCancelled` | one transaction each, fenced by `Owns` |
| `FailRun`, `EnqueueNotice` | the two transactions of `failRun`; the process may die between |
| `RequestCancel`, `RetryRun` | the Web API's routes |
| `Crash` | the process dies and forgets `pc`, `claim` and `signals` |

The engine, the audit and the validators between claim and settlement are the
choice among `FinalizeSuccess`, `FinalizeReply`, `FinishCancelled` and `FailRun`
with the codes the flags allow. `InlineWorkers` are slots whose engine runs in
the worker's process; the others supervise a Runner child, and differ in which
codes an abort leads to.

`RoundService` is what a person in a conversation can rely on: no workers,
leases, generations or attempts. `RunQueueRefinement` maps `phase` to `status`
and `answered` to the runs whose report or reply is in `deliveries`.

**`Delivery`.** A row of `deliveries` is an index, oldest first. A claim is
`recoverExpiredDeliveries` followed by `claimNextDelivery`, which the code calls
back to back in one synchronous stretch; `SweepOnly` is the same with nothing
to send. A call to the platform is in `calls` from the moment its sender may
make it, and moves to `arrived` when the platform accepts it, which can be
after the sender gave up. A `DirectSenders` element is one tick of the Host's
timer, which is not awaited, so ticks overlap. An adapter takes its row by an
HTTP request whose answer may be lost (the row is then `sending` with nobody
working on it) and reports by another, which may be lost or late (`reports` is a
set nobody is obliged to read). The Host decides the outcome when the result
comes in; its inputs (`attempt`, `MaxAttempts`) do not change before that, so
the model decides it when the result is posted. `Verdict` is what a sender may
conclude about its call: the truth, `uncertain`, or for the Go client also
`fatal` for a call that arrived (section 5). A status of 500 or above is taken to
mean "not delivered", as the platform interface declares.

`Outbox` is the promise to the recipient: at most one copy, and a record that
is true unless it says "unknown".

**`RunnerSession`.** One execution in a child process, from the spawn on. The
Host's variables are the local ones of `executeWithRunner`: its three flags,
`resultSeen` and `settled`, the timer (`grace` are the two seconds between the
cancel and `done`), and whether the exit event came. The child's are the state of
its process, its abort signal, a cancel line in its stdin and the lines of its
stdout the Host has not read, at most `PipeSize`. `row` is the run: `open` while
it is running under this claim, `taken` when its lease ran out and another
worker recovered it, otherwise how it ended.

| action | code |
|---|---|
| `HeartbeatTick`, `TimeLimit`, `GraceEnds` | the interval, the timeout and the timeout inside it |
| `ReadReady` ... `ReadAborted` | `handleMessage`, one disjunct per message that matters for how the run ends |
| `ReadNoise` | the catch around the handler: an illegal line, or a handler that threw |
| `ExitEvent`, `SpawnFails` | the child's `exit` and `error` events |
| `ChildStarts`, `ChildWorks`, `ChildFinishes`, `CancelArrives`, `StdinCloses`, `ChildDies` | `runTask` and the handlers of the child's stdin |
| `HostKilled`, `UserCancels`, `Recovered` | the rest of the system |

`exit` may be handled before the last lines are read, since Node promises
no order between them. `Tell` is a write to the child's stdin: when the child is
dead and the exit event has not yet destroyed the stream, the write may fail
outside the `try` around it (section 5). A result whose finalization throws
frees the slot and leaves the run to its lease, as the code does. `Attempt` is
what the queue assumes of an executor: signals are raised, and the run ends
once, in a way they justify, or is taken. What lines store (progress, session
entries, evidence), the failure notice, and what is left of a chunk after an
illegal line are not modelled here.

**`EvidenceCommit`.** The executions of one investigation's runs, one after the other,
the older ones possibly still alive. `runOf[k]` is the run that claim `k` claimed,
`owner` the claim whose `(run_id, generation)` is the running one: both guards of the
store compare with it. `batches`, `evidence` and `log` are the tables; a row of
`evidence` is its short number, its call and its place in the batch. Recovery
goes through the open calls in the order of their entries (`InOrder` of `Ordering`). `phase`, `turn`, `prior`,
`saved`, `seed` and `fresh` are a child's: how far it is, its engine runs, its sink's
`priorEntries` and `savedToolResults`, the session its engine started from and what was
added since. `call` and `sends` are the loop of `IpcEvidenceSink.commit` for each tool
call.

| action | code |
|---|---|
| `Claim` | the claim, the task, and the question unless the run has entries |
| `Released` | any end of the claim: settled, requeued, or its lease recovered |
| `EngineStarts` | `reconcileSession` and the session made from it |
| `ToolCalled`, `AckTimeout`, `Resend`, `GiveUp`, `ReadAnswer` | a tool and its commit: send, time out, back off, send again, be answered |
| `Supplement`, `Finish` | the engine hands its entries over; another engine run, or the end |
| `Dies` | the child or its Host dies |
| `ReadEntry`, `ReadCommit` | `appendSessionEntry`, `commitEvidenceBatch` with the answer |

A tool call makes one batch with an identity made for it, so call and batch share
a number, and the answers `conflict` and `content_conflict`, which need an
identity used twice, do not occur. `internal` is to the sink a timeout that comes
early. The library hands a session's entries over when the engine ends
(`pi-engine.ts:531`), which is why `fresh` is sent by `Finish` and
`Supplement`; entries the store already has are emitted again and ignored by the
store, and left out. Output is read in order, answers in any order. A dead Host is
one that reads no more of a pipe. An inline executor is the behaviour in which
every line is read at once and no answer is lost.

**`Intake`.** A message is its index in `posted`, with what routing looks at:
chat, thread, the root and the parent the platform names, whom it mentions, an
investigation whose `[TD-...]` marker is in its text, and whether it is `-help`.
`stage[m][c]` is how far copy `c` of it is on its way through the receiver, which
knows its bot's id or not. `inbound`, `investigations` and `runs` are the tables; a
row of `messages` is stored with its run, so `runs` stands for both.

| action | code |
|---|---|
| `Post`, `HandOverAgain` | a user; the platform, which hands over what was not acknowledged |
| `Submit`, `SubmitWeb` | `POST /api/agent/message` and `routeInbound`: one transaction with `planRoute` in it |
| `Gate` | the gateway's `evaluateMentionGate` and `-help`, before that transaction |
| `Acknowledge` | `handleMessage` of the adapter, with the help text where there is one |
| `Fails` | an error answer, or none |

An answer to what the bot said has a parent no table knows. An answer may be
handed over before the message it answers.

**`EventStream`.** A state of an investigation is the number of changes made to it.
`events` is the table; a row is its stream and the state it was published in, its id its
place. `FirstOf` is the query of `listEvents`, the oldest rows in order and at most
`ReplayLimit` of them, and `IdsOf` all of a stream. `wire[p]` is what was written to the
connection of page `p` and not read. `current`, `source`, `link`, `list`, `timer` and
`shown` are the page's `state.currentId`, its `EventSource`, its event list,
`refreshTimer` and what it has rendered; `asked` are its requests, oldest first, each
with the state its answer holds.

| action | code |
|---|---|
| `Change`, `ChangeSilently` | a transaction with the events published for it; one that publishes none, or whose process died before |
| `HostCrash`, `HostRestart`, `Drop` | connections break |
| `Connect` | `openEventStream`: replay, then subscription, in one synchronous stretch |
| `Receive` | the page's `onmessage`: lists the event, sets the timer unless it is set |
| `Click`, `RefreshFires`, `Acted` | `openInvestigation`, the timer, a button and the refresh behind it |
| `Answer`, `Arrive`, `Fail` | the Host's answer, its arrival in whatever order, or none |

**`Diagnosis`.** One attempt executed inline. Evidence is its run ("this", an earlier
one, or this run "before" the attempt), its number there and the commit it shows; a
draft is the status and the citations of its hypotheses and what it misses; an audit
its verdicts, whether something is missing and whether it asks for more. `calls` is
`toolbox.toolCalls`. What an audit says of prose is left out.

| action | code |
|---|---|
| `RequestCancel`, `LoseLease`, `Heartbeat`, `Timeout` | what goes on beside the attempt, and the abort |
| `Prepare`, `PrepareFails` | `prepareInvestigation`: scope pinned or not, material missing or not |
| `QueryFinds`, `CallYieldsNothing`, `SubmitReport`, `RequestInfo` | the tools behind the budget of `toolbox.ts`; every call ends there |
| `EngineReturns`, `EngineThrows` | the end of an engine run, with a report, a stub or a reply |
| `AuditAnswers`, `AuditFails`, `AuditBlocks` | `audit.ts` and `shouldSupplement` |
| `Finalize` | `validateReport`, `applyAudit`, completeness, and `finalizeSuccess` or `finalizeReply` with the guard of the lease |

**`Recorder`.** Emitter and recorder side by side: `sent` are the events in order of
emission, `wire` those that have not arrived, in any order, each possibly twice;
`nodes`, `pending` and `trace` are the recorder's. `Process` is one branch of
`processEvent` after the other, `Pass` and `Drained` the two loops `drainPending` makes
over what waits, as recursive functions of `Take`; `TooLate` is the check on an agent
that ended. The emitter begins a call within a
phase only and reports each end once. A second engine run under the attempt's agent is
what `phases` and `Attempt` allow.

**The evaluation.** `CaseMaterials` is constant-level: a case is a record of its rounds,
each with a directory of logs and the repositories at a commit, of its private standard
and of how it is marked (split, tier, admission). `Material` says what the files of any case are,
well made or not. A file is its inode, the rounds whose
message it has, and the key a locator looks for. `Isolated` and `ScopeChecks` are
`checkIsolation` before a case and the checks of each preparation. `CaseGrading` is
constant-level too: `Hit`, `Reached` and `Satisfaction` are `visibility.ts`, `Score` is
`gradeCase`, `RunIntegrity` and the operators around it the evaluators of an experiment.
`CaseRun` carries a case out: route, claim, prepare, read, draft, supplement, settle,
record. `Experiment` adds the two drivers. The queue in it is the one of `RunQueue` for
one conversation, without leases, since one process runs it. The standard of a case may
be on rounds the case does not have: the runner imports `validatePairing`
(`run-case.ts:28`) and never calls it. So `ScoreIsEarned` asks for an integral run only
where the rounds are those of the case, and the run has a case (`Excess`) where they are
not: without that condition TLC refutes the property with it. `Mean` sums over the places
of a case's items, as `aggregateCases` goes through the list: trials with equal results
count each.

| action | code |
|---|---|
| `BeginRound` | `routeInbound` and `claimNextRun`, which takes whatever run is due |
| `Prepare`, `ReadTool`, `EngineAnswers`, `Supplement` | the executor on the round's own material, its check first |
| `Finalize`, `ExecutionFails` | the end of the execution, with the retry the queue grants |
| `RecordRound` | deliveries sent, visibility computed, the round pushed to `result.rounds` |
| `DelayElapses` | `available_at` passes: nobody waits for it |
| `Accept`, `StartTrial`, `EndTrial`, `EndBatch` | `parseBatchRequest`, `scripts/evolve-batch.ts` and its ledger |
| `TaskStarts`, `TaskEnds`, `EndExperiment` | `scripts/eval-lf.ts` and `task.ts` |

## 4. The runs

| run | instance | shows |
|---|---|---|
| `QueueRetry` | 2 inline workers, 2 rounds of one conversation, 2 attempts, 1 manual retry of each | the inductive invariant, `Fenced` (`OneRunningPerInvestigation`, `AttemptsFollowRun`, `AnswerIffSucceeded`), `RetryBudget`, `SettledIsFinal`, `CancelIsRequested` |
| `QueueService` | one worker of each kind, 2 messages in 1 or 2 conversations, 2 attempts, fair | `RoundsBuildOnEachOther` (`RoundsInOrder`, `ContextIsLatestRound`), the queue implements `RoundService`, `EveryRunSettles` |
| `QueueSuperseded` | 2 workers, 1 run, 2 attempts | violates `SupersededWritesNothing` (section 5) |
| `DeliverySafety` | 2 ticks and 2 adapters, 2 deliveries, 3 attempts, fair | the inductive invariant, `AtMostOnce`, `KnownOutcomeIsFinal`, `EveryDeliverySettles` |
| `DeliveryTruth` | 2 ticks, 3 deliveries, 3 attempts | `OutcomeIsTrue`, the table implements `Outbox` |
| `Session` | one execution, 3 unread lines, fair | the inductive invariant, `NotForgotten`, the execution implements `Attempt`, `ExecutionSettles`, `NoOrphan` |
| `Evidence` | 2 executions of one run or of two, 2 tool calls, 2 sends, 1 supplement | `EvidenceInvariant` (`NumberedOnce`, `NumbersFollowExecutions`), `ToldTheTruth` (`ShownIsSaved`, `UnknownIsUnsaved`), `AnsweredOnce` |
| `Intake` | 3 messages, or 2 and a repeat of one, in a topic group, a private chat and the web page | `OneRoundInItsPlace` (`AcceptedOnce`, `StaysInChat`, `ThreadKeepsCase`), `IntakeInvariant` (`RoundsAreDense`, `HelpedOnce`, `OpenedByMention`), `AcknowledgedIsKept` |
| `EventStream` | one page, 2 investigations, 3 events, replay of 2, 2 faults, 2 requests at a time, fair | `StreamInvariant`, `NeitherLostNorRepeated`, `PageAtRestIsCurrent`, `PageCatchesUp` |
| `Diagnosis` | 2 tool calls, 1 supplement, 1 disturbance, 3 configurations, 3 histories, chosen drafts and audits, fair | `DiagnosisInvariant`, `StatusIsEarned`, `CompleteIsWhole`, `AttemptEnds` |
| `Recorder` | 2 calls, 2 phases, 4 events under way, 3 kept, 1 repeat | `RecorderInvariant`, `StatusIsReported`, `OrderDoesNotMatter` |
| `Evaluation` | 16 cases, 16 requests, 2 attempts, 2 tool calls, 1 citation, 1 supplement, fair | `EvaluationInvariant` (`LayersNest`, `Accounted`), `NothingFromTheFuture`, `ScoreIsEarned`, `ExperimentEnds` |

The bounds are the smallest at which every hazard occurs. Two workers and two attempts
give a stale executor next to its successor; an attempt past the budget needs one manual
retry; a round overtakes another when there are two and the executor of the first is
stale; competing conversations need two. Two deliveries make the oldest-first order
matter, and three attempts let a late result meet two later ones. Three lines are a
`ready` or a commit, a final line and a stray one behind it. Two executions give a
superseded child next to its successor, of the same run or of the next; two calls, the
first with two items, let numbers of batches mix; two sends are one retry. Three events
are one more than a replay holds, and two requests at a time let answers overtake each
other. Two tool calls are one in budget for each engine run of a supplemented attempt,
and one call more is refused; the drafts differ in what validators and audit tell apart:
no citation, an old one, one by a number that is taken, several, and an old next to a
new one. Four events under way are the start and end of an agent and of a call under it;
three kept ones are enough to overflow. The cases of `Evaluation` are one that is well
made and, each changed in one respect, those its checks are for: a later round's log
under a second name, an answer, a message told too early, a file the scan cut short,
nested directories, a repository that stands elsewhere, at a third commit or at another
in each round, scripts that fit or run out, a standard for more rounds than there are.
Three messages are one that opens an
investigation, one of another, and one that the lookups could put in either; one repeat
races its first copy. Runs without a manual retry are those whose property excludes it:
a retried run overtakes later rounds by design. The workers of `QueueRetry` and the
ticks of `DeliveryTruth` are interchangeable and declared symmetric; the runs that check
liveness declare no symmetry.

Deadlock is not checked: every loop polls, and with nothing left to do, no run
queued and every message spent, no step changes the state.

**Fairness.** `RunQueue`: each worker's recovery, claim and settlement is weakly
fair, because `startWorkerPool` loops until stopped and an execution ends at the
latest when its time limit aborts it (a child is killed two seconds later). A
lease nobody renews runs out, a delay passes. Users are not fair, and `Crash` may
come at every attempt; the property holds because attempts run out.
`Delivery`: timers tick and an adapter's calls have a time limit. A direct call
has none, and a result need not reach the Host, so neither is fair.
`RunnerSession`: timers fire and events are handled, because the Host's event
loop runs; a child that finished exits; one that was aborted after the Host died
stops, because the engine looks at its signal. A child under a living Host may
hang, ignore its abort or never finish: then the time limit frees the slot. Output
is sure to be read only until the slot is free, since the loop over a chunk then
stops after a line. A lease nobody renews runs out.
`EventStream`: the Host is restarted, a page reconnects and reads its connection, as
browsers do; nobody need change or click anything and no refresh need fire.
`Diagnosis`: preparing ends, and the loop goes on once its engine or its auditor may
end; a model may call tools only while the budget lasts. The auditor is not sure to answer
by itself, but an answer and an error both go on. `Evaluation`: one process goes on with what it is
doing (`WF` of everything but the clock); nobody waits for a retry's delay, so
`DelayElapses` is not fair.

## 5. Findings

`QueueSuperseded` is a run whose property quotes the repository and which TLC
violates: `failRun` ignores whether `finishFailure` wrote anything
(`src/diagnosis/finalize.ts:229`), so an executor whose run was claimed again still
enqueues the failure notice. `orchestrator.ts:5` says nothing can be written after
the lease is lost.

The rest was met while modelling and is stated by no run. Where a property would be
false because of it, the property says less, as noted.

*Executions.*

- With a Runner child, a run that reaches its time limit ends `cancelled`
  (`runner-executor.ts:292`, `runner.ts:225`) though nobody asked; `domain/types.ts:27`
  and `:32` say a timeout is retried and a cancel is the user's. `CancelIsRequested`
  is checked for inline workers.
- A Runner that dies takes the Host with it when the Host writes to its stdin before it
  handled the exit: the write fails in an `error` event of the stream that nobody
  listens to (`runner-executor.ts:142`); `:5` says that the crash of one Runner does
  not affect other processes.
- `recoverExpiredLeases` and `finishFailure` requeue a run whose cancel was
  requested, so it is claimed once more before the next heartbeat cancels it;
  `docs/host-runner-design.md:84` says a cancel is final.
- `recoverExpiredLeases` fails a run that is out of attempts without a notice, and
  so does a crash between the two transactions of `failRun`;
  `docs/interview-reliability.md:51` says one is delivered.
- A cancel that comes during the audit is taken for a failure of the auditor
  (`audit.ts:163`), and the report is published; `docs/host-runner-design.md:84`.

*Delivery and intake.*

- The Go client drops the error of reading an answer and takes the unparsable rest for
  a fatal refusal (`client.go:131`, `:144`), so a message that was delivered is recorded
  `failed`; `platform.go:41` says such a break is uncertain. `OutcomeIsTrue` is checked
  for direct senders.
- While the gateway does not know its bot's id it takes any mention for one of the
  bot (`normalize.ts:50`), so a message that mentions a colleague opens an
  investigation; `mention-gate.ts:7` and `entrypoints/gateway.ts:27` say such
  messages are kept out. `OpenedByMention` speaks of the adapter.
- The gateway sends the help text before it looks for a duplicate, so each repeat
  sends it again; `HelpedOnce` speaks of the adapter.
- A reply that names only the bot's message as its parent is not found, since
  `messages` has the users' messages (`docs/backlog.md:66` knows of it).

*Evidence and session log.*

- The engine run of a supplement starts from `sink.priorEntries`, which has the new
  demand but nothing the first engine run added (`diagnosis-loop.ts:171`,
  `pi-engine.ts:412`); `docs/open-questions.md:146` and `diagnosis-loop.ts:45` say it
  continues the same session with its history.
- A child that dies after a commit leaves a saved batch whose call is not in the
  log yet, so the next attempt is not shown it; `docs/evidence-uid-design.md:181`
  has the call in the log first, `pi-engine.ts:531` says why it is not.
- A call of an earlier round that the log left open is completed with "outcome
  unknown" although its batch is saved, because `buildSavedToolResults` looks
  under the run of the new round. `UnknownIsUnsaved` speaks of one run.
- A supplement reconciles the same open calls a second time, with new entry ids,
  so the log can have two recovered results of one call
  (`session-recovery.ts:74` says it cannot). `AnsweredOnce` speaks of real results.
- A commit that waits for its acknowledgement is not interrupted by an abort,
  only its pause and its next attempt are (`ipc-sink.ts:24` says at once).
- `toolbox.ts:6` says a failed commit fails the round; the pi library turns what a
  tool throws into an error result, and the model goes on.

*Event stream.*

- A page that missed more than `sseReplayLimit` events is replayed the oldest of them
  and then subscribed: the rest is left out; `docs/interface.md:364` promises neither
  loss nor repetition. The properties speak of streams one replay can hold (`Whole`).
- A crash between the transaction and the publication loses the event, a separate
  worker process publishes none to the Host's pages, and `cancel_requested` is
  published though nothing changed.
- Overlapping answers to `openInvestigation` leave a page subscribed to one
  investigation while its `currentId` is another's; a late silent refresh renders the
  investigation left; answers that overtake each other leave the older one shown.
  `PageAtRestIsCurrent` excludes those pages (`late`, `source[p] = current[p]`).

*Diagnosis.*

- A supplement that ends without a report replaces the full report of before by the
  stub, and one that ends in a reply replaces it by the reply.
- A hypothesis the auditor gave no verdict on stays supported; one refuted without
  evidence becomes a candidate.
- Evidence of this run cited by its UID is not compared with the pinned commit of the
  strong check (`validate.ts:51`, `:116`), and a short number is resolved in three
  ways: the last for the auditor, the first in `findRef`, the current run's in the
  validator.

*Observability and reading.*

- The calls of a supplement are recorded in no trace, their agent having ended
  (`langfuse.ts:348`); `docs/open-questions.md:164` says they are. `OrderDoesNotMatter`
  speaks of calls that began before their agent first ended.
- What `list_files` and `read_code` return is cut to `maxEvidenceChars`, while the
  coverage counts all as returned and the next cursor skips what was cut.

*Evaluation.*

- After a retryable failure the run of a round stays queued. The next round's claim
  finds nothing, or finds that run, carries it out on its own material and records it
  as its own: `claimed.run.id` is never compared with `routed.runId`
  (`run-case.ts:341`).
- The message of a refused preparation quotes two commits, in which
  `classifyRunError` may find `429` or `401`: a refusal may be retried.
- A limit in dollars with `enforce` stops a batch before its first trial, since none
  has a price yet; a trial that failed counts no tokens.
- `gradeCase` ignores `onlyWhenAllLogQueriesEmpty` and `onlyWhenHypothesisUncited` of
  forbidden assertions (`types.ts:141`); it accepts any reason of a refusal where
  `expectedBlockedEvaluator` wants a mismatch of the first round's commit.
- A supplement consumes the script step of the next round. A message of less than 12
  characters is not looked for by the isolation check. `validatePairing` is imported by
  the runner and never called.

## 6. Proofs

TLAPS checks the theorems below for every number of runs, workers, conversations,
deliveries, senders, attempts, unread lines, executions, calls, sends, messages, copies,
pages, events, calls and phases of a trace, and for all drafts, audits, budgets, catalogs
of cases and requests, that satisfy `RunQueueAssumption`, `DeliveryAssumption`, `RunnerSessionAssumption`,
`EvidenceCommitAssumption`, `IntakeAssumption`, `EventStreamAssumption`,
`DiagnosisAssumption`, `SubmissionsAssumption`, `RecorderAssumption`, `CaseRunAssumption`,
`NoneAssumption`, `NoShaAssumption`, `CatalogAssumption` and `RequestsAssumption`. These
say that bounds are numbers and that the names of different things differ; the last two
say no more than what a file of that kind is: a case has a list of rounds, directories
with an end and repositories it can name, a request has a list of cases, numbers and one
of two drivers. Whether the case is well made, or the request may be made, is for the
program to find out.

| theorem | says |
|---|---|
| `QueueInvariantHolds`, `TypeCorrect` | `Spec => []QueueInvariant`, `Spec => []TypeOK` |
| `RetryBudgetHolds` | `Spec => []RetryBudget`: the three places that grant retries never exceed the budget between them |
| `FencedHolds` | `Spec => []Fenced`: one running round a conversation, attempts that follow their run, an answer exactly if the run succeeded |
| `SettledIsFinalHolds` | `Spec => SettledIsFinal`, an action property |
| `CancelIsRequestedHolds` | `Spec => CancelIsRequested`, an action property, if every worker is inline |
| `RoundsBuildOnEachOtherHolds` | `Spec => []RoundsBuildOnEachOther`: rounds run in order, and their context is that of the latest that succeeded |
| `RoundServiceImplemented` | `Spec => ImplementsRoundService`: the queue implements what a person in a conversation relies on |
| `DeliveryInvariantHolds`, `DeliveryTypeCorrect` | `Spec => []DeliveryInvariant`, `Spec => []TypeOK` |
| `AtMostOnceHolds` | `Spec => []AtMostOnce` |
| `KnownOutcomeIsFinalHolds` | `Spec => KnownOutcomeIsFinal`, an action property |
| `SentIsTrueHolds` | `Spec => []SentIsTrue`: "sent" is recorded only of what the platform accepted, by whichever sender |
| `OutcomeIsTrueIfRead`, `OutcomeIsTrueHolds` | `[]OutcomeIsTrue`, of behaviours of `Spec` with `AnswersAreRead`, and of `Spec` without adapters |
| `OutboxImplementedIfRead`, `OutboxImplemented` | `ImplementsOutbox`, under the same two hypotheses |
| `SessionInvariantHolds`, `NotForgottenHolds` | `Spec => []SessionInvariant`, `Spec => []NotForgotten` |
| `AttemptImplemented` | `Spec => ImplementsAttempt`: the supervision implements what the queue assumes of it |
| `EvidenceInvariantHolds` | `Spec => []EvidenceInvariant`: numbers are given once and in the order of the executions |
| `ToldTheTruthHolds`, `AnsweredOnceHolds` | `Spec => []ToldTheTruth`, `Spec => []AnsweredOnce`: what the model and its successors read of a call |
| `IntakeInvariantHolds`, `OneRoundInItsPlaceHolds` | `Spec => []IntakeInvariant`, `Spec => []OneRoundInItsPlace` |
| `AcknowledgedIsKeptHolds` | `Spec => []AcknowledgedIsKept`: the adapter acknowledges nothing that is not stored |
| `StreamInvariantHolds`, `NeitherLostNorRepeatedHolds` | `Spec => []StreamInvariant`, `Spec => []NeitherLostNorRepeated` |
| `PageAtRestIsCurrentHolds` | `Spec => []PageAtRestIsCurrent`: a page with nothing left to do shows the state of the last event |
| `DiagnosisInvariantHolds` | `LoopSpec => []DiagnosisInvariant` |
| `StatusIsEarnedHolds`, `CompleteIsWholeHolds` | `LoopSpec => []StatusIsEarned`, `LoopSpec => []CompleteIsWhole`: what a report may claim |
| `TraceInvariantHolds`, `RecorderInvariantHolds` | `TraceSpec => []TraceInvariant`, `TraceSpec => []RecorderInvariant` |
| `StatusIsReportedHolds` | `TraceSpec => []StatusIsReported`: a node ends as was reported for it, once |
| `OrderDoesNotMatterHolds` | `TraceSpec => []OrderDoesNotMatter`: once everything has arrived the tree is that of the emitter, whatever the order |
| `EvaluationIsInvariant`, `EvaluationInvariantHolds` | `Spec => []IInv`, `Spec => []EvaluationInvariant`: types, the nesting of the layers, the driver's accounts |
| `NothingFromTheFutureHolds` | `Spec => []NothingFromTheFuture`: no evidence of a later round or of the private standard |
| `ScoreIsEarnedHolds` | `Spec => []ScoreIsEarned`: what must be true of a case whose score is above nought |

*`QueueInvariant`.* `RetryBudget` is not inductive: whether a failing executor
requeues its run is decided by the count in its claim, taken when it claimed.
`ClaimsArePast` says that this count is the generation of the claim and not
above the run's; `AttemptsLeft` that a queued run has an attempt left, so the
next claim stays within the bounds of `TypeOK`; `RowsFollowAcceptance` that the
rows exist in order, so that `CreateRun` meets a fresh one. Each action has a
lemma; the settling ones share `SettleEffect` and `SettleRows`, which say what a
fenced transaction can have changed.

*What rests on it.* `Fenced` is inductive once its last part is said in two:
`SucceededOnce`, the attempt that succeeded is the run's last one, and
`AnswersFollowRun`. An executor that does not own its run changes no row, and one that
does finds no answer there. `RoundsInOrder` is not inductive, since of a round that has
ended nothing is left to compare a later claim with; `Unovertaken` adds the later rounds
that have succeeded. Together with `ContextIsLatestRound` it is `OrderInvariant`: the
claim takes no round with an unfinished one before it, so the round that settles has the
largest number of those that succeeded, unless a user reopened it. The refinement adds
`RoundsFollowIds`: rows are numbered in the order of acceptance and so are their rounds.

*`CancelIsRequested` and its hypothesis.* `CancelWasSeen` says that a cancel an executor
saw is still requested as long as it owns the run. That carries an inline executor. A
Runner child ends its run `cancelled` at its time limit, too, and there the property fails
(section 5), so the theorem is about deployments whose workers are all inline. The run
`QueueRetry` has two of them.

*`DeliveryInvariant`.* That no message is seen twice rests on a waiting delivery
having nothing under way (`PendingIsUnsent`): a new attempt starts only from
there. It is kept because whatever is under way belongs to the latest attempt
(`OnlyLatest`), an attempt has one sender or one result (`OneOwner`), and a
retry is only asked for after a refusal. `HeldIsOpen` gives finality: a direct
sender marks its row by id alone, which is safe only because a row somebody
works on is never settled with a known outcome.

*The truth of outcomes and its hypothesis.* `SentIsTrue` needs no hypothesis: no sender
calls a success what was not one. `RefusedIsTrue`, "failed" only of a refusal, is inductive
as far as senders read the answers they judge. The Go adapter does not (section 5), so the
theorem has `AnswersAreRead` as a conjunct of the behaviour: an adapter posts no result
that its call contradicts. `DirectSendersRead` proves that conjunct of every behaviour
without adapters, whose `FeishuClient.send` is in `src/src`, and gives
`OutcomeIsTrueHolds` and `OutboxImplemented`; the run `DeliveryTruth` is such a
deployment. In the mapping to `Outbox` the copies of a delivery are counted, and are none
or one by `AtMostOnce`.

*`SessionInvariant`.* `NotForgotten` needs that a handled exit freed the slot.
That a step of the session maps to a step of `Attempt` needs `AbortIsSignalled`:
when the child reports `cancelled`, a line written long before, some signal of the
Host is behind it, and it stands although the line may be read after anything.

*`IInv` of `EvidenceCommit`.* The properties speak of what was said of a call, in lines
that are in the log, in an executor's memory or in a pipe; the invariant is about all of
them (`Lines`). A call is `Settled` when nothing on the way can save its batch any more.
That recovery may call a call unknown rests on this: the log has a call only when it is
settled (`LoggedIsSettled`), because an executor sends a call behind its commits and
only when it no longer waits for one (`CommitsFirst`), and because a pipe is read in
order. `OpenIsKnown` carries it across an execution: a call found open is an earlier
claim's, unanswered, and saved by its own run only if the executor was told so. For
`AnsweredOnce` a call has one real result (`RealOnce`), and recovery answers none that
has one (`RecoveredIsAlone`). Each action adds lines or moves them; `Grows`, `TrueLines`
and `GrowsKeeps` say once what added lines must fulfil.

*`TablesInvariant /\ CopiesInvariant` of `Intake`.* The first is about the tables and is kept by
whatever transaction routes a message: an identity is processed once, references go back
to earlier messages of the same chat (`PostedInOrder`), and a row of `runs` and its
investigation lead to each other (`Rooted`), so each way of `planRoute` to an investigation ends in
the message's chat and thread. The second is about the copies in a receiver: none is further
than the tables (`Reached`), and the help is due to one copy at most (`Helping`).

*`IInv` of `EventStream`.* `FedPages` says of each page that what it listed and what is
on its wire is one growing sequence of the stream's events, without a gap as long as the
stream fits one replay, and all of them while the page is subscribed. A replay keeps it
because it starts behind the last id the page has and the subscription follows in the
same stretch; the lemmas `GaplessIsPrefix` and `CoveringIsInOrder` turn it into
`NeitherLostNorRepeated`. For `PageAtRestIsCurrent`, `Refreshed` looks at the youngest
request, or at what is shown if there is none: unless it is marked as late, it is of the
investigation the page is at and not older than any event the page has listed, or the
timer is set. `PublishedAfter` makes a request answered later no older than the event.

*`IInv` of `Diagnosis`.* What a report claims is established in one step, `Finalize`,
from what validation and audit make of the draft, so the lemmas about `Report` carry
the argument: an audit only lowers a status, and nothing but an empty list of what
is missing leaves a report complete. What must be inductive is that the audit is that
of this draft. `AuditIsCurrent` says so: until an audit is over there was one for each
supplement, and a report that goes to publication was judged, or could not be,
once more. `PublishedLast` lets the published report stand while the variables it is
compared with cannot change. The submissions are only assumed to be what the
schemas of `submit_report` and `submit_audit` let through.

*`TraceInvariant` of `Recorder`.* `Emissions` says what can be in `sent` of a call: one
parent, one end, a start before it. `Tree` says of every node of the recorder that an
emitted event put it there. `NoneLost` is what carries `OrderDoesNotMatter`: an event is
under way, waits, or has had its effect or come too late for it, unless one was refused;
and no event that could be taken waits (the last conjunct), so when nothing is under way
what waits had no place in the tree at all. The recorder's steps run the loops of
`drainPending`. `PassUnfolds` and `DrainUnfolds` turn them into a list of intermediate
states, along which `PassedOver` is carried: `Take` changes the tree only onwards
(`Onward`), a pass that finds nothing ready changes nothing, and any other shortens the
list (`PassEffect`). So after as many passes as events had been waiting none is ready.

*`IInv` of the evaluation.* `NothingFromTheFuture` follows from where evidence comes from
(`Origin`): a log is of the view of its round, which `checkIsolation` has read whole, and
code is of a tree which the round's own scan has read. For code the check before the case
is not enough, since it reads the expected commit and HEAD and the preparation may pin a
third one; that the engine runs only behind the scan is `Checked`. `Flow` says that a case
under way was loaded, hence isolated, and how many rounds are on record. `ScoreIsEarned`
needs `Recorded`, of every record of a round: a refused round has read nothing, a
successful one called the engine and sent something, a citation found valid has evidence
to show (`Carried`). A refused round has read nothing because evidence is never of a
round that has not begun (`Timely`). `LayersNest` is inductive with `Returned`, which puts
what is saved of logs among what the source gave back; the source's record is split in
the rounds' and the present one's, and joined only when the round is recorded.
`Numbered` gives a short number one piece of evidence; a new batch is numbered from the
size of what is saved. `Requested` is about the driver: items are a beginning of the
trials, in order, and a trial with a hard failure has no score. That a mean above nought
needs a trial without one is `SumOfNoughts`: the sum's equation is solved by the function
that is nought everywhere, and by no other.

*`OrderingProofs`.* The modules that number rows share lemmas: a set of naturals has
a least, and a bounded one a greatest, element (`LeastNumber`, `GreatestNumber`); different
values below a bound are no more than the bound (`DistinctAreFew`); the ranks of a finite set
are the numbers up to its size (`RankGrows`, `RanksAreTaken`), so `InOrder` lists it without
a gap or a repetition, and ascending (`InOrderProperties`).

TLC checks, on the instances above, every property that a theorem states and the inductive
invariants themselves: those of `RunQueue`, `Delivery`, `RunnerSession` and `Diagnosis` are
invariants of the runs; the ones that stand in the modules of proofs were checked on the same
instances before they were proved. Model-checked only:

- liveness and everything that needs `ENABLED`, which is out of the prover's reach:
  `EveryRunSettles`, `EveryDeliverySettles`, `ExecutionSettles`, `NoOrphan`,
  `PageCatchesUp`, `AttemptEnds`, `ExperimentEnds`.

The induction theorems of the library take a predicate as a parameter, which the
installed provers do not instantiate. Where a proof needs induction over numbers it takes
the least counterexample. The recursive functions that the models are built from are
unfolded in the same way, each by lemmas of its own; of the grade's folds (`Weighted`,
`Usage`) nothing is proved but what follows from their place in `Score`.

## 7. Not modelled

- Database errors: `transaction()` either happens or does not. `delivery.ts:48` would
  take one for a failed send (a hazard without a property).
- The wording of answers, reports and prompts; what the model and its tools return is
  a choice.
- Evidence sources: one call reads files or Git objects and keeps nothing; the cursor is
  the model's to give back. What the reading leaves out is noted in section 5.
- The usage ledger, one insert for each model call, and the export of traces.
- Of the evaluation: generating engineering cases, `verify` and `review`, pushing to the
  observability service, the older runner and its comparison. Of evolve: building
  materials, and the search in Python outside `src/src`.
- Verification and decryption of platform events, and the reconnection of the long
  connection: a message is handed over or not.
- Migrations, configuration and deployment, read once at start; they decide the constants
  of the models.
