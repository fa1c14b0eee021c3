----------------------------- MODULE Experiment -----------------------------
(***************************************************************************)
(* Cases carried out one after the other and judged, by either driver:     *)
(* the batch of a prompt search (scripts/evolve-batch.ts, src/evolve),     *)
(* which repeats each case, keeps a budget and gives up when the material  *)
(* itself is wrong; or the experiment on a dataset (scripts/eval-lf.ts,    *)
(* src/eval/lf/task.ts), which must show a result for every item whatever  *)
(* happens to it.                                                          *)
(***************************************************************************)
EXTENDS CaseRun

CONSTANTS
  Catalog,           \* [case id -> its frozen material]
  Requests           \* batch requests and dataset selections that may be made

ASSUME CatalogAssumption == \A id \in DOMAIN Catalog : Material(Catalog[id])

ASSUME RequestsAssumption ==
  \A q \in Requests :
    /\ q.driver \in {"batch", "dataset"} /\ q.limits \in {"monitor", "enforce"}
    /\ q.cases \in Seq(ToSet(q.cases)) /\ q.repeat \in Nat
    /\ q.driver = "batch" => {q.maxTrials, q.maxTokens} \subseteq Nat

VARIABLES
  request,           \* None before one is accepted
  items,             \* results, in order
  ledger,            \* BudgetLedger: trials, tokens recorded, stopped
  exit               \* how the driver ended, or "running"

driverVars == <<request, items, ledger, exit>>
vars == <<caseVars, driverVars>>

MaxRepeat == 5

Init ==
  /\ CaseInit
  /\ request = None /\ items = <<>> /\ exit = "running"
  /\ ledger = [trials |-> 0, tokens |-> 0, stopped |-> FALSE]

-----------------------------------------------------------------------------
(* A request is accepted or refused. *)

\* The list the batch script makes before it parses the request.
Approved(split) ==
  {id \in DOMAIN Catalog : Admitted(Catalog[id]) /\ Catalog[id].split = split}

\* parseBatchRequest.
ValidRequest(q) ==
  /\ q.split \in {"train", "validation", "holdout"}
  /\ Len(q.cases) > 0 /\ IsInjective(q.cases) /\ ToSet(q.cases) \subseteq Approved(q.split)
  /\ q.repeat \in 1 .. MaxRepeat

\* The gates of cmdRun: a budget where a model is called, and no more cases or rounds
\* than the budget was made for.
WithinBudget(q) ==
  /\ engine = "pi" => q.budget
  /\ Len(q.cases) <= q.maxCases
  /\ \A i \in DOMAIN q.cases : q.cases[i] \in DOMAIN Catalog => Catalog[q.cases[i]].maxRounds <= q.maxRounds

Accept ==
  /\ request = None /\ exit = "running"
  /\ \E q \in Requests :
       LET fine == IF q.driver = "batch" THEN engine = "pi" /\ ValidRequest(q) ELSE WithinBudget(q) IN
       /\ request' = IF fine THEN q ELSE None
       /\ exit' = IF fine THEN "running" ELSE "refused"
  /\ UNCHANGED <<caseVars, items, ledger>>

-----------------------------------------------------------------------------
(* Trials. *)

\* The trial after i others: every case `repeat` times, in the order of the request.
Trial(i) == [id |-> request.cases[(i \div request.repeat) + 1], trial |-> (i % request.repeat) + 1]
Trials == Len(request.cases) * request.repeat
Driving(driver) == request # None /\ exit = "running" /\ request.driver = driver

\* canStartTrial: only between trials, and only when it is to be enforced.
Exhausted ==
  request.limits = "enforce"
    /\ (ledger.trials >= request.maxTrials \/ ledger.tokens >= request.maxTokens)

\* The script loads the case first: what cannot be loaded, or is not isolated, ends
\* the whole batch.
StartTrial ==
  /\ Driving("batch") /\ stage = "idle"
  /\ Len(items) < Trials /\ ~Exhausted
  /\ LET c == Catalog[Trial(Len(items)).id] IN
     \/ /\ Loaded(c) = "ok"
        /\ Open(c)
        /\ UNCHANGED driverVars
     \/ /\ Loaded(c) # "ok"
        /\ exit' = "systematic"
        /\ UNCHANGED <<caseVars, request, items, ledger>>

\* usageOf: a unit for every result the engine returned; of a case that failed
\* nothing is known.
Usage == FoldSeq(LAMBDA x, n : n + x.engineCalls, 0, results)

\* The trial's item: graded, or an error that counts as nought.  The next trial runs
\* runCase anew.
EndTrial ==
  /\ Driving("batch") /\ stage = "over"
  /\ LET ok == failure = "none"
         hard == IF ok THEN HardFailures(results, kase.truth) ELSE {"task_error"}
         item == [id |-> Trial(Len(items)).id, trial |-> Trial(Len(items)).trial,
                  status |-> IF ok THEN "scored" ELSE "task_error",
                  score |-> IF ok THEN Score(results, kase.truth) ELSE 0, hard |-> hard]
     IN items' = Append(items, item)
  /\ ledger' = [ledger EXCEPT !.trials = @ + 1, !.tokens = @ + (IF failure = "none" THEN Usage ELSE 0)]
  /\ Close
  /\ UNCHANGED <<request, exit>>

\* Mutant: only a batch that did everything ends.
EndFullBatch ==
  /\ Driving("batch") /\ stage = "idle"
  /\ Len(items) = Trials
  /\ ledger' = [ledger EXCEPT !.stopped = FALSE]
  /\ exit' = "ok"
  /\ UNCHANGED <<caseVars, request, items>>

\* The result is written, with what has been done of the request.
EndBatch ==
  /\ Driving("batch") /\ stage = "idle"
  /\ Len(items) = Trials \/ Exhausted
  /\ ledger' = [ledger EXCEPT !.stopped = Len(items) < Trials]
  /\ exit' = "ok"
  /\ UNCHANGED <<caseVars, request, items>>

\* makeTicketDoctorTask up to runCase: the case is in the local catalog, its material
\* is what the dataset recorded, its standard loads; else the item fails at once.
TaskStarts ==
  LET id == Trial(Len(items)).id
      known == id \in DOMAIN Catalog /\ Catalog[id].unchanged
  IN /\ Driving("dataset") /\ stage = "idle" /\ Len(items) < Trials
     /\ \/ /\ known
           /\ Open(Catalog[id])
           /\ UNCHANGED driverVars
        \/ /\ ~known
           /\ items' = Append(items, [id |-> id, failed |-> TRUE, evaluations |-> None])
           /\ UNCHANGED <<caseVars, request, ledger, exit>>

\* The task's output, with the failure in place of the rounds, goes to the evaluators.
TaskEnds ==
  /\ Driving("dataset") /\ stage = "over"
  /\ LET out == [failed |-> failure # "none", rounds |-> IF failure = "none" THEN results ELSE <<>>]
     IN items' = Append(items, [id |-> Trial(Len(items)).id, failed |-> out.failed,
                                evaluations |-> Evaluations(out, kase, engine)])
  /\ Close
  /\ UNCHANGED <<request, ledger, exit>>

EndExperiment ==
  /\ Driving("dataset") /\ stage = "idle" /\ Len(items) = Trials
  /\ exit' = "ok"
  /\ UNCHANGED <<caseVars, request, items, ledger>>

\* aggregateCases: a case is one mean of its trials' scores, however many they are.
CaseItems(id) == {i \in DOMAIN items : items[i].id = id}
Mean(id) ==
  MapThenSumSet(LAMBDA i : items[i].score, CaseItems(id)) \div Cardinality(CaseItems(id))

Driver ==
  \/ Accept \/ StartTrial \/ EndTrial \/ EndBatch
  \/ TaskStarts \/ TaskEnds \/ EndExperiment

InCase == CaseNext /\ UNCHANGED driverVars
Waiting == DelayElapses /\ UNCHANGED driverVars

Next == Driver \/ InCase \/ Waiting

\* One process goes on with what it is doing; nobody waits for the retry delay.
Spec == Init /\ [][Next]_vars /\ WF_vars(Driver \/ InCase)

-----------------------------------------------------------------------------
(* Properties. *)

\* Items are a beginning of cases times repetitions, every one in the ledger; only the
\* batch stops early, and then it had reached its limit.
Accounted ==
  /\ request # None => Len(items) <= Trials /\ \A i \in DOMAIN items : items[i].id = Trial(i - 1).id
  /\ request # None /\ request.driver = "batch" =>
       /\ ledger.trials = Len(items)
       /\ request.limits = "enforce" => Len(items) <= request.maxTrials
       /\ \A id \in {items[i].id : i \in DOMAIN items} :
            Mean(id) > 0 => \E i \in DOMAIN items : items[i].id = id /\ items[i].hard = {}
  /\ exit = "ok" /\ ~ledger.stopped => Len(items) = Trials

\* Types, the nesting of the layers and the accounts of the driver together.
EvaluationInvariant == TypeOK /\ LayersNest /\ Accounted

\* A score above nought has been earned: every round of the case is recorded and ended
\* as its standard allows, with no material seen that failed its check, every citation
\* of every report is of saved evidence at the expected commit, and the evaluators of an
\* experiment would find the run whole, unless its standard is on rounds it has not.
ScoreIsEarned ==
  stage = "over" /\ failure = "none" /\ Score(results, kase.truth) > 0 =>
    /\ {results[i].round : i \in DOMAIN results} = DOMAIN kase.rounds
    /\ Planned(kase.truth) \subseteq DOMAIN kase.rounds =>
         RunIntegrity([failed |-> FALSE, rounds |-> results], kase.truth)
    /\ \A i \in DOMAIN results :
         /\ results[i].blocked => results[i].engineCalls = 0 /\ ~\E e \in Persisted : e.round = i
         /\ \A k \in results[i].cites : \E e \in ById(k.n) :
              /\ e.round <= i
              /\ \A u \in Round(kase, i).repos :
                   e.kind = "code" /\ e.repo = u.id => u.expected \in {NoSha, e.sha}

\* Whatever the cases and their engines do, the driver comes to an end.
ExperimentEnds == <>(exit # "running")
=============================================================================
