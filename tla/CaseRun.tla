------------------------------ MODULE CaseRun ------------------------------
(***************************************************************************)
(* One evaluation case carried out (src/eval/lf/run-case.ts): every round  *)
(* of its script goes the way a message goes in production, routed, a run  *)
(* claimed and executed, its deliveries sent, on an investigation the      *)
(* rounds share; the round's own material is what the execution may read,  *)
(* checked before the engine starts.  What came of it is recorded.         *)
(*                                                                         *)
(* The queue is the one of RunQueue for one conversation and one worker,   *)
(* the execution the one of Diagnosis, both cut down to what a round sees  *)
(* of them.                                                                *)
(***************************************************************************)
EXTENDS CaseGrading

CONSTANTS
  MaxAttempts,       \* runs.max_attempts
  MaxAuditRounds,    \* config.diagnosis.audit.maxRounds, 0 without an audit
  MaxCalls,          \* bound: tool calls of a case
  MaxCites           \* bound: citations of a model's report

ASSUME CaseRunAssumption ==
  /\ MaxAttempts \in Nat \ {0}
  /\ {MaxAuditRounds, MaxCalls, MaxCites} \subseteq Nat

\* What an engine answers, the numbers it cites included.
Draft == [kind : Kinds, says : {"nothing", "facts", "forbidden"}, cites : SUBSET Nat]

ASSUME NoneAssumption == None \notin Draft

VARIABLES
  kase,              \* the loaded case, or None
  engine,            \* "pi" or "scripted"
  stage,
  round,             \* the loop's r, from 1
  runs,              \* rows of runs: status, attempts, due (available_at has passed)
  claimed,           \* claimed.run, by its place in runs; 0 before the first
  took,              \* how many results of the engine were captured in this round
  draft,             \* the last of them, or None
  made,              \* tool calls of the engine run under way
  calls,             \* tool calls of the investigation, with what each showed and saved
  page,              \* this round's recording log source
  source,            \* sourceCalls, of the rounds recorded
  checks,            \* scopeChecks of this round
  reports,           \* saved report of each run, or None
  owed,              \* deliveries enqueued and not sent
  step,              \* first step of the script not consumed
  results,           \* result.rounds
  failure            \* what ended the case, or "none"

roundVars == <<took, draft, made, page, checks>>
caseVars == <<kase, engine, stage, round, runs, claimed, roundVars, calls, source,
              reports, owed, step, results, failure>>

Stages == {"idle", "routing", "preparing", "diagnosing", "answered", "settled", "over"}
Unasked == [queried |-> FALSE, keys |-> {}]

Persisted == UNION {calls[i].batch : i \in DOMAIN calls}
ById(n) == {e \in Persisted : e.n = n}

TypeOK ==
  /\ stage \in Stages /\ engine \in {"pi", "scripted"}
  /\ stage \notin {"idle", "over"} => round \in DOMAIN kase.rounds
  /\ \A i \in DOMAIN runs : /\ runs[i].status \in {"queued", "running", "succeeded", "failed"}
                            /\ runs[i].attempts \in 0 .. MaxAttempts /\ runs[i].due \in BOOLEAN
  /\ claimed \in 0 .. Len(runs) /\ Len(reports) = Len(runs)
  /\ Len(calls) \in 0 .. MaxCalls /\ made \in 0 .. MaxCalls
  /\ \A n \in 1 .. Cardinality(Persisted) : Cardinality(ById(n)) = 1
  /\ took \in 0 .. MaxAuditRounds + 1 /\ draft \in Draft \cup {None} /\ (took = 0 <=> draft = None)
  /\ \A i \in DOMAIN results : results[i].round = i /\ results[i].outcome \in Outcomes
  /\ failure \in {"none", "refused", "leaks", "short", "truth", "inbound", "claim"}

CaseInit ==
  /\ kase = None /\ engine \in {"pi", "scripted"} /\ stage = "idle" /\ round = 1
  /\ runs = <<>> /\ claimed = 0 /\ took = 0 /\ draft = None /\ made = 0 /\ calls = <<>>
  /\ page = Unasked /\ source = Unasked /\ checks = {} /\ reports = <<>> /\ owed = <<>>
  /\ step = 1 /\ results = <<>> /\ failure = "none"

-----------------------------------------------------------------------------
(* A case begins, with a database of its own, and may fail. *)

\* A database in memory, an engine and a script of its own.
Anew(c) ==
  /\ kase' = c /\ round' = 1 /\ runs' = <<>> /\ claimed' = 0 /\ took' = 0 /\ draft' = None /\ made' = 0
  /\ calls' = <<>> /\ page' = Unasked /\ source' = Unasked /\ checks' = {} /\ reports' = <<>>
  /\ owed' = <<>> /\ step' = 1 /\ results' = <<>>
  /\ UNCHANGED engine

\* runCase up to its loop.
Open(c) ==
  /\ Anew(c)
  /\ stage' = IF Loaded(c) = "ok" THEN "routing" ELSE "over"
  /\ failure' = IF Loaded(c) = "ok" THEN "none" ELSE Loaded(c)

\* Nothing of a case is left when runCase returns but its result.
Close == Anew(None) /\ stage' = "idle" /\ failure' = "none"

\* An error outside the execution of a run ends the case.
Throw(reason) ==
  /\ failure' = reason
  /\ stage' = "over"

-----------------------------------------------------------------------------
(* The loop's body up to the claim. *)

\* What claimNextRun may hand out of one conversation: its first unsettled run, when
\* that is queued and due.
Claimable(rs) ==
  LET open == {i \in DOMAIN rs : rs[i].status \notin {"succeeded", "failed"}}
  IN {i \in open : (\A j \in open : i <= j) /\ rs[i].status = "queued" /\ rs[i].due}

\* The message is routed, which creates a run, and a run is claimed: the first, and
\* not by its name.
BeginRound ==
  LET rs == Append(runs, [status |-> "queued", attempts |-> 0, due |-> TRUE]) IN
  /\ stage = "routing"
  /\ \/ /\ TruthOf(kase.truth, round) = {}
        /\ Throw("truth")
        /\ UNCHANGED <<runs, reports, claimed, roundVars>>
     \/ /\ TruthOf(kase.truth, round) # {} /\ ~Round(kase, round).accepted
        /\ Throw("inbound")
        /\ UNCHANGED <<runs, reports, claimed, roundVars>>
     \/ /\ TruthOf(kase.truth, round) # {} /\ Round(kase, round).accepted
        /\ Claimable(rs) = {}
        /\ Throw("claim")
        /\ runs' = rs /\ reports' = Append(reports, None)
        /\ UNCHANGED <<claimed, roundVars>>
     \/ /\ TruthOf(kase.truth, round) # {} /\ Round(kase, round).accepted
        /\ \E i \in Claimable(rs) :
             /\ claimed' = i
             /\ runs' = [rs EXCEPT ![i].status = "running", ![i].attempts = @ + 1]
        /\ reports' = Append(reports, None)
        /\ took' = 0 /\ draft' = None /\ made' = 0 /\ page' = Unasked /\ checks' = {}
        /\ stage' = "preparing"
        /\ UNCHANGED failure
  /\ UNCHANGED <<kase, engine, round, calls, source, owed, step, results>>

\* retryDelayMs passes.
DelayElapses ==
  /\ stage \notin {"idle", "over"}
  /\ \E i \in DOMAIN runs :
       /\ runs[i].status = "queued" /\ ~runs[i].due
       /\ runs' = [runs EXCEPT ![i].due = TRUE]
  /\ UNCHANGED <<kase, engine, stage, round, claimed, roundVars, calls, source, reports,
                 owed, step, results, failure>>

-----------------------------------------------------------------------------
(* The execution (executeRun). *)

\* failRun: back into the queue while the error may pass and attempts are left, or
\* failed with a notice.
Fail(retryable) ==
  LET again == retryable /\ runs[claimed].attempts < MaxAttempts IN
  /\ runs' = [runs EXCEPT ![claimed].status = IF again THEN "queued" ELSE "failed",
                          ![claimed].due = FALSE]
  /\ owed' = IF again THEN owed ELSE Append(owed, "notice")
  /\ stage' = "settled"

\* onPrepared: the scope is compared and the resolved trees are scanned before the
\* engine starts.  A block is an error of the execution like others: its code is read
\* off a message that quotes two commits, so any may come of it.
Prepare ==
  /\ stage = "preparing"
  /\ checks' = ScopeChecks(kase, round)
  /\ \/ /\ Passed(checks')
        /\ stage' = "diagnosing"
        /\ UNCHANGED <<runs, owed>>
     \/ /\ ~Passed(checks')
        /\ \E retryable \in BOOLEAN : Fail(retryable)
  /\ UNCHANGED <<kase, engine, round, claimed, took, draft, made, calls, page, source, reports,
                 step, results, failure>>

\* The files a tool may look into: logs of the round's directory, and the tree of each
\* repository at the commit in scope.
Sources ==
  {[kind |-> "log", repo |-> "", sha |-> NoSha, files |-> Round(kase, round).view]}
  \cup {[kind |-> "code", repo |-> u.id, sha |-> u.resolved, files |-> kase.repos[u.id].trees[u.resolved]]
          : u \in Round(kase, round).repos}

Wanted == IF engine = "scripted" /\ step <= Len(kase.script) THEN kase.script[step].reads ELSE <<>>

\* Evidence of the files that hold the key, numbered on from what is saved.
BatchOf(s, key) ==
  LET hits == SetToSeq({f \in s.files : f.key = key})
      n == Cardinality(Persisted)
  IN {[n |-> n + i, kind |-> s.kind, key |-> key, repo |-> s.repo, sha |-> s.sha,
       round |-> round, run |-> claimed, file |-> hits[i]] : i \in DOMAIN hits}

\* A tool call: the source answers, the evidence is saved and the text shows it or,
\* cut to its budget, does not; or the call fails after the source has answered, and
\* its text may still repeat what was asked.  Only logs are asked for what they lack,
\* which of code tells nothing.
ReadTool ==
  /\ stage = "diagnosing" /\ Len(calls) < MaxCalls
  /\ \E s \in Sources, key \in {f.key : f \in UNION {t.files : t \in Sources}} :
       LET batch == BatchOf(s, key) IN
       /\ engine = "scripted" => made < Len(Wanted) /\ key = Wanted[made + 1]
       /\ s.kind = "log" \/ batch # {}
       /\ \E text \in {{}, {key}}, ok \in BOOLEAN :
            /\ IF ok THEN batch = {} => text = {} ELSE engine = "pi" /\ text # {}
            /\ calls' = Append(calls, [round |-> round, run |-> claimed, text |-> text, error |-> ~ok,
                                       batch |-> IF ok THEN batch ELSE {}])
       /\ page' = IF s.kind = "code" THEN page
                  ELSE [queried |-> TRUE, keys |-> page.keys \cup {e.key : e \in batch}]
  /\ made' = made + 1
  /\ UNCHANGED <<kase, engine, stage, round, runs, claimed, took, draft, source, checks, reports,
                 owed, step, results, failure>>

\* What the script makes of a step: it cites all its tools showed.
ScriptDraft ==
  LET shown == UNION {calls[i].batch : i \in {j \in DOMAIN calls : j > Len(calls) - made /\ calls[j].text # {}}}
      s == kase.script[step]
  IN [kind |-> s.kind, says |-> s.says, cites |-> IF s.kind = "report" THEN {e.n : e \in shown} ELSE {}]

Stub == [kind |-> "report", says |-> "nothing", cites |-> {}]

\* What a model may answer: it cites what it will, a number nobody has seen included.
Drafts ==
  [kind : {"report"}, says : {"nothing", "facts"},
   cites : {ns \in SUBSET ({0} \cup {e.n : e \in Persisted}) : Cardinality(ns) <= MaxCites}]
  \cup [kind : {"report"}, says : {"forbidden"}, cites : {{}}]
  \cup [kind : {"clarify", "chat"}, says : {"nothing"}, cites : {{}}]

\* CapturingEngine: a result is captured, a failure is not.  A supplement consumes a
\* step of the script, which the rounds share.
EngineAnswers ==
  /\ stage = "diagnosing"
  /\ \/ /\ engine = "pi"
        /\ draft' \in Drafts
        /\ UNCHANGED step
     \/ /\ engine = "scripted" /\ made >= Len(Wanted)
        /\ draft' = IF step <= Len(kase.script) THEN ScriptDraft ELSE Stub
        /\ step' = step + 1
  /\ took' = took + 1
  /\ stage' = "answered"
  /\ UNCHANGED <<kase, engine, round, runs, claimed, made, calls, page, source, checks,
                 reports, owed, results, failure>>

\* The auditor asks for more evidence and the engine runs again.
Supplement ==
  /\ stage = "answered"
  /\ draft.kind = "report" /\ took <= MaxAuditRounds
  /\ stage' = "diagnosing" /\ made' = 0
  /\ UNCHANGED <<kase, engine, round, runs, claimed, took, draft, calls, page, source, checks,
                 reports, owed, step, results, failure>>

\* The report keeps the citations that resolve; an answer goes out.
Finalize ==
  /\ stage = "answered"
  /\ runs' = [runs EXCEPT ![claimed].status = "succeeded"]
  /\ reports' = IF draft.kind # "report" THEN reports
                ELSE [reports EXCEPT ![claimed] =
                        [draft EXCEPT !.cites = {n \in @ : ById(n) # {}}]]
  /\ owed' = Append(owed, "answer")
  /\ stage' = "settled"
  /\ UNCHANGED <<kase, engine, round, claimed, roundVars, calls, source, step, results, failure>>

\* Any other end of executeRun, which throws nothing of its own.
ExecutionFails ==
  /\ stage \in {"preparing", "diagnosing", "answered"}
  /\ \E retryable \in BOOLEAN : Fail(retryable)
  /\ UNCHANGED <<kase, engine, round, claimed, roundVars, calls, source, reports, step,
                 results, failure>>

-----------------------------------------------------------------------------
(* The loop's body after the execution. *)

\* recordCitations, of the saved report: a piece of evidence at another commit than the
\* round expects is at a wrong one.  (The first draft's are recorded too, and judged by
\* nobody.)
Citation(n) ==
  [n |-> n, resolved |-> ById(n) # {},
   wrongSha |-> \E e \in ById(n), u \in Round(kase, round).repos :
                  e.kind = "code" /\ e.repo = u.id /\ u.expected \notin {NoSha, e.sha}]

Citations == {Citation(n) : n \in IF reports[claimed] = None THEN {} ELSE reports[claimed].cites}

\* The layers as they stand when the round is recorded, over all rounds so far.
Context(src) ==
  [queried |-> src.queried, returned |-> src.keys, persisted |-> Persisted, calls |-> ToSet(calls),
   cited |-> {e \in Persisted : reports[claimed] # None /\ e.n \in reports[claimed].cites}]

Blocked == ~Passed(checks)

\* The deliveries are drained, which here never fails, and the round's record is kept.
RecordRound ==
  LET src == [queried |-> source.queried \/ page.queried, keys |-> source.keys \cup page.keys] IN
  /\ stage = "settled"
  /\ results' = Append(results,
       [round |-> round, run |-> claimed, status |-> runs[claimed].status, blocked |-> Blocked,
        outcome |-> IF Blocked THEN "blocked"
                    ELSE IF runs[claimed].status = "succeeded" THEN OutcomeOf(draft) ELSE "error",
        engineCalls |-> took, report |-> reports[claimed] # None,
        says |-> IF reports[claimed] = None THEN "nothing" ELSE reports[claimed].says,
        written |-> owed # <<>>, cites |-> Citations, checks |-> checks,
        sat |-> Satisfaction(kase.truth, round, Context(src))])
  /\ owed' = <<>>
  /\ source' = src
  /\ stage' = IF round = Len(kase.rounds) THEN "over" ELSE "routing"
  /\ round' = IF round = Len(kase.rounds) THEN round ELSE round + 1
  /\ UNCHANGED <<kase, engine, runs, claimed, roundVars, calls, reports, step, failure>>

CaseNext ==
  \/ BeginRound \/ Prepare \/ ReadTool \/ EngineAnswers \/ Supplement
  \/ Finalize \/ ExecutionFails \/ RecordRound

-----------------------------------------------------------------------------
(* What one case must keep to. *)

\* (Of a requirement that mixes logs and code A may say no, one of its log
\* alternatives being missing, where B says yes.)
LogOnly(id) ==
  \A n \in Needs(kase.truth) : n.id = id => \A l \in Named(n) : kase.truth.locators[l].kind = "log"

\* A layer holds no more than the one it is drawn from: what the model was shown or
\* has cited was saved, what was saved of logs the source had returned.
LayersNest ==
  \A i \in DOMAIN results : \A s \in results[i].sat :
    /\ s.at["C1"] = "yes" => s.at["B"] = "yes"
    /\ s.at["D"] = "yes" => s.at["B"] = "yes"
    /\ s.at["B"] = "yes" /\ LogOnly(s.id) => s.at["A"] = "yes"

\* Nothing a round saves as evidence comes from a later round's material or message, or
\* from the private standard, whatever the two share a disk, a repository or a text.
NothingFromTheFuture ==
  \A e \in Persisted :
    LET later == {s \in DOMAIN kase.rounds : s > e.round} IN
    /\ \A s \in e.file.says \cap later : Round(kase, s).terse
    /\ ~e.file.answer
    /\ e.kind = "log" =>
         e.file.ino \notin kase.private.inodes
                           \cup UNION {{f.ino : f \in Round(kase, s).view} : s \in later}
=============================================================================
