------------------------------ MODULE Diagnosis ------------------------------
(***************************************************************************)
(* One attempt at a run, executed inline (src/diagnosis/orchestrator.ts):  *)
(* the materials are prepared, the engine works with the toolbox, its      *)
(* draft is audited, sent back for more evidence while the auditor says so *)
(* (runDiagnosisLoop), validated, downgraded and published.  Heartbeat and *)
(* timeout abort the attempt beside it.                                    *)
(*                                                                         *)
(* Evidence is known by its run, its number there and the version of the   *)
(* code it shows; a draft by the status and the citations of its           *)
(* hypotheses and by what it says is missing.                              *)
(***************************************************************************)
EXTENDS SequencesExt

CONSTANTS
  Histories,         \* evidence an investigation may hold before the attempt
  Drafts,            \* reports the model may submit
  Audits,            \* audits the auditor may submit
  Configs,           \* config.diagnosis.audit: enabled, failBlocks, maxRounds
  Shas,              \* commits the repository may be pinned to
  OldShas,           \* commits it was pinned to before
  MaxToolCalls,      \* config.diagnosis.maxToolCalls
  MaxAuditRounds,    \* the largest maxRounds of Configs
  MaxDisturbances,   \* bound: cancels, timeouts and lost leases
  NoSha, None

ASSUME DiagnosisAssumption ==
  /\ {MaxToolCalls, MaxAuditRounds, MaxDisturbances} \subseteq Nat
  /\ NoSha \notin Shas \cup OldShas
  /\ Configs \subseteq [enabled : BOOLEAN, failBlocks : BOOLEAN, maxRounds : 0 .. MaxAuditRounds]

VARIABLES
  config,            \* config.diagnosis.audit
  pinned,            \* sha of scope.repos, NoSha without source code
  programMissing,    \* missingMaterial of the preparation is not empty
  evidence,          \* saved evidence of the investigation; a UID is a place
  phase,
  calls,             \* toolbox.toolCalls, which stops counting at the first call too many
  commits,           \* tool calls whose evidence was saved
  submitted,         \* the engine's draft, or None
  requested,         \* the engine asked the user
  rounds,            \* audits that were followed by a supplement
  result,            \* what the last engine run returned, or None
  audit,             \* the last audit, or None
  audited,           \* engine run whose draft it judged, from 1
  auditFailure,
  cancelAsked,       \* runs.cancel_requested
  owned,             \* the run is still this attempt's
  signals,           \* what aborted the attempt
  report,            \* the published report, or None
  outcome

configVars == <<config, pinned, programMissing>>
engineVars == <<evidence, calls, commits, submitted, requested>>
loopVars == <<rounds, result, audit, audited, auditFailure>>
outsideVars == <<cancelAsked, owned, signals>>
endVars == <<report, outcome>>
diagnosisVars == <<configVars, phase, engineVars, loopVars, outsideVars, endVars>>

Statuses == {"none", "supported", "candidate", "refuted"}
Missing == {"model", "program", "evidence", "audit", "degraded", "unreviewed"}
Verdicts == {"supported", "unsupported", "contradicted", "undecidable"}
Outcomes == {"running", "report", "reply", "rejected", "cancelled",
             "interrupted", "timeout", "failed", "budget_tools"}
Aborted == signals # {}

Evidence == [run : {"this", "earlier", "before"}, short : Nat \ {0}, sha : Shas \cup OldShas \cup {NoSha}]

Ids == DOMAIN evidence

\* What the engine returns for a run without a report.
Stub == [completeness |-> "partial", hypotheses |-> <<>>, missing |-> {"model"}]

Citation == [by : {"uid", "short"}, n : Nat]
Hypothesis == [status : Statuses, cites : SUBSET Citation]
Claim == [index : Int, verdict : Verdicts]

\* What the schemas of submit_report and submit_audit let through.
ASSUME SubmissionsAssumption ==
  /\ Drafts \subseteq [completeness : {"complete", "partial"}, hypotheses : Seq(Hypothesis),
                       missing : SUBSET Missing]
  /\ Audits \subseteq [claims : SUBSET Claim, missing : BOOLEAN, continue : BOOLEAN]
  /\ None \notin Drafts \cup Audits \cup [kind : {"report"}, draft : Drafts \cup {Stub}]
                 \cup [kind : {"reply"}]
  /\ Histories \subseteq Seq(Evidence)

LoopTypeOK ==
  /\ config \in Configs
  /\ pinned \in Shas \cup {NoSha}
  /\ programMissing \in BOOLEAN
  /\ evidence \in Seq(Evidence)
  /\ phase \in {"preparing", "diagnosing", "auditing", "committing", "ended"}
  /\ calls \in 0 .. MaxToolCalls + 1
  /\ commits \in Nat
  /\ submitted \in Drafts \cup {None}
  /\ requested \in BOOLEAN
  /\ rounds \in 0 .. MaxAuditRounds
  /\ result = None \/ result \in [kind : {"report"}, draft : Drafts \cup {Stub}]
                  \/ result \in [kind : {"reply"}]
  /\ audit \in Audits \cup {None}
  /\ audited \in 0 .. MaxAuditRounds + 1
  /\ auditFailure \in BOOLEAN
  /\ cancelAsked \in BOOLEAN /\ owned \in BOOLEAN
  /\ signals \subseteq {"cancel_requested", "lease_lost", "timed_out"}
  /\ report # None => /\ report.completeness \in {"complete", "partial"}
                      /\ report.missing \subseteq Missing
  /\ outcome \in Outcomes

LoopInit ==
  /\ config \in Configs
  /\ pinned = NoSha /\ programMissing = FALSE
  /\ evidence \in Histories
  /\ phase = "preparing"
  /\ calls = 0 /\ commits = 0
  /\ submitted = None /\ requested = FALSE
  /\ rounds = 0 /\ result = None
  /\ audit = None /\ audited = 0 /\ auditFailure = FALSE
  /\ cancelAsked = FALSE /\ owned = TRUE /\ signals = {}
  /\ report = None /\ outcome = "running"

-----------------------------------------------------------------------------
(* Beside the attempt.                                                     *)

Disturbances == Cardinality({f \in {"cancel", "lease", "timeout"} :
                  CASE f = "cancel" -> cancelAsked
                    [] f = "lease" -> ~owned
                    [] f = "timeout" -> "timed_out" \in signals})

\* The user cancels the run.
RequestCancel ==
  /\ outcome = "running" /\ ~cancelAsked /\ owned /\ Disturbances < MaxDisturbances
  /\ cancelAsked' = TRUE
  /\ UNCHANGED <<configVars, phase, engineVars, loopVars, owned, signals, endVars>>

\* Another process swept the lease.
LoseLease ==
  /\ outcome = "running" /\ owned /\ Disturbances < MaxDisturbances
  /\ owned' = FALSE
  /\ UNCHANGED <<configVars, phase, engineVars, loopVars, cancelAsked, signals, endVars>>

\* Neither runs between the last answer and the commit, which follow at once.
Awaiting == phase \in {"preparing", "diagnosing", "auditing"}

Heartbeat ==
  /\ Awaiting
  /\ signals' = signals \cup (IF cancelAsked THEN {"cancel_requested"} ELSE {})
                        \cup (IF owned THEN {} ELSE {"lease_lost"})
  /\ UNCHANGED <<configVars, phase, engineVars, loopVars, cancelAsked, owned, endVars>>

Timeout ==
  /\ Awaiting /\ "timed_out" \notin signals /\ Disturbances < MaxDisturbances
  /\ signals' = signals \cup {"timed_out"}
  /\ UNCHANGED <<configVars, phase, engineVars, loopVars, cancelAsked, owned, endVars>>

-----------------------------------------------------------------------------
(* The end of the attempt without a report.                                *)

\* The catch clause of executeRun.  What ends the run is its error unless the
\* attempt was aborted; exhausting the budget is told apart before that.
FailureOf(error) ==
  IF error = "budget" THEN "budget_tools"
  ELSE IF "cancel_requested" \in signals THEN "cancelled"
  ELSE IF "lease_lost" \in signals THEN "interrupted"
  ELSE IF "timed_out" \in signals THEN "timeout"
  ELSE "failed"

\* What the attempt held in memory is gone.
EndWith(error) ==
  /\ phase' = "ended"
  /\ submitted' = None /\ requested' = FALSE /\ result' = None
  /\ audit' = None /\ auditFailure' = FALSE
  /\ outcome' = IF owned THEN FailureOf(error) ELSE "rejected"
  /\ UNCHANGED <<config, pinned, programMissing, evidence, calls, commits, rounds,
                 audited, outsideVars, report>>

-----------------------------------------------------------------------------
(* Materials and tools.                                                    *)

\* prepareDiagnosis: the repository is pinned or left out, and what is unknown of
\* the occurrence or of the repositories is noted.
Prepare ==
  /\ phase = "preparing"
  /\ pinned' \in Shas \cup {NoSha}
  /\ programMissing' \in BOOLEAN
  /\ phase' = "diagnosing"
  /\ UNCHANGED <<config, engineVars, loopVars, outsideVars, endVars>>

PrepareFails ==
  /\ phase = "preparing"
  /\ EndWith("other")

\* Submitting a report or asking the user ends the session after the calls made
\* with it, which are as good as made before it.
Working == phase = "diagnosing" /\ submitted = None /\ ~requested

\* A broken toolbox that counts anew after a refusal.
Spend_Anew == calls' = IF calls > MaxToolCalls THEN 1 ELSE calls + 1

\* Toolbox.spend: every call counts, and one too many is an error.
Spend == calls' = IF calls > MaxToolCalls THEN calls ELSE calls + 1

InBudget == calls' <= MaxToolCalls

OfThisRun == {n \in Ids : evidence[n].run = "this"}

\* A tool asks its source, and what it finds is committed before the model sees it.
QueryFinds(sha) ==
  /\ Working
  /\ sha \in {NoSha, pinned}
  /\ Spend /\ InBudget
  /\ commits' = commits + 1
  /\ evidence' = Append(evidence, [run |-> "this", sha |-> sha,
                                   short |-> Cardinality(OfThisRun) + 1])
  /\ UNCHANGED <<configVars, phase, submitted, requested, loopVars, outsideVars, endVars>>

\* It finds nothing or fails, what it found is not saved, or the call is out of
\* the scope or the budget.
CallYieldsNothing ==
  /\ Working
  /\ Spend
  /\ UNCHANGED <<configVars, phase, evidence, commits, submitted, requested, loopVars, outsideVars, endVars>>

SubmitReport(d) ==
  /\ phase = "diagnosing" /\ submitted = None
  /\ submitted' = d
  /\ UNCHANGED <<configVars, phase, evidence, calls, commits, requested, loopVars, outsideVars, endVars>>

RequestInfo ==
  /\ phase = "diagnosing" /\ ~requested
  /\ requested' = TRUE
  /\ UNCHANGED <<configVars, phase, evidence, calls, commits, submitted, loopVars, outsideVars, endVars>>

-----------------------------------------------------------------------------
(* The loop: runDiagnosisLoop.                                             *)

\* It called no tool, so its last words may be the reply.
Chats == submitted = None /\ ~requested /\ calls = 0

Returned(chat) ==
  IF requested \/ chat THEN [kind |-> "reply"]
  ELSE [kind |-> "report", draft |-> IF submitted = None THEN Stub ELSE submitted]

\* A broken loop that audits only the first draft.
IsAudited_Once(r) == r.kind = "report" /\ config.enabled /\ audited = 0

IsAudited(r) == r.kind = "report" /\ config.enabled

EngineReturns(chat) ==
  /\ phase = "diagnosing" /\ ~Aborted
  /\ chat => Chats
  /\ result' = Returned(chat)
  /\ phase' = IF IsAudited(result') THEN "auditing" ELSE "committing"
  /\ UNCHANGED <<configVars, engineVars, rounds, audit, audited, auditFailure, outsideVars, endVars>>

\* The model fails, the attempt was aborted, or (the scripted engine) a tool threw.
EngineThrows(error) ==
  /\ phase = "diagnosing"
  /\ error = "budget" => calls > MaxToolCalls
  /\ EndWith(error)

ShouldSupplement(a) ==
  /\ rounds < config.maxRounds
  /\ calls < MaxToolCalls
  /\ a.continue /\ a.missing

\* The auditor judges the draft.  A supplement is another run of the engine, in
\* the same session and with the same toolbox.
AuditAnswers(a) ==
  /\ phase = "auditing" /\ ~Aborted
  /\ audit' = a /\ audited' = rounds + 1 /\ auditFailure' = FALSE
  /\ IF ShouldSupplement(a)
     THEN /\ rounds' = rounds + 1 /\ phase' = "diagnosing"
          /\ submitted' = None /\ requested' = FALSE /\ result' = None
     ELSE /\ phase' = "committing"
          /\ UNCHANGED <<rounds, submitted, requested, result>>
  /\ UNCHANGED <<configVars, evidence, calls, commits, outsideVars, endVars>>

\* A broken loop that goes on waiting for an auditor it aborted.
AuditFails_Unaborted ==
  /\ phase = "auditing" /\ ~config.failBlocks /\ ~Aborted
  /\ audit' = None /\ audited' = rounds + 1 /\ auditFailure' = TRUE
  /\ phase' = "committing"
  /\ UNCHANGED <<configVars, engineVars, rounds, result, outsideVars, endVars>>

\* It fails, submits nothing or is aborted, and that does not block the report.
AuditFails ==
  /\ phase = "auditing" /\ ~config.failBlocks
  /\ audit' = None /\ audited' = rounds + 1 /\ auditFailure' = TRUE
  /\ phase' = "committing"
  /\ UNCHANGED <<configVars, engineVars, rounds, result, outsideVars, endVars>>

AuditBlocks ==
  /\ phase = "auditing" /\ config.failBlocks
  /\ EndWith("other")

-----------------------------------------------------------------------------
(* The report: validateDraft, applyAudit, applyAuditFailure.               *)

\* A citation is a UID or a number, which is looked up in this run first and
\* elsewhere only if it is the only one there.
Cited(c) ==
  IF c.by = "uid" THEN {n \in Ids : n = c.n}
  ELSE LET mine == {n \in OfThisRun : evidence[n].short = c.n}
           others == {n \in Ids : evidence[n].short = c.n}
       IN IF mine # {} THEN mine
          ELSE IF Cardinality(others) = 1 THEN others ELSE {}

OtherVersion(n) == evidence[n].sha \notin {NoSha, pinned}

\* By number, evidence of this run must show the version of this attempt.
Accepted(c) == IF c.by = "short"
               THEN {n \in Cited(c) : ~(n \in OfThisRun /\ OtherVersion(n))}
               ELSE Cited(c)

Support(h) == UNION {Accepted(c) : c \in h.cites}

\* Code, and none of it of this attempt's version.
Outdated(ids) ==
  LET code == {n \in ids : evidence[n].sha # NoSha}
  IN code # {} /\ \A n \in code : OtherVersion(n)

Validated(h) ==
  [status |-> IF Support(h) = {} THEN "candidate"
              ELSE IF h.status \in {"none", "supported"}
              THEN IF Outdated(Support(h)) THEN "candidate" ELSE "supported"
              ELSE h.status,
   evidence |-> Support(h)]

ValidateDraft(d, missing) ==
  LET hypotheses == [i \in DOMAIN d.hypotheses |-> Validated(d.hypotheses[i])]
      bare == d.hypotheses # <<>> /\ \A i \in DOMAIN hypotheses : hypotheses[i].evidence = {}
      forced == d.completeness = "complete"
  IN [completeness |-> IF forced /\ missing = {} /\ ~bare THEN "complete" ELSE "partial",
      hypotheses |-> hypotheses,
      missing |-> missing \cup (IF forced /\ bare THEN {"evidence"} ELSE {})]

ClaimsOf(a, i) == {v \in Verdicts : [index |-> i, verdict |-> v] \in a.claims}
Adverse == {"unsupported", "contradicted", "undecidable"}

\* A status after the auditor's verdicts: they only lower it.
Judged(status, verdicts) ==
  IF "contradicted" \in verdicts THEN "refuted"
  ELSE IF status = "supported" /\ verdicts \cap Adverse # {} THEN "candidate"
  ELSE status

ApplyAudit(r, a) ==
  LET degraded == \E i \in DOMAIN r.hypotheses :
                    r.hypotheses[i].status = "supported" /\ ClaimsOf(a, i) \cap Adverse # {}
      missing == r.missing \cup (IF a.missing THEN {"audit"} ELSE {})
                           \cup (IF degraded THEN {"degraded"} ELSE {})
  IN [completeness |-> IF missing # {} THEN "partial" ELSE r.completeness,
      hypotheses |-> [i \in DOMAIN r.hypotheses |->
                        [r.hypotheses[i] EXCEPT !.status = Judged(@, ClaimsOf(a, i))]],
      missing |-> missing]

ApplyAuditFailure(r) ==
  [r EXCEPT !.completeness = "partial", !.missing = @ \cup {"unreviewed"}]

\* A broken commit that loses what the preparation found missing.
Report_OfModel ==
  LET valid == ValidateDraft(result.draft, result.draft.missing)
      reviewed == IF audit = None THEN valid ELSE ApplyAudit(valid, audit)
  IN IF auditFailure THEN ApplyAuditFailure(reviewed) ELSE reviewed

Report ==
  LET valid == ValidateDraft(result.draft, result.draft.missing \cup
                                           (IF programMissing THEN {"program"} ELSE {}))
      reviewed == IF audit = None THEN valid ELSE ApplyAudit(valid, audit)
  IN IF auditFailure THEN ApplyAuditFailure(reviewed) ELSE reviewed

\* finalizeEngineResult: saved if the run is still this attempt's.
Finalize ==
  /\ phase = "committing" /\ phase' = "ended"
  /\ outcome' = IF ~owned THEN "rejected" ELSE result.kind
  /\ report' = IF owned /\ result.kind = "report" THEN Report ELSE None
  /\ UNCHANGED <<configVars, engineVars, loopVars, outsideVars>>

-----------------------------------------------------------------------------
Ends ==
  \/ PrepareFails
  \/ \E chat \in BOOLEAN : EngineReturns(chat)
  \/ \E error \in {"budget", "other"} : EngineThrows(error)
  \/ \E a \in Audits : AuditAnswers(a)
  \/ AuditFails \/ AuditBlocks
  \/ Finalize

LoopNext ==
  \/ RequestCancel \/ LoseLease \/ Heartbeat \/ Timeout
  \/ Prepare
  \/ \E sha \in Shas \cup {NoSha} : QueryFinds(sha)
  \/ CallYieldsNothing
  \/ \E d \in Drafts : SubmitReport(d)
  \/ RequestInfo
  \/ Ends

\* Preparing ends by itself, an aborted session ends, and the loop goes on.
LoopFairness ==
  /\ WF_diagnosisVars(Prepare)
  /\ WF_diagnosisVars(Ends)

LoopSpec == LoopInit /\ [][LoopNext]_diagnosisVars /\ LoopFairness

-----------------------------------------------------------------------------
(* Properties.                                                             *)

\* The types, and what the loop counts: no more tool calls that yield evidence than
\* the budget allows, whatever the number of engine runs that share it; no more supplements than
\* configured; an audit for each of them and one more for the last draft
\* (toolbox.ts, diagnosis-loop.ts).
DiagnosisInvariant ==
  /\ LoopTypeOK
  /\ commits <= calls /\ commits <= MaxToolCalls
  /\ rounds <= config.maxRounds
  /\ audited \in {rounds, rounds + 1}
  /\ phase = "auditing" => audited = rounds

Published == report # None
Draft == result.draft

\* What is published as supported was not claimed to be less, rests on saved
\* evidence of the investigation, of which some shows the version of this attempt
\* if it shows code at all, and no verdict of the audit of this very draft is
\* against it (validate.ts, audit.ts).
SupportedIsSubstantiated ==
  Published => \A i \in DOMAIN report.hypotheses :
    report.hypotheses[i].status = "supported" =>
      LET ids == report.hypotheses[i].evidence IN
      /\ Draft.hypotheses[i].status \in {"none", "supported"}
      /\ ids # {} /\ ids \subseteq Ids
      /\ (\E n \in ids : evidence[n].sha = pinned) \/ (\A n \in ids : evidence[n].sha = NoSha)
      /\ config.enabled /\ ~auditFailure =>
           audit # None /\ audited = rounds + 1
           /\ \A c \in audit.claims : c.index = i => c.verdict = "supported"

\* What the audit of this draft contradicts is published as refuted, whatever the
\* draft called it (applyAudit).
ContradictedIsRefuted ==
  Published /\ audit # None => \A i \in DOMAIN report.hypotheses :
    [index |-> i, verdict |-> "contradicted"] \in audit.claims =>
      report.hypotheses[i].status = "refuted"

\* The status under which a hypothesis is published is one that evidence and audit of
\* this draft carry.
StatusIsEarned == SupportedIsSubstantiated /\ ContradictedIsRefuted

\* A report is complete only if model and program miss nothing, the audit asks for
\* nothing and lowered no status, an audit there should have been was there, and a
\* hypothesis has evidence if there is one (finalizeEngineResult).
CompleteIsWhole ==
  Published /\ report.completeness = "complete" =>
    /\ Draft.completeness = "complete" /\ Draft.missing = {} /\ ~programMissing
    /\ config.enabled => audit # None /\ audited = rounds + 1 /\ ~audit.missing
    /\ Draft.hypotheses = <<>> \/ \E i \in DOMAIN report.hypotheses : report.hypotheses[i].evidence # {}
    /\ \A i \in DOMAIN report.hypotheses :
         report.hypotheses[i].status # "supported" =>
           ~(Draft.hypotheses[i].status = "supported" /\ audit # None
             /\ ClaimsOf(audit, i) \cap Adverse # {} /\ Validated(Draft.hypotheses[i]).status = "supported")

\* An attempt ends.
AttemptEnds == <>(phase = "ended")
=============================================================================
