--------------------------- MODULE ExecutionProofs ---------------------------
(***************************************************************************)
(* Machine-checked theorems about one execution of a run: how the Host and *)
(* the Runner it supervises end it (RunnerSession), what the loop inside   *)
(* it publishes (Diagnosis), and the trace it leaves (Recorder).           *)
(***************************************************************************)
EXTENDS RunnerSession, Diagnosis, Recorder, OrderingProofs, SequenceTheorems, TLAPS

USE RunnerSessionAssumption, DiagnosisAssumption, SubmissionsAssumption, RecorderAssumption

-----------------------------------------------------------------------------
(* The session: whatever the Host and the child do and in whatever order   *)
(* exit and output are seen, an execution ends in a way its signals justify. *)

\* Reading takes the oldest line and changes no other.
LEMMA ReadEffect ==
  ASSUME TypeOK, NEW line, Read(line)
  PROVE  /\ output' \in Seq(Line) /\ Len(output') <= PipeSize
         /\ SaysAborted' => SaysAborted
         /\ line = "aborted" => SaysAborted
<1>1. /\ output \in Seq(Line) /\ output # <<>> /\ Len(output) \in Nat
      /\ Len(output) <= PipeSize
      /\ output' = Tail(output) /\ Head(output) = line
  BY LenProperties DEF TypeOK, Read
<1>2. /\ output' \in Seq(Line) /\ Len(output') = Len(output) - 1
      /\ \A i \in 1 .. Len(output') : output'[i] = output[i + 1]
  BY <1>1, HeadTailProperties
<1>3. Len(output) >= 1 /\ output[1] = line
  BY <1>1, EmptySeq
<1>4. SaysAborted' => SaysAborted
  <2> SUFFICES ASSUME NEW i \in 1 .. Len(output'), output'[i] = "aborted"
               PROVE  \E j \in 1 .. Len(output) : output[j] = "aborted"
    BY DEF SaysAborted
  <2>1. i + 1 \in 1 .. Len(output) /\ output[i + 1] = "aborted"
    BY <1>1, <1>2
  <2> QED BY <2>1
<1> QED BY <1>1, <1>2, <1>3, <1>4 DEF SaysAborted

\* Writing adds a line at the end.
LEMMA WriteEffect ==
  ASSUME TypeOK, NEW line \in Line, Write(line)
  PROVE  /\ output' \in Seq(Line) /\ Len(output') <= PipeSize
         /\ SaysAborted' => SaysAborted \/ line = "aborted"
<1>1. /\ output \in Seq(Line) /\ Len(output) \in Nat
      /\ Len(output) < PipeSize /\ output' = Append(output, line)
  BY LenProperties DEF TypeOK, Write
<1>2. /\ output' \in Seq(Line) /\ Len(output') = Len(output) + 1
      /\ \A i \in 1 .. Len(output) : output'[i] = output[i]
      /\ output'[Len(output) + 1] = line
  BY <1>1, AppendProperties
<1>3. SaysAborted' => SaysAborted \/ line = "aborted"
  <2> SUFFICES ASSUME NEW i \in 1 .. Len(output'), output'[i] = "aborted"
               PROVE  SaysAborted \/ line = "aborted"
    BY DEF SaysAborted
  <2>1. i \in 1 .. Len(output) \/ i = Len(output) + 1
    BY <1>1, <1>2
  <2> QED BY <2>1, <1>2 DEF SaysAborted
<1> QED BY <1>1, <1>2, <1>3

LEMMA InitInvariant == Init => SessionInvariant
<1> SUFFICES ASSUME Init PROVE SessionInvariant OBVIOUS
<1>1. output \in Seq(Line) /\ Len(output) = 0 /\ Len(output) <= PipeSize
  BY EmptySeq DEF Init
<1>2. TypeOK BY <1>1, Zenon DEF Init, TypeOK, RowState
<1>3. ~SaysAborted BY <1>1 DEF SaysAborted
<1> QED BY <1>2, <1>3 DEF Init, SessionInvariant, NotForgotten, AbortIsSignalled

\* A settling transaction writes an outcome into an open row and nothing else.
LEMMA DecideEffect ==
  ASSUME TypeOK, NEW o \in RowState \ {"open"}, Decide(o)
  PROVE  row' \in RowState /\ row' # "open"
BY DEF TypeOK, Decide

LEMMA OutcomeTypes ==
  /\ ErrorOutcome \subseteq RowState \ {"open"}
  /\ ExitOutcome \in RowState \ {"open"}
  /\ {"succeeded", "cancelled", "runtime_error"} \subseteq RowState \ {"open"}
BY DEF ErrorOutcome, ExitOutcome, RowState, RunErrorCode, Classified

\* Steps that leave the child's output alone.
LEMMA QuietStep ==
  ASSUME SessionInvariant,
         \/ HeartbeatTick \/ TimeLimit \/ GraceEnds \/ HostKilled
         \/ ChildDies \/ CancelArrives \/ StdinCloses
         \/ UserCancels \/ Recovered
  PROVE  SessionInvariant'
<1> USE DEF SessionInvariant, TypeOK, NotForgotten, AbortIsSignalled,
            SaysAborted, hostVars, childVars
<1>1. CASE HeartbeatTick
  BY <1>1 DEF HeartbeatTick, Tell, Signal
<1>2. CASE TimeLimit
  BY <1>2 DEF TimeLimit, Tell, Signal
<1>3. CASE GraceEnds
  BY <1>3 DEF GraceEnds, Done
<1>4. CASE HostKilled
  BY <1>4 DEF HostKilled
<1>5. CASE ChildDies
  BY <1>5 DEF ChildDies
<1>6. CASE CancelArrives
  BY <1>6 DEF CancelArrives
<1>7. CASE StdinCloses
  BY <1>7 DEF StdinCloses
<1>8. CASE UserCancels
  BY <1>8 DEF UserCancels
<1>9. CASE Recovered
  BY <1>9 DEF Recovered, RowState
<1> QED BY <1>1, <1>2, <1>3, <1>4, <1>5, <1>6, <1>7, <1>8, <1>9

\* The end of the child process, seen as an event.
LEMMA ExitStep ==
  ASSUME SessionInvariant, ExitEvent \/ SpawnFails
  PROVE  SessionInvariant'
<1>1. row' \in RowState /\ (~resultSeen => row' # "open")
  BY DecideEffect, OutcomeTypes
     DEF ExitEvent, SpawnFails, SessionInvariant, TypeOK
<1>2. TypeOK'
  BY <1>1 DEF ExitEvent, SpawnFails, Done, SessionInvariant, TypeOK
<1>3. NotForgotten' /\ settled'
  BY <1>1 DEF ExitEvent, SpawnFails, Done, NotForgotten
<1>4. AbortIsSignalled'
  BY DEF ExitEvent, SpawnFails, Done, SessionInvariant, AbortIsSignalled,
         SaysAborted
<1> QED BY <1>2, <1>3, <1>4 DEF SessionInvariant

\* Lines that end the execution.
LEMMA ConcludesStep ==
  ASSUME SessionInvariant, NEW line, NEW outcomes,
         outcomes \subseteq RowState \ {"open"}, Concludes(line, outcomes)
  PROVE  SessionInvariant'
<1>1. /\ output' \in Seq(Line) /\ Len(output') <= PipeSize
      /\ SaysAborted' => SaysAborted
  BY ReadEffect DEF Concludes, SessionInvariant
<1>2. row' \in RowState
  BY DecideEffect DEF Concludes, SessionInvariant, TypeOK
<1>3. TypeOK'
  BY <1>1, <1>2 DEF Concludes, Done, SessionInvariant, TypeOK
<1>4. NotForgotten' /\ (exitSeen' => settled')
  BY DEF Concludes, Done, NotForgotten
<1>5. AbortIsSignalled'
  BY <1>1 DEF Concludes, Done, SessionInvariant, AbortIsSignalled
<1> QED BY <1>3, <1>4, <1>5 DEF SessionInvariant

LEMMA ReadStep ==
  ASSUME SessionInvariant, ReadOutput
  PROVE  SessionInvariant'
<1>1. CASE ReadStale \/ ReadResult \/ ReadError \/ ReadAborted
  <2>1. CASE ReadStale BY <2>1, ConcludesStep, OutcomeTypes DEF ReadStale
  <2>2. CASE ReadResult BY <2>2, ConcludesStep, OutcomeTypes DEF ReadResult
  <2>3. CASE ReadError BY <2>3, ConcludesStep, OutcomeTypes DEF ReadError
  <2>4. CASE ReadAborted BY <2>4, ConcludesStep, OutcomeTypes DEF ReadAborted
  <2> QED BY <1>1, <2>1, <2>2, <2>3, <2>4
<1>2. CASE ReadNoise
  <2>1. /\ output' \in Seq(Line) /\ Len(output') <= PipeSize
        /\ SaysAborted' => SaysAborted
    BY <1>2, ReadEffect DEF ReadNoise, SessionInvariant
  <2>2. row' \in RowState
    BY <1>2, DecideEffect, OutcomeTypes DEF ReadNoise, SessionInvariant, TypeOK
  <2>3. TypeOK'
    BY <1>2, <2>1, <2>2 DEF ReadNoise, Done, SessionInvariant, TypeOK
  <2>4. NotForgotten' /\ (exitSeen' => settled')
    BY <1>2 DEF ReadNoise, Done, NotForgotten
  <2>5. AbortIsSignalled'
    BY <1>2, <2>1 DEF ReadNoise, Done, SessionInvariant, AbortIsSignalled
  <2> QED BY <2>3, <2>4, <2>5 DEF SessionInvariant
<1>3. CASE ReadReady \/ ReadNote \/ ReadCommit
  <2>1. /\ output' \in Seq(Line) /\ Len(output') <= PipeSize
        /\ SaysAborted' => SaysAborted
    BY <1>3, ReadEffect DEF ReadReady, ReadNote, ReadCommit, SessionInvariant
  <2>2. /\ UNCHANGED <<row, cancelRequested, flags, resultSeen, settled, timer,
                       exitSeen, child, aborted>>
        /\ host' \in {host, "crashed"} /\ cancelSent' = cancelSent
    BY <1>3 DEF ReadReady, ReadNote, ReadCommit, Tell, hostVars,
                SessionInvariant, TypeOK
  <2>3. TypeOK'
    BY <2>1, <2>2 DEF SessionInvariant, TypeOK
  <2>4. NotForgotten' /\ (exitSeen' => settled') /\ AbortIsSignalled'
    BY <2>1, <2>2 DEF SessionInvariant, NotForgotten, AbortIsSignalled
  <2> QED BY <2>3, <2>4 DEF SessionInvariant
<1> QED BY <1>1, <1>2, <1>3 DEF ReadOutput

\* Steps in which the child writes.  It calls itself aborted only if it is.
LEMMA WriteStep ==
  ASSUME SessionInvariant, ChildStarts \/ ChildWorks \/ ChildFinishes
  PROVE  SessionInvariant'
<1>1. /\ output' \in Seq(Line) /\ Len(output') <= PipeSize
      /\ SaysAborted' => SaysAborted \/ aborted
  <2>1. \/ UNCHANGED output
        \/ \E line \in Line : Write(line) /\ (line = "aborted" => aborted)
    BY DEF ChildStarts, ChildWorks, ChildFinishes, Line
  <2> QED BY <2>1, WriteEffect DEF SessionInvariant, TypeOK, SaysAborted
<1>2. /\ UNCHANGED <<row, cancelRequested, hostVars, aborted, cancelSent>>
      /\ child' \in {"working", "exiting"} \cup {child}
  BY DEF ChildStarts, ChildWorks, ChildFinishes
<1>3. TypeOK'
  BY <1>1, <1>2 DEF SessionInvariant, TypeOK, hostVars
<1>4. NotForgotten' /\ (exitSeen' => settled') /\ AbortIsSignalled'
  BY <1>1, <1>2 DEF SessionInvariant, NotForgotten, AbortIsSignalled, hostVars
<1> QED BY <1>3, <1>4 DEF SessionInvariant

LEMMA StepInvariant == SessionInvariant /\ [Next]_vars => SessionInvariant'
<1> SUFFICES ASSUME SessionInvariant, [Next]_vars PROVE SessionInvariant'
  OBVIOUS
<1>1. CASE Next
  BY <1>1, QuietStep, ExitStep, ReadStep, WriteStep DEF Next
<1>2. CASE UNCHANGED vars
  BY <1>2 DEF vars, hostVars, childVars, SessionInvariant, TypeOK, NotForgotten,
     AbortIsSignalled, SaysAborted
<1> QED BY <1>1, <1>2

\* In every reachable state an undecided run still has somebody to decide it,
\* and a child's "cancelled" answers a cancel of the Host.
THEOREM SessionInvariantHolds == Spec => []SessionInvariant
BY InitInvariant, StepInvariant, PTL DEF Spec

\* A worker's slot is never freed with its run forgotten.
THEOREM NotForgottenHolds == Spec => []NotForgotten
<1>1. SessionInvariant => NotForgotten BY DEF SessionInvariant
<1> QED BY <1>1, SessionInvariantHolds, PTL

-----------------------------------------------------------------------------
(* The execution implements the abstract attempt.                          *)

\* A step that only raises signals.
LEMMA RaiseStep ==
  ASSUME SessionInvariant,
         \/ HeartbeatTick \/ TimeLimit \/ GraceEnds \/ HostKilled
         \/ ReadReady \/ ReadNote \/ ReadCommit
         \/ ChildStarts \/ ChildWorks \/ ChildFinishes
         \/ ChildDies \/ CancelArrives \/ StdinCloses \/ UserCancels
  PROVE  Promise!Raise
<1>1. row' = row /\ \E s \in SUBSET Signal : flags' = flags \cup s
  <2> USE DEF hostVars, childVars, Signal
  <2>1. CASE HeartbeatTick BY <2>1 DEF HeartbeatTick
  <2>2. CASE TimeLimit BY <2>2 DEF TimeLimit
  <2>3. ASSUME UNCHANGED <<row, flags>>
        PROVE  row' = row /\ \E s \in SUBSET Signal : flags' = flags \cup s
    <3>1. {} \in SUBSET Signal /\ flags' = flags \cup {} BY <2>3
    <3> QED BY <2>3, <3>1
  <2>4. CASE GraceEnds \/ HostKilled
    BY <2>3, <2>4 DEF GraceEnds, HostKilled
  <2>5. CASE ReadReady \/ ReadNote \/ ReadCommit
    BY <2>3, <2>5 DEF ReadReady, ReadNote, ReadCommit
  <2>6. CASE ChildStarts \/ ChildWorks \/ ChildFinishes
    BY <2>3, <2>6 DEF ChildStarts, ChildWorks, ChildFinishes
  <2>7. CASE ChildDies \/ CancelArrives \/ StdinCloses \/ UserCancels
    BY <2>3, <2>7 DEF ChildDies, CancelArrives, StdinCloses, UserCancels
  <2> QED BY <2>1, <2>2, <2>4, <2>5, <2>6, <2>7
<1> QED BY <1>1 DEF Promise!Raise, Promise!Signal, Signal

\* A decision ends the attempt if it is one its signals justify.
LEMMA DecideEnds ==
  ASSUME NEW o, Decide(o), UNCHANGED flags, o \in Promise!Endings
  PROVE  Promise!End \/ UNCHANGED <<row, flags>>
BY DEF Decide, Promise!End

\* What the handlers decide is justified by the signals they look at.
LEMMA OutcomesJustified ==
  ASSUME TypeOK
  PROVE  /\ {"succeeded", "runtime_error"} \subseteq Promise!Endings
         /\ ErrorOutcome \subseteq Promise!Endings
         /\ ExitOutcome \in Promise!Endings
         /\ flags # {} => "cancelled" \in Promise!Endings
BY DEF TypeOK, Signal, Classified, ErrorOutcome, ExitOutcome, Promise!Endings,
       Promise!ProcessFailures, Promise!ProcessCancels, Promise!Classified

LEMMA ConcludesEnds ==
  ASSUME NEW line, NEW outcomes, outcomes \subseteq Promise!Endings,
         Concludes(line, outcomes)
  PROVE  Promise!End \/ UNCHANGED <<row, flags>>
BY DecideEnds DEF Concludes

LEMMA EndStep ==
  ASSUME SessionInvariant,
         \/ ReadStale \/ ReadResult \/ ReadError \/ ReadAborted \/ ReadNoise
         \/ ExitEvent \/ SpawnFails \/ Recovered
  PROVE  Promise!End \/ UNCHANGED <<row, flags>>
<1>0. TypeOK BY DEF SessionInvariant
<1>1. CASE ReadStale
  BY <1>0, <1>1, ConcludesEnds, OutcomesJustified DEF ReadStale
<1>2. CASE ReadResult
  BY <1>0, <1>2, ConcludesEnds, OutcomesJustified DEF ReadResult
<1>3. CASE ReadError
  BY <1>0, <1>3, ConcludesEnds, OutcomesJustified DEF ReadError
<1>4. CASE ReadAborted
  <2>1. SaysAborted /\ host = "up"
    BY <1>0, <1>4, ReadEffect DEF ReadAborted, Concludes, Read
  <2>2. flags # {}
    BY <2>1 DEF SessionInvariant, AbortIsSignalled
  <2> QED BY <1>0, <1>4, <2>2, ConcludesEnds, OutcomesJustified DEF ReadAborted
<1>5. CASE ReadNoise
  BY <1>0, <1>5, DecideEnds, OutcomesJustified DEF ReadNoise
<1>6. CASE ExitEvent
  BY <1>0, <1>6, DecideEnds, OutcomesJustified DEF ExitEvent
<1>7. CASE SpawnFails
  BY <1>0, <1>7, DecideEnds, OutcomesJustified DEF SpawnFails
<1>8. CASE Recovered
  BY <1>8 DEF Recovered, Promise!End, Promise!Endings, hostVars
<1> QED BY <1>1, <1>2, <1>3, <1>4, <1>5, <1>6, <1>7, <1>8

\* Every behaviour of the Host and the child, projected to the run's row and the
\* executor's flags, is one the abstract attempt allows.
THEOREM AttemptImplemented == Spec => ImplementsAttempt
<1>1. Init => Promise!AttemptInit
  BY DEF Init, Promise!AttemptInit
<1>2. SessionInvariant /\ [Next]_vars
        => [Promise!Raise \/ Promise!End]_(Promise!attemptVars)
  <2> SUFFICES ASSUME SessionInvariant, [Next]_vars
               PROVE  Promise!Raise \/ Promise!End \/ UNCHANGED <<row, flags>>
    BY DEF Promise!attemptVars
  <2>1. CASE Next
    BY <2>1, RaiseStep, EndStep DEF Next, ReadOutput
  <2>2. CASE UNCHANGED vars
    BY <2>2 DEF vars, hostVars
  <2> QED BY <2>1, <2>2
<1> QED BY <1>1, <1>2, SessionInvariantHolds, PTL
     DEF Spec, ImplementsAttempt, Promise!AttemptSpec

-----------------------------------------------------------------------------
(* The loop: for any material, drafts, audits and budgets it keeps its counts, *)
(* and what is published was judged in its last form.                        *)

\* Until an audit is over there is one audit a supplement, and a report that goes to
\* publication was judged, or could not be, in its last form.
AuditIsCurrent ==
  /\ phase \in {"preparing", "diagnosing", "auditing"} => audited = rounds
  /\ phase = "committing" =>
       /\ result # None
       /\ result.kind = "report" /\ config.enabled =>
            audited = rounds + 1 /\ (auditFailure \/ audit # None)
  /\ phase = "auditing" => result # None /\ result.kind = "report"

\* Publishing is the last thing an attempt does.
PublishedLast == Published => phase = "ended" /\ result # None /\ result.kind = "report"

LoopInvariant ==
  DiagnosisInvariant /\ AuditIsCurrent /\ PublishedLast /\ StatusIsEarned /\ CompleteIsWhole

-----------------------------------------------------------------------------
(* The report.                                                             *)

LEMMA ResultTypes ==
  ASSUME LoopTypeOK, result # None, result.kind = "report"
  PROVE  /\ result \in [kind : {"report"}, draft : Drafts \cup {Stub}]
         /\ Draft \in Drafts \cup {Stub}
BY DEF LoopTypeOK, Draft

LEMMA DraftTypes ==
  ASSUME NEW d \in Drafts \cup {Stub}
  PROVE  /\ d.completeness \in {"complete", "partial"}
         /\ d.missing \subseteq Missing
         /\ d.hypotheses \in Seq(Hypothesis)
         /\ \A i \in DOMAIN d.hypotheses : d.hypotheses[i].status \in Statuses
<1>1. /\ d.completeness \in {"complete", "partial"} /\ d.missing \subseteq Missing
      /\ d.hypotheses \in Seq(Hypothesis)
  <2>1. CASE d \in Drafts BY <2>1
  <2>2. CASE d = Stub BY <2>2, EmptySeq DEF Stub, Missing
  <2> QED BY <2>1, <2>2
<1>2. ASSUME NEW i \in DOMAIN d.hypotheses PROVE d.hypotheses[i] \in Hypothesis
  BY <1>1, ElementOfSeq, LenProperties
<1> QED BY <1>1, <1>2 DEF Hypothesis

LEMMA ValidateEffect ==
  ASSUME NEW d, NEW missing
  PROVE  LET v == ValidateDraft(d, missing) IN
         /\ DOMAIN v = {"completeness", "hypotheses", "missing"}
         /\ v.hypotheses = [i \in DOMAIN d.hypotheses |-> Validated(d.hypotheses[i])]
BY DEF ValidateDraft

LEMMA AuditEffect ==
  ASSUME NEW r, NEW a
  PROVE  LET v == ApplyAudit(r, a) IN
         /\ DOMAIN v = {"completeness", "hypotheses", "missing"}
         /\ v.hypotheses = [i \in DOMAIN r.hypotheses |->
                              [r.hypotheses[i] EXCEPT !.status = Judged(@, ClaimsOf(a, i))]]
BY DEF ApplyAudit

LEMMA FailureEffect ==
  ASSUME NEW r, DOMAIN r = {"completeness", "hypotheses", "missing"},
         r = [x \in DOMAIN r |-> r[x]]
  PROVE  /\ ApplyAuditFailure(r).hypotheses = r.hypotheses
         /\ ApplyAuditFailure(r).completeness = "partial"
         /\ ApplyAuditFailure(r).missing = r.missing \cup {"unreviewed"}
BY DEF ApplyAuditFailure

\* What was missing to the model or to the preparation.
Lacking == result.draft.missing \cup (IF programMissing THEN {"program"} ELSE {})
Valid == ValidateDraft(result.draft, Lacking)
Reviewed == IF audit = None THEN Valid ELSE ApplyAudit(Valid, audit)

LEMMA ReviewedIsRecord ==
  /\ DOMAIN Reviewed = {"completeness", "hypotheses", "missing"}
  /\ Reviewed = [x \in DOMAIN Reviewed |-> Reviewed[x]]
<1>1. CASE audit = None
  BY <1>1 DEF Reviewed, Valid, ValidateDraft
<1>2. CASE audit # None
  BY <1>2 DEF Reviewed, ApplyAudit
<1> QED BY <1>1, <1>2

LEMMA ReportFields ==
  /\ Report.hypotheses = Reviewed.hypotheses
  /\ Report.completeness = IF auditFailure THEN "partial" ELSE Reviewed.completeness
  /\ Report.missing = IF auditFailure THEN Reviewed.missing \cup {"unreviewed"}
                       ELSE Reviewed.missing
<1>1. Report = IF auditFailure THEN ApplyAuditFailure(Reviewed) ELSE Reviewed
  BY DEF Report, Reviewed, Valid, Lacking
<1> QED BY <1>1, ReviewedIsRecord, FailureEffect

\* A hypothesis of the report is that of the draft, with the evidence found for it and
\* the status that validation and audit leave it.
LEMMA ReportHypotheses ==
  LET hs == Draft.hypotheses
      status(i) == Validated(hs[i]).status
  IN /\ DOMAIN Report.hypotheses = DOMAIN hs
     /\ \A i \in DOMAIN hs :
          /\ Report.hypotheses[i].evidence = Support(hs[i])
          /\ Report.hypotheses[i].status =
               IF audit = None THEN status(i) ELSE Judged(status(i), ClaimsOf(audit, i))
<1> DEFINE hs == Draft.hypotheses
<1>1. Valid.hypotheses = [i \in DOMAIN hs |-> Validated(hs[i])]
  BY ValidateEffect DEF Valid, Draft
<1>2. \A i : DOMAIN Validated(hs[i]) = {"status", "evidence"} /\ Validated(hs[i]).evidence = Support(hs[i])
  BY DEF Validated
<1>3. CASE audit = None
  BY <1>1, <1>2, <1>3, ReportFields DEF Reviewed
<1>4. CASE audit # None
  <2>1. Reviewed.hypotheses = [i \in DOMAIN hs |->
          [Validated(hs[i]) EXCEPT !.status = Judged(@, ClaimsOf(audit, i))]]
    BY <1>1, <1>4, AuditEffect DEF Reviewed
  <2>2. ASSUME NEW i \in DOMAIN hs
        PROVE  /\ Reviewed.hypotheses[i].evidence = Support(hs[i])
               /\ Reviewed.hypotheses[i].status = Judged(Validated(hs[i]).status, ClaimsOf(audit, i))
    BY <2>1, <2>2, <1>2
  <2> QED BY <1>4, <2>1, <2>2, ReportFields
<1> QED BY <1>3, <1>4

LEMMA ReportTypes ==
  ASSUME LoopTypeOK, result # None, result.kind = "report"
  PROVE  /\ Report.completeness \in {"complete", "partial"}
         /\ Report.missing \subseteq Missing
<1>1. Lacking \subseteq Missing
  BY ResultTypes, DraftTypes DEF Draft, Missing, Lacking
<1>2. Valid.completeness \in {"complete", "partial"} /\ Valid.missing \subseteq Missing
  BY <1>1 DEF Valid, ValidateDraft, Missing
<1>3. Reviewed.completeness \in {"complete", "partial"} /\ Reviewed.missing \subseteq Missing
  BY <1>2 DEF Reviewed, ApplyAudit, Missing
<1> QED BY <1>3, ReportFields DEF Missing

-----------------------------------------------------------------------------
(* What a status is worth.                                                 *)

\* Evidence that is not outdated shows this version, or no code.
LEMMA SupportIsOfThisVersion ==
  ASSUME NEW h, ~Outdated(Support(h))
  PROVE  /\ Support(h) \subseteq Ids
         /\ \/ \E n \in Support(h) : evidence[n].sha = pinned
            \/ \A n \in Support(h) : evidence[n].sha = NoSha
<1>1. \A c : Accepted(c) \subseteq Ids
  BY DEF Accepted, Cited, OfThisRun
<1>2. Support(h) \subseteq Ids
  BY <1>1 DEF Support
<1> QED BY <1>2 DEF Outdated, OtherVersion

LEMMA ClaimsCount ==
  ASSUME NEW a \in Audits, NEW c \in a.claims
  PROVE  c.verdict \in ClaimsOf(a, c.index)
BY DEF ClaimsOf, Claim

LEMMA ReportIsEarned ==
  ASSUME LoopTypeOK, AuditIsCurrent, phase = "committing", result.kind = "report"
  PROVE  \A i \in DOMAIN Report.hypotheses :
    /\ Report.hypotheses[i].status = "supported" =>
         LET ids == Report.hypotheses[i].evidence IN
         /\ Draft.hypotheses[i].status \in {"none", "supported"}
         /\ ids # {} /\ ids \subseteq Ids
         /\ (\E n \in ids : evidence[n].sha = pinned) \/ (\A n \in ids : evidence[n].sha = NoSha)
         /\ config.enabled /\ ~auditFailure =>
              audit # None /\ audited = rounds + 1
              /\ \A c \in audit.claims : c.index = i => c.verdict = "supported"
    /\ audit # None /\ [index |-> i, verdict |-> "contradicted"] \in audit.claims =>
         Report.hypotheses[i].status = "refuted"
<1> SUFFICES ASSUME NEW i \in DOMAIN Report.hypotheses
             PROVE  /\ Report.hypotheses[i].status = "supported" =>
                         LET ids == Report.hypotheses[i].evidence IN
                         /\ Draft.hypotheses[i].status \in {"none", "supported"}
                         /\ ids # {} /\ ids \subseteq Ids
                         /\ (\E n \in ids : evidence[n].sha = pinned)
                              \/ (\A n \in ids : evidence[n].sha = NoSha)
                         /\ config.enabled /\ ~auditFailure =>
                              audit # None /\ audited = rounds + 1
                              /\ \A c \in audit.claims : c.index = i => c.verdict = "supported"
                    /\ audit # None /\ [index |-> i, verdict |-> "contradicted"] \in audit.claims =>
                         Report.hypotheses[i].status = "refuted"
  OBVIOUS
<1> DEFINE h == Draft.hypotheses[i]
           verdicts == ClaimsOf(audit, i)
<1>1. /\ i \in DOMAIN Draft.hypotheses
      /\ Report.hypotheses[i].evidence = Support(h)
      /\ Report.hypotheses[i].status =
           IF audit = None THEN Validated(h).status ELSE Judged(Validated(h).status, verdicts)
  BY ReportHypotheses
<1>2. h.status \in Statuses
  BY <1>1, ResultTypes, DraftTypes DEF AuditIsCurrent
<1>3. Validated(h).status = "supported" =>
        Support(h) # {} /\ h.status \in {"none", "supported"} /\ ~Outdated(Support(h))
  BY <1>2 DEF Validated
<1>4. ASSUME Report.hypotheses[i].status = "supported"
      PROVE  /\ Validated(h).status = "supported"
             /\ audit # None => verdicts \cap Adverse = {}
  BY <1>1, <1>4 DEF Judged
<1>5. ASSUME Report.hypotheses[i].status = "supported", config.enabled, ~auditFailure
      PROVE  audit # None /\ audited = rounds + 1
             /\ \A c \in audit.claims : c.index = i => c.verdict = "supported"
  <2>1. audit # None /\ audited = rounds + 1 /\ audit \in Audits
    BY <1>5 DEF AuditIsCurrent, LoopTypeOK
  <2>2. ASSUME NEW c \in audit.claims, c.index = i PROVE c.verdict = "supported"
    <3>1. c.verdict \in verdicts /\ c.verdict \in Verdicts
      BY <2>1, <2>2, ClaimsCount DEF ClaimsOf
    <3>2. c.verdict \notin Adverse
      BY <1>4, <1>5, <2>1, <3>1
    <3> QED BY <3>1, <3>2 DEF Verdicts, Adverse
  <2> QED BY <2>1, <2>2
<1>6. audit # None /\ [index |-> i, verdict |-> "contradicted"] \in audit.claims =>
        Report.hypotheses[i].status = "refuted"
  BY <1>1 DEF Judged, ClaimsOf, Verdicts
<1> HIDE DEF h, verdicts
<1>7. ASSUME Report.hypotheses[i].status = "supported"
      PROVE  /\ h.status \in {"none", "supported"} /\ Support(h) # {} /\ Support(h) \subseteq Ids
             /\ \/ \E n \in Support(h) : evidence[n].sha = pinned
                \/ \A n \in Support(h) : evidence[n].sha = NoSha
  BY <1>3, <1>4, <1>7, SupportIsOfThisVersion
<1> QED BY <1>1, <1>5, <1>6, <1>7 DEF h

LEMMA ReportIsWhole ==
  ASSUME LoopTypeOK, AuditIsCurrent, phase = "committing", result.kind = "report",
         Report.completeness = "complete"
  PROVE  /\ Draft.completeness = "complete" /\ Draft.missing = {} /\ ~programMissing
         /\ config.enabled => audit # None /\ audited = rounds + 1 /\ ~audit.missing
         /\ Draft.hypotheses = <<>> \/ \E i \in DOMAIN Report.hypotheses : Report.hypotheses[i].evidence # {}
         /\ \A i \in DOMAIN Report.hypotheses :
              Report.hypotheses[i].status # "supported" =>
                ~(Draft.hypotheses[i].status = "supported" /\ audit # None
                  /\ ClaimsOf(audit, i) \cap Adverse # {} /\ Validated(Draft.hypotheses[i]).status = "supported")
<1> DEFINE hs == Draft.hypotheses
<1>1. ~auditFailure /\ Reviewed.completeness = "complete"
  BY ReportFields
<1>2. Valid.completeness = "complete"
      /\ (audit # None => ~audit.missing
            /\ ~\E i \in DOMAIN Valid.hypotheses :
                 Valid.hypotheses[i].status = "supported" /\ ClaimsOf(audit, i) \cap Adverse # {})
  BY <1>1 DEF Reviewed, ApplyAudit
<1>3. Valid.hypotheses = [i \in DOMAIN hs |-> Validated(hs[i])]
  BY ValidateEffect DEF Valid, Draft
<1>4. /\ Draft.completeness = "complete" /\ Lacking = {}
      /\ hs = <<>> \/ \E i \in DOMAIN hs : Validated(hs[i]).evidence # {}
  BY <1>2 DEF Valid, ValidateDraft, Draft
<1>5. Draft.missing = {} /\ ~programMissing
  BY <1>4 DEF Lacking, Draft
<1>6. config.enabled => audit # None /\ audited = rounds + 1
  BY <1>1 DEF AuditIsCurrent
<1>7. hs = <<>> \/ \E i \in DOMAIN Report.hypotheses : Report.hypotheses[i].evidence # {}
  BY <1>4, ReportHypotheses DEF Validated
<1>8. DOMAIN Report.hypotheses = DOMAIN hs
  BY ReportHypotheses
<1> QED BY <1>2, <1>3, <1>4, <1>5, <1>6, <1>7, <1>8

-----------------------------------------------------------------------------
(* The steps.                                                              *)

LEMMA LoopInitInvariant == LoopInit => LoopInvariant
<1> SUFFICES ASSUME LoopInit PROVE LoopInvariant OBVIOUS
<1>1. /\ calls \in 0 .. MaxToolCalls + 1 /\ commits \in Nat
      /\ rounds \in 0 .. MaxAuditRounds /\ audited \in 0 .. MaxAuditRounds + 1
      /\ evidence \in Seq(Evidence)
  BY DEF LoopInit
<1>2. LoopTypeOK BY <1>1, Zenon DEF LoopInit, LoopTypeOK, Outcomes
<1>3. commits <= calls /\ commits <= MaxToolCalls /\ rounds <= config.maxRounds /\ audited = rounds
  BY DEF LoopInit
<1> QED BY <1>2, <1>3 DEF LoopInit, LoopInvariant, DiagnosisInvariant, AuditIsCurrent, PublishedLast, StatusIsEarned,
                 SupportedIsSubstantiated, ContradictedIsRefuted, CompleteIsWhole, Published

\* What is published stays true while nothing it speaks of changes.
LEMMA PublishedStays ==
  ASSUME StatusIsEarned, CompleteIsWhole, PublishedLast,
         Published => UNCHANGED <<configVars, evidence, phase, rounds, result, audit, audited, auditFailure>>,
         report' = report
  PROVE  StatusIsEarned' /\ CompleteIsWhole' /\ PublishedLast'
<1>1. CASE ~Published
  BY <1>1 DEF Published, StatusIsEarned, SupportedIsSubstantiated, ContradictedIsRefuted,
              CompleteIsWhole, PublishedLast
<1>2. CASE Published
  <2> USE <1>2 DEF Published, configVars
  <2>1. Draft' = Draft /\ Ids' = Ids
    BY DEF Draft, Ids
  <2>2. StatusIsEarned'
    BY <2>1 DEF StatusIsEarned, SupportedIsSubstantiated, ContradictedIsRefuted
  <2>3. \A i : Validated(Draft.hypotheses[i])' = Validated(Draft.hypotheses[i])
    BY DEF Draft, Validated, Support, Accepted, Cited, OfThisRun, Ids, OtherVersion, Outdated
  <2>4. \A i : ClaimsOf(audit, i)' = ClaimsOf(audit, i)
    BY DEF ClaimsOf
  <2>5. CompleteIsWhole'
    BY <2>1, <2>3, <2>4 DEF CompleteIsWhole
  <2> QED BY <2>2, <2>5 DEF PublishedLast
<1> QED BY <1>1, <1>2

\* Before the end nothing is published.
LEMMA UnpublishedBefore ==
  ASSUME LoopInvariant, phase # "ended"
  PROVE  ~Published
BY DEF LoopInvariant, PublishedLast

LEMMA BesideStep ==
  ASSUME LoopInvariant, RequestCancel \/ LoseLease \/ Heartbeat \/ Timeout
  PROVE  LoopInvariant'
<1>1. UNCHANGED <<configVars, phase, engineVars, loopVars, endVars>>
  BY DEF RequestCancel, LoseLease, Heartbeat, Timeout
<1>2. /\ signals' \subseteq {"cancel_requested", "lease_lost", "timed_out"}
      /\ cancelAsked' \in BOOLEAN /\ owned' \in BOOLEAN
  BY DEF LoopInvariant, DiagnosisInvariant, LoopTypeOK, RequestCancel, LoseLease, Heartbeat, Timeout
<1> USE <1>1 DEF configVars, engineVars, loopVars, endVars
<1>3. LoopTypeOK'
  BY <1>2 DEF LoopInvariant, DiagnosisInvariant, LoopTypeOK
<1>4. DiagnosisInvariant' /\ AuditIsCurrent'
  BY <1>3 DEF LoopInvariant, DiagnosisInvariant, AuditIsCurrent
<1> QED BY <1>4, PublishedStays DEF LoopInvariant

LEMMA PrepareStep ==
  ASSUME LoopInvariant, Prepare
  PROVE  LoopInvariant'
<1> USE DEF Prepare, configVars, engineVars, loopVars, outsideVars, endVars
<1>1. LoopTypeOK'
  BY DEF LoopInvariant, DiagnosisInvariant, LoopTypeOK
<1>2. DiagnosisInvariant' /\ AuditIsCurrent'
  BY <1>1 DEF LoopInvariant, DiagnosisInvariant, AuditIsCurrent
<1> QED BY <1>2, UnpublishedBefore, PublishedStays DEF LoopInvariant

LEMMA ErrorStep ==
  ASSUME LoopInvariant, PrepareFails \/ AuditBlocks \/ \E error \in {"budget", "other"} : EngineThrows(error)
  PROVE  LoopInvariant'
<1>1. PICK error : EndWith(error)
  BY DEF PrepareFails, AuditBlocks, EngineThrows
<1>2. phase # "ended"
  BY DEF PrepareFails, AuditBlocks, EngineThrows
<1> USE <1>1 DEF EndWith, outsideVars
<1>3. outcome' \in Outcomes
  BY DEF FailureOf, Outcomes
<1>4. LoopTypeOK'
  BY <1>3 DEF LoopInvariant, DiagnosisInvariant, LoopTypeOK
<1>5. /\ phase = "auditing" => audited = rounds
      /\ audited \in {rounds, rounds + 1}
  BY DEF LoopInvariant, DiagnosisInvariant
<1>6. DiagnosisInvariant' /\ AuditIsCurrent'
  BY <1>4, <1>5 DEF LoopInvariant, DiagnosisInvariant, AuditIsCurrent
<1> QED BY <1>2, <1>6, UnpublishedBefore, PublishedStays DEF LoopInvariant

\* A call is counted until one is too many, and what is saved was counted.
LEMMA ToolStep ==
  ASSUME LoopInvariant,
         \/ \E sha \in Shas \cup {NoSha} : QueryFinds(sha)
         \/ CallYieldsNothing
         \/ \E d \in Drafts : SubmitReport(d)
         \/ RequestInfo
  PROVE  LoopInvariant'
<1> USE DEF configVars, loopVars, outsideVars, endVars
<1>1. UNCHANGED <<configVars, phase, loopVars, outsideVars, endVars>> /\ phase = "diagnosing"
  BY DEF QueryFinds, CallYieldsNothing, SubmitReport, RequestInfo, Working
<1>2. /\ calls' \in 0 .. MaxToolCalls + 1 /\ commits' \in Nat
      /\ commits' <= calls' /\ commits' <= MaxToolCalls
  <2>1. /\ calls \in 0 .. MaxToolCalls + 1 /\ commits \in Nat
        /\ commits <= calls /\ commits <= MaxToolCalls
    BY DEF LoopInvariant, DiagnosisInvariant, LoopTypeOK
  <2>2. CASE \E sha \in Shas \cup {NoSha} : QueryFinds(sha)
    BY <2>1, <2>2 DEF QueryFinds, Spend, InBudget
  <2>3. CASE CallYieldsNothing
    BY <2>1, <2>3 DEF CallYieldsNothing, Spend
  <2>4. CASE RequestInfo \/ \E d \in Drafts : SubmitReport(d)
    BY <2>1, <2>4 DEF RequestInfo, SubmitReport
  <2> QED BY <2>2, <2>3, <2>4
<1>3. submitted' \in Drafts \cup {None} /\ requested' \in BOOLEAN
  BY DEF LoopInvariant, DiagnosisInvariant, LoopTypeOK, QueryFinds, CallYieldsNothing, SubmitReport, RequestInfo
<1>4. evidence' \in Seq(Evidence)
  <2>1. CASE \E sha \in Shas \cup {NoSha} : QueryFinds(sha)
    <3>1. PICK sha \in Shas \cup {NoSha} : QueryFinds(sha)
      BY <2>1
    <3>2. evidence \in Seq(Evidence)
      BY DEF LoopInvariant, DiagnosisInvariant, LoopTypeOK
    <3>3. Cardinality(OfThisRun) + 1 \in Nat \ {0}
      <4>1. IsFiniteSet(Ids)
        BY <3>2, LenProperties, FS_Interval DEF Ids
      <4>2. Cardinality(OfThisRun) \in Nat
        BY <4>1, FS_Subset, FS_CardinalityType DEF OfThisRun
      <4> QED BY <4>2
    <3>4. [run |-> "this", sha |-> sha, short |-> Cardinality(OfThisRun) + 1] \in Evidence
      BY <3>3 DEF Evidence
    <3> QED BY <3>1, <3>2, <3>4, AppendProperties DEF QueryFinds
  <2>2. CASE ~\E sha \in Shas \cup {NoSha} : QueryFinds(sha)
    BY <2>2 DEF CallYieldsNothing, SubmitReport, RequestInfo, LoopInvariant, DiagnosisInvariant, LoopTypeOK
  <2> QED BY <2>1, <2>2
<1>5. LoopTypeOK'
  BY <1>1, <1>2, <1>3, <1>4 DEF LoopInvariant, DiagnosisInvariant, LoopTypeOK
<1>6. DiagnosisInvariant' /\ AuditIsCurrent'
  BY <1>1, <1>2, <1>5 DEF LoopInvariant, DiagnosisInvariant, AuditIsCurrent
<1> QED BY <1>1, <1>6, UnpublishedBefore, PublishedStays DEF LoopInvariant

LEMMA EngineReturnsStep ==
  ASSUME LoopInvariant, NEW chat \in BOOLEAN, EngineReturns(chat)
  PROVE  LoopInvariant'
<1> USE DEF configVars, engineVars, outsideVars, endVars
<1>1. /\ result' # None /\ result'.kind \in {"report", "reply"}
      /\ \/ result' \in [kind : {"report"}, draft : Drafts \cup {Stub}]
         \/ result' \in [kind : {"reply"}]
  <2>1. submitted \in Drafts \cup {None}
    BY DEF LoopInvariant, DiagnosisInvariant, LoopTypeOK
  <2>2. result' \in [kind : {"report"}, draft : Drafts \cup {Stub}] \cup [kind : {"reply"}]
    BY <2>1 DEF EngineReturns, Returned
  <2> QED BY <2>2
<1>2. phase' = IF result'.kind = "report" /\ config.enabled THEN "auditing" ELSE "committing"
  BY DEF EngineReturns, IsAudited
<1>3. LoopTypeOK'
  BY <1>1, <1>2 DEF LoopInvariant, DiagnosisInvariant, LoopTypeOK, EngineReturns
<1>4. DiagnosisInvariant' /\ AuditIsCurrent'
  BY <1>1, <1>2, <1>3 DEF LoopInvariant, DiagnosisInvariant, AuditIsCurrent, EngineReturns
<1> QED BY <1>4, UnpublishedBefore, PublishedStays DEF LoopInvariant, EngineReturns

LEMMA AuditStep ==
  ASSUME LoopInvariant, AuditFails \/ \E a \in Audits : AuditAnswers(a)
  PROVE  LoopInvariant'
<1> USE DEF configVars, engineVars, outsideVars, endVars
<1>1. phase = "auditing" /\ audited = rounds /\ result # None /\ result.kind = "report"
  BY DEF LoopInvariant, AuditIsCurrent, AuditFails, AuditAnswers
<1>2. rounds \in 0 .. MaxAuditRounds /\ config.maxRounds \in 0 .. MaxAuditRounds
      /\ rounds <= config.maxRounds
  BY DEF LoopInvariant, DiagnosisInvariant, LoopTypeOK
<1>3. CASE AuditFails
  <2>1. LoopTypeOK'
    BY <1>2, <1>3 DEF LoopInvariant, DiagnosisInvariant, LoopTypeOK, AuditFails
  <2>2. DiagnosisInvariant' /\ AuditIsCurrent'
    BY <1>1, <1>2, <1>3, <2>1 DEF LoopInvariant, DiagnosisInvariant, AuditIsCurrent, AuditFails
  <2> QED BY <1>1, <1>3, <2>2, UnpublishedBefore, PublishedStays DEF LoopInvariant, AuditFails
<1>4. ASSUME NEW a \in Audits, AuditAnswers(a) PROVE LoopInvariant'
  <2>1. /\ audit' = a /\ a # None /\ audited' = rounds + 1 /\ auditFailure' = FALSE
        /\ UNCHANGED <<configVars, evidence, calls, commits, outsideVars, endVars>>
    BY <1>4 DEF AuditAnswers
  <2>4. /\ audit' \in Audits \cup {None} /\ auditFailure' \in BOOLEAN
        /\ audited' \in 0 .. MaxAuditRounds + 1
    <3>1. audited' \in 0 .. MaxAuditRounds + 1 BY <1>2, <2>1
    <3>2. audit' \in Audits \cup {None} /\ auditFailure' \in BOOLEAN BY <2>1, Zenon
    <3> QED BY <3>1, <3>2
  <2>2. CASE ShouldSupplement(a)
    <3>1. /\ rounds' = rounds + 1 /\ rounds' <= config.maxRounds /\ phase' = "diagnosing"
          /\ submitted' = None /\ requested' = FALSE /\ result' = None
      BY <1>2, <1>4, <2>2 DEF AuditAnswers, ShouldSupplement
    <3>4. rounds' \in 0 .. MaxAuditRounds
      BY <1>2, <3>1
    <3>2. LoopTypeOK'
      BY <2>1, <2>4, <3>1, <3>4, Zenon DEF LoopInvariant, DiagnosisInvariant, LoopTypeOK
    <3>3. DiagnosisInvariant' /\ AuditIsCurrent'
      BY <1>2, <2>1, <3>1, <3>2 DEF LoopInvariant, DiagnosisInvariant, AuditIsCurrent
    <3> QED BY <1>1, <2>1, <3>3, UnpublishedBefore, PublishedStays DEF LoopInvariant
  <2>3. CASE ~ShouldSupplement(a)
    <3>1. phase' = "committing" /\ UNCHANGED <<rounds, submitted, requested, result>>
      BY <1>4, <2>3 DEF AuditAnswers
    <3>2. LoopTypeOK'
      BY <2>1, <2>4, <3>1, Zenon DEF LoopInvariant, DiagnosisInvariant, LoopTypeOK
    <3>3. DiagnosisInvariant' /\ AuditIsCurrent'
      BY <1>1, <1>2, <2>1, <3>1, <3>2 DEF LoopInvariant, DiagnosisInvariant, AuditIsCurrent
    <3> QED BY <1>1, <2>1, <3>3, UnpublishedBefore, PublishedStays DEF LoopInvariant
  <2> QED BY <2>2, <2>3
<1> QED BY <1>3, <1>4

\* What is published is the report of the committed draft, and the draft and what
\* judged it stay as they were.
LEMMA FinalizeStep ==
  ASSUME LoopInvariant, Finalize
  PROVE  LoopInvariant'
<1> USE DEF configVars, engineVars, loopVars, outsideVars
<1>1. /\ phase = "committing" /\ phase' = "ended"
      /\ UNCHANGED <<configVars, engineVars, loopVars, outsideVars>>
      /\ outcome' = IF ~owned THEN "rejected" ELSE result.kind
      /\ report' = IF owned /\ result.kind = "report" THEN Report ELSE None
  BY DEF Finalize
<1>2. LoopTypeOK /\ AuditIsCurrent /\ result # None
  BY <1>1 DEF LoopInvariant, DiagnosisInvariant, AuditIsCurrent
<1>3. result.kind \in {"report", "reply"}
  BY <1>2 DEF LoopTypeOK
<1>4. report' # None => /\ report'.completeness \in {"complete", "partial"}
                        /\ report'.missing \subseteq Missing
  BY <1>1, <1>2, ReportTypes
<1>5. outcome' \in Outcomes
  BY <1>1, <1>3 DEF Outcomes
<1>6. LoopTypeOK'
  BY <1>1, <1>2, <1>4, <1>5, Zenon DEF LoopTypeOK
<1>7. DiagnosisInvariant' /\ AuditIsCurrent'
  BY <1>1, <1>6 DEF LoopInvariant, DiagnosisInvariant, AuditIsCurrent
<1>8. CASE ~Published'
  BY <1>7, <1>8 DEF LoopInvariant, StatusIsEarned, SupportedIsSubstantiated, ContradictedIsRefuted,
                    CompleteIsWhole, PublishedLast
<1>9. CASE Published'
  <2>1. report' = Report /\ result.kind = "report"
    BY <1>1, <1>9 DEF Published
  <2>2. Draft' = Draft /\ Ids' = Ids
    BY <1>1 DEF Draft, Ids
  <2>3. StatusIsEarned'
    BY <1>1, <1>2, <2>1, <2>2, ReportIsEarned
    DEF StatusIsEarned, SupportedIsSubstantiated, ContradictedIsRefuted
  <2>4. \A i : Validated(Draft.hypotheses[i])' = Validated(Draft.hypotheses[i])
    BY <1>1 DEF Draft, Validated, Support, Accepted, Cited, OfThisRun, Ids, OtherVersion, Outdated
  <2>5. \A i : ClaimsOf(audit, i)' = ClaimsOf(audit, i)
    BY <1>1 DEF ClaimsOf
  <2>6. CompleteIsWhole'
    <3>1. CASE Report.completeness = "complete"
      BY <1>1, <1>2, <2>1, <2>2, <2>4, <2>5, <3>1, ReportIsWhole DEF CompleteIsWhole
    <3>2. CASE Report.completeness # "complete"
      BY <2>1, <3>2 DEF CompleteIsWhole
    <3> QED BY <3>1, <3>2
  <2>7. PublishedLast'
    BY <1>1, <1>2, <2>1 DEF PublishedLast
  <2> QED BY <1>7, <2>3, <2>6, <2>7 DEF LoopInvariant
<1> QED BY <1>8, <1>9

LEMMA LoopStutter ==
  ASSUME LoopInvariant, UNCHANGED diagnosisVars
  PROVE  LoopInvariant'
<1> USE DEF diagnosisVars, configVars, engineVars, loopVars, outsideVars, endVars
<1>1. DiagnosisInvariant' /\ AuditIsCurrent'
  BY DEF LoopInvariant, DiagnosisInvariant, LoopTypeOK, AuditIsCurrent
<1> QED BY <1>1, PublishedStays DEF LoopInvariant

LEMMA LoopNextInvariant == LoopInvariant /\ [LoopNext]_diagnosisVars => LoopInvariant'
<1> SUFFICES ASSUME LoopInvariant, LoopNext \/ UNCHANGED diagnosisVars PROVE LoopInvariant' OBVIOUS
<1>1. CASE RequestCancel \/ LoseLease \/ Heartbeat \/ Timeout BY <1>1, BesideStep
<1>2. CASE Prepare BY <1>2, PrepareStep
<1>3. CASE \/ \E sha \in Shas \cup {NoSha} : QueryFinds(sha)
           \/ CallYieldsNothing
           \/ \E d \in Drafts : SubmitReport(d)
           \/ RequestInfo
  BY <1>3, ToolStep
<1>4. CASE Ends
  <2>1. CASE PrepareFails \/ AuditBlocks \/ \E error \in {"budget", "other"} : EngineThrows(error)
    BY <2>1, ErrorStep
  <2>2. CASE \E chat \in BOOLEAN : EngineReturns(chat) BY <2>2, EngineReturnsStep
  <2>3. CASE AuditFails \/ \E a \in Audits : AuditAnswers(a) BY <2>3, AuditStep
  <2>4. CASE Finalize BY <2>4, FinalizeStep
  <2> QED BY <1>4, <2>1, <2>2, <2>3, <2>4 DEF Ends
<1>5. CASE UNCHANGED diagnosisVars BY <1>5, LoopStutter
<1> QED BY <1>1, <1>2, <1>3, <1>4, <1>5 DEF LoopNext

LEMMA LoopSpecInvariant == LoopSpec => []LoopInvariant
BY LoopInitInvariant, LoopNextInvariant, PTL DEF LoopSpec

\* The loop keeps to its budgets of tool calls and supplements, and audits every draft
\* it sends back and the last one at most once (toolbox.ts, diagnosis-loop.ts).
THEOREM DiagnosisInvariantHolds == LoopSpec => []DiagnosisInvariant
<1>1. LoopInvariant => DiagnosisInvariant BY DEF LoopInvariant
<1> QED BY <1>1, LoopSpecInvariant, PTL

\* A hypothesis is published as supported only on saved evidence, of this version if
\* it is code, and with nothing in the audit of its draft against it; and as refuted
\* if that audit contradicts it (validate.ts, audit.ts).
THEOREM StatusIsEarnedHolds == LoopSpec => []StatusIsEarned
<1>1. LoopInvariant => StatusIsEarned BY DEF LoopInvariant
<1> QED BY <1>1, LoopSpecInvariant, PTL

\* A report is published as complete only if nobody found anything missing, the audit
\* that was due took place and some hypothesis has evidence (orchestrator.ts).
THEOREM CompleteIsWholeHolds == LoopSpec => []CompleteIsWhole
<1>1. LoopInvariant => CompleteIsWhole BY DEF LoopInvariant
<1> QED BY <1>1, LoopSpecInvariant, PTL

-----------------------------------------------------------------------------
(* The trace: its inductive invariant.                                     *)

\* An agent that has begun, as the emitter knows: that of the attempt from the outset.
Begun(a) == a = Attempt \/ Emitted("start", a) # {}

\* What is emitted of a call is under the agent it began under, which has begun; a call
\* ends once, and as long as it is in flight it has begun and not ended.
Emissions ==
  /\ \A k \in DOMAIN sent : sent[k].node \in Calls =>
       sent[k].parent \in Agents /\ Begun(sent[k].parent) /\ sent[k].node[2] <= callsBegun
  /\ \A j, k \in DOMAIN sent :
       sent[j].node \in Calls /\ sent[j].node = sent[k].node => sent[j].parent = sent[k].parent
  /\ \A c \in Calls : \A j, k \in Emitted("end", c) : j = k
  /\ \A c \in inFlight :
       c[2] <= callsBegun /\ Emitted("start", c) # {} /\ Emitted("end", c) = {}
  /\ running # Nobody => Begun(running)

\* A node has ended with an end that was reported for it, and that of a call is under
\* the agent that was reported with it.
Placed(ns) ==
  /\ \A n \in Nodes :
       IF ns[n].state = "ended"
       THEN ns[n].at \in Emitted("end", n) /\ sent[ns[n].at].status = ns[n].status
       ELSE ns[n].at = 0
  /\ \A c \in Calls : Known(ns, c) =>
       /\ ns[c].parent \in Agents /\ Known(ns, ns[c].parent)
       /\ \E k \in DOMAIN sent : sent[k].node = c /\ sent[k].parent = ns[c].parent

\* The tree before, during and after the attempt.
Tree ==
  /\ trace = "absent" => sent = <<>> /\ pending = <<>> /\ nodes = [n \in Nodes |-> Absent]
  /\ trace = "open" => Placed(nodes) /\ Known(nodes, Attempt)
  /\ trace = "closed" =>
       /\ pending = <<>>
       /\ \A n \in Nodes :
            /\ nodes[n].state # "open"
            /\ nodes[n].state = "ended" =>
                 \/ nodes[n].at = 0
                 \/ nodes[n].at \in Emitted("end", n)
                    /\ sent[nodes[n].at].status = nodes[n].status
       /\ \A c \in Calls : Known(nodes, c) =>
            nodes[c].parent \in Agents /\ Known(nodes, nodes[c].parent)

\* The event has had its effect, or was too late for it.
Handled(ns, k) ==
  LET e == sent[k] IN
  IF e.kind = "end" THEN ns[e.node].state = "ended"
  ELSE Known(ns, e.node) \/ (e.node \in Calls /\ \E j \in Emitted("end", e.parent) : j < k)

\* What the recorder has: the tree and the events that wait.
Recorded == [nodes : [Nodes -> Node], pending : Seq(DOMAIN sent)]
Waits(r, k) == \E i \in DOMAIN r.pending : r.pending[i] = k
NoneReady(r) == \A i \in DOMAIN r.pending : ~Ready(r.nodes, sent[r.pending[i]])
Now == [nodes |-> nodes, pending |-> pending]

\* An event is under way, waits or is done, unless one was refused.
NoneLost ==
  trace = "open" /\ ~overflown =>
    \A k \in DOMAIN sent : k \in wire \/ Waits(Now, k) \/ Handled(nodes, k)

TraceInvariant ==
  /\ TraceTypeOK /\ Emissions /\ Tree /\ NoneLost
  /\ NoneReady(Now)

-----------------------------------------------------------------------------
(* Unfolding the loops of drainPending.                                    *)

\* f is what is left after each of the first m events that were kept.
IsPass(r, f, m) ==
  f = [n \in 0 .. m |-> IF n = 0 THEN [r EXCEPT !.pending = <<>>]
                        ELSE Take(f[n - 1], r.pending[n])]

LEMMA PassGoesOn ==
  ASSUME NEW r, NEW m \in Nat, \A i \in Nat : i < m => \E f : IsPass(r, f, i)
  PROVE  \E f : IsPass(r, f, m)
<1>1. CASE m = 0
  <2>1. PICK f : f = [n \in 0 .. 0 |-> [r EXCEPT !.pending = <<>>]] OBVIOUS
  <2>2. f = [n \in 0 .. 0 |-> IF n = 0 THEN [r EXCEPT !.pending = <<>>]
                              ELSE Take(f[n - 1], r.pending[n])]
    BY <2>1
  <2> QED BY <1>1, <2>2 DEF IsPass
<1>2. CASE m # 0
  <2>0. m - 1 \in Nat /\ m - 1 < m BY <1>2
  <2>1. PICK g : IsPass(r, g, m - 1) BY <2>0
  <2>2. PICK f : f = [n \in 0 .. m |-> IF n = m THEN Take(g[m - 1], r.pending[m]) ELSE g[n]]
    OBVIOUS
  <2>3. \A n \in 0 .. m - 1 : f[n] = g[n] BY <2>2
  <2>4. f[m] = Take(f[m - 1], r.pending[m]) BY <2>0, <2>2, <2>3
  <2>5. \A n \in 0 .. m - 1 : g[n] = IF n = 0 THEN [r EXCEPT !.pending = <<>>]
                                     ELSE Take(g[n - 1], r.pending[n])
    BY <2>1 DEF IsPass
  <2>6. \A n \in 0 .. m : f[n] = IF n = 0 THEN [r EXCEPT !.pending = <<>>]
                                 ELSE Take(f[n - 1], r.pending[n])
    <3> SUFFICES ASSUME NEW n \in 0 .. m
                 PROVE  f[n] = IF n = 0 THEN [r EXCEPT !.pending = <<>>]
                               ELSE Take(f[n - 1], r.pending[n])
      OBVIOUS
    <3>1. CASE n = m BY <1>2, <2>4, <3>1
    <3>2. CASE n # m
      <4>1. n \in 0 .. m - 1 BY <3>2
      <4>2. n # 0 => n - 1 \in 0 .. m - 1 BY <4>1
      <4> QED BY <2>3, <2>5, <4>1, <4>2
    <3> QED BY <3>1, <3>2
  <2>7. f = [n \in 0 .. m |-> f[n]] BY <2>2
  <2>8. f = [n \in 0 .. m |-> IF n = 0 THEN [r EXCEPT !.pending = <<>>]
                              ELSE Take(f[n - 1], r.pending[n])]
    BY <2>6, <2>7
  <2>9. IsPass(r, f, m) BY <2>8 DEF IsPass
  <2> QED BY <2>9
<1> QED BY <1>1, <1>2

LEMMA PassUnfolds ==
  ASSUME NEW r, Len(r.pending) \in Nat
  PROVE  \E f : IsPass(r, f, Len(r.pending)) /\ Pass(r) = f[Len(r.pending)]
<1>1. \A m \in Nat : \E f : IsPass(r, f, m)
  <2> DEFINE Not == {m \in Nat : ~\E f : IsPass(r, f, m)}
  <2> SUFFICES ASSUME Not # {} PROVE FALSE OBVIOUS
  <2>1. PICK m \in Not : \A i \in Not : m <= i BY LeastNumber
  <2>2. m \in Nat /\ ~\E f : IsPass(r, f, m) OBVIOUS
  <2>3. \A i \in Nat : i < m => i \notin Not BY <2>1
  <2>4. \A i \in Nat : i < m => \E f : IsPass(r, f, i) BY <2>3
  <2> QED BY <2>2, <2>4, PassGoesOn
<1>2. \E f : IsPass(r, f, Len(r.pending)) BY <1>1
<1> DEFINE after == CHOOSE g : g = [n \in 0 .. Len(r.pending) |->
                      IF n = 0 THEN [r EXCEPT !.pending = <<>>]
                      ELSE Take(g[n - 1], r.pending[n])]
<1>3. IsPass(r, after, Len(r.pending)) BY <1>2 DEF IsPass
<1>4. Pass(r) = after[Len(r.pending)] BY DEF Pass
<1> HIDE DEF after
<1> QED BY <1>3, <1>4

\* f is what is left after each of m passes.
IsDrain(r, f, m) ==
  f = [n \in 0 .. m |-> IF n = 0 THEN r ELSE Pass(f[n - 1])]

LEMMA DrainGoesOn ==
  ASSUME NEW r, NEW m \in Nat, \A i \in Nat : i < m => \E f : IsDrain(r, f, i)
  PROVE  \E f : IsDrain(r, f, m)
<1>1. CASE m = 0
  <2>1. PICK f : f = [n \in 0 .. 0 |-> r] OBVIOUS
  <2>2. f = [n \in 0 .. 0 |-> IF n = 0 THEN r ELSE Pass(f[n - 1])]
    BY <2>1
  <2> QED BY <1>1, <2>2 DEF IsDrain
<1>2. CASE m # 0
  <2>0. m - 1 \in Nat /\ m - 1 < m BY <1>2
  <2>1. PICK g : IsDrain(r, g, m - 1) BY <2>0
  <2>2. PICK f : f = [n \in 0 .. m |-> IF n = m THEN Pass(g[m - 1]) ELSE g[n]]
    OBVIOUS
  <2>3. \A n \in 0 .. m - 1 : f[n] = g[n] BY <2>2
  <2>4. f[m] = Pass(f[m - 1]) BY <2>0, <2>2, <2>3
  <2>5. \A n \in 0 .. m - 1 : g[n] = IF n = 0 THEN r ELSE Pass(g[n - 1])
    BY <2>1 DEF IsDrain
  <2>6. \A n \in 0 .. m : f[n] = IF n = 0 THEN r ELSE Pass(f[n - 1])
    <3> SUFFICES ASSUME NEW n \in 0 .. m
                 PROVE  f[n] = IF n = 0 THEN r ELSE Pass(f[n - 1])
      OBVIOUS
    <3>1. CASE n = m BY <1>2, <2>4, <3>1
    <3>2. CASE n # m
      <4>1. n \in 0 .. m - 1 BY <3>2
      <4>2. n # 0 => n - 1 \in 0 .. m - 1 BY <4>1
      <4> QED BY <2>3, <2>5, <4>1, <4>2
    <3> QED BY <3>1, <3>2
  <2>7. f = [n \in 0 .. m |-> f[n]] BY <2>2
  <2>8. f = [n \in 0 .. m |-> IF n = 0 THEN r ELSE Pass(f[n - 1])]
    BY <2>6, <2>7
  <2>9. IsDrain(r, f, m) BY <2>8 DEF IsDrain
  <2> QED BY <2>9
<1> QED BY <1>1, <1>2

LEMMA DrainUnfolds ==
  ASSUME NEW r, Len(r.pending) \in Nat
  PROVE  \E f : IsDrain(r, f, Len(r.pending)) /\ Drained(r) = f[Len(r.pending)]
<1>1. \A m \in Nat : \E f : IsDrain(r, f, m)
  <2> DEFINE Not == {m \in Nat : ~\E f : IsDrain(r, f, m)}
  <2> SUFFICES ASSUME Not # {} PROVE FALSE OBVIOUS
  <2>1. PICK m \in Not : \A i \in Not : m <= i BY LeastNumber
  <2>2. m \in Nat /\ ~\E f : IsDrain(r, f, m) OBVIOUS
  <2>3. \A i \in Nat : i < m => i \notin Not BY <2>1
  <2>4. \A i \in Nat : i < m => \E f : IsDrain(r, f, i) BY <2>3
  <2> QED BY <2>2, <2>4, DrainGoesOn
<1>2. \E f : IsDrain(r, f, Len(r.pending)) BY <1>1
<1> DEFINE after == CHOOSE g : g = [n \in 0 .. Len(r.pending) |->
                      IF n = 0 THEN r ELSE Pass(g[n - 1])]
<1>3. IsDrain(r, after, Len(r.pending)) BY <1>2 DEF IsDrain
<1>4. Drained(r) = after[Len(r.pending)] BY DEF Drained
<1> HIDE DEF after
<1> QED BY <1>3, <1>4

-----------------------------------------------------------------------------
(* What the loops do.                                                      *)

\* The tree has only grown: what is known stays known, and what has ended ended.
Onward(ns, ms) ==
  /\ ms \in [Nodes -> Node] /\ Placed(ms)
  /\ \A n \in Nodes :
       /\ Known(ns, n) => Known(ms, n)
       /\ ns[n].state = "ended" => ms[n].state = "ended"

LEMMA NodesDiffer ==
  /\ Calls \cap Agents = {} /\ Attempt \in Agents /\ Nobody \notin Agents /\ Nobody \notin Calls
  /\ Nodes = Agents \cup Calls
BY DEF Calls, Agents, Nodes, Attempt, Nobody, AuditAgents

LEMMA SentTypes ==
  ASSUME sent \in Seq(Event)
  PROVE  /\ Len(sent) \in Nat /\ DOMAIN sent = 1 .. Len(sent)
         /\ \A k \in DOMAIN sent : sent[k] \in Event
         /\ \A n, kind : Emitted(kind, n) \subseteq DOMAIN sent
<1>1. Len(sent) \in Nat /\ DOMAIN sent = 1 .. Len(sent) BY LenProperties
<1>2. \A k \in DOMAIN sent : sent[k] \in Event BY <1>1, ElementOfSeq
<1> QED BY <1>1, <1>2 DEF Emitted

LEMMA OnwardKeeps ==
  ASSUME sent \in Seq(Event), NEW ns, NEW ms, Onward(ns, ms), NEW k \in DOMAIN sent,
         sent[k].node \in Calls => sent[k].parent \in Agents
  PROVE  /\ Handled(ns, k) => Handled(ms, k)
         /\ Ready(ns, sent[k]) => Ready(ms, sent[k])
<1>1. sent[k] \in Event BY SentTypes
<1>2. sent[k].node \in Nodes /\ sent[k].kind \in {"start", "end"} BY <1>1 DEF Event
<1>3. Handled(ns, k) => Handled(ms, k) BY <1>2 DEF Handled, Onward
<1>4. Ready(ns, sent[k]) => Ready(ms, sent[k])
  <2>1. sent[k].node \notin Agents => sent[k].parent \in Nodes BY <1>2, NodesDiffer
  <2> QED BY <1>2, <2>1 DEF Ready, Onward
<1> QED BY <1>3, <1>4

LEMMA OnwardFurther ==
  ASSUME NEW ns, NEW ms, NEW os, Onward(ns, ms), Onward(ms, os)
  PROVE  Onward(ns, os)
BY DEF Onward

LEMMA OnwardFromHere ==
  ASSUME NEW ns \in [Nodes -> Node], Placed(ns)
  PROVE  Onward(ns, ns)
BY DEF Onward

\* Processing an event that is ready has its effect and undoes none.
LEMMA ProcessStep ==
  ASSUME sent \in Seq(Event), Emissions, NEW ns \in [Nodes -> Node], Placed(ns),
         NEW k \in DOMAIN sent, Ready(ns, sent[k])
  PROVE  Onward(ns, Process(ns, k)) /\ Handled(Process(ns, k), k)
<1> PICK e : e = sent[k] OBVIOUS
<1>1. /\ e \in Event /\ e.node \in Nodes /\ e.kind \in {"start", "end"}
      /\ e.parent \in Agents \cup {Nobody} /\ e.status \in Status \cup {Unended}
      /\ k \in Nat
  BY SentTypes DEF Event
<1>2. e.node \in Calls => e.parent \in Agents BY DEF Emissions
<1> PICK x : x = ns[e.node] OBVIOUS
<1>3. x \in Node BY <1>1
<1>4. CASE e.kind = "end" /\ x.state = "open"
  <2> PICK y : y = [x EXCEPT !.state = "ended", !.status = e.status, !.at = k] OBVIOUS
  <2> PICK ms : ms = [ns EXCEPT ![e.node] = y] OBVIOUS
  <2>1. Process(ns, k) = ms BY <1>4 DEF Process
  <2>2. /\ y \in Node /\ y.state = "ended" /\ y.status = e.status /\ y.at = k
        /\ y.parent = x.parent
    BY <1>1, <1>3 DEF Node
  <2>3. /\ ms \in [Nodes -> Node] /\ ms[e.node] = y
        /\ \A n \in Nodes : n # e.node => ms[n] = ns[n]
    BY <1>1, <2>2
  <2>4. \A n \in Nodes : ns[n].parent = ms[n].parent /\ (Known(ns, n) <=> Known(ms, n))
    BY <1>4, <2>2, <2>3 DEF Known
  <2>5. Placed(ms)
    <3>1. k \in Emitted("end", e.node) /\ sent[k].status = y.status
      BY <1>4, <2>2 DEF Emitted
    <3>2. \A n \in Nodes :
            IF ms[n].state = "ended"
            THEN ms[n].at \in Emitted("end", n) /\ sent[ms[n].at].status = ms[n].status
            ELSE ms[n].at = 0
      BY <2>2, <2>3, <3>1 DEF Placed
    <3>3. ASSUME NEW c \in Calls, Known(ms, c)
          PROVE  /\ ms[c].parent \in Agents /\ Known(ms, ms[c].parent)
                 /\ \E j \in DOMAIN sent : sent[j].node = c /\ sent[j].parent = ms[c].parent
      <4>1. c \in Nodes /\ Agents \subseteq Nodes BY NodesDiffer
      <4>2. Known(ns, c) /\ ns[c].parent = ms[c].parent BY <2>4, <3>3, <4>1
      <4>3. /\ ns[c].parent \in Agents /\ Known(ns, ns[c].parent)
            /\ \E j \in DOMAIN sent : sent[j].node = c /\ sent[j].parent = ns[c].parent
        BY <4>2 DEF Placed
      <4> QED BY <2>4, <4>1, <4>2, <4>3
    <3> QED BY <3>2, <3>3 DEF Placed
  <2>6. Onward(ns, ms) BY <2>2, <2>3, <2>4, <2>5 DEF Onward
  <2>7. Handled(ms, k) BY <1>4, <2>2, <2>3 DEF Handled
  <2> QED BY <2>1, <2>6, <2>7
<1>5. CASE e.kind = "end" /\ x.state # "open"
  <2>1. Process(ns, k) = ns BY <1>5 DEF Process
  <2>2. x.state = "ended" BY <1>3, <1>5 DEF Ready, Known, Node
  <2>3. Handled(ns, k) BY <1>5, <2>2 DEF Handled
  <2> QED BY <2>1, <2>3, OnwardFromHere
<1>6. CASE e.kind = "start" /\ (Known(ns, e.node) \/ (e.node \in Calls /\ TooLate(ns, k)))
  <2>1. Process(ns, k) = ns BY <1>6 DEF Process
  <2>2. ASSUME e.node \in Calls, TooLate(ns, k)
        PROVE  \E j \in Emitted("end", e.parent) : j < k
    <3>1. ns[e.parent].state = "ended" /\ k > ns[e.parent].at BY <2>2 DEF TooLate
    <3>2. e.parent \in Nodes BY <1>2, <2>2, NodesDiffer
    <3>3. ns[e.parent].at \in Emitted("end", e.parent) /\ ns[e.parent].at \in Nat
      BY <3>1, <3>2 DEF Placed, Node
    <3> QED BY <1>1, <3>1, <3>3
  <2>3. Handled(ns, k) BY <1>6, <2>2 DEF Handled
  <2> QED BY <2>1, <2>3, OnwardFromHere
<1>7. CASE e.kind = "start" /\ ~(Known(ns, e.node) \/ (e.node \in Calls /\ TooLate(ns, k)))
  <2> PICK y : y = [x EXCEPT !.state = "open", !.parent = e.parent] OBVIOUS
  <2> PICK ms : ms = [ns EXCEPT ![e.node] = y] OBVIOUS
  <2>1. Process(ns, k) = ms BY <1>7 DEF Process
  <2>2. /\ y \in Node /\ y.state = "open" /\ y.at = x.at /\ y.parent = e.parent
    BY <1>1, <1>3 DEF Node
  <2>3. /\ ms \in [Nodes -> Node] /\ ms[e.node] = y
        /\ \A n \in Nodes : n # e.node => ms[n] = ns[n]
    BY <1>1, <2>2
  <2>4. \A n \in Nodes : Known(ns, n) => n # e.node /\ Known(ms, n) /\ ms[n] = ns[n]
    BY <1>7, <2>3 DEF Known
  <2>5. x.state = "absent" BY <1>7 DEF Known
  <2>6. Placed(ms)
    <3>1. x.at = 0 BY <1>1, <2>5 DEF Placed
    <3>2. \A n \in Nodes :
            IF ms[n].state = "ended"
            THEN ms[n].at \in Emitted("end", n) /\ sent[ms[n].at].status = ms[n].status
            ELSE ms[n].at = 0
      BY <2>2, <2>3, <3>1 DEF Placed
    <3>3. ASSUME NEW c \in Calls, Known(ms, c)
          PROVE  /\ ms[c].parent \in Agents /\ Known(ms, ms[c].parent)
                 /\ \E j \in DOMAIN sent : sent[j].node = c /\ sent[j].parent = ms[c].parent
      <4>1. CASE c = e.node
        <5>1. e.parent \in Agents /\ e.node \notin Agents BY <1>2, <4>1, NodesDiffer
        <5>2. Known(ns, e.parent) BY <1>7, <5>1 DEF Ready
        <5>3. Known(ms, e.parent) BY <2>4, <5>1, <5>2, NodesDiffer
        <5> QED BY <2>2, <2>3, <4>1, <5>1, <5>3
      <4>2. CASE c # e.node
        <5>1. ms[c] = ns[c] BY <2>3, <4>2, NodesDiffer
        <5>2. Known(ns, c) BY <3>3, <5>1 DEF Known
        <5>3. /\ ns[c].parent \in Agents /\ Known(ns, ns[c].parent)
              /\ \E j \in DOMAIN sent : sent[j].node = c /\ sent[j].parent = ns[c].parent
          BY <5>2 DEF Placed
        <5> QED BY <2>4, <5>1, <5>3, NodesDiffer
      <4> QED BY <4>1, <4>2
    <3> QED BY <3>2, <3>3 DEF Placed
  <2>7. \A n \in Nodes : ns[n].state = "ended" => ms[n].state = "ended"
    BY <2>3, <2>5
  <2>8. Onward(ns, ms) BY <2>3, <2>4, <2>6, <2>7 DEF Onward
  <2>9. Handled(ms, k) BY <1>7, <2>2, <2>3 DEF Handled, Known
  <2> QED BY <2>1, <2>8, <2>9
<1> QED BY <1>1, <1>4, <1>5, <1>6, <1>7

\* What a loop over the events s, of which n were looked at, makes of r.
PassedOver(r, s, q, n) ==
  /\ q \in Recorded /\ Onward(r.nodes, q.nodes) /\ Len(q.pending) <= n
  /\ \A i \in 1 .. n : Waits(q, s[i]) \/ Handled(q.nodes, s[i])
  /\ (\E i \in 1 .. n : Ready(r.nodes, sent[s[i]])) => Len(q.pending) < n
  /\ (\A i \in 1 .. n : ~Ready(r.nodes, sent[s[i]])) =>
       /\ q.nodes = r.nodes /\ Len(q.pending) = n
       /\ \A i \in 1 .. n : q.pending[i] = s[i]

\* The arithmetic of a sequence that grows by at most one.
LEMMA OneMore ==
  ASSUME NEW n \in Nat, NEW a \in Nat, NEW b \in Nat, a <= b + 1, b < n
  PROVE  a < n + 1
OBVIOUS

LEMMA LastOrBefore ==
  ASSUME NEW n \in Nat
  PROVE  \A i \in 1 .. n + 1 : i = n + 1 \/ i \in 1 .. n
OBVIOUS

\* What is sent has the parents the emitter says.
LEMMA SentParents ==
  ASSUME Emissions, NEW k \in DOMAIN sent, sent[k].node \in Calls
  PROVE  sent[k].parent \in Agents
BY DEF Emissions

LEMMA RecordedParts ==
  ASSUME NEW r \in Recorded
  PROVE  /\ r.nodes \in [Nodes -> Node] /\ r.pending \in Seq(DOMAIN sent)
         /\ Len(r.pending) \in Nat /\ DOMAIN r.pending = 1 .. Len(r.pending)
         /\ \A i \in 1 .. Len(r.pending) : r.pending[i] \in DOMAIN sent
<1>1. r.nodes \in [Nodes -> Node] /\ r.pending \in Seq(DOMAIN sent) BY DEF Recorded
<1> QED BY <1>1, LenProperties, ElementOfSeq

\* An event that is taken is done, if it is ready, and waits behind the others if not.
LEMMA TakeStep ==
  ASSUME sent \in Seq(Event), Emissions, NEW q \in Recorded, Placed(q.nodes),
         NEW k \in DOMAIN sent
  PROVE  /\ Take(q, k) \in Recorded /\ Onward(q.nodes, Take(q, k).nodes)
         /\ Waits(Take(q, k), k) \/ Handled(Take(q, k).nodes, k)
         /\ \A j : Waits(q, j) => Waits(Take(q, k), j)
         /\ Ready(q.nodes, sent[k]) => Take(q, k).pending = q.pending
         /\ ~Ready(q.nodes, sent[k]) =>
              /\ Take(q, k).nodes = q.nodes
              /\ Len(Take(q, k).pending) = Len(q.pending) + 1
              /\ Take(q, k).pending[Len(q.pending) + 1] = k
              /\ \A i \in 1 .. Len(q.pending) : Take(q, k).pending[i] = q.pending[i]
<1>a. PICK p : p = Take(q, k) OBVIOUS
<1>0. /\ q.nodes \in [Nodes -> Node] /\ q.pending \in Seq(DOMAIN sent)
      /\ Len(q.pending) \in Nat /\ DOMAIN q.pending = 1 .. Len(q.pending)
      /\ q = [nodes |-> q.nodes, pending |-> q.pending]
  BY RecordedParts DEF Recorded
<1>1. CASE Ready(q.nodes, sent[k])
  <2>1. p = [q EXCEPT !.nodes = Process(q.nodes, k)] BY <1>1, <1>a DEF Take
  <2>2. p.nodes = Process(q.nodes, k) /\ p.pending = q.pending
        /\ p = [nodes |-> p.nodes, pending |-> p.pending]
    BY <1>0, <2>1
  <2>3. Onward(q.nodes, p.nodes) /\ Handled(p.nodes, k)
    BY <1>0, <1>1, <2>2, ProcessStep
  <2>4. p \in Recorded BY <1>0, <2>2, <2>3 DEF Recorded, Onward
  <2>5. \A j : Waits(q, j) => Waits(p, j) BY <2>2 DEF Waits
  <2> QED BY <1>1, <1>a, <2>2, <2>3, <2>4, <2>5
<1>2. CASE ~Ready(q.nodes, sent[k])
  <2>1. p = [q EXCEPT !.pending = Append(q.pending, k)] BY <1>2, <1>a DEF Take
  <2>2. p.nodes = q.nodes /\ p.pending = Append(q.pending, k)
        /\ p = [nodes |-> p.nodes, pending |-> p.pending]
    BY <1>0, <2>1
  <2>3. /\ p.pending \in Seq(DOMAIN sent) /\ Len(p.pending) = Len(q.pending) + 1
        /\ p.pending[Len(q.pending) + 1] = k
        /\ \A i \in 1 .. Len(q.pending) : p.pending[i] = q.pending[i]
    BY <1>0, <2>2, AppendProperties
  <2>4. p \in Recorded BY <1>0, <2>2, <2>3 DEF Recorded
  <2>5. DOMAIN p.pending = 1 .. Len(q.pending) + 1 BY <2>3, LenProperties
  <2>6. Waits(p, k)
    <3>1. Len(q.pending) + 1 \in DOMAIN p.pending BY <1>0, <2>5
    <3> QED BY <2>3, <3>1 DEF Waits
  <2>8. ASSUME NEW j, Waits(q, j) PROVE Waits(p, j)
    <3>1. PICK i \in 1 .. Len(q.pending) : q.pending[i] = j BY <1>0, <2>8 DEF Waits
    <3>2. i \in DOMAIN p.pending BY <1>0, <2>5, <3>1
    <3>3. p.pending[i] = j BY <2>3, <3>1
    <3> QED BY <3>2, <3>3 DEF Waits
  <2>7. Onward(q.nodes, p.nodes) BY <1>0, <2>2, OnwardFromHere
  <2> QED BY <1>2, <1>a, <2>2, <2>3, <2>4, <2>6, <2>7, <2>8
<1> QED BY <1>1, <1>2

LEMMA PassedOverOne ==
  ASSUME sent \in Seq(Event), Emissions, NEW r \in Recorded, NEW s \in Seq(DOMAIN sent),
         NEW n \in Nat, n + 1 <= Len(s), NEW q, PassedOver(r, s, q, n)
  PROVE  PassedOver(r, s, Take(q, s[n + 1]), n + 1)
<1>a. PICK k : k = s[n + 1] OBVIOUS
<1>b. PICK p : p = Take(q, k) OBVIOUS
<1>0. /\ Len(s) \in Nat /\ n + 1 \in 1 .. Len(s) /\ k \in DOMAIN sent
      /\ \A i \in 1 .. n + 1 : s[i] \in DOMAIN sent
  <2>1. Len(s) \in Nat BY LenProperties
  <2>2. n + 1 \in 1 .. Len(s) BY <2>1
  <2> QED BY <1>a, <2>1, <2>2, ElementOfSeq
<1>1. /\ q \in Recorded /\ Onward(r.nodes, q.nodes) /\ Placed(q.nodes)
      /\ Len(q.pending) \in Nat /\ Len(q.pending) <= n
  BY RecordedParts DEF PassedOver, Onward
<1>2. /\ p \in Recorded /\ Onward(q.nodes, p.nodes)
      /\ Waits(p, k) \/ Handled(p.nodes, k)
      /\ \A j : Waits(q, j) => Waits(p, j)
      /\ Ready(q.nodes, sent[k]) => p.pending = q.pending
      /\ ~Ready(q.nodes, sent[k]) =>
           /\ p.nodes = q.nodes
           /\ Len(p.pending) = Len(q.pending) + 1
           /\ p.pending[Len(q.pending) + 1] = k
           /\ \A i \in 1 .. Len(q.pending) : p.pending[i] = q.pending[i]
  <2>1. k \in DOMAIN sent /\ Placed(q.nodes) /\ q \in Recorded BY <1>0, <1>1
  <2>2. /\ Take(q, k) \in Recorded /\ Onward(q.nodes, Take(q, k).nodes)
        /\ Waits(Take(q, k), k) \/ Handled(Take(q, k).nodes, k)
        /\ \A j : Waits(q, j) => Waits(Take(q, k), j)
        /\ Ready(q.nodes, sent[k]) => Take(q, k).pending = q.pending
        /\ ~Ready(q.nodes, sent[k]) =>
             /\ Take(q, k).nodes = q.nodes
             /\ Len(Take(q, k).pending) = Len(q.pending) + 1
             /\ Take(q, k).pending[Len(q.pending) + 1] = k
             /\ \A i \in 1 .. Len(q.pending) : Take(q, k).pending[i] = q.pending[i]
    BY <2>1, TakeStep
  <2> QED BY <1>b, <2>2
<1>3. Onward(r.nodes, p.nodes) BY <1>1, <1>2, OnwardFurther
<1>4. Len(p.pending) \in Nat /\ Len(p.pending) <= Len(q.pending) + 1
  BY <1>1, <1>2
<1>5. \A i \in 1 .. n + 1 : Waits(p, s[i]) \/ Handled(p.nodes, s[i])
  <2> SUFFICES ASSUME NEW i \in 1 .. n + 1 PROVE Waits(p, s[i]) \/ Handled(p.nodes, s[i])
    OBVIOUS
  <2>1. CASE i = n + 1 BY <1>2, <1>a, <2>1
  <2>2. CASE i # n + 1
    <3>1. i \in 1 .. n BY <2>2
    <3>2. Waits(q, s[i]) \/ Handled(q.nodes, s[i]) BY <3>1 DEF PassedOver
    <3>3. Handled(q.nodes, s[i]) => Handled(p.nodes, s[i])
      BY <1>0, <1>2, OnwardKeeps, SentParents
    <3> QED BY <1>2, <3>2, <3>3
  <2> QED BY <2>1, <2>2
<1>6. ASSUME NEW i \in 1 .. n + 1, Ready(r.nodes, sent[s[i]]) PROVE Len(p.pending) < n + 1
  <2>1. CASE i = n + 1
    <3>1. Ready(q.nodes, sent[k]) BY <1>0, <1>1, <1>6, <1>a, <2>1, OnwardKeeps, SentParents
    <3> QED BY <1>1, <1>2, <3>1
  <2>2. CASE i # n + 1
    <3>1. i \in 1 .. n BY <2>2
    <3>2. Len(q.pending) < n BY <1>6, <3>1 DEF PassedOver
    <3> QED BY ONLY n \in Nat, <1>1, <1>4, <3>2, OneMore
  <2> QED BY <2>1, <2>2
<1>7. ASSUME \A i \in 1 .. n + 1 : ~Ready(r.nodes, sent[s[i]])
      PROVE  /\ p.nodes = r.nodes /\ Len(p.pending) = n + 1
             /\ \A i \in 1 .. n + 1 : p.pending[i] = s[i]
  <2>1. \A i \in 1 .. n : ~Ready(r.nodes, sent[s[i]]) BY <1>7
  <2>2. /\ q.nodes = r.nodes /\ Len(q.pending) = n
        /\ \A i \in 1 .. n : q.pending[i] = s[i]
    BY <2>1 DEF PassedOver
  <2>3. n + 1 \in 1 .. n + 1 OBVIOUS
  <2>4. ~Ready(q.nodes, sent[k]) BY <1>7, <1>a, <2>2, <2>3
  <2>5. /\ p.nodes = r.nodes /\ Len(p.pending) = n + 1 /\ p.pending[n + 1] = k
        /\ \A i \in 1 .. n : p.pending[i] = s[i]
    BY <1>2, <2>2, <2>4
  <2>6. \A i \in 1 .. n + 1 : i = n + 1 \/ i \in 1 .. n
    BY ONLY n \in Nat, LastOrBefore
  <2> QED BY <1>a, <2>5, <2>6
<1>8. Len(p.pending) <= n + 1 BY <1>1, <1>4
<1>9. PassedOver(r, s, p, n + 1) BY <1>2, <1>3, <1>5, <1>6, <1>7, <1>8 DEF PassedOver
<1> QED BY <1>9, <1>a, <1>b

\* One pass loses no event; it makes progress unless none is ready, and then it
\* changes nothing.
PassEffect(r, q) ==
  /\ q \in Recorded /\ Onward(r.nodes, q.nodes) /\ Len(q.pending) <= Len(r.pending)
  /\ \A k : Waits(r, k) => Waits(q, k) \/ Handled(q.nodes, k)
  /\ NoneReady(r) => q = r
  /\ ~NoneReady(r) => Len(q.pending) < Len(r.pending)

LEMMA PassProperties ==
  ASSUME sent \in Seq(Event), Emissions, NEW r \in Recorded, Placed(r.nodes)
  PROVE  PassEffect(r, Pass(r))
<1>a. PICK s : s = r.pending OBVIOUS
<1>0. /\ s \in Seq(DOMAIN sent) /\ Len(s) \in Nat /\ DOMAIN s = 1 .. Len(s)
      /\ r.nodes \in [Nodes -> Node] /\ r = [nodes |-> r.nodes, pending |-> s]
  BY <1>a, RecordedParts DEF Recorded
<1>b. PICK b : b = [r EXCEPT !.pending = <<>>] OBVIOUS
<1>1. PICK f : IsPass(r, f, Len(s)) /\ Pass(r) = f[Len(s)] BY <1>0, <1>a, PassUnfolds
<1>2. f[0] = b /\ \A n \in 0 .. Len(s) : n # 0 => f[n] = Take(f[n - 1], s[n])
  <2>1. f = [n \in 0 .. Len(s) |-> IF n = 0 THEN b ELSE Take(f[n - 1], s[n])]
    BY <1>1, <1>a, <1>b DEF IsPass
  <2>2. 0 \in 0 .. Len(s) BY <1>0
  <2>3. \A n \in 0 .. Len(s) : f[n] = IF n = 0 THEN b ELSE Take(f[n - 1], s[n])
    BY <2>1
  <2> QED BY <2>2, <2>3
<1>3. PassedOver(r, s, b, 0)
  <2>1. b.nodes = r.nodes /\ b.pending = <<>> /\ b = [nodes |-> r.nodes, pending |-> <<>>]
    BY <1>0, <1>b
  <2>2. <<>> \in Seq(DOMAIN sent) /\ Len(<<>>) = 0 BY EmptySeq
  <2>3. b \in Recorded BY <1>0, <2>1, <2>2 DEF Recorded
  <2>4. Onward(r.nodes, b.nodes) BY <1>0, <2>1, OnwardFromHere
  <2> QED BY <2>1, <2>2, <2>3, <2>4 DEF PassedOver
<1>4. \A n \in 0 .. Len(s) : PassedOver(r, s, f[n], n)
  <2> DEFINE Not == {n \in 0 .. Len(s) : ~PassedOver(r, s, f[n], n)}
  <2> SUFFICES ASSUME Not # {} PROVE FALSE OBVIOUS
  <2>0. Not \subseteq Nat BY <1>0
  <2>1. PICK n \in Not : \A i \in Not : n <= i BY <2>0, LeastNumber
  <2>2. n \in 0 .. Len(s) /\ ~PassedOver(r, s, f[n], n) /\ \A i \in 0 .. Len(s) :
          i < n => PassedOver(r, s, f[i], i)
    BY <1>0, <2>1
  <2> HIDE DEF Not
  <2>3. n # 0 BY <1>2, <1>3, <2>2
  <2>4. n - 1 \in 0 .. Len(s) /\ n - 1 \in Nat /\ n - 1 < n /\ (n - 1) + 1 = n
        /\ (n - 1) + 1 <= Len(s)
    BY <1>0, <2>2, <2>3
  <2>5. PassedOver(r, s, f[n - 1], n - 1) BY <2>2, <2>4
  <2>6. PassedOver(r, s, Take(f[n - 1], s[(n - 1) + 1]), (n - 1) + 1)
    BY <1>0, <2>4, <2>5, PassedOverOne
  <2>7. PassedOver(r, s, f[n], n) BY <1>2, <2>2, <2>3, <2>4, <2>6
  <2> QED BY <2>2, <2>7
<1>c. PICK q : q = Pass(r) OBVIOUS
<1>5. PassedOver(r, s, q, Len(s)) BY <1>0, <1>1, <1>4, <1>c
<1>6. q \in Recorded /\ Onward(r.nodes, q.nodes) /\ Len(q.pending) <= Len(s)
  BY <1>5 DEF PassedOver
<1>7. \A k : Waits(r, k) => Waits(q, k) \/ Handled(q.nodes, k)
  <2> SUFFICES ASSUME NEW k, Waits(r, k) PROVE Waits(q, k) \/ Handled(q.nodes, k)
    OBVIOUS
  <2>1. PICK i \in DOMAIN s : s[i] = k BY <1>a DEF Waits
  <2>2. i \in 1 .. Len(s) BY <1>0, <2>1
  <2>3. Waits(q, s[i]) \/ Handled(q.nodes, s[i]) BY <1>5, <2>2 DEF PassedOver
  <2> QED BY <2>1, <2>3
<1>8. ~NoneReady(r) => Len(q.pending) < Len(s)
  BY <1>0, <1>5, <1>a DEF PassedOver, NoneReady
<1>9. NoneReady(r) => q = r
  <2> SUFFICES ASSUME NoneReady(r) PROVE q = r OBVIOUS
  <2>1. \A i \in 1 .. Len(s) : ~Ready(r.nodes, sent[s[i]]) BY <1>0, <1>a DEF NoneReady
  <2>2. /\ q.nodes = r.nodes /\ Len(q.pending) = Len(s)
        /\ \A i \in 1 .. Len(s) : q.pending[i] = s[i]
    BY <1>5, <2>1 DEF PassedOver
  <2>3. q.pending \in Seq(DOMAIN sent) BY <1>6, RecordedParts
  <2>4. q.pending = s BY <1>0, <2>2, <2>3, SeqEqual
  <2>5. q = [nodes |-> q.nodes, pending |-> q.pending] BY <1>6 DEF Recorded
  <2> QED BY <1>0, <2>2, <2>4, <2>5
<1>10. PassEffect(r, q) BY <1>6, <1>7, <1>8, <1>9, <1>a DEF PassEffect
<1> QED BY <1>10, <1>c

\* After the loop nothing that waits is ready, and no event is lost.
DrainEffect(r, q) ==
  /\ q \in Recorded /\ Onward(r.nodes, q.nodes) /\ Len(q.pending) <= Len(r.pending)
  /\ \A k \in DOMAIN sent : Waits(r, k) => Waits(q, k) \/ Handled(q.nodes, k)
  /\ NoneReady(q)

LEMMA DrainedProperties ==
  ASSUME sent \in Seq(Event), Emissions, NEW r \in Recorded, Placed(r.nodes)
  PROVE  DrainEffect(r, Drained(r))
<1>a. PICK N : N = Len(r.pending) OBVIOUS
<1>0. N \in Nat /\ r.nodes \in [Nodes -> Node] BY <1>a, RecordedParts
<1>1. PICK f : IsDrain(r, f, N) /\ Drained(r) = f[N] BY <1>0, <1>a, DrainUnfolds
<1>2. f[0] = r /\ \A n \in 0 .. N : n # 0 => f[n] = Pass(f[n - 1])
  <2>1. \A n \in 0 .. N : f[n] = IF n = 0 THEN r ELSE Pass(f[n - 1])
    BY <1>1 DEF IsDrain
  <2>2. 0 \in 0 .. N BY <1>0
  <2> QED BY <2>1, <2>2
<1> DEFINE After(q, n) ==
      /\ q \in Recorded /\ Onward(r.nodes, q.nodes) /\ Len(q.pending) <= N
      /\ \A k \in DOMAIN sent : Waits(r, k) => Waits(q, k) \/ Handled(q.nodes, k)
      /\ NoneReady(q) \/ Len(q.pending) <= N - n
<1>3. After(r, 0) BY <1>0, <1>a, OnwardFromHere
<1>4. ASSUME NEW n \in Nat, NEW q, After(q, n) PROVE After(Pass(q), n + 1)
  <2>a. PICK p : p = Pass(q) OBVIOUS
  <2>1. Placed(q.nodes) BY <1>4 DEF Onward
  <2>2. PassEffect(q, p) BY <1>4, <2>1, <2>a, PassProperties
  <2>3. p \in Recorded /\ Onward(q.nodes, p.nodes) /\ Len(p.pending) <= Len(q.pending)
    BY <2>2 DEF PassEffect
  <2>4. Onward(r.nodes, p.nodes) BY <1>4, <2>3, OnwardFurther
  <2>5. Len(p.pending) \in Nat /\ Len(q.pending) \in Nat BY <1>4, <2>3, RecordedParts
  <2>6. ASSUME NEW k \in DOMAIN sent, Waits(r, k) PROVE Waits(p, k) \/ Handled(p.nodes, k)
    <3>1. Waits(q, k) \/ Handled(q.nodes, k) BY <1>4, <2>6
    <3>2. Handled(q.nodes, k) => Handled(p.nodes, k) BY <2>3, OnwardKeeps, SentParents
    <3>3. Waits(q, k) => Waits(p, k) \/ Handled(p.nodes, k) BY <2>2 DEF PassEffect
    <3> QED BY <3>1, <3>2, <3>3
  <2>7. CASE NoneReady(q)
    <3>1. p = q BY <2>2, <2>7 DEF PassEffect
    <3> QED BY <1>4, <2>7, <2>a, <3>1
  <2>8. CASE ~NoneReady(q)
    <3>1. Len(q.pending) <= N - n BY <1>4, <2>8
    <3>2. Len(p.pending) < Len(q.pending) BY <2>2, <2>8 DEF PassEffect
    <3>3. Len(p.pending) <= N - (n + 1) /\ Len(p.pending) <= N
      BY <1>0, <2>5, <3>1, <3>2
    <3> QED BY <2>3, <2>4, <2>6, <2>a, <3>3
  <2> QED BY <2>7, <2>8
<1> HIDE DEF After
<1>5. \A n \in 0 .. N : After(f[n], n)
  <2> DEFINE Not == {n \in 0 .. N : ~After(f[n], n)}
  <2> SUFFICES ASSUME Not # {} PROVE FALSE OBVIOUS
  <2>0. Not \subseteq Nat BY <1>0
  <2>1. PICK n \in Not : \A i \in Not : n <= i BY <2>0, LeastNumber
  <2>2. n \in 0 .. N /\ ~After(f[n], n) /\ \A i \in 0 .. N : i < n => After(f[i], i)
    BY <1>0, <2>1
  <2> HIDE DEF Not
  <2>3. n # 0 BY <1>2, <1>3, <2>2
  <2>4. n - 1 \in 0 .. N /\ n - 1 \in Nat /\ n - 1 < n /\ (n - 1) + 1 = n
    BY <1>0, <2>2, <2>3
  <2>5. After(Pass(f[n - 1]), (n - 1) + 1) BY <1>4, <2>2, <2>4
  <2>6. f[n] = Pass(f[n - 1]) BY <1>2, <2>2, <2>3
  <2> QED BY <2>2, <2>4, <2>5, <2>6
<1>b. PICK q : q = Drained(r) OBVIOUS
<1>6. After(q, N) BY <1>0, <1>1, <1>5, <1>b
<1>7. NoneReady(q)
  <2>1. CASE Len(q.pending) <= N - N
    <3>1. q \in Recorded BY <1>6 DEF After
    <3>2. Len(q.pending) \in Nat /\ DOMAIN q.pending = 1 .. Len(q.pending)
      BY <3>1, RecordedParts
    <3>3. DOMAIN q.pending = {} BY <1>0, <2>1, <3>2
    <3> QED BY <3>3 DEF NoneReady
  <2> QED BY <1>6, <2>1 DEF After
<1> QED BY <1>6, <1>7, <1>a, <1>b DEF After, DrainEffect

-----------------------------------------------------------------------------
(* What the emitter sends.                                                 *)

\* What is emitted stands behind what was, and is under way.
Follows(events) ==
  /\ sent' \in Seq(Event) /\ DOMAIN sent \subseteq DOMAIN sent'
  /\ \A k \in DOMAIN sent : sent'[k] = sent[k]
  /\ \A i \in 1 .. Len(events) :
       Len(sent) + i \in DOMAIN sent' /\ sent'[Len(sent) + i] = events[i]
  /\ \A k \in DOMAIN sent' \ DOMAIN sent :
       k \in wire' /\ \E i \in 1 .. Len(events) : k = Len(sent) + i /\ sent'[k] = events[i]
  /\ wire \subseteq wire' /\ wire' \subseteq DOMAIN sent'

LEMMA EmitFollows ==
  ASSUME sent \in Seq(Event), wire \subseteq DOMAIN sent, NEW events \in Seq(Event), Emit(events)
  PROVE  Follows(events)
<1>a. PICK n : n = Len(sent) OBVIOUS
<1>b. PICK m : m = Len(events) OBVIOUS
<1>1. n \in Nat /\ m \in Nat /\ DOMAIN sent = 1 .. n BY <1>a, <1>b, LenProperties
<1>2. sent' = sent \o events BY DEF Emit
<1>3. /\ sent' \in Seq(Event) /\ Len(sent') = n + m
      /\ \A k \in 1 .. n + m : sent'[k] = IF k <= n THEN sent[k] ELSE events[k - n]
  BY <1>2, <1>a, <1>b, ConcatProperties
<1>4. DOMAIN sent' = 1 .. n + m BY <1>3, LenProperties
<1>5. wire' = wire \cup (n + 1 .. n + m) BY <1>a, <1>b DEF Emit
<1>6. DOMAIN sent \subseteq DOMAIN sent' /\ wire' \subseteq DOMAIN sent'
  <2>1. 1 .. n \subseteq 1 .. n + m /\ n + 1 .. n + m \subseteq 1 .. n + m BY <1>1
  <2> QED BY <1>1, <1>4, <1>5, <2>1
<1>7. \A k \in DOMAIN sent : sent'[k] = sent[k]
  <2> SUFFICES ASSUME NEW k \in 1 .. n PROVE sent'[k] = sent[k] BY <1>1
  <2>1. k \in 1 .. n + m /\ k <= n BY <1>1
  <2> QED BY <1>3, <2>1
<1>8. ASSUME NEW i \in 1 .. m PROVE n + i \in DOMAIN sent' /\ sent'[n + i] = events[i]
  <2>1. n + i \in 1 .. n + m /\ ~(n + i <= n) /\ (n + i) - n = i BY <1>1
  <2> QED BY <1>3, <1>4, <2>1
<1>9. ASSUME NEW k \in DOMAIN sent' \ DOMAIN sent
      PROVE  k \in wire' /\ \E i \in 1 .. m : k = n + i /\ sent'[k] = events[i]
  <2>1. k \in n + 1 .. n + m /\ k - n \in 1 .. m /\ k = n + (k - n) BY <1>1, <1>4, <1>9
  <2>2. k \in wire' BY <1>5, <2>1
  <2>3. sent'[k] = events[k - n] BY <1>8, <2>1
  <2> QED BY <2>1, <2>2, <2>3
<1>10. wire \subseteq wire' BY <1>5
<1> QED BY <1>3, <1>6, <1>7, <1>8, <1>9, <1>10, <1>a, <1>b DEF Follows

LEMMA FollowsEmitted ==
  ASSUME NEW events, Follows(events)
  PROVE  \A kind, n : Emitted(kind, n) \subseteq Emitted(kind, n)'
BY DEF Follows, Emitted

\* The recorder has no part in it: what it knows stands as before.
LEMMA FollowsRecorder ==
  ASSUME TraceInvariant, NEW events, Follows(events), trace = "open",
         UNCHANGED recorderVars
  PROVE  Tree' /\ NoneReady(Now)' /\ NoneLost'
<1>0. /\ nodes' = nodes /\ pending' = pending /\ trace' = trace /\ overflown' = overflown
      /\ Now' = Now
  BY DEF recorderVars, Now
<1>1. /\ pending \in Seq(DOMAIN sent) /\ sent \in Seq(Event) /\ nodes \in [Nodes -> Node]
      /\ Placed(nodes) /\ Known(nodes, Attempt) /\ Emissions /\ wire \subseteq DOMAIN sent
  BY DEF TraceInvariant, TraceTypeOK, Tree
<1>2. \A k \in DOMAIN sent : k \in DOMAIN sent' /\ sent'[k] = sent[k] BY DEF Follows
<1>3. \A kind, n : Emitted(kind, n) \subseteq Emitted(kind, n)' BY FollowsEmitted
<1>4. Placed(nodes)'
  <2>1. ASSUME NEW n \in Nodes
        PROVE  IF nodes[n].state = "ended"
               THEN nodes[n].at \in Emitted("end", n)' /\ sent'[nodes[n].at].status = nodes[n].status
               ELSE nodes[n].at = 0
    <3>1. CASE nodes[n].state = "ended"
      <4>1. nodes[n].at \in Emitted("end", n) /\ sent[nodes[n].at].status = nodes[n].status
        BY <1>1, <3>1 DEF Placed
      <4>2. nodes[n].at \in DOMAIN sent BY <4>1 DEF Emitted
      <4> QED BY <1>2, <1>3, <3>1, <4>1, <4>2
    <3>2. CASE nodes[n].state # "ended" BY <1>1, <3>2 DEF Placed
    <3> QED BY <3>1, <3>2
  <2>2. ASSUME NEW c \in Calls, Known(nodes, c)
        PROVE  /\ nodes[c].parent \in Agents /\ Known(nodes, nodes[c].parent)
               /\ \E k \in DOMAIN sent' : sent'[k].node = c /\ sent'[k].parent = nodes[c].parent
    <3>1. /\ nodes[c].parent \in Agents /\ Known(nodes, nodes[c].parent)
          /\ \E k \in DOMAIN sent : sent[k].node = c /\ sent[k].parent = nodes[c].parent
      BY <1>1, <2>2 DEF Placed
    <3> QED BY <1>2, <3>1
  <2> QED BY <1>0, <2>1, <2>2 DEF Placed, Known
<1>5. Tree' BY <1>0, <1>1, <1>4 DEF Tree, Known
<1>6. NoneReady(Now)'
  <2> SUFFICES ASSUME NEW i \in DOMAIN pending PROVE ~Ready(nodes, sent'[pending[i]])
    BY <1>0 DEF NoneReady, Now, Ready, Known
  <2>1. pending[i] \in DOMAIN sent BY <1>1, LenProperties, ElementOfSeq
  <2>2. ~Ready(nodes, sent[pending[i]]) BY DEF TraceInvariant, NoneReady, Now
  <2> QED BY <1>2, <2>1, <2>2
<1>7. NoneLost'
  <2> SUFFICES ASSUME ~overflown, NEW k \in DOMAIN sent'
               PROVE  k \in wire' \/ Waits(Now, k) \/ Handled(nodes, k)'
    BY <1>0 DEF NoneLost, Waits
  <2>1. CASE k \notin DOMAIN sent BY <2>1 DEF Follows
  <2>2. CASE k \in DOMAIN sent
    <3>1. k \in wire \/ Waits(Now, k) \/ Handled(nodes, k)
      BY <2>2 DEF TraceInvariant, NoneLost
    <3>2. k \in wire => k \in wire' BY DEF Follows
    <3>3. ASSUME Handled(nodes, k) PROVE Handled(nodes, k)'
      <4>1. sent'[k] = sent[k] BY <1>2, <2>2
      <4>2. CASE sent[k].kind = "end" BY <1>0, <3>3, <4>1, <4>2 DEF Handled
      <4>3. CASE sent[k].kind # "end"
        <5>1. Known(nodes, sent[k].node) \/
              (sent[k].node \in Calls /\ \E j \in Emitted("end", sent[k].parent) : j < k)
          BY <3>3, <4>3 DEF Handled
        <5>2. \/ Known(nodes, sent[k].node)
              \/ /\ sent[k].node \in Calls
                 /\ \E j \in DOMAIN sent' :
                      sent'[j].kind = "end" /\ sent'[j].node = sent[k].parent /\ j < k
          <6>1. CASE Known(nodes, sent[k].node) BY <6>1
          <6>2. CASE sent[k].node \in Calls /\ \E j \in Emitted("end", sent[k].parent) : j < k
            <7>1. PICK j \in Emitted("end", sent[k].parent) : j < k BY <6>2
            <7>2. PICK p : p = sent[k].parent OBVIOUS
            <7>3. j \in Emitted("end", p)' BY <1>3, <7>1, <7>2
            <7>4. p = sent'[k].parent BY <4>1, <7>2
            <7>5. j \in DOMAIN sent' /\ sent'[j].kind = "end" /\ sent'[j].node = p
              BY <7>3 DEF Emitted
            <7> QED BY <6>2, <7>1, <7>2, <7>5
          <6> QED BY <5>1, <6>1, <6>2
        <5> QED BY <1>0, <4>1, <4>3, <5>2 DEF Handled, Known, Emitted
      <4> QED BY <4>2, <4>3
    <3> QED BY <3>1, <3>2, <3>3
  <2> QED BY <2>1, <2>2
<1> QED BY <1>5, <1>6, <1>7

\* What the emitter owes: what it says of a call goes under the call's agent, which has
\* begun, the end of a call once and after its start.
Owed(events) ==
  /\ callsBegun <= callsBegun'
  /\ \A i \in 1 .. Len(events) : events[i].node \in Calls =>
       /\ events[i].parent \in Agents /\ Begun(events[i].parent)
       /\ events[i].node[2] <= callsBegun'
       /\ \A k \in DOMAIN sent : sent[k].node = events[i].node => sent[k].parent = events[i].parent
       /\ events[i].kind = "end" => Emitted("end", events[i].node) = {}
       /\ \A j \in 1 .. Len(events) : events[j].node = events[i].node => i = j
  /\ \A c \in inFlight' :
       /\ c[2] <= callsBegun' /\ Emitted("end", c) = {}
       /\ c \in inFlight \/ \E i \in 1 .. Len(events) : events[i].kind = "start" /\ events[i].node = c
       /\ \A i \in 1 .. Len(events) : ~(events[i].kind = "end" /\ events[i].node = c)
  /\ running' # Nobody =>
       \/ running' = running \/ running' = Attempt
       \/ \E i \in 1 .. Len(events) : events[i].kind = "start" /\ events[i].node = running'

LEMMA OwedEmissions ==
  ASSUME sent \in Seq(Event), Emissions, callsBegun \in Nat, callsBegun' \in Nat, NEW events,
         Follows(events), Owed(events)
  PROVE  Emissions'
<1>a. PICK n : n = Len(sent) OBVIOUS
<1>0. n \in Nat BY <1>a, LenProperties
<1>1. \A k \in DOMAIN sent : k \in DOMAIN sent' /\ sent'[k] = sent[k] BY DEF Follows
<1>2. \A k \in DOMAIN sent' \ DOMAIN sent :
        \E i \in 1 .. Len(events) : k = n + i /\ sent'[k] = events[i]
  BY <1>a DEF Follows
<1>3. \A kind, nd : Emitted(kind, nd) \subseteq Emitted(kind, nd)' BY FollowsEmitted
<1>4. \A a : Begun(a) => Begun(a)' BY <1>3 DEF Begun
<1>5. \A i \in 1 .. Len(events) : events[i].kind = "start" => Emitted("start", events[i].node)' # {}
  <2> SUFFICES ASSUME NEW i \in 1 .. Len(events), events[i].kind = "start"
               PROVE  Emitted("start", events[i].node)' # {}
    OBVIOUS
  <2>1. n + i \in DOMAIN sent' /\ sent'[n + i] = events[i] BY <1>a DEF Follows
  <2>2. n + i \in Emitted("start", events[i].node)' BY <2>1 DEF Emitted
  <2> QED BY <2>2
<1>6. ASSUME NEW k \in DOMAIN sent', sent'[k].node \in Calls
      PROVE  sent'[k].parent \in Agents /\ Begun(sent[k].parent)' /\ sent'[k].node[2] <= callsBegun'
  <2>1. CASE k \in DOMAIN sent
    <3>1. sent'[k] = sent[k] BY <1>1, <2>1
    <3>2. sent[k].parent \in Agents /\ Begun(sent[k].parent) /\ sent[k].node[2] <= callsBegun
      BY <1>6, <2>1, <3>1 DEF Emissions
    <3>3. sent[k].node[2] \in Nat BY <1>6, <3>1 DEF Calls
    <3>4. sent[k].node[2] <= callsBegun' BY <3>2, <3>3 DEF Owed
    <3>5. Begun(sent[k].parent)' BY <1>4, <3>1, <3>2 DEF Begun
    <3> QED BY <3>1, <3>2, <3>4, <3>5
  <2>2. CASE k \notin DOMAIN sent
    <3>1. PICK i \in 1 .. Len(events) : sent'[k] = events[i] BY <1>2, <2>2
    <3>2. events[i].parent \in Agents /\ Begun(events[i].parent) /\ events[i].node[2] <= callsBegun'
      BY <1>6, <3>1 DEF Owed
    <3>3. Begun(sent[k].parent)' BY <1>4, <3>1, <3>2 DEF Begun
    <3> QED BY <3>1, <3>2, <3>3
  <2> QED BY <2>1, <2>2
<1>7. ASSUME NEW j \in DOMAIN sent', NEW k \in DOMAIN sent',
             sent'[j].node \in Calls, sent'[j].node = sent'[k].node
      PROVE  sent'[j].parent = sent'[k].parent
  <2>1. CASE j \in DOMAIN sent /\ k \in DOMAIN sent BY <1>1, <1>7, <2>1 DEF Emissions
  <2>2. CASE j \in DOMAIN sent /\ k \notin DOMAIN sent
    <3>1. PICK i \in 1 .. Len(events) : sent'[k] = events[i] BY <1>2, <2>2
    <3>2. sent'[j] = sent[j] BY <1>1, <2>2
    <3>3. events[i].node \in Calls /\ sent[j].node = events[i].node BY <1>7, <3>1, <3>2
    <3>4. \A m \in DOMAIN sent : sent[m].node = events[i].node => sent[m].parent = events[i].parent
      BY <3>3 DEF Owed
    <3>5. sent[j].parent = events[i].parent BY <2>2, <3>3, <3>4
    <3> QED BY <3>1, <3>2, <3>5
  <2>3. CASE j \notin DOMAIN sent /\ k \in DOMAIN sent
    <3>1. PICK i \in 1 .. Len(events) : sent'[j] = events[i] BY <1>2, <2>3
    <3>2. sent'[k] = sent[k] BY <1>1, <2>3
    <3>3. events[i].node \in Calls /\ sent[k].node = events[i].node BY <1>7, <3>1, <3>2
    <3>4. \A m \in DOMAIN sent : sent[m].node = events[i].node => sent[m].parent = events[i].parent
      BY <3>3 DEF Owed
    <3>5. sent[k].parent = events[i].parent BY <2>3, <3>3, <3>4
    <3> QED BY <3>1, <3>2, <3>5
  <2>4. CASE j \notin DOMAIN sent /\ k \notin DOMAIN sent
    <3>1. PICK i \in 1 .. Len(events) : sent'[k] = events[i] BY <1>2, <2>4
    <3>2. PICK l \in 1 .. Len(events) : sent'[j] = events[l] BY <1>2, <2>4
    <3>3. i = l BY <1>7, <3>1, <3>2 DEF Owed
    <3> QED BY <3>1, <3>2, <3>3
  <2> QED BY <2>1, <2>2, <2>3, <2>4
<1>8. ASSUME NEW c \in Calls, NEW j \in Emitted("end", c)', NEW k \in Emitted("end", c)'
      PROVE  j = k
  <2>1. /\ j \in DOMAIN sent' /\ sent'[j].kind = "end" /\ sent'[j].node = c
        /\ k \in DOMAIN sent' /\ sent'[k].kind = "end" /\ sent'[k].node = c
    BY DEF Emitted
  <2>2. CASE j \in DOMAIN sent /\ k \in DOMAIN sent
    <3>1. j \in Emitted("end", c) /\ k \in Emitted("end", c) BY <1>1, <2>1, <2>2 DEF Emitted
    <3> QED BY <3>1 DEF Emissions
  <2>3. CASE j \in DOMAIN sent /\ k \notin DOMAIN sent
    <3>1. j \in Emitted("end", c) BY <1>1, <2>1, <2>3 DEF Emitted
    <3>2. PICK i \in 1 .. Len(events) : sent'[k] = events[i] BY <1>2, <2>1, <2>3
    <3>3. events[i].kind = "end" /\ events[i].node = c BY <2>1, <3>2
    <3>4. Emitted("end", events[i].node) = {} BY <3>3 DEF Owed
    <3> QED BY <3>1, <3>3, <3>4
  <2>4. CASE j \notin DOMAIN sent /\ k \in DOMAIN sent
    <3>1. k \in Emitted("end", c) BY <1>1, <2>1, <2>4 DEF Emitted
    <3>2. PICK i \in 1 .. Len(events) : sent'[j] = events[i] BY <1>2, <2>1, <2>4
    <3>3. events[i].kind = "end" /\ events[i].node = c BY <2>1, <3>2
    <3>4. Emitted("end", events[i].node) = {} BY <3>3 DEF Owed
    <3> QED BY <3>1, <3>3, <3>4
  <2>5. CASE j \notin DOMAIN sent /\ k \notin DOMAIN sent
    <3>1. PICK i \in 1 .. Len(events) : k = n + i /\ sent'[k] = events[i] BY <1>2, <2>1, <2>5
    <3>2. PICK l \in 1 .. Len(events) : j = n + l /\ sent'[j] = events[l] BY <1>2, <2>1, <2>5
    <3>3. events[i].node = c /\ events[l].node = c BY <2>1, <3>1, <3>2
    <3>4. \A a, b \in 1 .. Len(events) :
            events[a].node \in Calls /\ events[b].node = events[a].node => a = b
      BY DEF Owed
    <3>5. i = l BY <1>8, <3>3, <3>4
    <3> QED BY <3>1, <3>2, <3>5
  <2> QED BY <2>2, <2>3, <2>4, <2>5
<1>9. ASSUME NEW c \in inFlight'
      PROVE  c[2] <= callsBegun' /\ Emitted("start", c)' # {} /\ Emitted("end", c)' = {}
  <2>1. /\ c[2] <= callsBegun' /\ Emitted("end", c) = {}
        /\ \/ c \in inFlight
           \/ \E i \in 1 .. Len(events) : events[i].kind = "start" /\ events[i].node = c
        /\ \A i \in 1 .. Len(events) : ~(events[i].kind = "end" /\ events[i].node = c)
    BY DEF Owed
  <2>2. Emitted("start", c)' # {}
    <3>1. CASE c \in inFlight
      <4>1. Emitted("start", c) # {} BY <3>1 DEF Emissions
      <4> QED BY <1>3, <4>1
    <3>2. CASE \E i \in 1 .. Len(events) : events[i].kind = "start" /\ events[i].node = c
      BY <1>5, <3>2
    <3> QED BY <2>1, <3>1, <3>2
  <2>3. ASSUME NEW k \in Emitted("end", c)' PROVE FALSE
    <3>1. k \in DOMAIN sent' /\ sent'[k].kind = "end" /\ sent'[k].node = c BY <2>3 DEF Emitted
    <3>2. CASE k \in DOMAIN sent
      <4>1. k \in Emitted("end", c) BY <1>1, <3>1, <3>2 DEF Emitted
      <4> QED BY <2>1, <4>1
    <3>3. CASE k \notin DOMAIN sent BY <1>2, <2>1, <3>1, <3>3
    <3> QED BY <3>2, <3>3
  <2> QED BY <2>1, <2>2, <2>3
<1>10. ASSUME running' # Nobody PROVE Begun(running)'
  <2>a. PICK a : a = running' OBVIOUS
  <2>1. CASE a = running
    <3>1. Begun(a) BY <1>10, <2>a, <2>1 DEF Emissions
    <3> QED BY <1>4, <2>a, <3>1 DEF Begun
  <2>2. CASE a = Attempt BY <2>a, <2>2 DEF Begun
  <2>3. CASE \E i \in 1 .. Len(events) : events[i].kind = "start" /\ events[i].node = a
    <3>1. Emitted("start", a)' # {} BY <1>5, <2>3
    <3> QED BY <2>a, <3>1 DEF Begun, Emitted
  <2> QED BY <1>10, <2>a, <2>1, <2>2, <2>3 DEF Owed
<1> QED BY <1>6, <1>7, <1>8, <1>9, <1>10 DEF Emissions

\* So a step that emits what is owed keeps the invariant.
LEMMA EmitStep ==
  ASSUME TraceInvariant, NEW events \in Seq(Event), Emit(events), Owed(events),
         running' \in Agents \cup {Nobody}, phases' \in 0 .. MaxPhases,
         callsBegun' \in 0 .. MaxCalls, inFlight' \subseteq Calls
  PROVE  TraceInvariant'
<1>1. /\ TraceTypeOK /\ Emissions /\ sent \in Seq(Event) /\ wire \subseteq DOMAIN sent
      /\ callsBegun \in Nat /\ callsBegun' \in Nat
  BY DEF TraceInvariant, TraceTypeOK
<1>2. Follows(events) BY <1>1, EmitFollows
<1>3. trace = "open" /\ UNCHANGED recorderVars /\ repeats' = repeats BY DEF Emit
<1>4. Tree' /\ NoneReady(Now)' /\ NoneLost' BY <1>2, <1>3, FollowsRecorder
<1>5. Emissions' BY <1>1, <1>2, OwedEmissions
<1>6. sent' \in Seq(Event) /\ wire' \subseteq DOMAIN sent' /\ DOMAIN sent \subseteq DOMAIN sent'
  BY <1>2 DEF Follows
<1>7. /\ pending' = pending /\ nodes' = nodes /\ trace' = trace /\ overflown' = overflown
  BY <1>3 DEF recorderVars
<1>8. pending \in Seq(DOMAIN sent') /\ Len(pending) <= MaxPending
  <2>1. pending \in Seq(DOMAIN sent) /\ Len(pending) <= MaxPending BY <1>1 DEF TraceTypeOK
  <2>2. Len(pending) \in Nat /\ \A i \in 1 .. Len(pending) : pending[i] \in DOMAIN sent'
    BY <1>6, <2>1, LenProperties, ElementOfSeq
  <2>3. pending = [i \in 1 .. Len(pending) |-> pending[i]] BY <2>1, LenProperties
  <2>4. pending \in [1 .. Len(pending) -> DOMAIN sent'] BY <2>2, <2>3
  <2> QED BY <2>1, <2>2, <2>4, SeqDef
<1>9. TraceTypeOK' BY <1>1, <1>3, <1>6, <1>7, <1>8 DEF TraceTypeOK
<1> QED BY <1>4, <1>5, <1>9 DEF TraceInvariant

LEMMA EventTypes ==
  /\ \A n \in Nodes, p \in Agents \cup {Nobody} : Started(n, p) \in Event
  /\ \A n \in Nodes, p \in Agents \cup {Nobody}, s \in Status \cup {Unended} :
       Ended(n, p, s) \in Event
BY DEF Event, Started, Ended

LEMMA OneEvent ==
  ASSUME NEW e \in Event
  PROVE  <<e>> \in Seq(Event) /\ Len(<<e>>) = 1 /\ <<e>>[1] = e
OBVIOUS

\* The parent of a call of which something was emitted.
LEMMA ParentIsOf ==
  ASSUME sent \in Seq(Event), Emissions, NEW c \in Calls, NEW k \in DOMAIN sent,
         sent[k].node = c
  PROVE  ParentOf(c) = sent[k].parent /\ ParentOf(c) \in Agents /\ Begun(ParentOf(c))
<1>1. sent[k] \in Range(sent) BY DEF Range
<1>2. PICK e : e = CHOOSE x \in Range(sent) : x.node = c OBVIOUS
<1>3. e \in Range(sent) /\ e.node = c BY <1>1, <1>2
<1>4. PICK j \in DOMAIN sent : e = sent[j] BY <1>3 DEF Range
<1>5. e.parent = sent[k].parent BY <1>3, <1>4 DEF Emissions
<1>6. ParentOf(c) = e.parent BY <1>2 DEF ParentOf
<1>7. sent[k].parent \in Agents /\ Begun(sent[k].parent) BY DEF Emissions
<1> QED BY <1>5, <1>6, <1>7

LEMMA ParentInFlight ==
  ASSUME sent \in Seq(Event), Emissions, NEW c \in inFlight, inFlight \subseteq Calls
  PROVE  /\ ParentOf(c) \in Agents /\ Begun(ParentOf(c)) /\ Emitted("end", c) = {}
         /\ c[2] <= callsBegun
         /\ \A k \in DOMAIN sent : sent[k].node = c => sent[k].parent = ParentOf(c)
<1>1. Emitted("start", c) # {} /\ Emitted("end", c) = {} /\ c[2] <= callsBegun BY DEF Emissions
<1>2. PICK k \in DOMAIN sent : sent[k].node = c BY <1>1 DEF Emitted
<1>3. ParentOf(c) = sent[k].parent /\ ParentOf(c) \in Agents /\ Begun(ParentOf(c))
  BY <1>2, ParentIsOf
<1>4. \A j \in DOMAIN sent : sent[j].node = c => sent[j].parent = ParentOf(c)
  BY ParentIsOf
<1> QED BY <1>1, <1>3, <1>4

LEMMA BeginPhaseStep ==
  ASSUME TraceInvariant, NEW agent \in Agents, BeginPhase(agent)
  PROVE  TraceInvariant'
<1>1. /\ running = Nobody /\ running' = agent /\ phases' = phases + 1 /\ phases < MaxPhases
      /\ callsBegun' = callsBegun /\ inFlight' = inFlight
  BY DEF BeginPhase
<1>2. /\ TraceTypeOK /\ Emissions /\ callsBegun \in 0 .. MaxCalls /\ inFlight \subseteq Calls
      /\ phases \in 0 .. MaxPhases
  BY DEF TraceInvariant, TraceTypeOK
<1>3. running' \in Agents \cup {Nobody} /\ phases' \in 0 .. MaxPhases
  BY <1>1, <1>2
<1>4. \A c \in inFlight : c[2] <= callsBegun /\ Emitted("end", c) = {} BY <1>2 DEF Emissions
<1>5. CASE agent = Attempt
  <2>1. Emit(<<>>) BY <1>5 DEF BeginPhase
  <2>2. <<>> \in Seq(Event) /\ 1 .. Len(<<>>) = {} BY EmptySeq
  <2>3. Owed(<<>>) BY <1>1, <1>2, <1>4, <1>5, <2>2 DEF Owed
  <2> QED BY <1>1, <1>2, <1>3, <2>1, <2>2, <2>3, EmitStep
<1>6. CASE agent # Attempt
  <2>a. PICK e : e = Started(agent, Nobody) OBVIOUS
  <2>b. PICK s : s = <<e>> OBVIOUS
  <2>1. Emit(s) BY <1>6, <2>a, <2>b DEF BeginPhase
  <2>2. agent \in Nodes /\ agent \notin Calls BY NodesDiffer
  <2>3. /\ e \in Event /\ e.kind = "start" /\ e.node = agent
    BY <2>2, <2>a, EventTypes DEF Started
  <2>4. s \in Seq(Event) /\ Len(s) = 1 /\ s[1] = e BY <2>3, <2>b, OneEvent
  <2>5. \A i \in 1 .. Len(s) : s[i] = e BY <2>4
  <2>6. 1 \in 1 .. Len(s) BY <2>4
  <2>7. Owed(s) BY <1>1, <1>2, <1>4, <2>2, <2>3, <2>5, <2>6 DEF Owed
  <2> QED BY <1>1, <1>2, <1>3, <2>1, <2>4, <2>7, EmitStep
<1> QED BY <1>5, <1>6

LEMMA BeginCallStep ==
  ASSUME TraceInvariant, BeginCall
  PROVE  TraceInvariant'
<1>a. PICK c : c = <<"call", callsBegun + 1>> OBVIOUS
<1>b. PICK e : e = Started(c, running) OBVIOUS
<1>d. PICK s : s = <<e>> OBVIOUS
<1>1. /\ running # Nobody /\ callsBegun < MaxCalls /\ callsBegun' = callsBegun + 1
      /\ inFlight' = inFlight \cup {c} /\ running' = running /\ phases' = phases
      /\ Emit(s)
  BY <1>a, <1>b, <1>d DEF BeginCall
<1>2. /\ TraceTypeOK /\ Emissions /\ callsBegun \in 0 .. MaxCalls /\ inFlight \subseteq Calls
      /\ phases \in 0 .. MaxPhases /\ running \in Agents \cup {Nobody} /\ sent \in Seq(Event)
  BY DEF TraceInvariant, TraceTypeOK
<1>3. MaxCalls \in Nat BY RecorderAssumption
<1>4. callsBegun + 1 \in 1 .. MaxCalls BY <1>1, <1>2, <1>3
<1>5. c \in Calls /\ c \in Nodes /\ c[2] = callsBegun + 1 BY <1>4, <1>a, NodesDiffer DEF Calls
<1>6. e \in Event /\ e.kind = "start" /\ e.node = c /\ e.parent = running
  BY <1>2, <1>5, <1>b, EventTypes DEF Started
<1>7. s \in Seq(Event) /\ Len(s) = 1 /\ s[1] = e BY <1>6, <1>d, OneEvent
<1>8. \A k \in DOMAIN sent : sent[k].node # c
  <2> SUFFICES ASSUME NEW k \in DOMAIN sent, sent[k].node = c PROVE FALSE OBVIOUS
  <2>1. sent[k].node[2] <= callsBegun BY <1>2, <1>5 DEF Emissions
  <2> QED BY <1>2, <1>5, <2>1
<1>9. Begun(running) BY <1>1, <1>2 DEF Emissions
<1>10. Owed(s)
  <2>1. callsBegun <= callsBegun' BY <1>1, <1>2
  <2>2. \A i \in 1 .. Len(s) : i = 1 /\ s[i] = e BY <1>7
  <2>3. \A i \in 1 .. Len(s) : s[i].node \in Calls =>
          /\ s[i].parent \in Agents /\ Begun(s[i].parent)
          /\ s[i].node[2] <= callsBegun'
          /\ \A k \in DOMAIN sent : sent[k].node = s[i].node => sent[k].parent = s[i].parent
          /\ s[i].kind = "end" => Emitted("end", s[i].node) = {}
          /\ \A j \in 1 .. Len(s) : s[j].node = s[i].node => i = j
    <3>1. e.parent \in Agents /\ Begun(e.parent) BY <1>1, <1>2, <1>6, <1>9
    <3>2. e.node[2] <= callsBegun' BY <1>1, <1>2, <1>5, <1>6
    <3>3. \A k \in DOMAIN sent : sent[k].node = e.node => sent[k].parent = e.parent
      BY <1>6, <1>8
    <3> QED BY <1>6, <2>2, <3>1, <3>2, <3>3
  <2>4. ASSUME NEW d \in inFlight'
        PROVE  /\ d[2] <= callsBegun' /\ Emitted("end", d) = {}
               /\ d \in inFlight \/ \E i \in 1 .. Len(s) : s[i].kind = "start" /\ s[i].node = d
               /\ \A i \in 1 .. Len(s) : ~(s[i].kind = "end" /\ s[i].node = d)
    <3>1. \A i \in 1 .. Len(s) : s[i].kind # "end" BY <1>6, <2>2
    <3>2. CASE d \in inFlight
      <4>1. d[2] <= callsBegun /\ Emitted("end", d) = {} /\ d[2] \in Nat
        BY <1>2, <3>2 DEF Emissions, Calls
      <4>2. d[2] <= callsBegun' BY <1>1, <1>2, <4>1
      <4> QED BY <3>1, <3>2, <4>1, <4>2
    <3>3. CASE d = c
      <4>1. Emitted("end", c) = {} BY <1>8 DEF Emitted
      <4>2. 1 \in 1 .. Len(s) BY <1>7
      <4>3. c[2] <= callsBegun' BY <1>1, <1>2, <1>5
      <4>4. s[1].kind = "start" /\ s[1].node = d BY <1>6, <1>7, <3>3
      <4> QED BY <3>1, <3>3, <4>1, <4>2, <4>3, <4>4
    <3> QED BY <1>1, <3>2, <3>3
  <2> QED BY <1>1, <2>1, <2>3, <2>4 DEF Owed
<1>11. callsBegun' \in 0 .. MaxCalls /\ inFlight' \subseteq Calls
  BY <1>1, <1>2, <1>4, <1>5
<1> QED BY <1>1, <1>2, <1>7, <1>10, <1>11, EmitStep

LEMMA EndCallStep ==
  ASSUME TraceInvariant, NEW c \in Calls, EndCall(c)
  PROVE  TraceInvariant'
<1>a. PICK e : e = Ended(c, ParentOf(c), "answered") OBVIOUS
<1>b. PICK s : s = <<e>> OBVIOUS
<1>1. /\ c \in inFlight /\ inFlight' = inFlight \ {c} /\ callsBegun' = callsBegun
      /\ running' = running /\ phases' = phases /\ Emit(s)
  BY <1>a, <1>b DEF EndCall
<1>2. /\ TraceTypeOK /\ Emissions /\ callsBegun \in 0 .. MaxCalls /\ inFlight \subseteq Calls
      /\ phases \in 0 .. MaxPhases /\ running \in Agents \cup {Nobody} /\ sent \in Seq(Event)
  BY DEF TraceInvariant, TraceTypeOK
<1>3. /\ ParentOf(c) \in Agents /\ Begun(ParentOf(c)) /\ Emitted("end", c) = {}
      /\ c[2] <= callsBegun
      /\ \A k \in DOMAIN sent : sent[k].node = c => sent[k].parent = ParentOf(c)
  BY <1>1, <1>2, ParentInFlight
<1>4. e \in Event /\ e.kind = "end" /\ e.node = c /\ e.parent = ParentOf(c)
  <2>1. c \in Nodes BY NodesDiffer
  <2>2. "answered" \in Status \cup {Unended} BY DEF Status
  <2> QED BY <1>3, <1>a, <2>1, <2>2, EventTypes DEF Ended
<1>5. s \in Seq(Event) /\ Len(s) = 1 /\ s[1] = e BY <1>4, <1>b, OneEvent
<1>6. Owed(s)
  <2>1. callsBegun <= callsBegun' BY <1>1, <1>2
  <2>2. \A i \in 1 .. Len(s) : i = 1 /\ s[i] = e BY <1>5
  <2>3. \A i \in 1 .. Len(s) : s[i].node \in Calls =>
          /\ s[i].parent \in Agents /\ Begun(s[i].parent)
          /\ s[i].node[2] <= callsBegun'
          /\ \A k \in DOMAIN sent : sent[k].node = s[i].node => sent[k].parent = s[i].parent
          /\ s[i].kind = "end" => Emitted("end", s[i].node) = {}
          /\ \A j \in 1 .. Len(s) : s[j].node = s[i].node => i = j
    BY <1>1, <1>3, <1>4, <2>2
  <2>4. ASSUME NEW d \in inFlight'
        PROVE  /\ d[2] <= callsBegun' /\ Emitted("end", d) = {}
               /\ d \in inFlight \/ \E i \in 1 .. Len(s) : s[i].kind = "start" /\ s[i].node = d
               /\ \A i \in 1 .. Len(s) : ~(s[i].kind = "end" /\ s[i].node = d)
    <3>1. d \in inFlight /\ d # c BY <1>1
    <3>2. d[2] <= callsBegun /\ Emitted("end", d) = {} BY <1>2, <3>1 DEF Emissions
    <3>3. \A i \in 1 .. Len(s) : s[i].node # d BY <1>4, <2>2, <3>1
    <3> QED BY <1>1, <3>1, <3>2, <3>3
  <2> QED BY <1>1, <2>1, <2>3, <2>4 DEF Owed
<1>7. inFlight' \subseteq Calls BY <1>1, <1>2
<1> QED BY <1>1, <1>2, <1>5, <1>6, <1>7, EmitStep

\* One end for each of the calls that are settled.
SettlesOnce(cs, z) ==
  /\ Len(z) \in Nat /\ DOMAIN z = 1 .. Len(z)
  /\ \A i \in 1 .. Len(z) : \E c \in cs :
       /\ z[i] = Ended(c, running, "settled")
       /\ \A j \in 1 .. Len(z) : z[j].node = c => i = j

LEMMA SettlementsProperties ==
  ASSUME NEW cs \in SUBSET Calls, NEW ns, ns = {c[2] : c \in cs}
  PROVE  SettlesOnce(cs, Settlements(ns))
<1>a. PICK n : n = Cardinality(ns) OBVIOUS
<1>b. PICK f : f = InOrder(ns) OBVIOUS
<1>d. PICK s : s = Settlements(ns) OBVIOUS
<1>1. ns \subseteq 1 .. MaxCalls BY DEF Calls
<1>2. ns \subseteq Int /\ IsFiniteSet(ns)
  <2>1. MaxCalls \in Nat BY RecorderAssumption
  <2>2. IsFiniteSet(1 .. MaxCalls) BY <2>1, FS_Interval
  <2> QED BY <1>1, <2>2, FS_Subset
<1>3. /\ n \in Nat /\ f \in [1 .. n -> ns]
      /\ \A i, j \in 1 .. n : i < j => f[i] < f[j]
  BY <1>2, <1>a, <1>b, InOrderProperties
<1>4. \A i, j \in 1 .. n : f[i] = f[j] => i = j
  <2> SUFFICES ASSUME NEW i \in 1 .. n, NEW j \in 1 .. n, f[i] = f[j], i # j PROVE FALSE
    OBVIOUS
  <2>1. f[i] \in Int BY <1>2, <1>3
  <2>2. i < j \/ j < i BY <1>3
  <2>3. f[i] < f[j] \/ f[j] < f[i] BY <1>3, <2>2
  <2> QED BY <2>1, <2>3
<1>5. s = [i \in 1 .. n |-> Ended(<<"call", f[i]>>, running, "settled")]
  BY <1>a, <1>b, <1>d DEF Settlements
<1>6. Len(s) = n /\ DOMAIN s = 1 .. n BY <1>3, <1>5
<1>7. ASSUME NEW i \in 1 .. n
      PROVE  \E c \in cs : /\ s[i] = Ended(c, running, "settled")
                           /\ \A j \in 1 .. n : s[j].node = c => i = j
  <2>1. PICK c \in cs : f[i] = c[2] BY <1>3
  <2>2. c = <<"call", f[i]>> BY <2>1 DEF Calls
  <2>3. s[i] = Ended(c, running, "settled") BY <1>5, <2>2
  <2>4. ASSUME NEW j \in 1 .. n, s[j].node = c PROVE i = j
    <3>1. s[j].node = <<"call", f[j]>> BY <1>5 DEF Ended
    <3>2. f[j] = f[i] BY <2>2, <2>4, <3>1
    <3> QED BY <1>4, <3>2
  <2> QED BY <2>3, <2>4
<1>8. SettlesOnce(cs, s) BY <1>3, <1>6, <1>7 DEF SettlesOnce
<1> QED BY <1>8, <1>d

LEMMA EndPhaseStep ==
  ASSUME TraceInvariant, NEW cs \in SUBSET Calls, EndPhase(cs)
  PROVE  TraceInvariant'
<1>a. PICK ns : ns = {c[2] : c \in cs} OBVIOUS
<1>b. PICK z : z = Settlements(ns) OBVIOUS
<1>d. PICK n : n = Len(z) OBVIOUS
<1>e. PICK x : x = Ended(running, Nobody, IF cs = {} THEN "answered" ELSE "settled") OBVIOUS
<1>f. PICK s : s = Append(z, x) OBVIOUS
<1>1. /\ running # Nobody /\ cs \subseteq {c \in inFlight : ParentOf(c) = running}
      /\ inFlight' = inFlight \ cs /\ running' = Nobody /\ phases' = phases /\ callsBegun' = callsBegun
      /\ Emit(s)
  BY <1>a, <1>b, <1>e, <1>f DEF EndPhase
<1>2. /\ TraceTypeOK /\ Emissions /\ callsBegun \in 0 .. MaxCalls /\ inFlight \subseteq Calls
      /\ phases \in 0 .. MaxPhases /\ running \in Agents \cup {Nobody} /\ sent \in Seq(Event)
  BY DEF TraceInvariant, TraceTypeOK
<1>3. /\ n \in Nat /\ DOMAIN z = 1 .. n
      /\ \A i \in 1 .. n : \E c \in cs :
           /\ z[i] = Ended(c, running, "settled")
           /\ \A j \in 1 .. n : z[j].node = c => i = j
  <2>1. SettlesOnce(cs, z) BY <1>a, <1>b, SettlementsProperties
  <2> QED BY <1>d, <2>1 DEF SettlesOnce
<1>4. running \in Agents /\ running \in Nodes /\ running \notin Calls BY <1>1, <1>2, NodesDiffer
<1>5. /\ "settled" \in Status \cup {Unended} /\ "answered" \in Status \cup {Unended}
  BY DEF Status
<1>6. x \in Event /\ x.node = running BY <1>4, <1>5, <1>e, EventTypes DEF Ended
<1>7. \A i \in 1 .. n : z[i] \in Event /\ z[i].node \in cs /\ z[i].parent = running
  <2> SUFFICES ASSUME NEW i \in 1 .. n
               PROVE  z[i] \in Event /\ z[i].node \in cs /\ z[i].parent = running
    OBVIOUS
  <2>1. PICK c \in cs : z[i] = Ended(c, running, "settled") BY <1>3
  <2>2. c \in Nodes BY NodesDiffer
  <2>3. z[i] \in Event BY <1>4, <1>5, <2>1, <2>2, EventTypes
  <2> QED BY <2>1, <2>3 DEF Ended
<1>8. \A i, j \in 1 .. n : z[i].node = z[j].node => i = j
  <2> SUFFICES ASSUME NEW i \in 1 .. n, NEW j \in 1 .. n, z[i].node = z[j].node PROVE i = j
    OBVIOUS
  <2>1. PICK c \in cs : /\ z[i] = Ended(c, running, "settled")
                        /\ \A l \in 1 .. n : z[l].node = c => i = l
    BY <1>3
  <2>2. z[i].node = c BY <2>1 DEF Ended
  <2> QED BY <2>1, <2>2
<1>9. z \in Seq(Event)
  <2>1. z = [i \in 1 .. n |-> z[i]]
    <3>1. z = [i \in 1 .. Cardinality(ns) |-> Ended(<<"call", InOrder(ns)[i]>>, running, "settled")]
      BY <1>b DEF Settlements
    <3>2. DOMAIN z = 1 .. Cardinality(ns) BY <3>1
    <3> QED BY <1>3, <3>1, <3>2
  <2>2. z \in [1 .. n -> Event] BY <1>7, <2>1
  <2> QED BY <1>3, <2>2, SeqDef
<1>10. /\ s \in Seq(Event) /\ Len(s) = n + 1 /\ s[n + 1] = x
       /\ \A i \in 1 .. n : s[i] = z[i]
  BY <1>6, <1>9, <1>d, <1>f, AppendProperties
<1>11. \A i \in 1 .. Len(s) : i = n + 1 \/ i \in 1 .. n BY <1>3, <1>10
<1>12. ASSUME NEW i \in 1 .. Len(s), s[i].node \in Calls
       PROVE  i \in 1 .. n /\ s[i] = z[i] /\ s[i].node \in cs /\ s[i].parent = running
  <2>1. i # n + 1 BY <1>4, <1>6, <1>10, <1>12
  <2> QED BY <1>7, <1>10, <1>11, <2>1
<1>13. Owed(s)
  <2>1. callsBegun <= callsBegun' BY <1>1, <1>2
  <2>2. ASSUME NEW i \in 1 .. Len(s), s[i].node \in Calls
        PROVE  /\ s[i].parent \in Agents /\ Begun(s[i].parent)
               /\ s[i].node[2] <= callsBegun'
               /\ \A k \in DOMAIN sent : sent[k].node = s[i].node => sent[k].parent = s[i].parent
               /\ s[i].kind = "end" => Emitted("end", s[i].node) = {}
               /\ \A j \in 1 .. Len(s) : s[j].node = s[i].node => i = j
    <3>1. i \in 1 .. n /\ s[i] = z[i] /\ s[i].node \in cs /\ s[i].parent = running
      BY <1>12, <2>2
    <3>2. s[i].node \in inFlight /\ ParentOf(s[i].node) = running BY <1>1, <3>1
    <3>3. /\ Begun(running) /\ Emitted("end", s[i].node) = {} /\ s[i].node[2] <= callsBegun
          /\ \A k \in DOMAIN sent : sent[k].node = s[i].node => sent[k].parent = running
      BY <1>2, <3>2, ParentInFlight
    <3>4. ASSUME NEW j \in 1 .. Len(s), s[j].node = s[i].node PROVE i = j
      <4>1. j \in 1 .. n /\ s[j] = z[j] BY <1>12, <2>2, <3>4
      <4> QED BY <1>8, <3>1, <3>4, <4>1
    <3> QED BY <1>1, <1>4, <3>1, <3>3, <3>4
  <2>3. ASSUME NEW d \in inFlight'
        PROVE  /\ d[2] <= callsBegun' /\ Emitted("end", d) = {}
               /\ d \in inFlight \/ \E i \in 1 .. Len(s) : s[i].kind = "start" /\ s[i].node = d
               /\ \A i \in 1 .. Len(s) : ~(s[i].kind = "end" /\ s[i].node = d)
    <3>1. d \in inFlight /\ d \notin cs /\ d \in Calls BY <1>1, <1>2
    <3>2. d[2] <= callsBegun /\ Emitted("end", d) = {} BY <1>2, <3>1 DEF Emissions
    <3>3. \A i \in 1 .. Len(s) : s[i].node # d BY <1>12, <3>1
    <3> QED BY <1>1, <3>1, <3>2, <3>3
  <2> QED BY <1>1, <2>1, <2>2, <2>3 DEF Owed
<1>14. inFlight' \subseteq Calls /\ running' \in Agents \cup {Nobody} BY <1>1, <1>2
<1> QED BY <1>1, <1>2, <1>10, <1>13, <1>14, EmitStep

-----------------------------------------------------------------------------
(* The steps of the recorder.                                              *)

LEMMA BeginAttemptStep ==
  ASSUME TraceInvariant, BeginAttempt
  PROVE  TraceInvariant'
<1>1. /\ trace = "absent" /\ trace' = "open" /\ UNCHANGED <<emitterVars, wire, repeats, pending, overflown>>
      /\ nodes' = [nodes EXCEPT ![Attempt] = [@ EXCEPT !.state = "open"]]
  BY DEF BeginAttempt
<1>2. /\ sent' = sent /\ running' = running /\ phases' = phases /\ callsBegun' = callsBegun
      /\ inFlight' = inFlight /\ wire' = wire /\ repeats' = repeats /\ pending' = pending
      /\ overflown' = overflown
  BY <1>1 DEF emitterVars
<1>3. /\ TraceTypeOK /\ Emissions /\ sent = <<>> /\ pending = <<>>
      /\ nodes = [n \in Nodes |-> Absent]
  BY <1>1 DEF TraceInvariant, Tree
<1>4. DOMAIN sent = {} /\ DOMAIN pending = {} BY <1>3
<1>5. Attempt \in Nodes /\ Attempt \notin Calls /\ Calls \subseteq Nodes BY NodesDiffer
<1>a. PICK x : x = [Absent EXCEPT !.state = "open"] OBVIOUS
<1>6. /\ nodes' = [nodes EXCEPT ![Attempt] = x] /\ nodes'[Attempt] = x
      /\ \A n \in Nodes : n # Attempt => nodes'[n] = Absent
  BY <1>1, <1>3, <1>5, <1>a
<1>7. /\ x \in Node /\ x.state = "open" /\ x.at = 0
      /\ Absent \in Node /\ Absent.state = "absent" /\ Absent.at = 0
  BY <1>a DEF Absent, Node
<1>8. nodes' \in [Nodes -> Node]
  <2>1. nodes \in [Nodes -> Node] BY <1>3 DEF TraceTypeOK
  <2> QED BY <1>6, <1>7, <2>1
<1>9. TraceTypeOK' BY <1>1, <1>2, <1>3, <1>8 DEF TraceTypeOK
<1>10. Emissions' BY <1>2, <1>3 DEF Emissions, Begun, Emitted
<1>11. Placed(nodes)'
  <2>1. \A n \in Nodes : nodes'[n].state # "ended" /\ nodes'[n].at = 0
    BY <1>6, <1>7
  <2>2. \A c \in Calls : nodes'[c].state = "absent" BY <1>5, <1>6, <1>7
  <2> QED BY <2>1, <2>2 DEF Placed, Known
<1>12. Known(nodes, Attempt)' BY <1>6, <1>7 DEF Known
<1>13. Tree' BY <1>1, <1>11, <1>12 DEF Tree
<1>14. NoneLost' BY <1>2, <1>4 DEF NoneLost
<1>15. NoneReady(Now)' BY <1>2, <1>4 DEF NoneReady, Now
<1> QED BY <1>9, <1>10, <1>13, <1>14, <1>15 DEF TraceInvariant

LEMMA CloseAttemptStep ==
  ASSUME TraceInvariant, CloseAttempt
  PROVE  TraceInvariant'
<1>1. /\ trace = "open" /\ trace' = "closed" /\ pending' = <<>>
      /\ UNCHANGED <<emitterVars, wire, repeats, overflown>>
      /\ nodes' = [n \in Nodes |->
           IF nodes[n].state # "open" THEN nodes[n]
           ELSE [nodes[n] EXCEPT !.state = "ended", !.status = Terminal]]
  BY DEF CloseAttempt
<1>2. /\ sent' = sent /\ running' = running /\ phases' = phases /\ callsBegun' = callsBegun
      /\ inFlight' = inFlight /\ wire' = wire /\ repeats' = repeats
      /\ overflown' = overflown
  BY <1>1 DEF emitterVars
<1>3. TraceTypeOK /\ Emissions /\ Placed(nodes) /\ nodes \in [Nodes -> Node]
  BY <1>1 DEF TraceInvariant, Tree, TraceTypeOK
<1>4. ASSUME NEW n \in Nodes
      PROVE  /\ nodes'[n] \in Node /\ nodes'[n].state # "open"
             /\ nodes'[n].at = nodes[n].at /\ nodes'[n].parent = nodes[n].parent
             /\ Known(nodes', n) <=> Known(nodes, n)
             /\ nodes[n].state = "ended" => nodes'[n] = nodes[n]
             /\ nodes'[n].state = "ended" => nodes[n].state \in {"open", "ended"}
  <2>1. nodes[n] \in Node BY <1>3
  <2>2. CASE nodes[n].state # "open"
    <3>1. nodes'[n] = nodes[n] BY <1>1, <2>2
    <3> QED BY <2>1, <2>2, <3>1 DEF Known, Node
  <2>3. CASE nodes[n].state = "open"
    <3>1. nodes'[n] = [nodes[n] EXCEPT !.state = "ended", !.status = Terminal] BY <1>1, <2>3
    <3>2. /\ nodes'[n] \in Node /\ nodes'[n].state = "ended"
          /\ nodes'[n].at = nodes[n].at /\ nodes'[n].parent = nodes[n].parent
      BY <2>1, <3>1 DEF Node
    <3> QED BY <2>3, <3>2 DEF Known
  <2> QED BY <2>2, <2>3
<1>5. TraceTypeOK'
  <2>1. nodes' \in [Nodes -> Node] BY <1>1, <1>4
  <2>2. <<>> \in Seq(DOMAIN sent) /\ Len(<<>>) <= MaxPending
    BY RecorderAssumption, EmptySeq
  <2> QED BY <1>1, <1>2, <1>3, <2>1, <2>2 DEF TraceTypeOK
<1>6. Emissions' BY <1>2, <1>3 DEF Emissions, Begun, Emitted
<1>7. Tree'
  <2>1. ASSUME NEW n \in Nodes, nodes'[n].state = "ended"
        PROVE  \/ nodes'[n].at = 0
               \/ nodes'[n].at \in Emitted("end", n) /\ sent[nodes'[n].at].status = nodes'[n].status
    <3>1. CASE nodes[n].state = "ended"
      <4>1. nodes'[n] = nodes[n] BY <1>4, <3>1
      <4>2. nodes[n].at \in Emitted("end", n) /\ sent[nodes[n].at].status = nodes[n].status
        BY <1>3, <3>1 DEF Placed
      <4> QED BY <4>1, <4>2
    <3>2. CASE nodes[n].state # "ended"
      <4>1. nodes[n].at = 0 BY <1>3, <3>2 DEF Placed
      <4> QED BY <1>4, <4>1
    <3> QED BY <3>1, <3>2
  <2>2. ASSUME NEW c \in Calls, Known(nodes', c)
        PROVE  nodes'[c].parent \in Agents /\ Known(nodes', nodes'[c].parent)
    <3>1. c \in Nodes /\ Agents \subseteq Nodes BY NodesDiffer
    <3>2. Known(nodes, c) /\ nodes'[c].parent = nodes[c].parent BY <1>4, <2>2, <3>1
    <3>3. nodes[c].parent \in Agents /\ Known(nodes, nodes[c].parent)
      BY <1>3, <3>2 DEF Placed
    <3> QED BY <1>4, <3>1, <3>2, <3>3
  <2> QED BY <1>1, <1>2, <1>4, <2>1, <2>2 DEF Tree, Known, Emitted
<1>8. NoneLost' BY <1>1 DEF NoneLost
<1>9. NoneReady(Now)'
  <2>1. Now'.pending = <<>> BY <1>1 DEF Now
  <2>2. DOMAIN Now'.pending = {} BY <2>1
  <2> QED BY <2>2 DEF NoneReady
<1> QED BY <1>5, <1>6, <1>7, <1>8, <1>9 DEF TraceInvariant

\* What is recorded of the event k: it is taken, unless there is no room for it, and the
\* loop of drainPending follows.
Recording(k, q) ==
  /\ q \in Recorded /\ Onward(nodes, q.nodes) /\ Len(q.pending) <= MaxPending
  /\ \A j \in DOMAIN sent : Waits(Now, j) => Waits(q, j) \/ Handled(q.nodes, j)
  /\ ~Overflows(k) => Waits(q, k) \/ Handled(q.nodes, k)
  /\ NoneReady(q)

LEMMA RecordProperties ==
  ASSUME TraceInvariant, trace = "open", NEW k \in DOMAIN sent, Record(k)
  PROVE  Recording(k, [nodes |-> nodes', pending |-> pending'])
<1>a. PICK r : r = IF Overflows(k) THEN Now ELSE Take(Now, k) OBVIOUS
<1>b. PICK q : q = Drained(r) OBVIOUS
<1>1. /\ sent \in Seq(Event) /\ Emissions /\ Placed(nodes) /\ nodes \in [Nodes -> Node]
      /\ pending \in Seq(DOMAIN sent) /\ Len(pending) <= MaxPending
  BY DEF TraceInvariant, TraceTypeOK, Tree
<1>2. Now \in Recorded /\ Now.nodes = nodes /\ Now.pending = pending
  BY <1>1 DEF Now, Recorded
<1>3. Len(pending) \in Nat /\ MaxPending \in Nat BY <1>1, LenProperties, RecorderAssumption
<1>4. /\ r \in Recorded /\ Onward(nodes, r.nodes) /\ Len(r.pending) <= MaxPending
      /\ \A j : Waits(Now, j) => Waits(r, j)
      /\ ~Overflows(k) => Waits(r, k) \/ Handled(r.nodes, k)
  <2>1. CASE Overflows(k)
    <3>1. r = Now BY <1>a, <2>1
    <3>2. Onward(nodes, nodes) BY <1>1, OnwardFromHere
    <3> QED BY <1>1, <1>2, <2>1, <3>1, <3>2
  <2>2. CASE ~Overflows(k)
    <3>1. r = Take(Now, k) BY <1>a, <2>2
    <3>2. Placed(Now.nodes) BY <1>1, <1>2
    <3>3. /\ Take(Now, k) \in Recorded /\ Onward(Now.nodes, Take(Now, k).nodes)
          /\ Waits(Take(Now, k), k) \/ Handled(Take(Now, k).nodes, k)
          /\ \A j : Waits(Now, j) => Waits(Take(Now, k), j)
          /\ Ready(Now.nodes, sent[k]) => Take(Now, k).pending = Now.pending
          /\ ~Ready(Now.nodes, sent[k]) => Len(Take(Now, k).pending) = Len(Now.pending) + 1
      BY <1>1, <1>2, <3>2, TakeStep
    <3>4. Len(r.pending) <= MaxPending
      <4>1. CASE Ready(nodes, sent[k]) BY <1>1, <1>2, <3>1, <3>3, <4>1
      <4>2. CASE ~Ready(nodes, sent[k])
        <5>1. ~(Len(pending) >= MaxPending) BY <2>2, <4>2 DEF Overflows
        <5>2. Len(r.pending) = Len(pending) + 1 BY <1>2, <3>1, <3>3, <4>2
        <5> QED BY <1>3, <5>1, <5>2
      <4> QED BY <4>1, <4>2
    <3> QED BY <1>2, <3>1, <3>3, <3>4
  <2> QED BY <2>1, <2>2
<1>5. Placed(r.nodes) BY <1>4 DEF Onward
<1>6. DrainEffect(r, q) BY <1>1, <1>4, <1>5, <1>b, DrainedProperties
<1>7. /\ q \in Recorded /\ Onward(r.nodes, q.nodes) /\ Len(q.pending) <= Len(r.pending)
      /\ NoneReady(q)
      /\ \A j \in DOMAIN sent : Waits(r, j) => Waits(q, j) \/ Handled(q.nodes, j)
  BY <1>6 DEF DrainEffect
<1>8. Onward(nodes, q.nodes) BY <1>4, <1>7, OnwardFurther
<1>9. Len(q.pending) <= MaxPending
  <2>1. Len(q.pending) \in Nat /\ Len(r.pending) \in Nat BY <1>4, <1>7, RecordedParts
  <2> QED BY <1>3, <1>4, <1>7, <2>1
<1>10. ~Overflows(k) => Waits(q, k) \/ Handled(q.nodes, k)
  <2> SUFFICES ASSUME ~Overflows(k) PROVE Waits(q, k) \/ Handled(q.nodes, k) OBVIOUS
  <2>1. Waits(r, k) \/ Handled(r.nodes, k) BY <1>4
  <2>2. Handled(r.nodes, k) => Handled(q.nodes, k) BY <1>1, <1>7, OnwardKeeps, SentParents
  <2> QED BY <1>7, <2>1, <2>2
<1>11. Recording(k, q) BY <1>4, <1>7, <1>8, <1>9, <1>10 DEF Recording
<1>12. nodes' = q.nodes /\ pending' = q.pending
  <2>1. q = Drained(IF Overflows(k) THEN [nodes |-> nodes, pending |-> pending]
                    ELSE Take([nodes |-> nodes, pending |-> pending], k))
    BY <1>a, <1>b DEF Now
  <2> QED BY <2>1 DEF Record
<1>13. q = [nodes |-> q.nodes, pending |-> q.pending] BY <1>7 DEF Recorded
<1>14. q = [nodes |-> nodes', pending |-> pending'] BY <1>12, <1>13
<1> QED BY <1>11, <1>14

LEMMA DeliverStep ==
  ASSUME TraceInvariant, NEW k \in wire, NEW again \in BOOLEAN, Deliver(k, again)
  PROVE  TraceInvariant'
<1>1. /\ sent' = sent /\ running' = running /\ phases' = phases /\ callsBegun' = callsBegun
      /\ inFlight' = inFlight /\ wire' \subseteq wire /\ wire \ {k} \subseteq wire'
  BY DEF Deliver, emitterVars
<1>2. /\ TraceTypeOK /\ Emissions /\ wire \subseteq DOMAIN sent /\ sent \in Seq(Event)
  BY DEF TraceInvariant, TraceTypeOK
<1>3. repeats' \in 0 .. MaxRepeats
  <2>1. repeats \in 0 .. MaxRepeats /\ MaxRepeats \in Nat
    BY <1>2, RecorderAssumption DEF TraceTypeOK
  <2>2. again => repeats < MaxRepeats BY DEF Deliver
  <2>3. repeats' = IF again THEN repeats + 1 ELSE repeats BY DEF Deliver
  <2> QED BY <2>1, <2>2, <2>3
<1>4. Emissions' BY <1>1, <1>2 DEF Emissions, Begun, Emitted
<1>5. CASE trace # "open"
  <2>1. /\ nodes' = nodes /\ pending' = pending /\ trace' = trace /\ overflown' = overflown
    BY <1>5 DEF Deliver, recorderVars
  <2>2. TraceTypeOK' BY <1>1, <1>2, <1>3, <2>1 DEF TraceTypeOK
  <2>3. Tree'
    <3>1. Tree BY DEF TraceInvariant
    <3> QED BY <1>1, <1>5, <2>1, <3>1 DEF Tree, Known, Emitted
  <2>4. NoneLost' BY <1>5, <2>1 DEF NoneLost
  <2>5. NoneReady(Now)'
    <3>1. NoneReady(Now) BY DEF TraceInvariant
    <3> QED BY <1>1, <2>1, <3>1 DEF NoneReady, Now, Ready, Known
  <2> QED BY <1>4, <2>2, <2>3, <2>4, <2>5 DEF TraceInvariant
<1>6. CASE trace = "open"
  <2>a. PICK q : q = [nodes |-> nodes', pending |-> pending'] OBVIOUS
  <2>1. Record(k) BY <1>6 DEF Deliver
  <2>2. /\ trace' = trace /\ overflown' = (overflown \/ Overflows(k)) BY <2>1 DEF Record
  <2>3. k \in DOMAIN sent BY <1>2
  <2>4. Recording(k, q) BY <1>6, <2>1, <2>3, <2>a, RecordProperties
  <2>5. q.nodes = nodes' /\ q.pending = pending' BY <2>a
  <2>6. /\ q \in Recorded /\ Onward(nodes, q.nodes) /\ Len(q.pending) <= MaxPending
        /\ NoneReady(q)
    BY <2>4 DEF Recording
  <2>7. /\ nodes' \in [Nodes -> Node] /\ pending' \in Seq(DOMAIN sent)
        /\ Len(pending') <= MaxPending
    BY <2>5, <2>6 DEF Recorded
  <2>8. overflown' \in BOOLEAN
    <3>1. Overflows(k) \in BOOLEAN BY DEF Overflows
    <3> QED BY <1>2, <2>2, <3>1 DEF TraceTypeOK
  <2>9. TraceTypeOK'
    <3>1. wire' \subseteq DOMAIN sent' BY <1>1, <1>2
    <3> QED BY <1>1, <1>2, <1>3, <2>2, <2>7, <2>8, <3>1 DEF TraceTypeOK
  <2>10. Tree'
    <3>1. Placed(q.nodes) BY <2>6 DEF Onward
    <3>2. Placed(nodes)' BY <1>1, <2>5, <3>1 DEF Placed, Known, Emitted
    <3>3. Known(nodes, Attempt) BY <1>6 DEF TraceInvariant, Tree
    <3>4. Known(q.nodes, Attempt) BY <2>6, <3>3, NodesDiffer DEF Onward
    <3>5. Known(nodes, Attempt)' BY <2>5, <3>4 DEF Known
    <3> QED BY <1>6, <2>2, <3>2, <3>5 DEF Tree
  <2>11. NoneReady(Now)'
    <3>1. Now' = q BY <2>a DEF Now
    <3>2. \A i \in DOMAIN q.pending : ~Ready(q.nodes, sent[q.pending[i]])
      BY <2>6 DEF NoneReady
    <3> QED BY <1>1, <2>5, <3>2 DEF NoneReady, Now, Ready, Known
  <2>12. NoneLost'
    <3> SUFFICES ASSUME ~overflown', NEW j \in DOMAIN sent
                 PROVE  j \in wire' \/ Waits(q, j) \/ Handled(q.nodes, j)
      BY <1>1, <2>a DEF NoneLost, Waits, Now, Handled, Known, Emitted
    <3>1. ~overflown /\ ~Overflows(k) BY <2>2
    <3>2. j \in wire \/ Waits(Now, j) \/ Handled(nodes, j)
      BY <1>6, <3>1 DEF TraceInvariant, NoneLost
    <3>3. CASE j \in wire
      <4>1. CASE j = k BY <2>4, <3>1, <4>1 DEF Recording
      <4>2. CASE j # k BY <1>1, <3>3, <4>2
      <4> QED BY <4>1, <4>2
    <3>4. CASE Waits(Now, j) BY <2>4, <3>4 DEF Recording
    <3>5. CASE Handled(nodes, j) BY <1>2, <2>6, <3>5, OnwardKeeps, SentParents
    <3> QED BY <3>2, <3>3, <3>4, <3>5
  <2> QED BY <1>4, <2>9, <2>10, <2>11, <2>12 DEF TraceInvariant
<1> QED BY <1>5, <1>6

LEMMA TraceStutter ==
  ASSUME TraceInvariant, UNCHANGED traceVars
  PROVE  TraceInvariant'
<1>1. /\ sent' = sent /\ running' = running /\ phases' = phases /\ callsBegun' = callsBegun
      /\ inFlight' = inFlight /\ wire' = wire /\ repeats' = repeats /\ trace' = trace
      /\ nodes' = nodes /\ pending' = pending /\ overflown' = overflown
  BY DEF traceVars, emitterVars, recorderVars
<1>2. TraceTypeOK' BY <1>1 DEF TraceInvariant, TraceTypeOK
<1>3. Emissions' BY <1>1 DEF TraceInvariant, Emissions, Begun, Emitted
<1>4. Tree'
  <2>1. Placed(nodes) => Placed(nodes)' BY <1>1 DEF Placed, Known, Emitted
  <2>2. Tree BY DEF TraceInvariant
  <2> QED BY <1>1, <2>1, <2>2 DEF Tree, Known, Emitted
<1>5. NoneReady(Now)'
  <2>1. NoneReady(Now) BY DEF TraceInvariant
  <2> QED BY <1>1, <2>1 DEF NoneReady, Now, Ready, Known
<1>6. NoneLost'
  <2>1. NoneLost BY DEF TraceInvariant
  <2> QED BY <1>1, <2>1 DEF NoneLost, Waits, Now, Handled, Known, Emitted
<1> QED BY <1>2, <1>3, <1>4, <1>5, <1>6 DEF TraceInvariant

LEMMA TraceStart ==
  ASSUME TraceInit
  PROVE  TraceInvariant
<1>1. /\ sent = <<>> /\ running = Nobody /\ phases = 0 /\ callsBegun = 0 /\ inFlight = {}
      /\ wire = {} /\ repeats = 0 /\ trace = "absent" /\ nodes = [n \in Nodes |-> Absent]
      /\ pending = <<>> /\ overflown = FALSE
  BY DEF TraceInit
<1>2. /\ MaxCalls \in Nat /\ MaxPhases \in Nat /\ MaxPending \in Nat /\ MaxRepeats \in Nat
  BY RecorderAssumption
<1>3. DOMAIN sent = {} /\ DOMAIN pending = {} /\ Len(pending) = 0 BY <1>1
<1>4. sent \in Seq(Event) /\ pending \in Seq(DOMAIN sent) BY <1>1, EmptySeq
<1>5. Absent \in Node BY DEF Absent, Node
<1>6. TraceTypeOK
  <2>1. nodes \in [Nodes -> Node] BY <1>1, <1>5
  <2>2. phases \in 0 .. MaxPhases /\ callsBegun \in 0 .. MaxCalls /\ repeats \in 0 .. MaxRepeats
    BY <1>1, <1>2
  <2>3. Len(pending) <= MaxPending BY <1>2, <1>3
  <2>4. /\ wire \subseteq DOMAIN sent /\ inFlight \subseteq Calls /\ overflown \in BOOLEAN
        /\ running \in Agents \cup {Nobody} /\ trace \in {"absent", "open", "closed"}
    BY <1>1
  <2> QED BY <1>4, <2>1, <2>2, <2>3, <2>4 DEF TraceTypeOK
<1>7. Emissions BY <1>1, <1>3 DEF Emissions, Emitted
<1>8. Tree BY <1>1 DEF Tree
<1>9. NoneLost BY <1>1 DEF NoneLost
<1>10. NoneReady(Now) BY <1>3 DEF NoneReady, Now
<1> QED BY <1>6, <1>7, <1>8, <1>9, <1>10 DEF TraceInvariant

\* The invariant of the trace holds: whatever order the events arrive in and however
\* often, the passes over the pending events (drainPending) lose none and leave none
\* that could be processed.
THEOREM TraceInvariantHolds == TraceSpec => []TraceInvariant
<1>1. TraceInit => TraceInvariant BY TraceStart
<1>2. TraceInvariant /\ [TraceNext]_traceVars => TraceInvariant'
  <2> SUFFICES ASSUME TraceInvariant, [TraceNext]_traceVars PROVE TraceInvariant'
    OBVIOUS
  <2>1. CASE BeginAttempt BY <2>1, BeginAttemptStep
  <2>2. CASE \E agent \in Agents : BeginPhase(agent) BY <2>2, BeginPhaseStep
  <2>3. CASE BeginCall BY <2>3, BeginCallStep
  <2>4. CASE \E c \in Calls : EndCall(c) BY <2>4, EndCallStep
  <2>5. CASE \E cs \in SUBSET Calls : EndPhase(cs) BY <2>5, EndPhaseStep
  <2>6. CASE \E k \in wire, again \in BOOLEAN : Deliver(k, again) BY <2>6, DeliverStep
  <2>7. CASE CloseAttempt BY <2>7, CloseAttemptStep
  <2>8. CASE UNCHANGED traceVars BY <2>8, TraceStutter
  <2> QED BY <2>1, <2>2, <2>3, <2>4, <2>5, <2>6, <2>7, <2>8 DEF TraceNext
<1> QED BY <1>1, <1>2, PTL DEF TraceSpec

-----------------------------------------------------------------------------
(* What the invariant says of the trace.                                   *)

\* At every moment of an attempt the recorder's tree is one: a call hangs under an agent
\* that is known, what is kept waits for something, and the end of the attempt leaves
\* nothing open and nothing kept (processEvent, drainPending, closeAttempt).
THEOREM RecorderInvariantHolds == TraceSpec => []RecorderInvariant
<1>1. TraceInvariant => RecorderInvariant
  <2> SUFFICES ASSUME TraceInvariant PROVE RecorderInvariant OBVIOUS
  <2>1. TraceTypeOK /\ Tree /\ NoneReady(Now) /\ trace \in {"absent", "open", "closed"}
    BY DEF TraceInvariant, TraceTypeOK
  <2>2. ASSUME NEW c \in Calls, Known(nodes, c) PROVE Known(nodes, nodes[c].parent)
    <3>1. CASE trace = "absent"
      <4>1. c \in Nodes BY NodesDiffer
      <4>2. nodes[c] = Absent BY <2>1, <3>1, <4>1 DEF Tree
      <4> QED BY <2>2, <4>2 DEF Known, Absent
    <3>2. CASE trace = "open" BY <2>1, <2>2, <3>2 DEF Tree, Placed
    <3>3. CASE trace = "closed" BY <2>1, <2>2, <3>3 DEF Tree
    <3> QED BY <2>1, <3>1, <3>2, <3>3
  <2>3. \A i \in DOMAIN pending : ~Ready(nodes, sent[pending[i]])
    BY <2>1 DEF NoneReady, Now
  <2>4. trace = "closed" => pending = <<>> /\ \A n \in Nodes : nodes[n].state # "open"
    BY <2>1 DEF Tree
  <2> QED BY <2>1, <2>2, <2>3, <2>4 DEF RecorderInvariant
<1> QED BY <1>1, TraceInvariantHolds, PTL

\* A call reports one end at most, and no node shows another status than that of an end
\* that was reported for it, unless the end of the attempt closed it, whatever repeats
\* of it arrive (emitModelEnd, finishNode).
THEOREM StatusIsReportedHolds == TraceSpec => []StatusIsReported
<1>1. TraceInvariant => StatusIsReported
  <2> SUFFICES ASSUME TraceInvariant PROVE StatusIsReported OBVIOUS
  <2>1. TraceTypeOK /\ Tree /\ Emissions /\ trace \in {"absent", "open", "closed"}
    BY DEF TraceInvariant, TraceTypeOK
  <2>2. ASSUME NEW c \in Calls PROVE Cardinality(Emitted("end", c)) <= 1
    <3>1. CASE Emitted("end", c) = {}
      <4>1. Cardinality(Emitted("end", c)) = 0 BY <3>1, FS_EmptySet
      <4> QED BY <4>1
    <3>2. CASE Emitted("end", c) # {}
      <4>1. PICK k : k \in Emitted("end", c) BY <3>2
      <4>2. Emitted("end", c) = {k} BY <2>1, <4>1 DEF Emissions
      <4>3. Cardinality(Emitted("end", c)) = 1 BY <4>2, FS_Singleton
      <4> QED BY <4>3
    <3> QED BY <3>1, <3>2
  <2>3. ASSUME NEW n \in Nodes, nodes[n].state = "ended"
        PROVE  \/ trace = "closed" /\ nodes[n].at = 0
               \/ nodes[n].at \in Emitted("end", n) /\ sent[nodes[n].at].status = nodes[n].status
    <3>1. CASE trace = "absent"
      <4>1. nodes[n] = Absent BY <2>1, <3>1 DEF Tree
      <4> QED BY <2>3, <4>1 DEF Absent
    <3>2. CASE trace = "open" BY <2>1, <2>3, <3>2 DEF Tree, Placed
    <3>3. CASE trace = "closed" BY <2>1, <2>3, <3>3 DEF Tree
    <3> QED BY <2>1, <3>1, <3>2, <3>3
  <2> QED BY <2>2, <2>3 DEF StatusIsReported
<1> QED BY <1>1, TraceInvariantHolds, PTL

\* No end of an agent is earlier than its first.
LEMMA FirstEndIsFirst ==
  ASSUME sent \in Seq(Event), NEW a, NEW j \in Emitted("end", a)
  PROVE  FirstEnd(a) \in Nat /\ FirstEnd(a) <= j
<1>a. PICK S : S = Emitted("end", a) OBVIOUS
<1>1. S \subseteq Nat /\ S # {} BY <1>a, SentTypes DEF Emitted
<1>2. \E k \in S : \A i \in S : k <= i BY <1>1, LeastNumber
<1>3. PICK f : f = CHOOSE k \in S : \A i \in S : k <= i OBVIOUS
<1>4. f \in S /\ \A i \in S : f <= i BY <1>2, <1>3
<1>5. FirstEnd(a) = f BY <1>1, <1>3, <1>a DEF FirstEnd
<1> QED BY <1>1, <1>4, <1>5, <1>a

\* Whatever the order of arrival: once every event is there, each call that began before
\* the phase it was made in first ended stands under its agent, open or ended as the
\* call is (processEvent, drainPending).
THEOREM OrderDoesNotMatterHolds == TraceSpec => []OrderDoesNotMatter
<1>1. TraceInvariant => OrderDoesNotMatter
  <2> SUFFICES ASSUME TraceInvariant, AllDelivered,
                      NEW c \in Calls, NEW k \in Emitted("start", c),
                      k < FirstEnd(sent[k].parent)
               PROVE  Kept(c)
    BY DEF OrderDoesNotMatter
  <2>a. PICK p : p = sent[k].parent OBVIOUS
  <2>1. /\ trace = "open" /\ sent \in Seq(Event) /\ Emissions /\ Placed(nodes)
        /\ Known(nodes, Attempt) /\ nodes \in [Nodes -> Node]
    BY DEF TraceInvariant, TraceTypeOK, Tree, AllDelivered
  <2>2. \A j \in DOMAIN sent : Waits(Now, j) \/ Handled(nodes, j)
    BY DEF TraceInvariant, NoneLost, AllDelivered
  <2>3. \A j \in DOMAIN sent : Ready(nodes, sent[j]) => Handled(nodes, j)
    <3> SUFFICES ASSUME NEW j \in DOMAIN sent, Ready(nodes, sent[j]), Waits(Now, j)
                 PROVE  FALSE
      BY <2>2
    <3>1. PICK i \in DOMAIN pending : pending[i] = j BY DEF Waits, Now
    <3>2. ~Ready(nodes, sent[pending[i]]) BY DEF TraceInvariant, NoneReady, Now
    <3> QED BY <3>1, <3>2
  <2>4. /\ k \in DOMAIN sent /\ sent[k].kind = "start" /\ sent[k].node = c /\ k \in Nat
    BY <2>1, SentTypes DEF Emitted
  <2>5. p \in Agents /\ Begun(p) BY <2>1, <2>4, <2>a DEF Emissions
  <2>6. Known(nodes, p)
    <3>1. CASE p = Attempt BY <2>1, <3>1
    <3>2. CASE p # Attempt
      <4>1. PICK j : j \in Emitted("start", p) BY <2>5, <3>2 DEF Begun
      <4>2. j \in DOMAIN sent /\ sent[j].kind = "start" /\ sent[j].node = p
        BY <4>1 DEF Emitted
      <4>3. Ready(nodes, sent[j]) BY <2>5, <4>2 DEF Ready
      <4>4. Handled(nodes, j) BY <2>3, <4>2, <4>3
      <4>5. p \notin Calls BY <2>5, NodesDiffer
      <4> QED BY <4>2, <4>4, <4>5 DEF Handled
    <3> QED BY <3>1, <3>2
  <2>7. Handled(nodes, k)
    <3>1. Ready(nodes, sent[k]) BY <2>4, <2>6, <2>a DEF Ready
    <3> QED BY <2>3, <2>4, <3>1
  <2>8. Known(nodes, c)
    <3>1. CASE \E j \in Emitted("end", p) : j < k
      <4>1. PICK j \in Emitted("end", p) : j < k BY <3>1
      <4>2. FirstEnd(p) \in Nat /\ FirstEnd(p) <= j BY <2>1, FirstEndIsFirst
      <4>3. j \in Nat BY <2>1, SentTypes DEF Emitted
      <4> QED BY <2>4, <2>a, <4>1, <4>2, <4>3
    <3>2. CASE ~\E j \in Emitted("end", p) : j < k BY <2>4, <2>7, <2>a, <3>2 DEF Handled
    <3> QED BY <3>1, <3>2
  <2>9. nodes[c].parent = ParentOf(c)
    <3>1. PICK j \in DOMAIN sent : sent[j].node = c /\ sent[j].parent = nodes[c].parent
      BY <2>1, <2>8 DEF Placed
    <3> QED BY <2>1, <3>1, ParentIsOf
  <2>10. c \in Nodes BY NodesDiffer
  <2>11. nodes[c].state = IF Emitted("end", c) = {} THEN "open" ELSE "ended"
    <3>1. CASE Emitted("end", c) = {}
      <4>1. nodes[c].state # "ended" BY <2>1, <2>10, <3>1 DEF Placed
      <4>2. nodes[c].state \in {"absent", "open", "ended"} BY <2>1, <2>10 DEF Node
      <4> QED BY <2>8, <3>1, <4>1, <4>2 DEF Known
    <3>2. CASE Emitted("end", c) # {}
      <4>1. PICK j : j \in Emitted("end", c) BY <3>2
      <4>2. j \in DOMAIN sent /\ sent[j].kind = "end" /\ sent[j].node = c
        BY <4>1 DEF Emitted
      <4>3. Ready(nodes, sent[j]) BY <2>8, <4>2 DEF Ready
      <4>4. Handled(nodes, j) BY <2>3, <4>2, <4>3
      <4> QED BY <3>2, <4>2, <4>4 DEF Handled
    <3> QED BY <3>1, <3>2
  <2> QED BY <2>9, <2>11 DEF Kept
<1> QED BY <1>1, TraceInvariantHolds, PTL
=============================================================================
