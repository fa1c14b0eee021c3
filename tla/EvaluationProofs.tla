-------------------------- MODULE EvaluationProofs --------------------------
(***************************************************************************)
(* What holds of every evaluation, whatever its cases and requests are:    *)
(* no evidence of the future, the nesting of the layers, the accounts of   *)
(* the driver, and no score that was not earned.                           *)
(*                                                                         *)
(* The inductive invariant has one part per question: the types, where the *)
(* loop stands and what has been checked by then, where saved evidence     *)
(* comes from, how it is numbered, what the source returned of it, what    *)
(* the recorded rounds say, and the items of the driver.                   *)
(***************************************************************************)
EXTENDS Experiment, OrderingProofs, SequenceTheorems, TLAPS

Refusals == {"refused", "leaks", "short"}
Executing == {"preparing", "diagnosing", "answered", "settled"}
Rounding == Executing \cup {"routing"}

Statuses == {"queued", "running", "succeeded", "failed"}
Run == [status : Statuses, attempts : 0 .. MaxAttempts,
        due : BOOLEAN]

Types ==
  /\ stage \in Stages /\ engine \in {"pi", "scripted"} /\ round \in Nat \ {0}
  /\ runs \in Seq(Run) /\ claimed \in 0 .. Len(runs)
  /\ \A i \in DOMAIN runs : runs[i].status = "queued" => runs[i].attempts < MaxAttempts
  /\ reports \in Seq(Draft \cup {None}) /\ Len(reports) = Len(runs)
  /\ calls \in Seq(Range(calls)) /\ Len(calls) <= MaxCalls
  /\ made \in Nat /\ made <= Len(calls) /\ step \in Nat \ {0}
  /\ took \in 0 .. MaxAuditRounds + 1
  /\ draft \in Draft \cup {None} /\ (took = 0 <=> draft = None)
  /\ owed \in Seq({"answer", "notice"})
  /\ results \in Seq(Range(results))
  /\ failure \in Refusals \cup {"none", "truth", "inbound", "claim"}

\* The case under way was loaded, and nothing is kept of one that was not.
Flow ==
  /\ stage = "idle" \/ failure \in Refusals => calls = <<>> /\ results = <<>>
  /\ stage # "idle" => \E id \in DOMAIN Catalog : kase = Catalog[id]
  /\ stage # "idle" /\ failure \notin Refusals => Loaded(kase) = "ok"
  /\ stage # "over" => failure = "none"
  /\ stage \in Rounding => round \in DOMAIN kase.rounds /\ Len(results) = round - 1
  /\ stage = "over" /\ failure = "none" => Len(results) = Len(kase.rounds)

\* What has been checked, and counted, by the time the round is at a stage.
Checked ==
  /\ stage \in Executing => claimed \in 1 .. Len(runs)
  /\ stage = "preparing" => took = 0
  /\ stage = "diagnosing" => took <= MaxAuditRounds
  /\ stage = "answered" => draft # None
  /\ stage \in {"diagnosing", "answered"} => checks = ScopeChecks(kase, round) /\ Passed(checks)
  /\ stage = "settled" /\ runs[claimed].status = "succeeded" => took > 0 /\ owed # <<>>
  /\ stage = "settled" /\ ~Passed(checks) => took = 0

\* A piece of evidence is of a file that the checks of its round have looked into.
FromView(e) == e.kind = "log" /\ e.file \in Round(kase, e.round).view
FromTree(e) ==
  /\ e.kind = "code"
  /\ \E u \in Round(kase, e.round).repos :
       /\ e.file \in kase.repos[u.id].trees[u.resolved]
       /\ ResolvedScanOk(kase, e.round, u.id, u.resolved)

Origin ==
  \A e \in Persisted : e.round \in DOMAIN kase.rounds /\ (FromView(e) \/ FromTree(e))

\* No evidence is of a later round, of one that has not begun, or of one that was blocked.
Timely ==
  /\ \A e \in Persisted : e.round \in Nat /\ e.round <= round
  /\ stage \in {"routing", "preparing"} => \A e \in Persisted : e.round < round
  /\ stage = "settled" /\ ~Passed(checks) => \A e \in Persisted : e.round < round

Numbered ==
  /\ IsFiniteSet(Persisted)
  /\ \A e, f \in Persisted : e.n = f.n => e = f
  /\ {e.n : e \in Persisted} = 1 .. Cardinality(Persisted)

\* What is saved of logs the source has returned; by the time a round begins, that of
\* the rounds before is on record.
Returned ==
  \A e \in Persisted : e.kind = "log" =>
    /\ source.queried \/ page.queried
    /\ e.key \in source.keys \cup page.keys
    /\ stage = "routing" => source.queried /\ e.key \in source.keys

\* A citation of round r found to hold has evidence to show.
Carried(r, n) ==
  \E e \in ById(n) :
    /\ e.round <= r
    /\ \A u \in Round(kase, r).repos : e.kind = "code" /\ e.repo = u.id => u.expected \in {NoSha, e.sha}

Recorded ==
  \A i \in DOMAIN results :
    LET x == results[i] IN
    /\ x.round = i /\ x.outcome \in Outcomes
    /\ x.blocked => x.engineCalls = 0 /\ \A e \in Persisted : e.round # i
    /\ x.status = "succeeded" /\ ~x.blocked => x.engineCalls > 0 /\ x.written
    /\ \A k \in x.cites : Valid(k) => Carried(i, k.n)

CaseInvariant ==
  Types /\ Flow /\ Checked /\ Origin /\ Timely /\ Numbered /\ Returned /\ Recorded /\ LayersNest

Limited == request.driver = "batch" /\ request.limits = "enforce"

Requested ==
  /\ items \in Seq(Range(items)) /\ DOMAIN ledger = {"trials", "tokens", "stopped"}
  /\ request = None => items = <<>> /\ stage = "idle" /\ ledger.trials = 0 /\ exit # "ok"
  /\ request # None =>
       /\ request \in Requests /\ (request.driver = "batch" => ValidRequest(request))
       /\ Len(items) <= Trials /\ \A i \in DOMAIN items : items[i].id = Trial(i - 1).id
       /\ stage # "idle" => Len(items) < Trials
       /\ request.driver = "batch" => ledger.trials = Len(items)
       /\ Limited => Len(items) <= request.maxTrials
       /\ Limited /\ stage # "idle" => Len(items) < request.maxTrials
       /\ request.driver = "batch" => \A i \in DOMAIN items : items[i].hard # {} => items[i].score = 0
  /\ exit = "ok" /\ ~ledger.stopped => Len(items) = Trials

IInv == CaseInvariant /\ Requested

-----------------------------------------------------------------------------
(* Sequences and sets. *)

LEMMA LenOf ==
  ASSUME NEW s, s \in Seq(Range(s))
  PROVE  Len(s) \in Nat /\ DOMAIN s = 1 .. Len(s)
BY LenProperties

LEMMA AppendOne ==
  ASSUME NEW s, s \in Seq(Range(s)), NEW x
  PROVE  /\ Append(s, x) \in Seq(Range(Append(s, x)))
         /\ Len(s) \in Nat /\ Len(Append(s, x)) = Len(s) + 1
         /\ DOMAIN Append(s, x) = 1 .. Len(s) + 1
         /\ \A i \in DOMAIN s : i \in 1 .. Len(s) + 1 /\ Append(s, x)[i] = s[i]
         /\ \A i \in 1 .. Len(s) + 1 : i = Len(s) + 1 \/ i \in DOMAIN s
         /\ Append(s, x)[Len(s) + 1] = x
<1> DEFINE S == Range(s) \cup {x}
<1>1. s \in Seq(S)
  <2>1. Range(s) \subseteq S OBVIOUS
  <2> QED BY <2>1, SeqMonotonic
<1>2. Len(s) \in Nat /\ DOMAIN s = 1 .. Len(s) BY LenOf
<1>3. PICK t : t = Append(s, x) OBVIOUS
<1>4. t \in Seq(S) /\ Len(t) = Len(s) + 1 /\ t[Len(s) + 1] = x
      /\ \A i \in 1 .. Len(s) : t[i] = s[i]
  BY <1>1, <1>2, <1>3
<1>5. DOMAIN t = 1 .. Len(s) + 1 /\ t = [i \in 1 .. Len(s) + 1 |-> t[i]]
  BY <1>4, LenProperties
<1>6. t \in Seq(Range(t))
  <2>1. \A i \in 1 .. Len(s) + 1 : t[i] \in Range(t) BY <1>5 DEF Range
  <2>2. t \in [1 .. Len(s) + 1 -> Range(t)] BY <1>5, <2>1
  <2>3. Len(s) + 1 \in Nat BY <1>2
  <2> QED BY <2>2, <2>3, SeqDef
<1>7. \A i \in 1 .. Len(s) : i \in 1 .. Len(s) + 1 BY <1>2
<1>8. \A i \in 1 .. Len(s) + 1 : i = Len(s) + 1 \/ i \in 1 .. Len(s) BY <1>2
<1> QED BY <1>2, <1>3, <1>4, <1>5, <1>6, <1>7, <1>8

LEMMA NoneYet ==
  <<>> \in Seq(Range(<<>>)) /\ Len(<<>>) = 0 /\ DOMAIN <<>> = {}
<1>1. <<>> \in Seq(Range(<<>>)) /\ Len(<<>>) = 0 BY EmptySeq
<1>2. DOMAIN <<>> = 1 .. 0 BY <1>1, LenProperties
<1> QED BY <1>1, <1>2

\* SetToSeq lists a finite set, every element once.
LEMMA Listed ==
  ASSUME NEW S, IsFiniteSet(S)
  PROVE  /\ Cardinality(S) \in Nat
         /\ SetToSeq(S) \in [1 .. Cardinality(S) -> S]
         /\ IsInjective(SetToSeq(S))
<1>1. Cardinality(S) \in Nat /\ ExistsBijection(1 .. Cardinality(S), S) BY FS_CardinalityType
<1>2. \E f \in [1 .. Cardinality(S) -> S] : IsInjective(f)
  BY <1>1 DEF ExistsBijection, Bijection, Injection, Surjection
<1> QED BY <1>1, <1>2 DEF SetToSeq

\* A set is as large as its image under a numbering.
LEMMA NumberedSize ==
  ASSUME NEW S, IsFiniteSet(S), \A e, f \in S : e.n = f.n => e = f
  PROVE  Cardinality({e.n : e \in S}) = Cardinality(S)
<1> DEFINE T == {e.n : e \in S}
           g == [e \in S |-> e.n]
<1>1. g \in Bijection(S, T)
  <2>1. g \in [S -> T] OBVIOUS
  <2>2. \A e, f \in S : g[e] = g[f] => e = f OBVIOUS
  <2>3. \A t \in T : \E e \in S : g[e] = t OBVIOUS
  <2> QED BY <2>1, <2>2, <2>3 DEF Bijection, Injection, Surjection, IsInjective
<1>2. ExistsBijection(S, T) BY <1>1 DEF ExistsBijection
<1> QED BY <1>2, FS_Bijection

-----------------------------------------------------------------------------
(* The materials of a case that was loaded. *)

LEMMA LoadedCase ==
  ASSUME NEW c, Loaded(c) = "ok"
  PROVE  ValidCase(c) /\ ValidTruth(c.truth) /\ Isolated(c)
<1>1. Admitted(c) /\ ValidTruth(c.truth) BY DEF Loaded
<1>2. Isolated(c) BY <1>1 DEF Loaded
<1> QED BY <1>1, <1>2 DEF Admitted

LEMMA RoundsOf ==
  ASSUME NEW c, ValidCase(c), Material(c)
  PROVE  Len(c.rounds) \in Nat \ {0} /\ DOMAIN c.rounds = 1 .. Len(c.rounds)
<1>1. Len(c.rounds) \in Nat /\ DOMAIN c.rounds = 1 .. Len(c.rounds)
  BY LenProperties DEF Material
<1>2. c.maxRounds \in 1 .. 10 /\ Len(c.rounds) \in 1 .. c.maxRounds BY DEF ValidCase
<1>3. Len(c.rounds) # 0 BY <1>1, <1>2
<1> QED BY <1>1, <1>3

\* A log of an isolated case says nothing of later rounds, is no answer, and is no other
\* name of a later or of a private file.
LEMMA LogIsClean ==
  ASSUME NEW c, Isolated(c), NEW r \in DOMAIN c.rounds, NEW f \in Round(c, r).view
  PROVE  /\ \A s \in f.says \cap Later(c, r) : Round(c, s).terse
         /\ ~f.answer
         /\ f.ino \notin c.private.inodes
         /\ DOMAIN c.rounds \subseteq Nat =>
              \A s \in Later(c, r) : f.ino \notin {g.ino : g \in Round(c, s).view}
<1>1. f \in Scanned(c, r) BY DEF Scanned
<1>2. f.whole BY <1>1 DEF Isolated, IncompleteScan
<1>3. ~Leaks(f, c, r) BY <1>1, <1>2 DEF Isolated, FutureMessageLeak
<1>4. ~f.answer BY <1>1 DEF Isolated, AnswerFilename
<1>5. f.ino \notin c.private.inodes BY DEF Isolated, HardlinkEscape
<1>6. ASSUME DOMAIN c.rounds \subseteq Nat, NEW s \in Later(c, r)
      PROVE  f.ino \notin {g.ino : g \in Round(c, s).view}
  <2>1. s \in DOMAIN c.rounds /\ s > r BY DEF Later
  <2>2. r < s BY <1>6, <2>1
  <2> QED BY <2>1, <2>2 DEF Isolated, HardlinkEscape
<1> QED BY <1>3, <1>4, <1>5, <1>6 DEF Leaks

LEMMA TreeIsClean ==
  ASSUME NEW c, NEW r, NEW id, NEW sha, ResolvedScanOk(c, r, id, sha),
         NEW f \in c.repos[id].trees[sha]
  PROVE  /\ \A s \in f.says \cap Later(c, r) : Round(c, s).terse
         /\ ~f.answer
BY DEF ResolvedScanOk, Leaks

\* Where every comparison and every scan passed, the tree in scope was read, and is clean.
LEMMA PassedIsScanned ==
  ASSUME NEW c, NEW r, Passed(ScopeChecks(c, r)), NEW u \in Round(c, r).repos
  PROVE  ResolvedScanOk(c, r, u.id, u.resolved)
<1>1. PICK k : k = ScopeCheck(c, r, u) OBVIOUS
<1>2. k \in ScopeChecks(c, r) BY <1>1 DEF ScopeChecks
<1>3. k.scan = "ok" BY <1>2 DEF Passed
<1> QED BY <1>1, <1>3 DEF ScopeCheck

-----------------------------------------------------------------------------
(* What the invariant says of evidence. *)

LEMMA EvidenceOfCase ==
  ASSUME Flow, NEW e \in Persisted
  PROVE  /\ stage # "idle" /\ Loaded(kase) = "ok"
         /\ \E id \in DOMAIN Catalog : kase = Catalog[id]
         /\ Material(kase) /\ ValidCase(kase) /\ Isolated(kase)
<1>1. calls # <<>>
  <2>1. DOMAIN calls # {} BY DEF Persisted
  <2> QED BY <2>1, NoneYet
<1>2. stage # "idle" /\ failure \notin Refusals BY <1>1 DEF Flow
<1>3. Loaded(kase) = "ok" BY <1>2 DEF Flow
<1>4. PICK id \in DOMAIN Catalog : kase = Catalog[id] BY <1>2 DEF Flow
<1>5. Material(kase) BY <1>4, CatalogAssumption
<1> QED BY <1>2, <1>3, <1>4, <1>5, LoadedCase

LEMMA OriginIsPast ==
  ASSUME Flow, Origin
  PROVE  NothingFromTheFuture
<1> SUFFICES ASSUME NEW e \in Persisted
             PROVE  LET later == {s \in DOMAIN kase.rounds : s > e.round} IN
                    /\ \A s \in e.file.says \cap later : Round(kase, s).terse
                    /\ ~e.file.answer
                    /\ e.kind = "log" =>
                         e.file.ino \notin kase.private.inodes
                                      \cup UNION {{f.ino : f \in Round(kase, s).view} : s \in later}
  BY DEF NothingFromTheFuture
<1>1. Material(kase) /\ ValidCase(kase) /\ Isolated(kase) BY EvidenceOfCase
<1>2. DOMAIN kase.rounds \subseteq Nat BY <1>1, RoundsOf
<1>3. e.round \in DOMAIN kase.rounds /\ (FromView(e) \/ FromTree(e)) BY DEF Origin
<1>4. Later(kase, e.round) = {s \in DOMAIN kase.rounds : s > e.round} BY DEF Later
<1>5. CASE FromView(e)
  <2>1. e.file \in Round(kase, e.round).view BY <1>5 DEF FromView
  <2>2. /\ \A s \in e.file.says \cap Later(kase, e.round) : Round(kase, s).terse
        /\ ~e.file.answer
        /\ e.file.ino \notin kase.private.inodes
        /\ \A s \in Later(kase, e.round) : e.file.ino \notin {f.ino : f \in Round(kase, s).view}
    BY <1>1, <1>2, <1>3, <2>1, LogIsClean
  <2> QED BY <1>4, <2>2
<1>6. CASE FromTree(e)
  <2>1. PICK u \in Round(kase, e.round).repos :
             /\ e.file \in kase.repos[u.id].trees[u.resolved]
             /\ ResolvedScanOk(kase, e.round, u.id, u.resolved)
    BY <1>6 DEF FromTree
  <2>2. /\ \A s \in e.file.says \cap Later(kase, e.round) : Round(kase, s).terse
        /\ ~e.file.answer
    BY <2>1, TreeIsClean
  <2>3. e.kind # "log" BY <1>6 DEF FromTree
  <2> QED BY <1>4, <2>2, <2>3
<1> QED BY <1>3, <1>5, <1>6

-----------------------------------------------------------------------------
(* Parts of the invariant whose state a step leaves alone. *)

LEMMA SavedStays ==
  ASSUME Origin, Numbered, UNCHANGED <<kase, calls>>
  PROVE  Origin' /\ Numbered' /\ Persisted' = Persisted
<1>1. Persisted' = Persisted BY DEF Persisted
<1>2. Numbered' BY <1>1 DEF Numbered
<1>3. Origin' BY <1>1 DEF Origin, FromView, FromTree
<1> QED BY <1>1, <1>2, <1>3

LEMMA RecordedStays ==
  ASSUME Recorded, LayersNest, UNCHANGED <<kase, calls, results>>
  PROVE  Recorded' /\ LayersNest'
<1>1. Persisted' = Persisted BY DEF Persisted
<1>2. Recorded' BY <1>1 DEF Recorded, Carried, ById
<1>3. LayersNest' BY DEF LayersNest, LogOnly
<1> QED BY <1>2, <1>3

LEMMA ReturnedStays ==
  ASSUME Returned, UNCHANGED <<calls, source, page>>, stage' # "routing"
  PROVE  Returned'
<1>1. Persisted' = Persisted BY DEF Persisted
<1> QED BY <1>1 DEF Returned

LEMMA RequestedStays ==
  ASSUME Requested, UNCHANGED driverVars, stage # "idle", stage' # "idle"
  PROVE  Requested'
BY DEF Requested, driverVars, Limited, Trials, Trial, ValidRequest, Approved

\* Numbers of rounds and of runs.
LEMMA FlowFacts ==
  ASSUME Flow, stage \in Rounding
  PROVE  /\ Loaded(kase) = "ok" /\ failure = "none" /\ stage \notin {"idle", "over"}
         /\ Material(kase) /\ ValidCase(kase)
         /\ Len(kase.rounds) \in Nat \ {0} /\ DOMAIN kase.rounds = 1 .. Len(kase.rounds)
         /\ round \in 1 .. Len(kase.rounds) /\ Len(results) = round - 1
<1>1. stage \notin {"idle", "over"} BY DEF Rounding, Executing
<1>2. failure = "none" /\ Loaded(kase) = "ok" BY <1>1 DEF Flow, Refusals
<1>3. PICK id \in DOMAIN Catalog : kase = Catalog[id] BY <1>1 DEF Flow
<1>4. Material(kase) BY <1>3, CatalogAssumption
<1>5. ValidCase(kase) BY <1>2, LoadedCase
<1>6. Len(kase.rounds) \in Nat \ {0} /\ DOMAIN kase.rounds = 1 .. Len(kase.rounds)
  BY <1>4, <1>5, RoundsOf
<1> QED BY <1>1, <1>2, <1>4, <1>5, <1>6 DEF Flow

-----------------------------------------------------------------------------
(* Rows of runs. *)

LEMMA DueRuns ==
  ASSUME NEW rs \in Seq(Run), NEW i \in DOMAIN rs
  PROVE  LET t == [rs EXCEPT ![i].due = TRUE] IN
         /\ t \in Seq(Run) /\ Len(t) = Len(rs) /\ DOMAIN t = DOMAIN rs
         /\ \A j \in DOMAIN rs : t[j].status = rs[j].status /\ t[j].attempts = rs[j].attempts
<1>0. Len(rs) \in Nat /\ DOMAIN rs = 1 .. Len(rs) /\ \A j \in DOMAIN rs : rs[j] \in Run
  BY LenProperties, ElementOfSeq
<1>1. PICK e : e = [rs[i] EXCEPT !.due = TRUE] OBVIOUS
<1>2. e \in Run /\ e.status = rs[i].status /\ e.attempts = rs[i].attempts BY <1>0, <1>1 DEF Run
<1>3. PICK t : t = [rs EXCEPT ![i] = e] OBVIOUS
<1>4. t \in Seq(Run) /\ Len(t) = Len(rs) /\ \A j \in 1 .. Len(rs) : t[j] = IF j = i THEN e ELSE rs[j]
  BY <1>0, <1>2, <1>3, ExceptSeq
<1>5. DOMAIN t = DOMAIN rs BY <1>3
<1>6. t = [rs EXCEPT ![i].due = TRUE] BY <1>1, <1>3
<1> QED BY <1>0, <1>2, <1>4, <1>5, <1>6

LEMMA SetRuns ==
  ASSUME NEW rs \in Seq(Run), NEW i \in DOMAIN rs,
         NEW st \in Statuses
  PROVE  LET t == [rs EXCEPT ![i].status = st] IN
         /\ t \in Seq(Run) /\ Len(t) = Len(rs) /\ DOMAIN t = DOMAIN rs
         /\ t[i].status = st /\ t[i].attempts = rs[i].attempts
         /\ \A j \in DOMAIN rs : j # i => t[j] = rs[j]
<1>0. Len(rs) \in Nat /\ DOMAIN rs = 1 .. Len(rs) /\ \A j \in DOMAIN rs : rs[j] \in Run
  BY LenProperties, ElementOfSeq
<1>1. PICK e : e = [rs[i] EXCEPT !.status = st] OBVIOUS
<1>2. e \in Run /\ e.status = st /\ e.attempts = rs[i].attempts BY <1>0, <1>1 DEF Run
<1>3. PICK t : t = [rs EXCEPT ![i] = e] OBVIOUS
<1>4. t \in Seq(Run) /\ Len(t) = Len(rs) /\ \A j \in 1 .. Len(rs) : t[j] = IF j = i THEN e ELSE rs[j]
  BY <1>0, <1>2, <1>3, ExceptSeq
<1>5. DOMAIN t = DOMAIN rs BY <1>3
<1>6. t = [rs EXCEPT ![i].status = st] BY <1>1, <1>3
<1> QED BY <1>0, <1>2, <1>4, <1>5, <1>6

Failed(rs, i, st) == [rs EXCEPT ![i].status = st, ![i].due = FALSE]

LEMMA FailRuns ==
  ASSUME NEW rs \in Seq(Run), NEW i \in DOMAIN rs,
         NEW st \in Statuses
  PROVE  LET t == Failed(rs, i, st) IN
         /\ t \in Seq(Run) /\ Len(t) = Len(rs) /\ DOMAIN t = DOMAIN rs
         /\ t[i].status = st /\ t[i].attempts = rs[i].attempts
         /\ \A j \in DOMAIN rs : j # i => t[j] = rs[j]
<1>0. Len(rs) \in Nat /\ DOMAIN rs = 1 .. Len(rs) /\ \A j \in DOMAIN rs : rs[j] \in Run
  BY LenProperties, ElementOfSeq
<1>1. PICK e : e = [rs[i] EXCEPT !.status = st, !.due = FALSE] OBVIOUS
<1>2. e \in Run /\ e.status = st /\ e.attempts = rs[i].attempts BY <1>0, <1>1 DEF Run
<1>3. PICK t : t = [rs EXCEPT ![i] = e] OBVIOUS
<1>4. t \in Seq(Run) /\ Len(t) = Len(rs) /\ \A j \in 1 .. Len(rs) : t[j] = IF j = i THEN e ELSE rs[j]
  BY <1>0, <1>2, <1>3, ExceptSeq
<1>5. DOMAIN t = DOMAIN rs BY <1>3
<1>6. t = Failed(rs, i, st) BY <1>0, <1>1, <1>3 DEF Failed
<1> QED BY <1>0, <1>2, <1>4, <1>5, <1>6

Claimed(rs, i) == [rs EXCEPT ![i].status = "running", ![i].attempts = @ + 1]

LEMMA ClaimRuns ==
  ASSUME NEW rs \in Seq(Run), NEW i \in DOMAIN rs, rs[i].attempts + 1 \in 0 .. MaxAttempts
  PROVE  LET t == Claimed(rs, i) IN
         /\ t \in Seq(Run) /\ Len(t) = Len(rs) /\ DOMAIN t = DOMAIN rs
         /\ t[i].status = "running"
         /\ \A j \in DOMAIN rs : j # i => t[j] = rs[j]
<1>0. Len(rs) \in Nat /\ DOMAIN rs = 1 .. Len(rs) /\ \A j \in DOMAIN rs : rs[j] \in Run
  BY LenProperties, ElementOfSeq
<1>1. PICK e : e = [rs[i] EXCEPT !.status = "running", !.attempts = @ + 1] OBVIOUS
<1>2. e \in Run /\ e.status = "running" BY <1>0, <1>1 DEF Run, Statuses
<1>3. PICK t : t = [rs EXCEPT ![i] = e] OBVIOUS
<1>4. t \in Seq(Run) /\ Len(t) = Len(rs) /\ \A j \in 1 .. Len(rs) : t[j] = IF j = i THEN e ELSE rs[j]
  BY <1>0, <1>2, <1>3, ExceptSeq
<1>5. DOMAIN t = DOMAIN rs BY <1>3
<1>6. t = Claimed(rs, i) BY <1>0, <1>1, <1>3 DEF Claimed
<1> QED BY <1>0, <1>2, <1>4, <1>5, <1>6


-----------------------------------------------------------------------------
(* The steps of a case. *)

LEMMA DelayStep ==
  ASSUME CaseInvariant, DelayElapses
  PROVE  CaseInvariant'
<1>0. Types /\ Flow /\ Checked /\ Origin /\ Timely /\ Numbered /\ Returned /\ Recorded /\ LayersNest
  BY DEF CaseInvariant
<1>1. /\ stage \notin {"idle", "over"}
      /\ UNCHANGED <<kase, engine, stage, round, claimed, roundVars, calls, source, reports,
                     owed, step, results, failure>>
  BY DEF DelayElapses
<1>2. PICK i \in DOMAIN runs : runs' = [runs EXCEPT ![i].due = TRUE] BY DEF DelayElapses
<1>3. /\ runs' \in Seq(Run) /\ Len(runs') = Len(runs) /\ DOMAIN runs' = DOMAIN runs
      /\ \A j \in DOMAIN runs : runs'[j].status = runs[j].status /\ runs'[j].attempts = runs[j].attempts
  BY <1>0, <1>2, DueRuns DEF Types
<1>4. DOMAIN runs = 1 .. Len(runs) BY <1>0, LenProperties DEF Types
<1>5. Types' BY <1>0, <1>1, <1>3 DEF Types, roundVars
<1>6. Flow' BY <1>0, <1>1 DEF Flow
<1>7. Checked' BY <1>0, <1>1, <1>3, <1>4 DEF Checked, roundVars, Executing
<1>8. Origin' /\ Numbered' /\ Persisted' = Persisted BY <1>0, <1>1, SavedStays
<1>9. Timely' BY <1>0, <1>1, <1>8 DEF Timely, roundVars
<1>10. Returned' BY <1>0, <1>1, <1>8 DEF Returned, roundVars
<1>11. Recorded' /\ LayersNest' BY <1>0, <1>1, RecordedStays
<1> QED BY <1>5, <1>6, <1>7, <1>8, <1>9, <1>10, <1>11 DEF CaseInvariant

LEMMA SupplementStep ==
  ASSUME CaseInvariant, Supplement
  PROVE  CaseInvariant'
<1>0. Types /\ Flow /\ Checked /\ Origin /\ Timely /\ Numbered /\ Returned /\ Recorded /\ LayersNest
  BY DEF CaseInvariant
<1>1. /\ stage = "answered" /\ took <= MaxAuditRounds
      /\ stage' = "diagnosing" /\ made' = 0
      /\ UNCHANGED <<kase, engine, round, runs, claimed, took, draft, calls, page, source, checks,
                     reports, owed, step, results, failure>>
  BY DEF Supplement
<1>2. Len(calls) \in Nat BY <1>0, LenOf DEF Types
<1>5. Types' BY <1>0, <1>1, <1>2 DEF Types, Stages
<1>6. Flow' BY <1>0, <1>1 DEF Flow, Rounding, Executing
<1>7. Checked' BY <1>0, <1>1 DEF Checked, Executing
<1>8. Origin' /\ Numbered' /\ Persisted' = Persisted BY <1>0, <1>1, SavedStays
<1>9. Timely' BY <1>0, <1>1, <1>8 DEF Timely
<1>10. Returned' BY <1>0, <1>1, ReturnedStays
<1>11. Recorded' /\ LayersNest' BY <1>0, <1>1, RecordedStays
<1> QED BY <1>5, <1>6, <1>7, <1>8, <1>9, <1>10, <1>11 DEF CaseInvariant

LEMMA SavedNumbers ==
  ASSUME Types, Numbered
  PROVE  \A e \in Persisted : e.n \in Nat
<1>1. Cardinality(Persisted) \in Nat BY FS_CardinalityType DEF Numbered
<1>2. \A e \in Persisted : e.n \in {f.n : f \in Persisted} OBVIOUS
<1> QED BY <1>1, <1>2 DEF Numbered

LEMMA AnswerIsDraft ==
  ASSUME Types, Flow, Numbered, EngineAnswers
  PROVE  draft' \in Draft
<1>1. stage \in Rounding BY DEF EngineAnswers, Rounding, Executing
<1>2. Material(kase) BY <1>1, FlowFacts
<1>3. \A e \in Persisted : e.n \in Nat BY SavedNumbers
<1>4. CASE draft' \in Drafts
  <2>1. {0} \cup {e.n : e \in Persisted} \subseteq Nat BY <1>3
  <2> QED BY <1>4, <2>1 DEF Drafts, Draft, Kinds
<1>5. CASE draft' = Stub BY <1>5 DEF Stub, Draft, Kinds
<1>6. CASE step <= Len(kase.script) /\ draft' = ScriptDraft
  <2>1. PICK s : s = kase.script[step] OBVIOUS
  <2>2. PICK shown : shown = UNION {calls[i].batch : i \in {j \in DOMAIN calls :
                                      j > Len(calls) - made /\ calls[j].text # {}}}
    OBVIOUS
  <2>3. draft' = [kind |-> s.kind, says |-> s.says,
                  cites |-> IF s.kind = "report" THEN {e.n : e \in shown} ELSE {}]
    BY <1>6, <2>1, <2>2 DEF ScriptDraft
  <2>4. shown \subseteq Persisted BY <2>2 DEF Persisted
  <2>5. {e.n : e \in shown} \subseteq Nat BY <1>3, <2>4
  <2>6. s \in Steps
    <3>1. kase.script \in Seq(Steps) BY <1>2 DEF Material
    <3>2. Len(kase.script) \in Nat BY <3>1, LenProperties
    <3>3. step \in 1 .. Len(kase.script) BY <1>6, <3>2 DEF Types
    <3> QED BY <2>1, <3>1, <3>3, ElementOfSeq
  <2> QED BY <2>3, <2>5, <2>6 DEF Draft, Steps
<1> QED BY <1>4, <1>5, <1>6 DEF EngineAnswers


LEMMA AnswerStep ==
  ASSUME CaseInvariant, EngineAnswers
  PROVE  CaseInvariant'
<1>0. Types /\ Flow /\ Checked /\ Origin /\ Timely /\ Numbered /\ Returned /\ Recorded /\ LayersNest
  BY DEF CaseInvariant
<1>1. /\ stage = "diagnosing" /\ took' = took + 1 /\ stage' = "answered"
      /\ UNCHANGED <<kase, engine, round, runs, claimed, made, calls, page, source, checks,
                     reports, owed, results, failure>>
  BY DEF EngineAnswers
<1>2. draft' \in Draft BY <1>0, AnswerIsDraft
<1>3. draft' # None BY <1>2, NoneAssumption
<1>4. step' \in Nat \ {0}
  <2>1. step' = step \/ step' = step + 1 BY DEF EngineAnswers
  <2> QED BY <1>0, <2>1 DEF Types
<1>5. took' \in 0 .. MaxAuditRounds + 1 /\ took' # 0
  BY <1>0, <1>1, CaseRunAssumption DEF Types, Checked
<1>6. Types' BY <1>0, <1>1, <1>2, <1>3, <1>4, <1>5 DEF Types, Stages
<1>7. Flow' BY <1>0, <1>1 DEF Flow, Rounding, Executing
<1>8. Checked' BY <1>0, <1>1, <1>3 DEF Checked, Executing
<1>9. Origin' /\ Numbered' /\ Persisted' = Persisted BY <1>0, <1>1, SavedStays
<1>10. Timely' BY <1>0, <1>1, <1>9 DEF Timely
<1>11. Returned' BY <1>0, <1>1, ReturnedStays
<1>12. Recorded' /\ LayersNest' BY <1>0, <1>1, RecordedStays
<1> QED BY <1>6, <1>7, <1>8, <1>9, <1>10, <1>11, <1>12 DEF CaseInvariant

LEMMA FinalizeStep ==
  ASSUME CaseInvariant, Finalize
  PROVE  CaseInvariant'
<1>0. Types /\ Flow /\ Checked /\ Origin /\ Timely /\ Numbered /\ Returned /\ Recorded /\ LayersNest
  BY DEF CaseInvariant
<1>1. /\ stage = "answered" /\ stage' = "settled"
      /\ runs' = [runs EXCEPT ![claimed].status = "succeeded"]
      /\ owed' = Append(owed, "answer")
      /\ UNCHANGED <<kase, engine, round, claimed, roundVars, calls, source, step, results, failure>>
  BY DEF Finalize
<1>2. DOMAIN runs = 1 .. Len(runs) /\ Len(runs) \in Nat BY <1>0, LenProperties DEF Types
<1>3. claimed \in DOMAIN runs BY <1>0, <1>1, <1>2 DEF Checked, Executing
<1>4. /\ runs' \in Seq(Run) /\ Len(runs') = Len(runs) /\ DOMAIN runs' = DOMAIN runs
      /\ runs'[claimed].status = "succeeded" /\ runs'[claimed].attempts = runs[claimed].attempts
      /\ \A j \in DOMAIN runs : j # claimed => runs'[j] = runs[j]
  BY <1>0, <1>1, <1>3, SetRuns DEF Types, Statuses
<1>5. \A i \in DOMAIN runs' : runs'[i].status = "queued" => runs'[i].attempts < MaxAttempts
  BY <1>0, <1>4 DEF Types
<1>6. reports' \in Seq(Draft \cup {None}) /\ Len(reports') = Len(runs')
  <2>1. CASE draft.kind # "report"
    <3>1. reports' = reports BY <2>1 DEF Finalize
    <3> QED BY <1>0, <1>4, <3>1 DEF Types
  <2>2. CASE draft.kind = "report"
    <3>1. PICK d : d = [draft EXCEPT !.cites = {n \in @ : ById(n) # {}}] OBVIOUS
    <3>2. reports' = [reports EXCEPT ![claimed] = d] BY <2>2, <3>1 DEF Finalize
    <3>3. draft \in Draft BY <1>0, <1>1 DEF Types, Checked
    <3>4. d \in Draft BY <3>1, <3>3 DEF Draft
    <3>5. claimed \in 1 .. Len(reports) /\ reports \in Seq(Draft \cup {None}) /\ Len(reports) = Len(runs)
      BY <1>0, <1>2, <1>3 DEF Types
    <3>6. d \in Draft \cup {None} BY <3>4
    <3> QED BY <1>4, <3>2, <3>5, <3>6, ExceptSeq
  <2> QED BY <2>1, <2>2
<1>7. owed' \in Seq({"answer", "notice"}) /\ owed' # <<>>
  <2>1. owed \in Seq({"answer", "notice"}) /\ Len(owed) \in Nat BY <1>0, LenProperties DEF Types
  <2>2. owed' \in Seq({"answer", "notice"}) /\ Len(owed') = Len(owed) + 1 BY <1>1, <2>1
  <2>3. Len(owed') # 0 BY <2>1, <2>2
  <2> QED BY <2>2, <2>3, EmptySeq
<1>8. Types' BY <1>0, <1>1, <1>4, <1>5, <1>6, <1>7 DEF Types, Stages, roundVars
<1>9. Flow' BY <1>0, <1>1 DEF Flow, Rounding, Executing
<1>10. took \in Nat /\ took # 0
  BY <1>0, <1>1, CaseRunAssumption DEF Checked, Types
<1>11. Checked'
  BY <1>0, <1>1, <1>2, <1>3, <1>4, <1>7, <1>10 DEF Checked, Executing, roundVars
<1>12. Origin' /\ Numbered' /\ Persisted' = Persisted BY <1>0, <1>1, SavedStays
<1>13. Timely' BY <1>0, <1>1, <1>12 DEF Timely, roundVars, Checked
<1>14. Returned' BY <1>0, <1>1, ReturnedStays DEF roundVars
<1>15. Recorded' /\ LayersNest' BY <1>0, <1>1, RecordedStays
<1> QED BY <1>8, <1>9, <1>11, <1>12, <1>13, <1>14, <1>15 DEF CaseInvariant

\* What a failure leaves of the queue and of the deliveries.
LEMMA FailEffect ==
  ASSUME Types, Checked, stage \in Executing, NEW retryable \in BOOLEAN, Fail(retryable)
  PROVE  /\ stage' = "settled"
         /\ runs' \in Seq(Run) /\ Len(runs') = Len(runs) /\ DOMAIN runs' = DOMAIN runs
         /\ \A i \in DOMAIN runs' : runs'[i].status = "queued" => runs'[i].attempts < MaxAttempts
         /\ claimed \in DOMAIN runs /\ runs'[claimed].status # "succeeded"
         /\ owed' \in Seq({"answer", "notice"})
<1>1. PICK again \in BOOLEAN : again = (retryable /\ runs[claimed].attempts < MaxAttempts) OBVIOUS
<1>2. PICK st : st = IF again THEN "queued" ELSE "failed" OBVIOUS
<1>3. /\ runs' = [runs EXCEPT ![claimed].status = st, ![claimed].due = FALSE]
      /\ owed' = IF again THEN owed ELSE Append(owed, "notice")
      /\ stage' = "settled"
  BY <1>1, <1>2 DEF Fail
<1>4. DOMAIN runs = 1 .. Len(runs) /\ Len(runs) \in Nat BY LenProperties DEF Types
<1>5. claimed \in DOMAIN runs BY <1>4 DEF Checked
<1>6. st \in Statuses /\ st # "succeeded" BY <1>2 DEF Statuses
<1>7. /\ runs' \in Seq(Run) /\ Len(runs') = Len(runs) /\ DOMAIN runs' = DOMAIN runs
      /\ runs'[claimed].status = st /\ runs'[claimed].attempts = runs[claimed].attempts
      /\ \A j \in DOMAIN runs : j # claimed => runs'[j] = runs[j]
  <2>1. runs \in Seq(Run) BY DEF Types
  <2>2. runs' = Failed(runs, claimed, st) BY <1>3 DEF Failed
  <2> QED BY <1>5, <1>6, <2>1, <2>2, FailRuns
<1>8. ASSUME NEW i \in DOMAIN runs', runs'[i].status = "queued"
      PROVE  runs'[i].attempts < MaxAttempts
  <2>1. CASE i = claimed
    <3>1. again BY <1>2, <1>7, <1>8, <2>1
    <3> QED BY <1>1, <1>7, <2>1, <3>1
  <2>2. CASE i # claimed BY <1>7, <1>8, <2>2 DEF Types
  <2> QED BY <2>1, <2>2
<1>9. owed' \in Seq({"answer", "notice"}) BY <1>3 DEF Types
<1> QED BY <1>3, <1>5, <1>6, <1>7, <1>8, <1>9

LEMMA FailStep ==
  ASSUME CaseInvariant, ExecutionFails
  PROVE  CaseInvariant'
<1>0. Types /\ Flow /\ Checked /\ Origin /\ Timely /\ Numbered /\ Returned /\ Recorded /\ LayersNest
  BY DEF CaseInvariant
<1>1. /\ stage \in {"preparing", "diagnosing", "answered"}
      /\ UNCHANGED <<kase, engine, round, claimed, roundVars, calls, source, reports, step,
                     results, failure>>
  BY DEF ExecutionFails
<1>2. PICK retryable \in BOOLEAN : Fail(retryable) BY DEF ExecutionFails
<1>3. stage \in Executing BY <1>1 DEF Executing
<1>4. /\ stage' = "settled"
      /\ runs' \in Seq(Run) /\ Len(runs') = Len(runs) /\ DOMAIN runs' = DOMAIN runs
      /\ \A i \in DOMAIN runs' : runs'[i].status = "queued" => runs'[i].attempts < MaxAttempts
      /\ claimed \in DOMAIN runs /\ runs'[claimed].status # "succeeded"
      /\ owed' \in Seq({"answer", "notice"})
  BY <1>0, <1>2, <1>3, FailEffect
<1>5. Types' BY <1>0, <1>1, <1>4 DEF Types, Stages, roundVars
<1>6. Flow' BY <1>0, <1>1, <1>4 DEF Flow, Rounding, Executing
<1>7. DOMAIN runs = 1 .. Len(runs) BY <1>0, LenProperties DEF Types
<1>8. stage = "preparing" \/ Passed(checks) BY <1>0, <1>1 DEF Checked
<1>9. Checked'
  <2>1. stage = "preparing" => took = 0 BY <1>0 DEF Checked
  <2> QED BY <1>1, <1>4, <1>7, <1>8, <2>1 DEF Checked, roundVars
<1>10. Origin' /\ Numbered' /\ Persisted' = Persisted BY <1>0, <1>1, SavedStays
<1>11. Timely' BY <1>0, <1>1, <1>4, <1>8, <1>10 DEF Timely, roundVars
<1>12. Returned' BY <1>0, <1>1, <1>4, ReturnedStays DEF roundVars
<1>13. Recorded' /\ LayersNest' BY <1>0, <1>1, RecordedStays
<1> QED BY <1>5, <1>6, <1>9, <1>10, <1>11, <1>12, <1>13 DEF CaseInvariant

LEMMA PrepareStep ==
  ASSUME CaseInvariant, Prepare
  PROVE  CaseInvariant'
<1>0. Types /\ Flow /\ Checked /\ Origin /\ Timely /\ Numbered /\ Returned /\ Recorded /\ LayersNest
  BY DEF CaseInvariant
<1>1. /\ stage = "preparing" /\ checks' = ScopeChecks(kase, round)
      /\ UNCHANGED <<kase, engine, round, claimed, took, draft, made, calls, page, source, reports,
                     step, results, failure>>
  BY DEF Prepare
<1>2. took = 0 BY <1>0, <1>1 DEF Checked
<1>3. Origin' /\ Numbered' /\ Persisted' = Persisted BY <1>0, <1>1, SavedStays
<1>4. Recorded' /\ LayersNest' BY <1>0, <1>1, RecordedStays
<1>5. CASE Passed(checks') /\ stage' = "diagnosing" /\ UNCHANGED <<runs, owed>>
  <2>1. Types' BY <1>0, <1>1, <1>5 DEF Types, Stages
  <2>2. Flow' BY <1>0, <1>1, <1>5 DEF Flow, Rounding, Executing
  <2>3. took' <= MaxAuditRounds BY <1>1, <1>2, CaseRunAssumption
  <2>4. Checked' BY <1>0, <1>1, <1>5, <2>3 DEF Checked, Executing
  <2>5. Timely' BY <1>0, <1>1, <1>3, <1>5 DEF Timely
  <2>6. Returned' BY <1>0, <1>1, <1>5, ReturnedStays
  <2> QED BY <1>3, <1>4, <2>1, <2>2, <2>4, <2>5, <2>6 DEF CaseInvariant
<1>6. ASSUME ~Passed(checks'), NEW retryable \in BOOLEAN, Fail(retryable)
      PROVE  CaseInvariant'
  <2>1. stage \in Executing BY <1>1 DEF Executing
  <2>2. /\ stage' = "settled"
        /\ runs' \in Seq(Run) /\ Len(runs') = Len(runs) /\ DOMAIN runs' = DOMAIN runs
        /\ \A i \in DOMAIN runs' : runs'[i].status = "queued" => runs'[i].attempts < MaxAttempts
        /\ claimed \in DOMAIN runs /\ runs'[claimed].status # "succeeded"
        /\ owed' \in Seq({"answer", "notice"})
    BY <1>0, <1>6, <2>1, FailEffect
  <2>3. Types' BY <1>0, <1>1, <2>2 DEF Types, Stages
  <2>4. Flow' BY <1>0, <1>1, <2>2 DEF Flow, Rounding, Executing
  <2>5. DOMAIN runs = 1 .. Len(runs) BY <1>0, LenProperties DEF Types
  <2>6. Checked' BY <1>1, <1>2, <2>2, <2>5 DEF Checked
  <2>7. Timely' BY <1>0, <1>1, <1>3, <2>2 DEF Timely
  <2>8. Returned' BY <1>0, <1>1, <2>2, ReturnedStays
  <2> QED BY <1>3, <1>4, <2>3, <2>4, <2>6, <2>7, <2>8 DEF CaseInvariant
<1> QED BY <1>5, <1>6 DEF Prepare


NewRun == [status |-> "queued", attempts |-> 0, due |-> TRUE]

LEMMA AppendRun ==
  ASSUME Types
  PROVE  /\ Append(runs, NewRun) \in Seq(Run) /\ Len(Append(runs, NewRun)) = Len(runs) + 1
         /\ Len(runs) \in Nat /\ DOMAIN Append(runs, NewRun) = 1 .. Len(runs) + 1
         /\ \A i \in DOMAIN Append(runs, NewRun) :
              Append(runs, NewRun)[i].status = "queued" => Append(runs, NewRun)[i].attempts < MaxAttempts
<1>1. NewRun \in Run /\ NewRun.attempts < MaxAttempts
  BY CaseRunAssumption DEF NewRun, Run, Statuses
<1>2. runs \in Seq(Run) /\ Len(runs) \in Nat /\ DOMAIN runs = 1 .. Len(runs)
  BY LenProperties DEF Types
<1>3. PICK t : t = Append(runs, NewRun) OBVIOUS
<1>4. /\ t \in Seq(Run) /\ Len(t) = Len(runs) + 1 /\ t[Len(runs) + 1] = NewRun
      /\ \A i \in 1 .. Len(runs) : t[i] = runs[i]
  BY <1>1, <1>2, <1>3
<1>5. DOMAIN t = 1 .. Len(runs) + 1 BY <1>4, LenProperties
<1>6. ASSUME NEW i \in DOMAIN t, t[i].status = "queued" PROVE t[i].attempts < MaxAttempts
  <2>1. i = Len(runs) + 1 \/ i \in 1 .. Len(runs) BY <1>2, <1>5
  <2>2. CASE i = Len(runs) + 1 BY <1>1, <1>4, <2>2
  <2>3. CASE i \in 1 .. Len(runs) BY <1>2, <1>4, <1>6, <2>3 DEF Types
  <2> QED BY <2>1, <2>2, <2>3
<1> QED BY <1>2, <1>3, <1>4, <1>5, <1>6

LEMMA AppendReport ==
  ASSUME Types
  PROVE  /\ Append(reports, None) \in Seq(Draft \cup {None})
         /\ Len(Append(reports, None)) = Len(runs) + 1
<1>1. reports \in Seq(Draft \cup {None}) /\ Len(reports) = Len(runs) BY DEF Types
<1> QED BY <1>1

LEMMA ThrowStep ==
  ASSUME CaseInvariant, stage = "routing",
         NEW reason \in {"truth", "inbound", "claim"}, Throw(reason),
         UNCHANGED <<claimed, roundVars>>,
         UNCHANGED <<kase, engine, round, calls, source, owed, step, results>>,
         runs' \in Seq(Run), Len(runs') >= Len(runs), Len(runs') \in Nat,
         \A i \in DOMAIN runs' : runs'[i].status = "queued" => runs'[i].attempts < MaxAttempts,
         reports' \in Seq(Draft \cup {None}), Len(reports') = Len(runs')
  PROVE  CaseInvariant'
<1>0. Types /\ Flow /\ Checked /\ Origin /\ Timely /\ Numbered /\ Returned /\ Recorded /\ LayersNest
  BY DEF CaseInvariant
<1>1. stage' = "over" /\ failure' = reason /\ reason \notin Refusals /\ reason # "none"
  BY DEF Throw, Refusals
<1>2. claimed' \in 0 .. Len(runs')
  <2>1. Len(runs) \in Nat /\ claimed \in 0 .. Len(runs) BY <1>0, LenProperties DEF Types
  <2>2. claimed' = claimed OBVIOUS
  <2> QED BY <2>1, <2>2
<1>3. Types'
  <2>1. /\ engine \in {"pi", "scripted"} /\ round \in Nat \ {0}
        /\ calls \in Seq(Range(calls)) /\ Len(calls) <= MaxCalls
        /\ made \in Nat /\ made <= Len(calls) /\ step \in Nat \ {0}
        /\ took \in 0 .. MaxAuditRounds + 1
        /\ draft \in Draft \cup {None} /\ (took = 0 <=> draft = None)
        /\ owed \in Seq({"answer", "notice"}) /\ results \in Seq(Range(results))
    BY <1>0 DEF Types
  <2> QED BY <1>1, <1>2, <2>1 DEF Types, Stages, roundVars
<1>4. Flow'
  <2>1. Loaded(kase) = "ok" /\ \E id \in DOMAIN Catalog : kase = Catalog[id]
    BY <1>0 DEF Flow, Refusals
  <2>2. stage' = "over" /\ failure' \notin Refusals /\ failure' # "none" BY <1>1
  <2> QED BY <2>1, <2>2 DEF Flow, Rounding, Executing
<1>5. Checked' BY <1>1 DEF Checked, Executing
<1>6. Origin' /\ Numbered' /\ Persisted' = Persisted BY <1>0, SavedStays
<1>7. Timely' BY <1>0, <1>1, <1>6 DEF Timely
<1>8. Returned' BY <1>0, <1>1, ReturnedStays DEF roundVars
<1>9. Recorded' /\ LayersNest' BY <1>0, RecordedStays
<1> QED BY <1>3, <1>4, <1>5, <1>6, <1>7, <1>8, <1>9 DEF CaseInvariant

LEMMA ClaimStep ==
  ASSUME CaseInvariant, stage = "routing",
         NEW i \in Claimable(Append(runs, NewRun)),
         claimed' = i, runs' = Claimed(Append(runs, NewRun), i),
         reports' = Append(reports, None),
         took' = 0, draft' = None, made' = 0, page' = Unasked, checks' = {},
         stage' = "preparing", failure' = failure,
         UNCHANGED <<kase, engine, round, calls, source, owed, step, results>>
  PROVE  CaseInvariant'
<1>0. Types /\ Flow /\ Checked /\ Origin /\ Timely /\ Numbered /\ Returned /\ Recorded /\ LayersNest
  BY DEF CaseInvariant
<1>1. PICK rs : rs = Append(runs, NewRun) OBVIOUS
<1>2. /\ rs \in Seq(Run) /\ Len(rs) = Len(runs) + 1 /\ Len(runs) \in Nat
      /\ DOMAIN rs = 1 .. Len(runs) + 1
      /\ \A j \in DOMAIN rs : rs[j].status = "queued" => rs[j].attempts < MaxAttempts
  BY <1>0, <1>1, AppendRun
<1>3. i \in DOMAIN rs /\ rs[i].status = "queued" BY <1>1 DEF Claimable
<1>4. rs[i].attempts + 1 \in 0 .. MaxAttempts
  <2>1. rs[i] \in Run BY <1>2, <1>3, ElementOfSeq
  <2>2. rs[i].attempts \in 0 .. MaxAttempts /\ rs[i].attempts < MaxAttempts
    BY <1>2, <1>3, <2>1 DEF Run
  <2> QED BY <2>2, CaseRunAssumption
<1>5. /\ runs' \in Seq(Run) /\ Len(runs') = Len(rs) /\ DOMAIN runs' = DOMAIN rs
      /\ runs'[i].status = "running"
      /\ \A j \in DOMAIN rs : j # i => runs'[j] = rs[j]
  <2>1. runs' = Claimed(rs, i) BY <1>1
  <2> QED BY <1>2, <1>3, <1>4, <2>1, ClaimRuns
<1>6. \A j \in DOMAIN runs' : runs'[j].status = "queued" => runs'[j].attempts < MaxAttempts
  BY <1>2, <1>5
<1>7. reports' \in Seq(Draft \cup {None}) /\ Len(reports') = Len(runs')
  BY <1>0, <1>2, <1>5, AppendReport
<1>8. claimed' \in 1 .. Len(runs') BY <1>2, <1>3, <1>5
<1>9. Len(calls) \in Nat BY <1>0, LenOf DEF Types
<1>10. Types'
  <2>1. 0 \in 0 .. MaxAuditRounds + 1 BY CaseRunAssumption
  <2>2. claimed' \in 0 .. Len(runs') BY <1>8
  <2> QED BY <1>0, <1>5, <1>6, <1>7, <1>9, <2>1, <2>2 DEF Types, Stages
<1>11. Flow' BY <1>0 DEF Flow, Rounding, Executing
<1>12. Checked' BY <1>8 DEF Checked
<1>13. Origin' /\ Numbered' /\ Persisted' = Persisted BY <1>0, SavedStays
<1>14. Timely' BY <1>0, <1>13 DEF Timely
<1>15. Returned'
  <2>1. \A e \in Persisted : e.kind = "log" => source.queried /\ e.key \in source.keys
    BY <1>0 DEF Returned
  <2> QED BY <1>13, <2>1 DEF Returned
<1>16. Recorded' /\ LayersNest' BY <1>0, RecordedStays
<1> QED BY <1>10, <1>11, <1>12, <1>13, <1>14, <1>15, <1>16 DEF CaseInvariant

LEMMA BeginStep ==
  ASSUME CaseInvariant, BeginRound
  PROVE  CaseInvariant'
<1>0. Types BY DEF CaseInvariant
<1>1. stage = "routing" /\ UNCHANGED <<kase, engine, round, calls, source, owed, step, results>>
  BY DEF BeginRound
<1>2. PICK rs : rs = Append(runs, NewRun) OBVIOUS
<1>3. Len(runs) \in Nat /\ runs \in Seq(Run) /\ reports \in Seq(Draft \cup {None}) /\ Len(reports) = Len(runs)
      /\ \A i \in DOMAIN runs : runs[i].status = "queued" => runs[i].attempts < MaxAttempts
  BY <1>0, LenProperties DEF Types
<1>4. ASSUME NEW reason \in {"truth", "inbound"}, Throw(reason),
             UNCHANGED <<runs, reports, claimed, roundVars>>
      PROVE  CaseInvariant'
  BY <1>1, <1>3, <1>4, ThrowStep
<1>5. ASSUME Throw("claim"), runs' = rs, reports' = Append(reports, None), UNCHANGED <<claimed, roundVars>>
      PROVE  CaseInvariant'
  <2>1. /\ runs' \in Seq(Run) /\ Len(runs') = Len(runs) + 1
        /\ \A i \in DOMAIN runs' : runs'[i].status = "queued" => runs'[i].attempts < MaxAttempts
    BY <1>0, <1>2, <1>5, AppendRun
  <2>2. Len(runs') >= Len(runs) /\ Len(runs') \in Nat BY <1>3, <2>1
  <2>3. reports' \in Seq(Draft \cup {None}) /\ Len(reports') = Len(runs')
    BY <1>0, <1>5, <2>1, AppendReport
  <2> QED BY <1>1, <1>5, <2>1, <2>2, <2>3, ThrowStep
<1>6. ASSUME NEW i \in Claimable(rs), claimed' = i, runs' = Claimed(rs, i),
             reports' = Append(reports, None),
             took' = 0, draft' = None, made' = 0, page' = Unasked, checks' = {},
             stage' = "preparing", failure' = failure
      PROVE  CaseInvariant'
  BY <1>1, <1>2, <1>6, ClaimStep
<1>7. \/ \E reason \in {"truth", "inbound"} : Throw(reason) /\ UNCHANGED <<runs, reports, claimed, roundVars>>
      \/ Throw("claim") /\ runs' = rs /\ reports' = Append(reports, None) /\ UNCHANGED <<claimed, roundVars>>
      \/ /\ \E i \in Claimable(rs) : claimed' = i /\ runs' = Claimed(rs, i)
         /\ reports' = Append(reports, None)
         /\ took' = 0 /\ draft' = None /\ made' = 0 /\ page' = Unasked /\ checks' = {}
         /\ stage' = "preparing" /\ failure' = failure
  BY <1>2 DEF BeginRound, NewRun, Claimed
<1> QED BY <1>4, <1>5, <1>6, <1>7


-----------------------------------------------------------------------------
(* A tool call and its evidence. *)

\* What a batch consists of: evidence of this round, of the files of one source, under
\* the numbers that follow those saved.
IsBatch(b, s, key, n) ==
  /\ IsFiniteSet(b)
  /\ \A e \in b : /\ e.round = round /\ e.kind = s.kind /\ e.key = key /\ e.file \in s.files
  /\ \A e, f \in b : e.n = f.n => e = f
  /\ \E m \in Nat : {e.n : e \in b} = n + 1 .. n + m

LEMMA SourceKinds ==
  ASSUME NEW s \in Sources
  PROVE  \/ s.kind = "log" /\ s.files = Round(kase, round).view
         \/ /\ s.kind = "code"
            /\ \E u \in Round(kase, round).repos : s.files = kase.repos[u.id].trees[u.resolved]
<1>1. CASE s = [kind |-> "log", repo |-> "", sha |-> NoSha, files |-> Round(kase, round).view]
  BY <1>1
<1>2. ASSUME NEW u \in Round(kase, round).repos,
             s = [kind |-> "code", repo |-> u.id, sha |-> u.resolved,
                  files |-> kase.repos[u.id].trees[u.resolved]]
      PROVE  s.kind = "code" /\ s.files = kase.repos[u.id].trees[u.resolved]
  BY <1>2
<1>3. \/ s = [kind |-> "log", repo |-> "", sha |-> NoSha, files |-> Round(kase, round).view]
      \/ \E u \in Round(kase, round).repos :
           s = [kind |-> "code", repo |-> u.id, sha |-> u.resolved,
                files |-> kase.repos[u.id].trees[u.resolved]]
  BY DEF Sources
<1> QED BY <1>1, <1>2, <1>3

LEMMA SourceFiles ==
  ASSUME Flow, Checked, stage = "diagnosing", NEW s \in Sources
  PROVE  IsFiniteSet(s.files)
<1>1. stage \in Rounding BY DEF Rounding, Executing
<1>2. Material(kase) /\ round \in DOMAIN kase.rounds BY <1>1, FlowFacts
<1>3. CASE s.files = Round(kase, round).view BY <1>2, <1>3 DEF Material
<1>4. ASSUME NEW u \in Round(kase, round).repos, s.files = kase.repos[u.id].trees[u.resolved]
      PROVE  IsFiniteSet(s.files)
  <2>1. ResolvedScanOk(kase, round, u.id, u.resolved) BY PassedIsScanned DEF Checked
  <2>2. u.resolved \in DOMAIN kase.repos[u.id].trees BY <2>1 DEF ResolvedScanOk, Readable
  <2>3. u.id \in DOMAIN kase.repos BY <1>2 DEF Material
  <2> QED BY <1>2, <1>4, <2>2, <2>3 DEF Material
<1> QED BY <1>3, <1>4, SourceKinds

LEMMA BatchFacts ==
  ASSUME Numbered, NEW s, IsFiniteSet(s.files), NEW key
  PROVE  IsBatch(BatchOf(s, key), s, key, Cardinality(Persisted))
<1> DEFINE S == {f \in s.files : f.key = key}
<1>1. IsFiniteSet(S) BY FS_Subset
<1>2. PICK hits : hits = SetToSeq(S) OBVIOUS
<1>3. PICK m \in Nat : m = Cardinality(S) BY <1>1, Listed
<1>4. hits \in [1 .. m -> S] BY <1>1, <1>2, <1>3, Listed
<1>5. PICK n \in Nat : n = Cardinality(Persisted) BY FS_CardinalityType DEF Numbered
<1>6. PICK E : E = [i \in 1 .. m |->
        [n |-> n + i, kind |-> s.kind, key |-> key, repo |-> s.repo, sha |-> s.sha,
         round |-> round, run |-> claimed, file |-> hits[i]]]
  OBVIOUS
<1>7. PICK b : b = BatchOf(s, key) OBVIOUS
<1>8. b = {E[i] : i \in 1 .. m}
  <2>1. DOMAIN hits = 1 .. m BY <1>4
  <2>2. b = {[n |-> n + i, kind |-> s.kind, key |-> key, repo |-> s.repo, sha |-> s.sha,
              round |-> round, run |-> claimed, file |-> hits[i]] : i \in 1 .. m}
    BY <1>2, <1>5, <1>7, <2>1 DEF BatchOf
  <2> QED BY <1>6, <2>2
<1>9. \A i \in 1 .. m : /\ E[i].n = n + i /\ E[i].round = round /\ E[i].kind = s.kind
                        /\ E[i].key = key /\ E[i].file = hits[i]
  BY <1>6
<1>10. \A e \in b : e.round = round /\ e.kind = s.kind /\ e.key = key /\ e.file \in s.files
  BY <1>4, <1>8, <1>9
<1>11. \A e, f \in b : e.n = f.n => e = f
  <2> SUFFICES ASSUME NEW i \in 1 .. m, NEW j \in 1 .. m, E[i].n = E[j].n PROVE E[i] = E[j]
    BY <1>8
  <2>1. n + i = n + j BY <1>9
  <2>2. i = j BY <2>1
  <2> QED BY <2>2
<1>12. {e.n : e \in b} = n + 1 .. n + m
  <2>1. \A e \in b : e.n \in n + 1 .. n + m BY <1>8, <1>9
  <2>2. ASSUME NEW k \in n + 1 .. n + m PROVE \E e \in b : e.n = k
    <3>1. k - n \in 1 .. m /\ n + (k - n) = k OBVIOUS
    <3>2. E[k - n] \in b /\ E[k - n].n = k BY <1>8, <1>9, <3>1
    <3> QED BY <3>2
  <2> QED BY <2>1, <2>2
<1>13. IsFiniteSet(b)
  <2> DEFINE g == [e \in b |-> e.n]
  <2>1. g \in [b -> n + 1 .. n + m] BY <1>12
  <2>2. g \in Injection(b, n + 1 .. n + m) BY <1>11, <2>1 DEF Injection, IsInjective
  <2>3. IsFiniteSet(n + 1 .. n + m) BY FS_Interval
  <2> QED BY <2>2, <2>3, FS_Injection
<1> QED BY <1>3, <1>5, <1>7, <1>10, <1>11, <1>12, <1>13 DEF IsBatch

LEMMA NumberOn ==
  ASSUME NEW P, IsFiniteSet(P), \A e, f \in P : e.n = f.n => e = f,
         {e.n : e \in P} = 1 .. Cardinality(P),
         NEW b, IsFiniteSet(b), \A e, f \in b : e.n = f.n => e = f,
         NEW m \in Nat, {e.n : e \in b} = Cardinality(P) + 1 .. Cardinality(P) + m
  PROVE  /\ IsFiniteSet(P \cup b)
         /\ \A e, f \in P \cup b : e.n = f.n => e = f
         /\ {e.n : e \in P \cup b} = 1 .. Cardinality(P \cup b)
<1>1. PICK n \in Nat : n = Cardinality(P) BY FS_CardinalityType
<1>2. IsFiniteSet(P \cup b) BY FS_Union
<1>3. \A e \in P : e.n \in 1 .. n BY <1>1
<1>4. \A e \in b : e.n \in n + 1 .. n + m BY <1>1
<1>5. \A e, f \in P \cup b : e.n = f.n => e = f
  <2>1. ASSUME NEW e \in P, NEW f \in b PROVE e.n # f.n
    <3>1. e.n \in 1 .. n /\ f.n \in n + 1 .. n + m BY <1>3, <1>4
    <3> QED BY <3>1
  <2> QED BY <2>1
<1>6. {e.n : e \in P \cup b} = 1 .. n + m
  <2>1. {e.n : e \in P \cup b} = {e.n : e \in P} \cup {e.n : e \in b} OBVIOUS
  <2>2. (1 .. n) \cup (n + 1 .. n + m) = 1 .. n + m OBVIOUS
  <2> QED BY <1>1, <2>1, <2>2
<1>7. Cardinality(P \cup b) = n + m
  <2>1. Cardinality({e.n : e \in P \cup b}) = Cardinality(P \cup b) BY <1>2, <1>5, NumberedSize
  <2>2. n + m \in Nat OBVIOUS
  <2>3. Cardinality(1 .. n + m) = n + m BY <2>2, FS_Interval
  <2> QED BY <1>6, <2>1, <2>3
<1> QED BY <1>2, <1>5, <1>6, <1>7


LEMMA CarriedOn ==
  ASSUME NEW r, NEW n, Carried(r, n), Persisted \subseteq Persisted', UNCHANGED kase
  PROVE  Carried(r, n)'
<1>1. PICK e \in ById(n) :
        /\ e.round <= r
        /\ \A u \in Round(kase, r).repos : e.kind = "code" /\ e.repo = u.id => u.expected \in {NoSha, e.sha}
  BY DEF Carried
<1>2. e \in ById(n)' BY <1>1 DEF ById
<1> QED BY <1>1, <1>2 DEF Carried

\* A call that saves the batch b, which may be empty, of the source s.
LEMMA CallSaves ==
  ASSUME CaseInvariant, stage = "diagnosing", Len(calls) < MaxCalls,
         NEW s \in Sources, NEW key, NEW x, calls' = Append(calls, x),
         x.batch = {} \/ x.batch = BatchOf(s, key),
         page' = IF s.kind = "code" THEN page
                 ELSE [queried |-> TRUE, keys |-> page.keys \cup {e.key : e \in BatchOf(s, key)}],
         made' = made + 1,
         UNCHANGED <<kase, engine, stage, round, runs, claimed, took, draft, source, checks, reports,
                     owed, step, results, failure>>
  PROVE  CaseInvariant'
<1>0. Types /\ Flow /\ Checked /\ Origin /\ Timely /\ Numbered /\ Returned /\ Recorded /\ LayersNest
  BY DEF CaseInvariant
<1>1. stage \in Rounding BY DEF Rounding, Executing
<1>2. /\ Loaded(kase) = "ok" /\ failure = "none"
      /\ Len(kase.rounds) \in Nat \ {0} /\ DOMAIN kase.rounds = 1 .. Len(kase.rounds)
      /\ round \in 1 .. Len(kase.rounds) /\ Len(results) = round - 1
  BY <1>0, <1>1, FlowFacts
<1>3. /\ calls' \in Seq(Range(calls')) /\ Len(calls) \in Nat /\ Len(calls') = Len(calls) + 1
      /\ DOMAIN calls' = 1 .. Len(calls) + 1 /\ DOMAIN calls = 1 .. Len(calls)
      /\ \A i \in DOMAIN calls : i \in 1 .. Len(calls) + 1 /\ calls'[i] = calls[i]
      /\ \A i \in 1 .. Len(calls) + 1 : i = Len(calls) + 1 \/ i \in DOMAIN calls
      /\ calls'[Len(calls) + 1] = x
  <2>1. calls \in Seq(Range(calls)) BY <1>0 DEF Types
  <2>2. PICK t : t = Append(calls, x) OBVIOUS
  <2>3. calls' = t BY <2>2
  <2>4. /\ t \in Seq(Range(t)) /\ Len(calls) \in Nat /\ Len(t) = Len(calls) + 1
        /\ DOMAIN t = 1 .. Len(calls) + 1
        /\ \A i \in DOMAIN calls : i \in 1 .. Len(calls) + 1 /\ t[i] = calls[i]
        /\ \A i \in 1 .. Len(calls) + 1 : i = Len(calls) + 1 \/ i \in DOMAIN calls
        /\ t[Len(calls) + 1] = x
    BY <2>1, <2>2, AppendOne
  <2> QED BY <2>1, <2>3, <2>4, LenOf
<1>4. PICK P : P = Persisted OBVIOUS
<1>5. PICK b : b = x.batch OBVIOUS
<1>6. Persisted' = P \cup b
  <2>1. ASSUME NEW e \in Persisted' PROVE e \in P \cup b
    <3>1. PICK i \in DOMAIN calls' : e \in calls'[i].batch BY DEF Persisted
    <3>2. i = Len(calls) + 1 \/ i \in DOMAIN calls BY <1>3, <3>1
    <3>3. CASE i = Len(calls) + 1 BY <1>3, <1>5, <3>1, <3>3
    <3>4. CASE i \in DOMAIN calls BY <1>3, <1>4, <3>1, <3>4 DEF Persisted
    <3> QED BY <3>2, <3>3, <3>4
  <2>2. ASSUME NEW e \in P PROVE e \in Persisted'
    <3>1. PICK i \in DOMAIN calls : e \in calls[i].batch BY <1>4 DEF Persisted
    <3>2. i \in DOMAIN calls' /\ calls'[i] = calls[i] BY <1>3
    <3> QED BY <3>1, <3>2 DEF Persisted
  <2>3. ASSUME NEW e \in b PROVE e \in Persisted'
    <3>1. Len(calls) + 1 \in DOMAIN calls' BY <1>3
    <3> QED BY <1>3, <1>5, <3>1 DEF Persisted
  <2> QED BY <2>1, <2>2, <2>3
<1>7. IsBatch(b, s, key, Cardinality(P))
  <2>1. IsFiniteSet(s.files) BY <1>0, SourceFiles
  <2>2. CASE b = {}
    <3>1. IsFiniteSet({}) BY FS_EmptySet
    <3>2. Cardinality(P) \in Nat BY <1>0, <1>4, FS_CardinalityType DEF Numbered
    <3>3. {e.n : e \in {}} = Cardinality(P) + 1 .. Cardinality(P) + 0 BY <3>2
    <3> QED BY <2>2, <3>1, <3>3 DEF IsBatch
  <2>3. CASE b = BatchOf(s, key) BY <1>0, <1>4, <2>1, <2>3, BatchFacts
  <2> QED BY <1>5, <2>2, <2>3
<1>8. /\ IsFiniteSet(b)
      /\ \A e \in b : e.round = round /\ e.kind = s.kind /\ e.key = key /\ e.file \in s.files
      /\ \A e, f \in b : e.n = f.n => e = f
      /\ \E m \in Nat : {e.n : e \in b} = Cardinality(P) + 1 .. Cardinality(P) + m
  BY <1>7 DEF IsBatch
<1>9. Numbered'
  <2>1. /\ IsFiniteSet(P) /\ \A e, f \in P : e.n = f.n => e = f
        /\ {e.n : e \in P} = 1 .. Cardinality(P)
    BY <1>0, <1>4 DEF Numbered
  <2>2. /\ IsFiniteSet(P \cup b) /\ \A e, f \in P \cup b : e.n = f.n => e = f
        /\ {e.n : e \in P \cup b} = 1 .. Cardinality(P \cup b)
    BY <1>8, <2>1, NumberOn
  <2> QED BY <1>6, <2>2 DEF Numbered
<1>10. Types'
  <2>1. Len(calls') <= MaxCalls
    <3>1. MaxCalls \in Nat BY CaseRunAssumption
    <3> QED BY <1>3, <3>1
  <2>2. made' \in Nat /\ made' <= Len(calls') BY <1>0, <1>3 DEF Types
  <2> QED BY <1>0, <1>3, <2>1, <2>2 DEF Types
<1>11. Flow' BY <1>0, <1>2 DEF Flow, Rounding, Executing, Refusals
<1>12. Checked' BY <1>0 DEF Checked
<1>13. Origin'
  <2>1. \A e \in P : e.round \in DOMAIN kase.rounds /\ (FromView(e) \/ FromTree(e))
    BY <1>0, <1>4 DEF Origin
  <2>2. \A e : (FromView(e)' <=> FromView(e)) /\ (FromTree(e)' <=> FromTree(e))
    BY DEF FromView, FromTree
  <2>3. ASSUME NEW e \in b PROVE e.round \in DOMAIN kase.rounds /\ (FromView(e) \/ FromTree(e))
    <3>1. e.round = round /\ e.kind = s.kind /\ e.file \in s.files BY <1>8
    <3>2. CASE s.kind = "log" /\ s.files = Round(kase, round).view
      BY <1>2, <3>1, <3>2 DEF FromView
    <3>3. ASSUME s.kind = "code", NEW u \in Round(kase, round).repos,
                 s.files = kase.repos[u.id].trees[u.resolved]
          PROVE  FromTree(e)
      <4>1. ResolvedScanOk(kase, round, u.id, u.resolved) BY <1>0, PassedIsScanned DEF Checked
      <4> QED BY <3>1, <3>3, <4>1 DEF FromTree
    <3> QED BY <1>2, <3>1, <3>2, <3>3, SourceKinds
  <2> QED BY <1>6, <2>1, <2>2, <2>3 DEF Origin
<1>14. Timely'
  <2>1. \A e \in P : e.round \in Nat /\ e.round <= round BY <1>0, <1>4 DEF Timely
  <2>2. \A e \in b : e.round \in Nat /\ e.round <= round BY <1>2, <1>8
  <2> QED BY <1>6, <2>1, <2>2 DEF Timely
<1>15. Returned'
  <2>1. ASSUME NEW e \in P, e.kind = "log"
        PROVE  (source.queried \/ page'.queried) /\ e.key \in source.keys \cup page'.keys
    <3>1. (source.queried \/ page.queried) /\ e.key \in source.keys \cup page.keys
      BY <1>0, <1>4, <2>1 DEF Returned
    <3>2. CASE s.kind = "code" BY <3>1, <3>2
    <3>3. CASE s.kind # "code"
      <4>1. page'.queried /\ page.keys \subseteq page'.keys BY <3>3
      <4> QED BY <3>1, <4>1
    <3> QED BY <3>2, <3>3
  <2>2. ASSUME NEW e \in b, e.kind = "log"
        PROVE  (source.queried \/ page'.queried) /\ e.key \in source.keys \cup page'.keys
    <3>1. e.kind = s.kind BY <1>8
    <3>2. e \in BatchOf(s, key) BY <1>5
    <3>3. page'.queried /\ e.key \in page'.keys BY <2>2, <3>1, <3>2
    <3> QED BY <3>3
  <2> QED BY <1>6, <2>1, <2>2 DEF Returned
<1>16. Recorded'
  <2>1. Len(results) \in Nat /\ DOMAIN results = 1 .. Len(results) BY <1>0, LenOf DEF Types
  <2>2. SUFFICES ASSUME NEW i \in DOMAIN results
                 PROVE  LET y == results[i] IN
                        /\ y.round = i /\ y.outcome \in Outcomes
                        /\ y.blocked => y.engineCalls = 0 /\ \A e \in Persisted' : e.round # i
                        /\ y.status = "succeeded" /\ ~y.blocked => y.engineCalls > 0 /\ y.written
                        /\ \A k \in y.cites : Valid(k) => Carried(i, k.n)'
    BY DEF Recorded
  <2>3. /\ results[i].round = i /\ results[i].outcome \in Outcomes
        /\ results[i].blocked => results[i].engineCalls = 0 /\ \A e \in Persisted : e.round # i
        /\ results[i].status = "succeeded" /\ ~results[i].blocked =>
             results[i].engineCalls > 0 /\ results[i].written
        /\ \A k \in results[i].cites : Valid(k) => Carried(i, k.n)
    BY <1>0 DEF Recorded
  <2>4. i # round BY <1>2, <2>1
  <2>5. results[i].blocked => \A e \in Persisted' : e.round # i
    BY <1>4, <1>6, <1>8, <2>3, <2>4
  <2>6. \A k \in results[i].cites : Valid(k) => Carried(i, k.n)'
    <3>1. Persisted \subseteq Persisted' BY <1>4, <1>6
    <3> QED BY <2>3, <3>1, CarriedOn
  <2> QED BY <2>3, <2>5, <2>6
<1>17. LayersNest' BY <1>0 DEF LayersNest, LogOnly
<1> QED BY <1>9, <1>10, <1>11, <1>12, <1>13, <1>14, <1>15, <1>16, <1>17 DEF CaseInvariant

LEMMA ReadStep ==
  ASSUME CaseInvariant, ReadTool
  PROVE  CaseInvariant'
<1>1. /\ stage = "diagnosing" /\ Len(calls) < MaxCalls /\ made' = made + 1
      /\ UNCHANGED <<kase, engine, stage, round, runs, claimed, took, draft, source, checks, reports,
                     owed, step, results, failure>>
  BY DEF ReadTool
<1>2. PICK s \in Sources, key \in {f.key : f \in UNION {t.files : t \in Sources}} :
        /\ \E text \in {{}, {key}}, ok \in BOOLEAN :
             calls' = Append(calls, [round |-> round, run |-> claimed, text |-> text, error |-> ~ok,
                                     batch |-> IF ok THEN BatchOf(s, key) ELSE {}])
        /\ page' = IF s.kind = "code" THEN page
                   ELSE [queried |-> TRUE, keys |-> page.keys \cup {e.key : e \in BatchOf(s, key)}]
  <2>1. PICK s \in Sources, key \in {f.key : f \in UNION {t.files : t \in Sources}} :
          LET batch == BatchOf(s, key) IN
          /\ \E text \in {{}, {key}}, ok \in BOOLEAN :
               /\ IF ok THEN batch = {} => text = {} ELSE engine = "pi" /\ text # {}
               /\ calls' = Append(calls, [round |-> round, run |-> claimed, text |-> text, error |-> ~ok,
                                          batch |-> IF ok THEN batch ELSE {}])
          /\ page' = IF s.kind = "code" THEN page
                     ELSE [queried |-> TRUE, keys |-> page.keys \cup {e.key : e \in batch}]
    BY ZenonT(30) DEF ReadTool
  <2>2. PICK text \in {{}, {key}}, ok \in BOOLEAN :
          calls' = Append(calls, [round |-> round, run |-> claimed, text |-> text, error |-> ~ok,
                                  batch |-> IF ok THEN BatchOf(s, key) ELSE {}])
    BY <2>1
  <2> QED BY <2>1, <2>2
<1>a. PICK text \in {{}, {key}}, ok \in BOOLEAN :
        calls' = Append(calls, [round |-> round, run |-> claimed, text |-> text, error |-> ~ok,
                                batch |-> IF ok THEN BatchOf(s, key) ELSE {}])
  BY <1>2
<1>3. PICK x : x = [round |-> round, run |-> claimed, text |-> text, error |-> ~ok,
                    batch |-> IF ok THEN BatchOf(s, key) ELSE {}]
  OBVIOUS
<1>4. x.batch = {} \/ x.batch = BatchOf(s, key) BY <1>3
<1>5. calls' = Append(calls, x) BY <1>3, <1>a
<1> QED BY <1>1, <1>2, <1>4, <1>5, CallSaves


-----------------------------------------------------------------------------
(* A round is recorded. *)

\* The nesting of the layers, of one requirement's record.
Nested(id, at) ==
  /\ at["C1"] = "yes" => at["B"] = "yes"
  /\ at["D"] = "yes" => at["B"] = "yes"
  /\ at["B"] = "yes" /\ LogOnly(id) => at["A"] = "yes"

\* What a context promises of its own layers.
Drawn(ctx) ==
  /\ \A call \in ctx.calls : call.batch \subseteq ctx.persisted
  /\ ctx.cited \subseteq ctx.persisted
  /\ \A e \in ctx.persisted : e.kind = "log" => ctx.queried /\ e.key \in ctx.returned

LEMMA ReachedYes ==
  ASSUME NEW layer, NEW need, NEW t, NEW ctx
  PROVE  Reached(layer, need, t, ctx) = "yes"
           <=> \E g \in need.anyOf : \A i \in g : Hit(layer, t.locators[i], ctx) = "yes"
BY DEF Reached

LEMMA HitNests ==
  ASSUME NEW ctx, Drawn(ctx), NEW l
  PROVE  /\ Hit("C1", l, ctx) = "yes" => Hit("B", l, ctx) = "yes"
         /\ Hit("D", l, ctx) = "yes" => Hit("B", l, ctx) = "yes"
         /\ Hit("B", l, ctx) = "yes" /\ l.kind = "log" => Hit("A", l, ctx) = "yes"
<1>1. Hit("B", l, ctx) = "yes" <=> \E e \in ctx.persisted : Matches(l, e) BY DEF Hit
<1>2. Hit("C1", l, ctx) = "yes" <=> \E call \in ctx.calls : Shown(l, call) BY DEF Hit
<1>3. Hit("D", l, ctx) = "yes" <=> \E e \in ctx.cited : Matches(l, e) BY DEF Hit
<1>4. l.kind = "log" /\ ctx.queried /\ l.key \in ctx.returned => Hit("A", l, ctx) = "yes"
  BY DEF Hit
<1>5. Hit("C1", l, ctx) = "yes" => Hit("B", l, ctx) = "yes" BY <1>1, <1>2 DEF Shown, Drawn
<1>6. Hit("D", l, ctx) = "yes" => Hit("B", l, ctx) = "yes" BY <1>1, <1>3 DEF Drawn
<1>7. ASSUME Hit("B", l, ctx) = "yes", l.kind = "log" PROVE Hit("A", l, ctx) = "yes"
  <2>1. PICK e \in ctx.persisted : Matches(l, e) BY <1>1, <1>7
  <2>2. e.kind = "log" /\ e.key = l.key BY <1>7, <2>1 DEF Matches
  <2>3. ctx.queried /\ l.key \in ctx.returned BY <2>1, <2>2 DEF Drawn
  <2> QED BY <1>4, <1>7, <2>3
<1> QED BY <1>5, <1>6, <1>7

LEMMA SatisfactionNests ==
  ASSUME NEW ctx, Drawn(ctx), NEW r, NEW s \in Satisfaction(kase.truth, r, ctx)
  PROVE  Nested(s.id, s.at)
<1>1. PICK n \in Needs(kase.truth) :
        s = [id |-> n.id, at |-> [layer \in Layers |-> Reached(layer, n, kase.truth, ctx)]]
  BY DEF Satisfaction
<1>2. s.id = n.id /\ \A layer \in Layers : s.at[layer] = Reached(layer, n, kase.truth, ctx)
  BY <1>1
<1>3. "A" \in Layers /\ "B" \in Layers /\ "C1" \in Layers /\ "D" \in Layers BY DEF Layers
<1>4. PICK L : L = kase.truth.locators OBVIOUS
<1>5. \A layer \in Layers :
        s.at[layer] = "yes" <=> \E g \in n.anyOf : \A i \in g : Hit(layer, L[i], ctx) = "yes"
  BY <1>2, <1>4, ReachedYes
<1>6. s.at["C1"] = "yes" => s.at["B"] = "yes" BY <1>3, <1>5, HitNests
<1>7. s.at["D"] = "yes" => s.at["B"] = "yes" BY <1>3, <1>5, HitNests
<1>8. ASSUME s.at["B"] = "yes", LogOnly(s.id) PROVE s.at["A"] = "yes"
  <2>1. \A l \in Named(n) : L[l].kind = "log" BY <1>2, <1>4, <1>8 DEF LogOnly
  <2>2. PICK g \in n.anyOf : \A i \in g : Hit("B", L[i], ctx) = "yes" BY <1>3, <1>5, <1>8
  <2>3. \A i \in g : i \in Named(n) BY <2>2 DEF Named
  <2>4. \A i \in g : Hit("A", L[i], ctx) = "yes" BY <2>1, <2>2, <2>3, HitNests
  <2> QED BY <1>3, <1>5, <2>2, <2>4
<1> QED BY <1>6, <1>7, <1>8 DEF Nested

LEMMA ContextDrawn ==
  ASSUME Types, Returned,
         NEW src, src = [queried |-> source.queried \/ page.queried, keys |-> source.keys \cup page.keys]
  PROVE  Drawn(Context(src))
<1>1. PICK ctx : ctx = Context(src) OBVIOUS
<1>2. /\ ctx.queried = src.queried /\ ctx.returned = src.keys /\ ctx.persisted = Persisted
      /\ ctx.calls = ToSet(calls) /\ ctx.cited \subseteq Persisted
  BY <1>1 DEF Context
<1>3. \A call \in ToSet(calls) : call.batch \subseteq Persisted BY DEF ToSet, Persisted
<1>4. \A e \in Persisted : e.kind = "log" => src.queried /\ e.key \in src.keys BY DEF Returned
<1> QED BY <1>1, <1>2, <1>3, <1>4 DEF Drawn

LEMMA ValidIsCarried ==
  ASSUME Timely, NEW k \in Citations, Valid(k)
  PROVE  Carried(round, k.n)
<1>1. PICK n : k = Citation(n) BY DEF Citations
<1>2. /\ k.n = n /\ k.resolved = (ById(n) # {})
      /\ k.wrongSha = \E e \in ById(n), u \in Round(kase, round).repos :
                        e.kind = "code" /\ e.repo = u.id /\ u.expected \notin {NoSha, e.sha}
  BY <1>1 DEF Citation
<1>3. ById(n) # {} /\ ~\E e \in ById(n), u \in Round(kase, round).repos :
                         e.kind = "code" /\ e.repo = u.id /\ u.expected \notin {NoSha, e.sha}
  BY <1>2 DEF Valid
<1>4. PICK e \in ById(n) : TRUE BY <1>3
<1>5. e \in Persisted BY DEF ById
<1>6. e.round <= round BY <1>5 DEF Timely
<1> QED BY <1>2, <1>3, <1>4, <1>6 DEF Carried


LEMMA RecordStep ==
  ASSUME CaseInvariant, RecordRound
  PROVE  CaseInvariant'
<1>0. Types /\ Flow /\ Checked /\ Origin /\ Timely /\ Numbered /\ Returned /\ Recorded /\ LayersNest
  BY DEF CaseInvariant
<1>1. PICK src : src = [queried |-> source.queried \/ page.queried, keys |-> source.keys \cup page.keys]
  OBVIOUS
<1>2. PICK x :
        x = [round |-> round, run |-> claimed, status |-> runs[claimed].status, blocked |-> Blocked,
             outcome |-> IF Blocked THEN "blocked"
                         ELSE IF runs[claimed].status = "succeeded" THEN OutcomeOf(draft) ELSE "error",
             engineCalls |-> took, report |-> reports[claimed] # None,
             says |-> IF reports[claimed] = None THEN "nothing" ELSE reports[claimed].says,
             written |-> owed # <<>>, cites |-> Citations, checks |-> checks,
             sat |-> Satisfaction(kase.truth, round, Context(src))]
  OBVIOUS
<1>3. /\ stage = "settled" /\ results' = Append(results, x) /\ owed' = <<>> /\ source' = src
      /\ stage' = IF round = Len(kase.rounds) THEN "over" ELSE "routing"
      /\ round' = IF round = Len(kase.rounds) THEN round ELSE round + 1
      /\ UNCHANGED <<kase, engine, runs, claimed, roundVars, calls, reports, step, failure>>
  BY <1>1, <1>2 DEF RecordRound
<1>4. stage \in Rounding BY <1>3 DEF Rounding, Executing
<1>5. /\ Loaded(kase) = "ok" /\ failure = "none"
      /\ Len(kase.rounds) \in Nat \ {0} /\ DOMAIN kase.rounds = 1 .. Len(kase.rounds)
      /\ round \in 1 .. Len(kase.rounds) /\ Len(results) = round - 1
  BY <1>0, <1>4, FlowFacts
<1>6. PICK t : t = Append(results, x) OBVIOUS
<1>7. /\ t \in Seq(Range(t)) /\ Len(t) = round /\ DOMAIN t = 1 .. round
      /\ DOMAIN results = 1 .. round - 1
      /\ \A i \in 1 .. round - 1 : t[i] = results[i]
      /\ t[round] = x
  <2>1. results \in Seq(Range(results)) BY <1>0 DEF Types
  <2>2. /\ t \in Seq(Range(t)) /\ Len(t) = Len(results) + 1 /\ DOMAIN t = 1 .. Len(results) + 1
        /\ \A i \in DOMAIN results : t[i] = results[i]
        /\ t[Len(results) + 1] = x
    BY <1>6, <2>1, AppendOne
  <2>3. DOMAIN results = 1 .. Len(results) BY <2>1, LenOf
  <2>4. Len(results) + 1 = round BY <1>5
  <2> QED BY <1>5, <2>2, <2>3, <2>4
<1>8. results' = t BY <1>3, <1>6
<1>9. \A i \in 1 .. round : i = round \/ i \in 1 .. round - 1 BY <1>5
<1>10. /\ x.round = round /\ x.blocked = Blocked /\ x.engineCalls = took /\ x.status = runs[claimed].status
       /\ x.written = (owed # <<>>) /\ x.cites = Citations
       /\ x.sat = Satisfaction(kase.truth, round, Context(src))
       /\ x.outcome = IF Blocked THEN "blocked"
                      ELSE IF runs[claimed].status = "succeeded" THEN OutcomeOf(draft) ELSE "error"
  BY <1>2
<1>11. x.outcome \in Outcomes
  <2>1. draft \in Draft \cup {None} BY <1>0 DEF Types
  <2>2. OutcomeOf(draft) \in Outcomes
    <3>1. CASE draft = None BY <3>1 DEF OutcomeOf, Outcomes
    <3>2. CASE draft # None
      <4>1. draft.kind \in Kinds BY <2>1, <3>2 DEF Draft
      <4> QED BY <3>2, <4>1 DEF OutcomeOf, Outcomes, Kinds
    <3> QED BY <3>1, <3>2
  <2> QED BY <1>10, <2>2 DEF Outcomes
<1>12. Types'
  <2>1. owed' \in Seq({"answer", "notice"}) BY <1>3
  <2>2. results' \in Seq(Range(results')) BY <1>7, <1>8
  <2>3. round' \in Nat \ {0} /\ stage' \in Stages BY <1>3, <1>5 DEF Stages
  <2>4. /\ engine \in {"pi", "scripted"}
        /\ runs \in Seq(Run) /\ claimed \in 0 .. Len(runs)
        /\ \A i \in DOMAIN runs : runs[i].status = "queued" => runs[i].attempts < MaxAttempts
        /\ reports \in Seq(Draft \cup {None}) /\ Len(reports) = Len(runs)
        /\ calls \in Seq(Range(calls)) /\ Len(calls) <= MaxCalls
        /\ made \in Nat /\ made <= Len(calls) /\ step \in Nat \ {0}
        /\ took \in 0 .. MaxAuditRounds + 1
        /\ draft \in Draft \cup {None} /\ (took = 0 <=> draft = None)
        /\ failure \in Refusals \cup {"none", "truth", "inbound", "claim"}
    BY <1>0 DEF Types
  <2> QED BY <1>3, <2>1, <2>2, <2>3, <2>4 DEF Types, roundVars
<1>13. Flow'
  <2>1. \E id \in DOMAIN Catalog : kase = Catalog[id] BY <1>0, <1>3 DEF Flow
  <2>2. CASE round = Len(kase.rounds)
    <3>1. stage' = "over" /\ failure' = "none" /\ kase' = kase /\ Len(results') = Len(kase.rounds)
      BY <1>3, <1>5, <1>7, <1>8, <2>2
    <3> QED BY <1>5, <2>1, <3>1 DEF Flow, Rounding, Executing, Refusals
  <2>3. CASE round # Len(kase.rounds)
    <3>1. round + 1 \in 1 .. Len(kase.rounds) /\ round = (round + 1) - 1 BY <1>5, <2>3
    <3>2. stage' = "routing" /\ failure' = "none" /\ kase' = kase /\ round' = round + 1
          /\ Len(results') = round' - 1
      BY <1>3, <1>5, <1>7, <1>8, <2>3, <3>1
    <3>3. round' \in DOMAIN kase'.rounds BY <1>5, <3>1, <3>2
    <3> QED BY <1>5, <2>1, <3>2, <3>3 DEF Flow, Rounding, Executing, Refusals
  <2> QED BY <2>2, <2>3
<1>14. Checked' BY <1>3 DEF Checked, Executing
<1>15. Origin' /\ Numbered' /\ Persisted' = Persisted BY <1>0, <1>3, SavedStays
<1>16. Timely'
  <2>1. \A e \in Persisted : e.round \in Nat /\ e.round <= round BY <1>0 DEF Timely
  <2>2. CASE round = Len(kase.rounds) BY <1>3, <1>15, <2>1, <2>2 DEF Timely
  <2>3. CASE round # Len(kase.rounds)
    <3>1. \A e \in Persisted : e.round <= round + 1 /\ e.round < round + 1 BY <1>5, <2>1
    <3> QED BY <1>3, <1>15, <2>1, <2>3, <3>1 DEF Timely
  <2> QED BY <2>2, <2>3
<1>17. Returned'
  <2>1. ASSUME NEW e \in Persisted, e.kind = "log" PROVE src.queried /\ e.key \in src.keys
    BY <1>0, <1>1, <2>1 DEF Returned
  <2> QED BY <1>3, <1>15, <2>1 DEF Returned
<1>18. Recorded'
  <2>1. SUFFICES ASSUME NEW i \in 1 .. round
                 PROVE  LET y == t[i] IN
                        /\ y.round = i /\ y.outcome \in Outcomes
                        /\ y.blocked => y.engineCalls = 0 /\ \A e \in Persisted : e.round # i
                        /\ y.status = "succeeded" /\ ~y.blocked => y.engineCalls > 0 /\ y.written
                        /\ \A k \in y.cites : Valid(k) => Carried(i, k.n)
    <3>1. \A r, n : Carried(r, n)' <=> Carried(r, n) BY <1>3, <1>15 DEF Carried, ById
    <3>2. Persisted' = Persisted /\ DOMAIN results' = 1 .. round BY <1>7, <1>8, <1>15
    <3> QED BY <1>8, <3>1, <3>2 DEF Recorded
  <2>2. CASE i \in 1 .. round - 1
    <3>1. i \in DOMAIN results /\ t[i] = results[i] BY <1>7, <2>2
    <3> QED BY <1>0, <3>1 DEF Recorded
  <2>3. CASE i = round
    <3>1. t[i] = x BY <1>7, <2>3
    <3>2. ASSUME x.blocked PROVE x.engineCalls = 0 /\ \A e \in Persisted : e.round # round
      <4>1. ~Passed(checks) BY <1>10, <3>2 DEF Blocked
      <4>2. took = 0 BY <1>0, <1>3, <4>1 DEF Checked
      <4>3. \A e \in Persisted : e.round \in Nat /\ e.round < round BY <1>0, <1>3, <4>1 DEF Timely
      <4> QED BY <1>5, <1>10, <4>2, <4>3
    <3>3. ASSUME x.status = "succeeded" PROVE x.engineCalls > 0 /\ x.written
      BY <1>0, <1>3, <1>10, <3>3 DEF Checked
    <3>4. \A k \in x.cites : Valid(k) => Carried(round, k.n) BY <1>0, <1>10, ValidIsCarried
    <3> QED BY <1>10, <1>11, <2>3, <3>1, <3>2, <3>3, <3>4
  <2> QED BY <1>9, <2>2, <2>3
<1>19. LayersNest'
  <2>1. Drawn(Context(src)) BY <1>0, <1>1, ContextDrawn
  <2>2. \A s \in x.sat : Nested(s.id, s.at) BY <1>10, <2>1, SatisfactionNests
  <2>3. \A i \in 1 .. round - 1 : \A s \in t[i].sat : Nested(s.id, s.at)
    BY <1>0, <1>7 DEF LayersNest, Nested
  <2>4. \A i \in 1 .. round : \A s \in t[i].sat : Nested(s.id, s.at) BY <1>7, <1>9, <2>2, <2>3
  <2>5. \A id : LogOnly(id)' <=> LogOnly(id) BY <1>3 DEF LogOnly
  <2>6. DOMAIN results' = 1 .. round BY <1>7, <1>8
  <2> QED BY <1>8, <2>4, <2>5, <2>6 DEF LayersNest, Nested
<1> QED BY <1>12, <1>13, <1>14, <1>15, <1>16, <1>17, <1>18, <1>19 DEF CaseInvariant

-----------------------------------------------------------------------------
(* A case begins and is left. *)

LEMMA LoadedIs ==
  ASSUME NEW c
  PROVE  Loaded(c) \in Refusals \cup {"ok"}
<1>1. CASE ~Admitted(c) \/ ~ValidTruth(c.truth)
  <2>1. Loaded(c) = "refused" BY <1>1 DEF Loaded
  <2> QED BY <2>1 DEF Refusals
<1>2. CASE Admitted(c) /\ ValidTruth(c.truth) /\ ~Isolated(c)
  <2>1. Loaded(c) = "leaks" BY <1>2 DEF Loaded
  <2> QED BY <2>1 DEF Refusals
<1>3. CASE Admitted(c) /\ ValidTruth(c.truth) /\ Isolated(c) /\ c.scripted /\ Len(c.script) < Len(c.rounds)
  <2>1. Loaded(c) = "short" BY <1>3 DEF Loaded
  <2> QED BY <2>1 DEF Refusals
<1>4. CASE Admitted(c) /\ ValidTruth(c.truth) /\ Isolated(c) /\ ~(c.scripted /\ Len(c.script) < Len(c.rounds))
  <2>1. Loaded(c) = "ok" BY <1>4 DEF Loaded
  <2> QED BY <2>1
<1> QED BY <1>1, <1>2, <1>3, <1>4

LEMMA AnewParts ==
  ASSUME Types, NEW c, Anew(c), stage' \in Stages,
         failure' \in Refusals \cup {"none"}
  PROVE  Types' /\ Origin' /\ Timely' /\ Numbered' /\ Returned' /\ Recorded' /\ LayersNest'
<1>1. /\ kase' = c /\ round' = 1 /\ runs' = <<>> /\ claimed' = 0 /\ took' = 0 /\ draft' = None
      /\ made' = 0 /\ calls' = <<>> /\ reports' = <<>> /\ owed' = <<>> /\ step' = 1 /\ results' = <<>>
      /\ engine' = engine
  BY DEF Anew
<1>2. Types'
  <2>1. /\ <<>> \in Seq(Run) /\ Len(<<>>) = 0 /\ DOMAIN <<>> = {} /\ <<>> \in Seq(Range(<<>>))
        /\ <<>> \in Seq(Draft \cup {None}) /\ <<>> \in Seq({"answer", "notice"})
    BY EmptySeq, NoneYet
  <2>2. 0 <= MaxCalls /\ 0 \in 0 .. MaxAuditRounds + 1 /\ 0 \in 0 .. 0 BY CaseRunAssumption
  <2>3. engine \in {"pi", "scripted"} BY DEF Types
  <2> QED BY <1>1, <2>1, <2>2, <2>3 DEF Types
<1>3. Persisted' = {} BY <1>1, NoneYet DEF Persisted
<1>4. Numbered'
  <2>1. IsFiniteSet({}) /\ Cardinality({}) = 0 BY FS_EmptySet
  <2>2. 1 .. 0 = {} OBVIOUS
  <2> QED BY <1>3, <2>1, <2>2 DEF Numbered
<1>5. Origin' /\ Timely' /\ Returned' BY <1>3 DEF Origin, Timely, Returned
<1>6. Recorded' /\ LayersNest' BY <1>1, NoneYet DEF Recorded, LayersNest
<1> QED BY <1>2, <1>4, <1>5, <1>6

LEMMA OpenStep ==
  ASSUME CaseInvariant, NEW id \in DOMAIN Catalog, Open(Catalog[id])
  PROVE  CaseInvariant' /\ stage' # "idle"
<1>1. PICK c : c = Catalog[id] OBVIOUS
<1>2. /\ Anew(c) /\ stage' = IF Loaded(c) = "ok" THEN "routing" ELSE "over"
      /\ failure' = IF Loaded(c) = "ok" THEN "none" ELSE Loaded(c)
  BY <1>1 DEF Open
<1>3. Loaded(c) \in Refusals \cup {"ok"} /\ "ok" \notin Refusals /\ "none" \notin Refusals
  BY LoadedIs DEF Refusals
<1>4. stage' \in Stages /\ failure' \in Refusals \cup {"none"} BY <1>2, <1>3 DEF Stages
<1>5. Types' /\ Origin' /\ Timely' /\ Numbered' /\ Returned' /\ Recorded' /\ LayersNest'
  BY <1>2, <1>4, AnewParts DEF CaseInvariant
<1>6. kase' = c /\ round' = 1 /\ calls' = <<>> /\ results' = <<>> BY <1>2 DEF Anew
<1>7. Flow'
  <2>1. CASE Loaded(c) = "ok"
    <3>1. ValidCase(c) /\ Material(c) BY <1>1, <2>1, LoadedCase, CatalogAssumption
    <3>2. 1 \in DOMAIN c.rounds BY <3>1, RoundsOf
    <3>3. Len(results') = round' - 1 BY <1>6, NoneYet
    <3>4. stage' = "routing" /\ failure' = "none" BY <1>2, <2>1
    <3> QED BY <1>1, <1>3, <1>6, <2>1, <3>2, <3>3, <3>4 DEF Flow
  <2>2. CASE Loaded(c) # "ok"
    <3>1. stage' = "over" /\ failure' \in Refusals /\ failure' # "none" BY <1>2, <1>3, <2>2
    <3> QED BY <1>1, <1>6, <3>1 DEF Flow, Rounding, Executing
  <2> QED BY <2>1, <2>2
<1>8. Checked' BY <1>2 DEF Checked, Executing
<1> QED BY <1>2, <1>5, <1>7, <1>8 DEF CaseInvariant

LEMMA CloseStep ==
  ASSUME CaseInvariant, Close
  PROVE  CaseInvariant' /\ stage' = "idle"
<1>1. Anew(None) /\ stage' = "idle" /\ failure' = "none" BY DEF Close
<1>2. stage' \in Stages /\ failure' \in Refusals \cup {"none"} BY <1>1 DEF Stages
<1>3. Types' /\ Origin' /\ Timely' /\ Numbered' /\ Returned' /\ Recorded' /\ LayersNest'
  BY <1>1, <1>2, AnewParts DEF CaseInvariant
<1>4. calls' = <<>> /\ results' = <<>> BY <1>1 DEF Anew
<1>5. Flow' BY <1>1, <1>4 DEF Flow, Rounding, Executing
<1>6. Checked' BY <1>1 DEF Checked, Executing
<1> QED BY <1>1, <1>3, <1>5, <1>6 DEF CaseInvariant


-----------------------------------------------------------------------------
(* The driver. *)

LEMMA CaseStutter ==
  ASSUME CaseInvariant, UNCHANGED caseVars
  PROVE  CaseInvariant'
<1>0. Types /\ Flow /\ Checked /\ Origin /\ Timely /\ Numbered /\ Returned /\ Recorded /\ LayersNest
  BY DEF CaseInvariant
<1>1. UNCHANGED <<kase, engine, stage, round, runs, claimed, took, draft, made, page, checks, calls,
                  source, reports, owed, step, results, failure>>
  BY DEF caseVars, roundVars
<1>2. Types' BY <1>0, <1>1 DEF Types
<1>3. Flow' BY <1>0, <1>1 DEF Flow
<1>4. Checked' BY <1>0, <1>1 DEF Checked
<1>5. Origin' /\ Numbered' /\ Persisted' = Persisted BY <1>0, <1>1, SavedStays
<1>6. Timely' BY <1>0, <1>1, <1>5 DEF Timely
<1>7. Returned' BY <1>0, <1>1, <1>5 DEF Returned
<1>8. Recorded' /\ LayersNest' BY <1>0, <1>1, RecordedStays
<1> QED BY <1>2, <1>3, <1>4, <1>5, <1>6, <1>7, <1>8 DEF CaseInvariant

LEMMA NumberOfTrials ==
  ASSUME NEW q \in Requests
  PROVE  /\ Len(q.cases) \in Nat /\ DOMAIN q.cases = 1 .. Len(q.cases) /\ q.repeat \in Nat
         /\ Len(q.cases) * q.repeat \in Nat
<1>1. Len(q.cases) \in Nat /\ DOMAIN q.cases = 1 .. Len(q.cases) /\ q.repeat \in Nat
  BY RequestsAssumption, LenProperties
<1> QED BY <1>1

LEMMA WhichCase ==
  ASSUME NEW i \in Nat, NEW n \in Nat, NEW r \in 1 .. 5, i < n * r
  PROVE  (i \div r) + 1 \in 1 .. n
<1>1. CASE r = 1 BY <1>1
<1>2. CASE r = 2 BY <1>2
<1>3. CASE r = 3 BY <1>3
<1>4. CASE r = 4 BY <1>4
<1>5. CASE r = 5 BY <1>5
<1> QED BY <1>1, <1>2, <1>3, <1>4, <1>5

LEMMA TrialIsKnown ==
  ASSUME request \in Requests, ValidRequest(request), NEW i \in Nat, i < Trials
  PROVE  Trial(i).id \in DOMAIN Catalog
<1>1. PICK n : n = Len(request.cases) OBVIOUS
<1>2. PICK r : r = request.repeat OBVIOUS
<1>3. n \in Nat /\ DOMAIN request.cases = 1 .. n BY <1>1, NumberOfTrials
<1>4. r \in 1 .. 5 BY <1>2 DEF ValidRequest, MaxRepeat
<1>5. i < n * r BY <1>1, <1>2 DEF Trials
<1>6. (i \div r) + 1 \in 1 .. n BY <1>3, <1>4, <1>5, WhichCase
<1>7. request.cases[(i \div r) + 1] \in ToSet(request.cases) BY <1>3, <1>6 DEF ToSet
<1>8. ToSet(request.cases) \subseteq DOMAIN Catalog BY DEF ValidRequest, Approved
<1>9. Trial(i).id = request.cases[(i \div r) + 1] BY <1>2 DEF Trial
<1> QED BY <1>7, <1>8, <1>9

\* What the requested says while a driver is at work.
LEMMA DrivingFacts ==
  ASSUME Requested, NEW driver, Driving(driver)
  PROVE  /\ request # None /\ exit = "running" /\ request.driver = driver /\ request \in Requests
         /\ items \in Seq(Range(items)) /\ Len(items) \in Nat /\ DOMAIN items = 1 .. Len(items)
         /\ Trials \in Nat /\ Len(items) <= Trials
         /\ driver = "batch" => ValidRequest(request) /\ ledger.trials = Len(items) /\ request.maxTrials \in Nat
<1>1. request # None /\ exit = "running" /\ request.driver = driver BY DEF Driving
<1>2. request \in Requests /\ Len(items) <= Trials /\ items \in Seq(Range(items))
      /\ (driver = "batch" => ValidRequest(request) /\ ledger.trials = Len(items))
  BY <1>1 DEF Requested
<1>3. Trials \in Nat BY <1>2, NumberOfTrials DEF Trials
<1>4. driver = "batch" => request.maxTrials \in Nat BY <1>1, <1>2, RequestsAssumption
<1> QED BY <1>1, <1>2, <1>3, <1>4, LenOf

LEMMA ItemStep ==
  ASSUME Requested, NEW driver, Driving(driver), Len(items) < Trials,
         NEW it, items' = Append(items, it), it.id = Trial(Len(items)).id,
         request' = request, exit' = exit, stage' = "idle",
         DOMAIN ledger' = {"trials", "tokens", "stopped"},
         driver = "batch" => /\ stage # "idle"
                             /\ ledger'.trials = ledger.trials + 1
                             /\ it.hard # {} => it.score = 0
  PROVE  Requested'
<1>1. /\ request # None /\ exit = "running" /\ request.driver = driver /\ request \in Requests
      /\ items \in Seq(Range(items)) /\ Len(items) \in Nat /\ DOMAIN items = 1 .. Len(items)
      /\ Trials \in Nat
      /\ driver = "batch" => ValidRequest(request) /\ ledger.trials = Len(items) /\ request.maxTrials \in Nat
  BY DrivingFacts
<1>2. PICK t : t = Append(items, it) OBVIOUS
<1>3. /\ t \in Seq(Range(t)) /\ Len(t) = Len(items) + 1 /\ DOMAIN t = 1 .. Len(items) + 1
      /\ \A i \in DOMAIN items : t[i] = items[i]
      /\ \A i \in 1 .. Len(items) + 1 : i = Len(items) + 1 \/ i \in DOMAIN items
      /\ t[Len(items) + 1] = it
  BY <1>1, <1>2, AppendOne
<1>4. items' = t BY <1>2
<1>5. Trials' = Trials /\ \A i : Trial(i)' = Trial(i) BY DEF Trials, Trial
<1>6. Len(items') <= Trials BY <1>1, <1>3, <1>4
<1>7. \A i \in DOMAIN items' : items'[i].id = Trial(i - 1).id
  <2>1. \A i \in DOMAIN items : items[i].id = Trial(i - 1).id BY <1>1 DEF Requested
  <2>2. (Len(items) + 1) - 1 = Len(items) BY <1>1
  <2> QED BY <1>3, <1>4, <2>1, <2>2
<1>8. driver = "batch" => ledger'.trials = Len(items') BY <1>1, <1>3, <1>4
<1>9. Limited => Len(items') <= request.maxTrials
  <2> SUFFICES ASSUME Limited PROVE Len(items') <= request.maxTrials OBVIOUS
  <2>1. driver = "batch" BY <1>1 DEF Limited
  <2>2. Len(items) < request.maxTrials BY <1>1, <2>1 DEF Requested
  <2> QED BY <1>1, <1>3, <1>4, <2>1, <2>2
<1>10. driver = "batch" => \A i \in DOMAIN items' : items'[i].hard # {} => items'[i].score = 0
  <2>1. driver = "batch" => \A i \in DOMAIN items : items[i].hard # {} => items[i].score = 0
    BY <1>1 DEF Requested
  <2> QED BY <1>3, <1>4, <2>1
<1>11. items' \in Seq(Range(items')) BY <1>3, <1>4
<1>12. (ValidRequest(request)' <=> ValidRequest(request)) /\ (Limited' <=> Limited)
  BY DEF ValidRequest, Approved, Limited
<1> QED BY <1>1, <1>5, <1>6, <1>7, <1>8, <1>9, <1>10, <1>11, <1>12 DEF Requested

\* A step that appends nothing, whatever becomes of the case and of the exit.
LEMMA NoItemStep ==
  ASSUME Requested, NEW driver, Driving(driver), request' = request, items' = items,
         DOMAIN ledger' = {"trials", "tokens", "stopped"}, ledger'.trials = ledger.trials,
         stage' # "idle" => /\ Len(items) < Trials
                            /\ Limited => Len(items) < request.maxTrials,
         exit' = "ok" /\ ~ledger'.stopped => Len(items) = Trials
  PROVE  Requested'
<1>1. /\ request # None /\ exit = "running" /\ request.driver = driver /\ request \in Requests
      /\ items \in Seq(Range(items))
  BY DrivingFacts
<1>2. Trials' = Trials /\ \A i : Trial(i)' = Trial(i) BY DEF Trials, Trial
<1>3. (ValidRequest(request)' <=> ValidRequest(request)) /\ (Limited' <=> Limited)
  BY DEF ValidRequest, Approved, Limited
<1>4. /\ request.driver = "batch" => ValidRequest(request)
      /\ Len(items) <= Trials /\ \A i \in DOMAIN items : items[i].id = Trial(i - 1).id
      /\ request.driver = "batch" => ledger.trials = Len(items)
      /\ Limited => Len(items) <= request.maxTrials
      /\ request.driver = "batch" => \A i \in DOMAIN items : items[i].hard # {} => items[i].score = 0
  BY <1>1 DEF Requested
<1> QED BY <1>1, <1>2, <1>3, <1>4 DEF Requested

LEMMA AcceptStep ==
  ASSUME IInv, Accept
  PROVE  IInv'
<1>1. CaseInvariant /\ Requested BY DEF IInv
<1>2. /\ request = None /\ exit = "running" /\ UNCHANGED <<caseVars, items, ledger>>
      /\ exit' \in {"running", "refused"}
  BY DEF Accept
<1>3. \/ request' = None
      \/ request' \in Requests /\ (request'.driver = "batch" => ValidRequest(request'))
  BY DEF Accept
<1>4. items = <<>> /\ stage = "idle" /\ ledger.trials = 0 /\ DOMAIN ledger = {"trials", "tokens", "stopped"}
  BY <1>1, <1>2 DEF Requested
<1>5. items' = <<>> /\ stage' = "idle" /\ ledger' = ledger BY <1>2, <1>4 DEF caseVars
<1>6. CaseInvariant' BY <1>1, <1>2, CaseStutter
<1>7. <<>> \in Seq(Range(<<>>)) /\ Len(<<>>) = 0 /\ DOMAIN <<>> = {} BY NoneYet
<1>8. Requested'
  <2>1. CASE request' = None BY <1>2, <1>4, <1>5, <1>7, <2>1 DEF Requested
  <2>2. CASE request' # None
    <3>1. request' \in Requests /\ (request'.driver = "batch" => ValidRequest(request)')
      BY <1>3, <2>2 DEF ValidRequest, Approved
    <3>2. Trials' \in Nat BY <3>1, NumberOfTrials DEF Trials
    <3>3. Limited' => request'.maxTrials \in Nat BY <3>1, RequestsAssumption DEF Limited
    <3>4. 0 <= Trials' /\ (Limited' => 0 <= request'.maxTrials) BY <3>2, <3>3
    <3> QED BY <1>2, <1>4, <1>5, <1>7, <2>2, <3>1, <3>4 DEF Requested
  <2> QED BY <2>1, <2>2
<1> QED BY <1>6, <1>8 DEF IInv

LEMMA StartStep ==
  ASSUME IInv, StartTrial
  PROVE  IInv'
<1>1. CaseInvariant /\ Requested BY DEF IInv
<1>2. Driving("batch") /\ stage = "idle" /\ Len(items) < Trials /\ ~Exhausted BY DEF StartTrial
<1>3. /\ request # None /\ request.driver = "batch" /\ request \in Requests /\ Len(items) \in Nat
      /\ ValidRequest(request) /\ ledger.trials = Len(items) /\ request.maxTrials \in Nat
  BY <1>1, <1>2, DrivingFacts
<1>4. Limited => Len(items) < request.maxTrials BY <1>2, <1>3 DEF Exhausted, Limited
<1>5. DOMAIN ledger = {"trials", "tokens", "stopped"} BY <1>1 DEF Requested
<1>6. CASE Open(Catalog[Trial(Len(items)).id]) /\ UNCHANGED driverVars
  <2>1. Trial(Len(items)).id \in DOMAIN Catalog BY <1>2, <1>3, TrialIsKnown
  <2>2. CaseInvariant' /\ stage' # "idle" BY <1>1, <1>6, <2>1, OpenStep
  <2>3. request' = request /\ items' = items /\ ledger' = ledger /\ exit' = exit BY <1>6 DEF driverVars
  <2>4. exit' # "ok" BY <1>2, <2>3 DEF Driving
  <2>5. Requested' BY <1>1, <1>2, <1>4, <1>5, <2>3, <2>4, NoItemStep
  <2> QED BY <2>2, <2>5 DEF IInv
<1>7. CASE exit' = "systematic" /\ UNCHANGED <<caseVars, request, items, ledger>>
  <2>1. CaseInvariant' BY <1>1, <1>7, CaseStutter
  <2>2. stage' = "idle" BY <1>2, <1>7 DEF caseVars
  <2>3. Requested' BY <1>1, <1>2, <1>5, <1>7, <2>2, NoItemStep
  <2> QED BY <2>1, <2>3 DEF IInv
<1> QED BY <1>6, <1>7 DEF StartTrial

LEMMA EndTrialStep ==
  ASSUME IInv, EndTrial
  PROVE  IInv'
<1>1. CaseInvariant /\ Requested BY DEF IInv
<1>2. Driving("batch") /\ stage = "over" /\ Close /\ UNCHANGED <<request, exit>> BY DEF EndTrial
<1>3. PICK ok \in BOOLEAN : ok = (failure = "none") OBVIOUS
<1>4. PICK hard : hard = IF ok THEN HardFailures(results, kase.truth) ELSE {"task_error"} OBVIOUS
<1>5. PICK score : score = IF ok THEN Score(results, kase.truth) ELSE 0 OBVIOUS
<1>6. PICK it : it = [id |-> Trial(Len(items)).id, trial |-> Trial(Len(items)).trial,
                      status |-> IF ok THEN "scored" ELSE "task_error", score |-> score, hard |-> hard]
  OBVIOUS
<1>7. items' = Append(items, it) BY <1>3, <1>4, <1>5, <1>6 DEF EndTrial
<1>8. it.id = Trial(Len(items)).id /\ it.hard = hard /\ it.score = score BY <1>6
<1>9. hard # {} => score = 0 BY <1>4, <1>5 DEF Score
<1>10. DOMAIN ledger' = {"trials", "tokens", "stopped"} /\ ledger'.trials = ledger.trials + 1
  <2>1. DOMAIN ledger = {"trials", "tokens", "stopped"} BY <1>1 DEF Requested
  <2>2. PICK tokens : ledger' = [ledger EXCEPT !.trials = @ + 1, !.tokens = tokens] BY DEF EndTrial
  <2> QED BY <2>1, <2>2
<1>11. CaseInvariant' /\ stage' = "idle" BY <1>1, <1>2, CloseStep
<1>12. Len(items) < Trials
  <2>1. request # None BY <1>2 DEF Driving
  <2> QED BY <1>1, <1>2, <2>1 DEF Requested
<1>13. Requested' BY <1>1, <1>2, <1>7, <1>8, <1>9, <1>10, <1>11, <1>12, ItemStep
<1> QED BY <1>11, <1>13 DEF IInv

LEMMA EndBatchStep ==
  ASSUME IInv, EndBatch
  PROVE  IInv'
<1>1. CaseInvariant /\ Requested BY DEF IInv
<1>2. /\ Driving("batch") /\ stage = "idle" /\ UNCHANGED <<caseVars, request, items>>
      /\ ledger' = [ledger EXCEPT !.stopped = Len(items) < Trials]
  BY DEF EndBatch
<1>3. DOMAIN ledger = {"trials", "tokens", "stopped"} BY <1>1 DEF Requested
<1>4. /\ DOMAIN ledger' = {"trials", "tokens", "stopped"} /\ ledger'.trials = ledger.trials
      /\ ledger'.stopped = (Len(items) < Trials)
  BY <1>2, <1>3
<1>5. Len(items) \in Nat /\ Trials \in Nat /\ Len(items) <= Trials BY <1>1, <1>2, DrivingFacts
<1>6. ~ledger'.stopped => Len(items) = Trials
  <2>1. ~(Len(items) < Trials) => Len(items) = Trials BY <1>5
  <2> QED BY <1>4, <2>1
<1>7. stage' = "idle" BY <1>2 DEF caseVars
<1>8. Requested' BY <1>1, <1>2, <1>4, <1>6, <1>7, NoItemStep
<1>9. CaseInvariant' BY <1>1, <1>2, CaseStutter
<1> QED BY <1>8, <1>9 DEF IInv

LEMMA TaskStartStep ==
  ASSUME IInv, TaskStarts
  PROVE  IInv'
<1>1. CaseInvariant /\ Requested BY DEF IInv
<1>2. PICK id : id = Trial(Len(items)).id OBVIOUS
<1>3. Driving("dataset") /\ stage = "idle" /\ Len(items) < Trials BY DEF TaskStarts
<1>4. request.driver = "dataset" /\ exit = "running" BY <1>3 DEF Driving
<1>5. DOMAIN ledger = {"trials", "tokens", "stopped"} BY <1>1 DEF Requested
<1>6. CASE id \in DOMAIN Catalog /\ Open(Catalog[id]) /\ UNCHANGED driverVars
  <2>1. CaseInvariant' /\ stage' # "idle" BY <1>1, <1>6, OpenStep
  <2>2. request' = request /\ items' = items /\ ledger' = ledger /\ exit' = exit BY <1>6 DEF driverVars
  <2>3. ~Limited BY <1>4 DEF Limited
  <2>4. exit' # "ok" BY <1>4, <2>2
  <2>5. Requested' BY <1>1, <1>3, <1>5, <2>2, <2>3, <2>4, NoItemStep
  <2> QED BY <2>1, <2>5 DEF IInv
<1>7. CASE /\ items' = Append(items, [id |-> id, failed |-> TRUE, evaluations |-> None])
           /\ UNCHANGED <<caseVars, request, ledger, exit>>
  <2>1. PICK it : it = [id |-> id, failed |-> TRUE, evaluations |-> None] OBVIOUS
  <2>2. it.id = Trial(Len(items)).id /\ items' = Append(items, it) BY <1>2, <1>7, <2>1
  <2>3. stage' = "idle" BY <1>3, <1>7 DEF caseVars
  <2>4. "dataset" # "batch" OBVIOUS
  <2>5. Requested' BY <1>1, <1>3, <1>5, <1>7, <2>2, <2>3, <2>4, ItemStep
  <2>6. CaseInvariant' BY <1>1, <1>7, CaseStutter
  <2> QED BY <2>5, <2>6 DEF IInv
<1> QED BY <1>2, <1>6, <1>7 DEF TaskStarts

LEMMA TaskEndStep ==
  ASSUME IInv, TaskEnds
  PROVE  IInv'
<1>1. CaseInvariant /\ Requested BY DEF IInv
<1>2. Driving("dataset") /\ stage = "over" /\ Close /\ UNCHANGED <<request, ledger, exit>> BY DEF TaskEnds
<1>3. PICK out : out = [failed |-> failure # "none", rounds |-> IF failure = "none" THEN results ELSE <<>>]
  OBVIOUS
<1>4. PICK it : it = [id |-> Trial(Len(items)).id, failed |-> out.failed,
                      evaluations |-> Evaluations(out, kase, engine)]
  OBVIOUS
<1>5. items' = Append(items, it) BY <1>3, <1>4 DEF TaskEnds
<1>6. it.id = Trial(Len(items)).id BY <1>4
<1>7. DOMAIN ledger = {"trials", "tokens", "stopped"} BY <1>1 DEF Requested
<1>8. CaseInvariant' /\ stage' = "idle" BY <1>1, <1>2, CloseStep
<1>9. Len(items) < Trials
  <2>1. request # None BY <1>2 DEF Driving
  <2> QED BY <1>1, <1>2, <2>1 DEF Requested
<1>10. "dataset" # "batch" OBVIOUS
<1>11. Requested' BY <1>1, <1>2, <1>5, <1>6, <1>7, <1>8, <1>9, <1>10, ItemStep
<1> QED BY <1>8, <1>11 DEF IInv

LEMMA EndExperimentStep ==
  ASSUME IInv, EndExperiment
  PROVE  IInv'
<1>1. CaseInvariant /\ Requested BY DEF IInv
<1>2. /\ Driving("dataset") /\ stage = "idle" /\ Len(items) = Trials
      /\ UNCHANGED <<caseVars, request, items, ledger>>
  BY DEF EndExperiment
<1>3. DOMAIN ledger = {"trials", "tokens", "stopped"} BY <1>1 DEF Requested
<1>4. stage' = "idle" BY <1>2 DEF caseVars
<1>5. Requested' BY <1>1, <1>2, <1>3, <1>4, NoItemStep
<1>6. CaseInvariant' BY <1>1, <1>2, CaseStutter
<1> QED BY <1>5, <1>6 DEF IInv

\* A step within a case leaves the driver where it is.
LEMMA InCaseStep ==
  ASSUME IInv, CaseNext \/ DelayElapses, UNCHANGED driverVars
  PROVE  IInv'
<1>1. CaseInvariant /\ Requested BY DEF IInv
<1>2. CaseInvariant'
  BY <1>1, BeginStep, PrepareStep, ReadStep, AnswerStep, SupplementStep, FinalizeStep, FailStep, RecordStep,
     DelayStep DEF CaseNext
<1>3. stage # "idle" /\ stage' # "idle"
  <2>1. CASE BeginRound BY <2>1 DEF BeginRound, Throw
  <2>2. CASE Prepare BY <2>2 DEF Prepare, Fail
  <2>3. CASE ReadTool BY <2>3 DEF ReadTool
  <2>4. CASE EngineAnswers BY <2>4 DEF EngineAnswers
  <2>5. CASE Supplement BY <2>5 DEF Supplement
  <2>6. CASE Finalize BY <2>6 DEF Finalize
  <2>7. CASE ExecutionFails BY <2>7 DEF ExecutionFails, Fail
  <2>8. CASE RecordRound BY <2>8 DEF RecordRound
  <2>9. CASE DelayElapses BY <2>9 DEF DelayElapses
  <2> QED BY <2>1, <2>2, <2>3, <2>4, <2>5, <2>6, <2>7, <2>8, <2>9 DEF CaseNext
<1>4. Requested' BY <1>1, <1>3, RequestedStays
<1> QED BY <1>2, <1>4 DEF IInv

LEMMA InitInvariant == Init => IInv
<1> SUFFICES ASSUME Init PROVE IInv OBVIOUS
<1>1. CaseInit /\ request = None /\ items = <<>> /\ exit = "running"
      /\ ledger = [trials |-> 0, tokens |-> 0, stopped |-> FALSE]
  BY DEF Init
<1>2. /\ kase = None /\ engine \in {"pi", "scripted"} /\ stage = "idle" /\ round = 1
      /\ runs = <<>> /\ claimed = 0 /\ took = 0 /\ draft = None /\ made = 0 /\ calls = <<>>
      /\ reports = <<>> /\ owed = <<>> /\ step = 1 /\ results = <<>> /\ failure = "none"
  BY <1>1 DEF CaseInit
<1>3. Persisted = {} BY <1>2, NoneYet DEF Persisted
<1>4. Types
  <2>1. runs \in Seq(Run) /\ reports \in Seq(Draft \cup {None}) /\ owed \in Seq({"answer", "notice"})
    BY <1>2, EmptySeq
  <2>2. calls \in Seq(Range(calls)) /\ results \in Seq(Range(results)) /\ Len(calls) = 0 /\ Len(runs) = 0
        /\ Len(reports) = 0 /\ DOMAIN runs = {}
    BY <1>2, NoneYet
  <2>3. MaxCalls \in Nat /\ MaxAuditRounds \in Nat BY CaseRunAssumption
  <2>4. stage \in Stages BY <1>2 DEF Stages
  <2> QED BY <1>2, <2>1, <2>2, <2>3, <2>4 DEF Types
<1>5. Flow BY <1>2 DEF Flow, Rounding, Executing, Refusals
<1>6. Checked BY <1>2 DEF Checked, Executing
<1>7. Origin /\ Timely /\ Returned BY <1>2, <1>3 DEF Origin, Timely, Returned
<1>8. Numbered
  <2>1. IsFiniteSet({}) /\ Cardinality({}) = 0 BY FS_EmptySet
  <2> QED BY <1>3, <2>1 DEF Numbered
<1>9. Recorded /\ LayersNest BY <1>2, NoneYet DEF Recorded, LayersNest
<1>10. Requested
  <2>1. items \in Seq(Range(items)) BY <1>1, NoneYet
  <2> QED BY <1>1, <1>2, <2>1 DEF Requested
<1> QED BY <1>4, <1>5, <1>6, <1>7, <1>8, <1>9, <1>10 DEF IInv, CaseInvariant

LEMMA Stutter ==
  ASSUME IInv, UNCHANGED vars
  PROVE  IInv'
<1>1. CaseInvariant /\ Requested BY DEF IInv
<1>2. UNCHANGED caseVars /\ UNCHANGED driverVars BY DEF vars
<1>3. CaseInvariant' BY <1>1, <1>2, CaseStutter
<1>4. Requested'
  BY <1>1, <1>2 DEF Requested, driverVars, caseVars, Limited, Trials, Trial, ValidRequest, Approved
<1> QED BY <1>3, <1>4 DEF IInv

LEMMA NextInvariant == IInv /\ [Next]_vars => IInv'
<1>1. CASE IInv /\ Accept BY <1>1, AcceptStep
<1>2. CASE IInv /\ StartTrial BY <1>2, StartStep
<1>3. CASE IInv /\ EndTrial BY <1>3, EndTrialStep
<1>4. CASE IInv /\ EndBatch BY <1>4, EndBatchStep
<1>5. CASE IInv /\ TaskStarts BY <1>5, TaskStartStep
<1>6. CASE IInv /\ TaskEnds BY <1>6, TaskEndStep
<1>7. CASE IInv /\ EndExperiment BY <1>7, EndExperimentStep
<1>8. CASE IInv /\ InCase BY <1>8, InCaseStep DEF InCase
<1>9. CASE IInv /\ Waiting BY <1>9, InCaseStep DEF Waiting
<1>10. CASE IInv /\ UNCHANGED vars BY <1>10, Stutter
<1> QED BY <1>1, <1>2, <1>3, <1>4, <1>5, <1>6, <1>7, <1>8, <1>9, <1>10 DEF Next, Driver

\* The invariant holds of every evaluation: of either driver, over any catalog of cases
\* and any requests, through every round that run-case.ts carries out.
THEOREM EvaluationIsInvariant == Spec => []IInv
<1>1. Init => IInv BY InitInvariant
<1>2. IInv /\ [Next]_vars => IInv' BY NextInvariant
<1> QED BY <1>1, <1>2, PTL DEF Spec

\* Nothing a round has saved as evidence comes from the material or the message of a
\* later round or from the private standard: checkIsolation before the case, and the
\* scan of the trees in scope before each engine, leave no way (isolation.ts, run-case.ts).
THEOREM NothingFromTheFutureHolds == Spec => []NothingFromTheFuture
<1>1. IInv => NothingFromTheFuture BY OriginIsPast DEF IInv, CaseInvariant
<1> QED BY <1>1, EvaluationIsInvariant, PTL

-----------------------------------------------------------------------------
(* A score is earned. *)

\* Nothing is wrong with a case whose score is above nought, and its standard is on
\* every round recorded.
LEMMA NoFailure ==
  ASSUME NEW rs, NEW t, Score(rs, t) > 0, NEW x \in ToSet(rs)
  PROVE  /\ x.blocked => Expects(t, x.round, "blocked")
         /\ ~x.blocked => x.status = "succeeded"
         /\ \A k \in x.cites : Valid(k)
<1> DEFINE judged == ToSet(Judged(rs, t))
           allowed(y) == UNION {rt.outcomes : rt \in TruthOf(t, y.round)}
<1>1. HardFailures(rs, t) = {}
  <2>1. HardFailures(rs, t) # {} => Score(rs, t) = 0 BY DEF Score
  <2>2. Score(rs, t) # 0
    <3>1. Score(rs, t) = 0 => ~(Score(rs, t) > 0) OBVIOUS
    <3> QED BY <3>1
  <2> QED BY <2>1, <2>2
<1>2. x \in judged BY <1>1 DEF HardFailures
<1>3. x.blocked => "blocked" \in allowed(x) BY <1>1, <1>2 DEF HardFailures
<1>4. ~x.blocked => x.status = "succeeded" BY <1>1, <1>2 DEF HardFailures
<1>5. \A k \in x.cites : Valid(k) BY <1>1, <1>2 DEF HardFailures
<1>6. x.blocked => Expects(t, x.round, "blocked") BY <1>3 DEF Expects
<1> QED BY <1>4, <1>5, <1>6

LEMMA ScoreFollows == IInv => ScoreIsEarned
<1> SUFFICES ASSUME IInv, stage = "over", failure = "none", Score(results, kase.truth) > 0
             PROVE  /\ {results[i].round : i \in DOMAIN results} = DOMAIN kase.rounds
                    /\ Planned(kase.truth) \subseteq DOMAIN kase.rounds =>
                         RunIntegrity([failed |-> FALSE, rounds |-> results], kase.truth)
                    /\ \A i \in DOMAIN results :
                         /\ results[i].blocked => results[i].engineCalls = 0 /\ ~\E e \in Persisted : e.round = i
                         /\ \A k \in results[i].cites : \E e \in ById(k.n) :
                              /\ e.round <= i
                              /\ \A u \in Round(kase, i).repos :
                                   e.kind = "code" /\ e.repo = u.id => u.expected \in {NoSha, e.sha}
  BY DEF ScoreIsEarned
<1>1. Types /\ Flow /\ Recorded BY DEF IInv, CaseInvariant
<1>2. Loaded(kase) = "ok" /\ Len(results) = Len(kase.rounds) BY <1>1 DEF Flow, Refusals
<1>3. PICK id \in DOMAIN Catalog : kase = Catalog[id] BY <1>1 DEF Flow
<1>4. Material(kase) /\ ValidCase(kase) BY <1>2, <1>3, LoadedCase, CatalogAssumption
<1>5. DOMAIN results = DOMAIN kase.rounds
  <2>1. results \in Seq(Range(results)) BY <1>1 DEF Types
  <2>2. DOMAIN results = 1 .. Len(results) BY <2>1, LenOf
  <2> QED BY <1>2, <1>4, <2>2, RoundsOf
<1>6. \A i \in DOMAIN results : results[i].round = i BY <1>1 DEF Recorded
<1>7. {results[i].round : i \in DOMAIN results} = DOMAIN kase.rounds BY <1>5, <1>6
<1>8. ASSUME NEW i \in DOMAIN results
      PROVE  /\ results[i].blocked => Expects(kase.truth, results[i].round, "blocked")
             /\ ~results[i].blocked => results[i].status = "succeeded"
             /\ \A k \in results[i].cites : Valid(k)
  <2>1. results[i] \in ToSet(results) BY DEF ToSet
  <2> QED BY <2>1, NoFailure
<1>9. ASSUME NEW i \in DOMAIN results, ~results[i].blocked
      PROVE  results[i].status = "succeeded" /\ results[i].engineCalls > 0 /\ results[i].written
  BY <1>1, <1>8, <1>9 DEF Recorded
<1>10. ASSUME Planned(kase.truth) \subseteq DOMAIN kase.rounds
       PROVE  RunIntegrity([failed |-> FALSE, rounds |-> results], kase.truth)
  <2>1. PICK out : out = [failed |-> FALSE, rounds |-> results] OBVIOUS
  <2>2. ~out.failed /\ out.rounds = results BY <2>1
  <2>3. Planned(kase.truth) \subseteq {results[i].round : i \in DOMAIN results} BY <1>7, <1>10
  <2>4. RunIntegrity(out, kase.truth) BY <1>8, <1>9, <2>2, <2>3 DEF RunIntegrity
  <2> QED BY <2>1, <2>4
<1>11. ASSUME NEW i \in DOMAIN results
       PROVE  /\ results[i].blocked => results[i].engineCalls = 0 /\ ~\E e \in Persisted : e.round = i
              /\ \A k \in results[i].cites : Carried(i, k.n)
  BY <1>1, <1>8 DEF Recorded
<1> QED BY <1>7, <1>10, <1>11 DEF Carried

\* A score above nought has been earned: gradeCase (evolve/grade.ts) gives one only to a
\* case of which every round is recorded, ended as its standard allows, was given no
\* material that failed its check, and cites only saved evidence of the rounds so far
\* at the commits expected, as the run-integrity evaluator asks too.
THEOREM ScoreIsEarnedHolds == Spec => []ScoreIsEarned
<1>1. IInv => ScoreIsEarned BY ScoreFollows
<1> QED BY <1>1, EvaluationIsInvariant, PTL

-----------------------------------------------------------------------------
(* The accounts of the driver. *)

\* A sum of noughts is nought.  (The fold is unfolded by the equation it solves: the
\* function that is nought everywhere solves it, and at a smallest set where the one
\* chosen was not, the equation says it is.)
LEMMA SumOfNoughts ==
  ASSUME NEW S, IsFiniteSet(S), \A i \in S : items[i].score = 0
  PROVE  MapThenSumSet(LAMBDA i : items[i].score, S) = 0
<1> DEFINE iter == CHOOSE f : f = [s \in SUBSET S |->
                     IF s = {} THEN 0 ELSE items[CHOOSE x \in s : TRUE].score + f[s \ {CHOOSE x \in s : TRUE}]]
<1>1. MapThenSumSet(LAMBDA i : items[i].score, S) = iter[S] BY DEF MapThenSumSet, MapThenFoldSet
<1>2. \E f : f = [s \in SUBSET S |->
                IF s = {} THEN 0 ELSE items[CHOOSE x \in s : TRUE].score + f[s \ {CHOOSE x \in s : TRUE}]]
  <2>1. PICK f : f = [s \in SUBSET S |-> 0] OBVIOUS
  <2>2. ASSUME NEW s \in SUBSET S, s # {}
        PROVE  items[CHOOSE x \in s : TRUE].score + f[s \ {CHOOSE x \in s : TRUE}] = 0
    <3>1. (CHOOSE x \in s : TRUE) \in S BY <2>2
    <3> QED BY <2>1, <3>1
  <2>3. f = [s \in SUBSET S |->
               IF s = {} THEN 0 ELSE items[CHOOSE x \in s : TRUE].score + f[s \ {CHOOSE x \in s : TRUE}]]
    BY <2>1, <2>2
  <2> QED BY <2>3
<1>3. iter = [s \in SUBSET S |->
        IF s = {} THEN 0 ELSE items[CHOOSE x \in s : TRUE].score + iter[s \ {CHOOSE x \in s : TRUE}]]
  BY <1>2
<1> HIDE DEF iter
<1>4. \A s \in SUBSET S : iter[s] = 0
  <2> DEFINE Not == {n \in Nat : \E s \in SUBSET S : Cardinality(s) = n /\ iter[s] # 0}
  <2>1. SUFFICES ASSUME NEW s \in SUBSET S, iter[s] # 0 PROVE FALSE OBVIOUS
  <2>2. IsFiniteSet(s) /\ Cardinality(s) \in Nat BY FS_Subset, FS_CardinalityType
  <2>3. Not # {} BY <2>1, <2>2
  <2>4. PICK n \in Not : \A i \in Not : n <= i BY <2>3, LeastNumber
  <2>5. PICK u \in SUBSET S : n \in Nat /\ Cardinality(u) = n /\ iter[u] # 0 BY <2>4
  <2>6. u # {} BY <1>3, <2>5
  <2>7. PICK x : x = CHOOSE y \in u : TRUE OBVIOUS
  <2>8. x \in u /\ x \in S BY <2>6, <2>7
  <2>9. iter[u] = items[x].score + iter[u \ {x}] BY <1>3, <2>6, <2>7
  <2>10. IsFiniteSet(u) BY FS_Subset
  <2>11. Cardinality(u \ {x}) = n - 1 BY <2>5, <2>8, <2>10, FS_RemoveElement
  <2>12. IsFiniteSet(u \ {x}) /\ Cardinality(u \ {x}) \in Nat BY <2>10, FS_RemoveElement, FS_CardinalityType
  <2>13. Cardinality(u \ {x}) \notin Not
    <3> HIDE DEF Not
    <3>1. ~(n <= n - 1) BY <2>5
    <3> QED BY <2>4, <2>11, <3>1
  <2>14. iter[u \ {x}] = 0 BY <2>12, <2>13
  <2>15. items[x].score = 0 BY <2>8
  <2> QED BY <2>5, <2>9, <2>14, <2>15
<1> QED BY <1>1, <1>4

LEMMA MeanIsEarned ==
  ASSUME items \in Seq(Range(items)), NEW i \in DOMAIN items, Mean(items[i].id) > 0,
         \A j \in DOMAIN items : items[j].hard # {} => items[j].score = 0
  PROVE  \E j \in DOMAIN items : items[j].id = items[i].id /\ items[j].hard = {}
<1> SUFFICES ASSUME \A j \in DOMAIN items : items[j].id = items[i].id => items[j].hard # {} PROVE FALSE
  OBVIOUS
<1>a. PICK S : S = CaseItems(items[i].id) OBVIOUS
<1>1. S = {j \in DOMAIN items : items[j].id = items[i].id} BY <1>a DEF CaseItems
<1>2. IsFiniteSet(S)
  <2>1. Len(items) \in Nat /\ DOMAIN items = 1 .. Len(items) BY LenOf
  <2>2. IsFiniteSet(1 .. Len(items)) BY <2>1, FS_Interval
  <2> QED BY <1>1, <2>1, <2>2, FS_Subset
<1>3. \A j \in S : items[j].score = 0 BY <1>1
<1>4. MapThenSumSet(LAMBDA j : items[j].score, S) = 0 BY <1>2, <1>3, SumOfNoughts
<1>5. Cardinality(S) \in Nat /\ Cardinality(S) # 0
  <2>1. i \in S BY <1>1
  <2> QED BY <1>2, <2>1, FS_CardinalityType, FS_EmptySet
<1>6. Mean(items[i].id) = MapThenSumSet(LAMBDA j : items[j].score, S) \div Cardinality(S)
  BY <1>a DEF Mean
<1>7. Mean(items[i].id) = 0 \div Cardinality(S) BY <1>4, <1>6
<1>8. 0 \div Cardinality(S) = 0 BY <1>5
<1> QED BY <1>7, <1>8

LEMMA AccountedFollows == IInv => Accounted
<1> SUFFICES ASSUME IInv PROVE Accounted OBVIOUS
<1>1. Requested BY DEF IInv
<1>2. ASSUME request # None, request.driver = "batch", NEW id \in {items[i].id : i \in DOMAIN items}, Mean(id) > 0
      PROVE  \E i \in DOMAIN items : items[i].id = id /\ items[i].hard = {}
  <2>1. PICK i \in DOMAIN items : id = items[i].id BY <1>2
  <2>2. items \in Seq(Range(items)) BY <1>1 DEF Requested
  <2>3. \A j \in DOMAIN items : items[j].hard # {} => items[j].score = 0 BY <1>1, <1>2 DEF Requested
  <2>4. Mean(items[i].id) > 0 BY <1>2, <2>1
  <2>5. \E j \in DOMAIN items : items[j].id = items[i].id /\ items[j].hard = {}
    BY <2>2, <2>3, <2>4, MeanIsEarned
  <2> QED BY <2>1, <2>5
<1>3. request # None => Len(items) <= Trials /\ \A i \in DOMAIN items : items[i].id = Trial(i - 1).id
  BY <1>1 DEF Requested
<1>4. request # None /\ request.driver = "batch" =>
        /\ ledger.trials = Len(items)
        /\ request.limits = "enforce" => Len(items) <= request.maxTrials
  BY <1>1 DEF Requested, Limited
<1>5. exit = "ok" /\ ~ledger.stopped => Len(items) = Trials BY <1>1 DEF Requested
<1> QED BY <1>2, <1>3, <1>4, <1>5 DEF Accounted

LEMMA TypesFollow == IInv => TypeOK
<1> SUFFICES ASSUME IInv PROVE TypeOK OBVIOUS
<1>1. Types /\ Flow /\ Numbered /\ Recorded BY DEF IInv, CaseInvariant
<1>2. stage \notin {"idle", "over"} => round \in DOMAIN kase.rounds
  BY <1>1 DEF Types, Flow, Stages, Rounding, Executing
<1>3. ASSUME NEW i \in DOMAIN runs
      PROVE  /\ runs[i].status \in {"queued", "running", "succeeded", "failed"}
             /\ runs[i].attempts \in 0 .. MaxAttempts /\ runs[i].due \in BOOLEAN
  <2>1. runs[i] \in Run BY <1>1, LenProperties, ElementOfSeq DEF Types
  <2> QED BY <2>1 DEF Run, Statuses
<1>4. Len(calls) \in 0 .. MaxCalls /\ made \in 0 .. MaxCalls
  <2>1. MaxCalls \in Nat BY CaseRunAssumption
  <2>2. calls \in Seq(Range(calls)) /\ Len(calls) <= MaxCalls /\ made \in Nat /\ made <= Len(calls)
    BY <1>1 DEF Types
  <2>3. Len(calls) \in Nat BY <2>2, LenOf
  <2> QED BY <2>1, <2>2, <2>3
<1>5. ASSUME NEW n \in 1 .. Cardinality(Persisted)
      PROVE  Cardinality(ById(n)) = 1
  <2>1. PICK e \in Persisted : e.n = n BY <1>1 DEF Numbered
  <2>2. \A f \in Persisted : f.n = n => f = e BY <1>1, <2>1 DEF Numbered
  <2>3. ById(n) = {e} BY <2>1, <2>2 DEF ById
  <2> QED BY <2>3, FS_Singleton
<1>6. \A i \in DOMAIN results : results[i].round = i /\ results[i].outcome \in Outcomes BY <1>1 DEF Recorded
<1>7. /\ stage \in Stages /\ engine \in {"pi", "scripted"}
      /\ claimed \in 0 .. Len(runs) /\ Len(reports) = Len(runs)
      /\ took \in 0 .. MaxAuditRounds + 1 /\ draft \in Draft \cup {None} /\ (took = 0 <=> draft = None)
  BY <1>1 DEF Types
<1>8. failure \in {"none", "refused", "leaks", "short", "truth", "inbound", "claim"} BY <1>1 DEF Types, Refusals
<1> QED BY <1>2, <1>3, <1>4, <1>5, <1>6, <1>7, <1>8 DEF TypeOK

\* The evaluation's types; the layers, of which none holds what the one it is drawn from
\* does not; and the accounts: the items are a beginning of the cases times their
\* repetitions, no enforced limit is passed (canStartTrial), and the mean of a case is
\* above nought only by a trial without a hard failure (aggregateCases).
THEOREM EvaluationInvariantHolds == Spec => []EvaluationInvariant
<1>1. IInv => EvaluationInvariant
  BY TypesFollow, AccountedFollows DEF EvaluationInvariant, IInv, CaseInvariant
<1> QED BY <1>1, EvaluationIsInvariant, PTL
=============================================================================
