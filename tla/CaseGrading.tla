---------------------------- MODULE CaseGrading ----------------------------
(***************************************************************************)
(* How a finished case is judged.  Per round, which of the standard's      *)
(* pieces of evidence reached which layer (visibility.ts): A returned by   *)
(* the log source, B saved, C1 shown to the model, D cited by the report;  *)
(* over the rounds, the fixed grade of a batch (src/evolve/grade.ts) and   *)
(* the evaluators of an experiment (src/eval/lf/evaluators.ts).            *)
(*                                                                         *)
(* Text is compared by the key a locator looks for; log levels and line    *)
(* ranges are part of the key.                                             *)
(***************************************************************************)
EXTENDS CaseMaterials

CONSTANT None

Layers == {"A", "B", "C1", "D"}
Outcomes == {"report", "clarify", "chat", "error", "blocked"}

\* outcomeOf: the last result the engine returned in a round.
OutcomeOf(d) == IF d = None THEN "error" ELSE d.kind

-----------------------------------------------------------------------------
(* Visibility. *)

\* matchesLog and matchesCode.  A locator without a commit accepts every one.
Matches(l, e) ==
  /\ e.kind = l.kind /\ e.key = l.key
  /\ l.kind = "code" => e.repo = l.repo /\ l.sha \in {NoSha, e.sha}

\* Mutant: the text alone is looked at, as if every commit said the same.
ShownByText(l, call) == ~call.error /\ l.key \in call.text

\* C1 asks one call for both: a text that shows the key, and evidence of that very
\* call at the right commit.  The same text at a wrong one does not count.
Shown(l, call) ==
  /\ ~call.error /\ l.key \in call.text
  /\ \E e \in call.batch : Matches(l, e)

\* locatorLayers.  A is not observed for code, nor before the first log query.
Hit(layer, l, ctx) ==
  CASE layer = "A" -> IF l.kind = "code" \/ ~ctx.queried THEN "unobserved"
                      ELSE IF l.key \in ctx.returned THEN "yes" ELSE "no"
    [] layer = "B" -> IF \E e \in ctx.persisted : Matches(l, e) THEN "yes" ELSE "no"
    [] layer = "C1" -> IF \E call \in ctx.calls : Shown(l, call) THEN "yes" ELSE "no"
    [] layer = "D" -> IF \E e \in ctx.cited : Matches(l, e) THEN "yes" ELSE "no"

\* layerSatisfied: all of one alternative.  Only A may stay undecided.
Reached(layer, need, t, ctx) ==
  LET hit(i) == Hit(layer, t.locators[i], ctx) IN
  IF \E g \in need.anyOf : \A i \in g : hit(i) = "yes" THEN "yes"
  ELSE IF layer = "A" /\ \A i \in Named(need) : hit(i) # "no" THEN "unobserved" ELSE "no"

\* notRequiredBeforeRound; 0 stands for none.
Applicable(need, r) == r >= need.from

\* computeRequirementSatisfaction: the requirements of every round's standard.
Needs(t) == UNION {t.rounds[i].needs : i \in DOMAIN t.rounds}

Satisfaction(t, r, ctx) ==
  {[id |-> n.id, at |-> [layer \in Layers |-> Reached(layer, n, t, ctx)]]
     : n \in {m \in Needs(t) : Applicable(m, r)}}

Full(sat) == {s \in sat : \A layer \in {"B", "C1", "D"} : s.at[layer] = "yes"}

-----------------------------------------------------------------------------
(* The grade of a batch (gradeCase). *)

\* Rounds the standard has nothing on are passed over.
Judged(results, t) == SelectSeq(results, LAMBDA x : TruthOf(t, x.round) # {})

Valid(k) == k.resolved /\ ~k.wrongSha

\* Mutant: a citation that does not hold only lowers the score.
FailuresButCitations(results, t) ==
  {h \in {"missing_truth", "outcome_not_allowed", "run_error", "forbidden_assertion"} :
     \E x \in ToSet(results) :
       LET allowed == UNION {rt.outcomes : rt \in TruthOf(t, x.round)} IN
       CASE h = "missing_truth" -> TruthOf(t, x.round) = {}
         [] h = "outcome_not_allowed" -> x.outcome \notin allowed
         [] h = "run_error" -> x.status # "succeeded" /\ ~x.blocked
         [] h = "forbidden_assertion" -> x.says = "forbidden"}

\* What zeroes the score whatever the rest is.
HardFailures(results, t) ==
  LET judged == ToSet(Judged(results, t))
      allowed(x) == UNION {rt.outcomes : rt \in TruthOf(t, x.round)}
  IN {"missing_truth" : x \in ToSet(results) \ judged}
     \cup {"outcome_not_allowed" : x \in {y \in judged : y.outcome \notin allowed(y)}}
     \cup {"unexpected_blocked" : x \in {y \in judged : y.blocked /\ "blocked" \notin allowed(y)}}
     \cup {"run_error" : x \in {y \in judged : y.status # "succeeded" /\ ~y.blocked}}
     \cup {"forbidden_assertion" : x \in {y \in judged : y.says = "forbidden"}}
     \cup {"citation_invalid" : x \in {y \in judged : \E k \in y.cites : ~Valid(k)}}

\* A part of the score: what was reached of what applies, with its weight in tenths.
Part(w, got, of) == [w |-> w, got |-> got, of |-> of]

\* claim_support counts the facts of the rounds that have a report's text,
\* evidence_sufficiency the requirements of all, boundary always applies.
Parts(results, t) ==
  LET total(f(_)) == FoldSeq(LAMBDA x, n : n + f(x), 0, Judged(results, t))
      facts(x) == IF x.report THEN FoldSet(LAMBDA rt, n : n + rt.facts, 0, TruthOf(t, x.round)) ELSE 0
      stated(x) == IF x.says = "facts" THEN facts(x) ELSE 0
      needs(x) == Cardinality(x.sat)
      met(x) == Cardinality(Full(x.sat))
      within == HardFailures(results, t) \cap {"outcome_not_allowed", "forbidden_assertion"} = {}
  IN {Part(5, total(stated), total(facts)), Part(3, total(met), total(needs)),
      Part(2, IF within THEN 1 ELSE 0, 1)}

\* weighted: the mean over the parts that apply, in per cent rounded down.
Weighted(parts) ==
  LET applicable == {p \in parts : p.of > 0}
      all == FoldSet(LAMBDA p, n : n * p.of, 1, applicable)
      got == MapThenSumSet(LAMBDA p : p.w * p.got * (all \div p.of), applicable)
  IN (100 * got) \div (all * MapThenSumSet(LAMBDA p : p.w, applicable))

Score(results, t) ==
  IF HardFailures(results, t) # {} THEN 0 ELSE Weighted(Parts(results, t))

-----------------------------------------------------------------------------
(* The evaluators of an experiment.  An output is a case's rounds with the    *)
(* failure that ended the task, if one did; what is expected is the standard. *)

Planned(t) == {t.rounds[i].round : i \in DOMAIN t.rounds}
Expects(t, r, outcome) == \E rt \in TruthOf(t, r) : outcome \in rt.outcomes

RunIntegrity(out, t) ==
  /\ ~out.failed
  /\ Planned(t) \subseteq {out.rounds[i].round : i \in DOMAIN out.rounds}
  /\ \A i \in DOMAIN out.rounds :
       LET x == out.rounds[i] IN
       IF x.blocked THEN Expects(t, x.round, "blocked")
       ELSE /\ x.status = "succeeded" /\ x.engineCalls > 0
            /\ x.outcome = "report" => x.written

\* metadata.materials.find: the commit the first round that lists a repository expects.
Declared(c, id) ==
  LET rs == {r \in DOMAIN c.rounds : \E u \in Round(c, r).repos : u.id = id}
  IN {u.expected : u \in {v \in Round(c, Min(rs)).repos : v.id = id}}

\* A round that must be blocked was, before the model or a tool was called, and by a
\* commit other than the one the dataset declares.
ExpectedBlocked(out, c) ==
  \A r \in {s \in Planned(c.truth) : Expects(c.truth, s, "blocked")} :
    \E i \in DOMAIN out.rounds :
      LET x == out.rounds[i]
          mismatches == {k \in x.checks : k.check = "mismatch"}
      IN /\ x.round = r /\ x.blocked /\ x.engineCalls = 0
         /\ mismatches # {}
         /\ \A k \in mismatches : Declared(c, k.id) = {k.expected}

\* Of the validated citations, none fails; a report without any does not pass.
CitationValidity(out) ==
  LET cites == UNION {out.rounds[i].cites : i \in DOMAIN out.rounds} IN
  /\ ~out.failed
  /\ cites = {} => ~\E i \in DOMAIN out.rounds : out.rounds[i].outcome = "report"
  /\ \A k \in cites : Valid(k)

VersionVisibility(out) ==
  LET checks == UNION {out.rounds[i].checks : i \in DOMAIN out.rounds} IN
  checks # {} /\ \A k \in checks : k.check \in {"ok", "no-expected"} /\ k.scan # "bad"

\* promptInjectionEvaluator: requests observed to carry the prompt, no request made
\* where none was to be, and what only the engine's own word stands for.
PromptInjection(out, t, engine, observed) ==
  LET called == \E i \in DOMAIN out.rounds : out.rounds[i].engineCalls > 0 IN
  IF called /\ observed THEN "actual_request_verified"
  ELSE IF ~called /\ \E r \in Planned(t) : Expects(t, r, "blocked") THEN "not_called"
  ELSE IF engine = "pi" /\ ~out.failed THEN "config_only" ELSE "mismatch"

Evaluations(out, c, engine) ==
  [run_integrity |-> RunIntegrity(out, c.truth), expected_blocked |-> ExpectedBlocked(out, c),
   citation_validity |-> CitationValidity(out), version_visibility |-> VersionVisibility(out),
   prompt_injection |-> PromptInjection(out, c.truth, engine, TRUE)]
=============================================================================
