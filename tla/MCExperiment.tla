---------------------------- MODULE MCExperiment ----------------------------
(* Cases, standards and requests for TLC. *)
EXTENDS Experiment

File(ino, key) ==
  [ino |-> ino, key |-> key, says |-> {}, link |-> "no", answer |-> FALSE, whole |-> TRUE]
Use(expected, resolved) == [id |-> "app", expected |-> expected, resolved |-> resolved]
View(name, files, uses) ==
  [dir |-> <<"public", name>>, present |-> TRUE, listed |-> TRUE, view |-> files, repos |-> uses,
   terse |-> FALSE, accepted |-> TRUE]

\* One repository: commit s2, between the others, has taken up round 2's message.
Repo ==
  [git |-> TRUE, dir |-> <<"repo">>, head |-> "s3",
   trees |-> [s1 |-> {File(11, "bug")}, s2 |-> {[File(12, "bug") EXCEPT !.says = {2}]}, s3 |-> {File(13, "bug")}]]

Log(key) == [kind |-> "log", key |-> key, repo |-> "", sha |-> NoSha]
Code(key, sha) == [kind |-> "code", key |-> key, repo |-> "app", sha |-> sha]
Standard(r, outcomes, facts, needs) == [round |-> r, outcomes |-> outcomes, facts |-> facts, needs |-> needs]
Need(id, from, anyOf) == [id |-> id, from |-> from, anyOf |-> anyOf]
Step(kind, reads) == [kind |-> kind, says |-> "facts", reads |-> reads]

Locators == [symptom |-> Log("down"), cause |-> Log("full"), line |-> Code("bug", "s1")]

\* Two rounds: the symptom, then logs with the cause, or the line of code.
Steady ==
  [rounds |-> <<View("a", {File(1, "down")}, {Use("s1", "s1")}),
                View("b", {File(2, "full")}, {})>>,
   repos |-> [app |-> Repo], private |-> [dir |-> <<"private">>, inodes |-> {9}, link |-> FALSE, listed |-> TRUE],
   split |-> "train", tier |-> "public_simulated", admission |-> "admitted", maxRounds |-> 2,
   scripted |-> FALSE, script |-> <<>>, unchanged |-> TRUE,
   truth |-> [locators |-> Locators,
              rounds |-> <<Standard(1, {"clarify", "report"}, 1, {Need("seen", 0, {{"symptom"}})}),
                           Standard(2, {"report"}, 1, {Need("why", 2, {{"cause"}, {"line"}})})>>]]

One(c) == [c EXCEPT !.rounds = SubSeq(@, 1, 1), !.truth.rounds = SubSeq(@, 1, 1)]

\* The repository stands elsewhere than the first round expects, which is the point.
Drifted ==
  [Steady EXCEPT !.rounds[1].repos = {Use("s1", "s3")}, !.truth.rounds[1].outcomes = {"blocked"},
                 !.rounds[2].view = {}]
Linked == [Steady EXCEPT !.rounds[1].view = {File(2, "full")}]
Answered == [Steady EXCEPT !.rounds[2].view = {File(9, "full")}]
Told == [Steady EXCEPT !.rounds[1].view = {[File(1, "down") EXCEPT !.says = {2}]}]
Nested == [Steady EXCEPT !.rounds[2].dir = <<"public", "a", "b">>]
Unscanned == [One(Steady) EXCEPT !.rounds[1].view = {[File(1, "down") EXCEPT !.whole = FALSE]}]
\* A standard on a round that the case does not have.
Excess == [Steady EXCEPT !.rounds = SubSeq(@, 1, 1)]
Unmatched == [Steady EXCEPT !.truth.rounds = SubSeq(@, 1, 1), !.rounds[1].repos = {}]

Engineering(c) == [c EXCEPT !.split = "engineering", !.tier = "synthetic_engineering"]
\* No commit is expected; by its time the first round is given the one in between.
Middle == Engineering([Steady EXCEPT !.rounds[1].repos = {Use(NoSha, "s2")}, !.rounds[2].repos = {Use(NoSha, "s3")}])
\* Each round stands at a commit of its own, and the same text at both.
Moving ==
  Engineering([Steady EXCEPT !.rounds[1] = View("a", {}, {Use(NoSha, "s3")}),
                             !.rounds[2] = View("b", {}, {Use("s1", "s1")}),
                             !.truth.locators.line = Code("bug", "s1")])
Scripted ==
  Engineering([Steady EXCEPT !.scripted = TRUE, !.script = <<Step("clarify", <<"down">>), Step("report", <<"full">>)>>,
                             !.rounds[1].repos = {Use("s1", "s1")}, !.rounds[2].repos = {Use("s1", "s1")}])
Short == [Scripted EXCEPT !.script = SubSeq(@, 1, 1)]

MCCatalog ==
  [steady |-> Steady, drifted |-> Drifted, linked |-> Linked, answered |-> Answered, told |-> Told,
   nested |-> Nested, unscanned |-> Unscanned, unmatched |-> Unmatched, middle |-> Middle, moving |-> Moving,
   scripted |-> Scripted, short |-> Short, changed |-> [Steady EXCEPT !.unchanged = FALSE],
   candidate |-> [Steady EXCEPT !.admission = "candidate"],
   excess |-> Excess,
   silent |-> [One(Steady) EXCEPT !.rounds[1].accepted = FALSE]]

Batch(cases, repeat, trials, tokens) ==
  [driver |-> "batch", split |-> "train", cases |-> cases, repeat |-> repeat,
   limits |-> IF trials = 0 THEN "monitor" ELSE "enforce", maxTrials |-> trials, maxTokens |-> tokens]
Dataset(cases, budget) ==
  [driver |-> "dataset", cases |-> cases, repeat |-> 1, limits |-> "monitor", budget |-> budget,
   maxCases |-> 2, maxRounds |-> 2]

MCRequests ==
  {Batch(<<"steady">>, 1, 0, 0), Batch(<<"drifted">>, 2, 2, 2), Batch(<<"linked">>, 1, 0, 0),
   Batch(<<"unscanned">>, 1, 0, 0), Batch(<<"told">>, 1, 0, 0), Batch(<<"unmatched", "nested">>, 1, 1, 9),
   Batch(<<"answered">>, 1, 0, 0), Batch(<<"middle">>, 1, 0, 0), Batch(<<"candidate">>, 1, 0, 0),
   Batch(<<"excess">>, 1, 0, 0),
   Dataset(<<"moving">>, TRUE), Dataset(<<"middle">>, TRUE), Dataset(<<"scripted", "changed">>, FALSE),
   Dataset(<<"short", "silent">>, TRUE), Dataset(<<"linked", "told", "steady">>, TRUE), Dataset(<<"unknown">>, TRUE)}
=============================================================================
