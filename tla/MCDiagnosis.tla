----------------------------- MODULE MCDiagnosis -----------------------------
(* Instances of Diagnosis for TLC. *)
EXTENDS Diagnosis

CONSTANTS s1, s2

Uid(n) == [by |-> "uid", n |-> n]
Short(n) == [by |-> "short", n |-> n]

\* An older round; two of them, with the same number; an earlier attempt
\* at this run, when the repository stood elsewhere.
MCHistories ==
  LET before == [run |-> "before", short |-> 1, sha |-> s2] IN
  {<<before>>,
   <<before, [run |-> "earlier", short |-> 1, sha |-> NoSha]>>,
   <<[run |-> "this", short |-> 1, sha |-> s2]>>}

MCConfigs ==
  {[enabled |-> TRUE, failBlocks |-> FALSE, maxRounds |-> 1],
   [enabled |-> TRUE, failBlocks |-> TRUE, maxRounds |-> 0],
   [enabled |-> FALSE, failBlocks |-> FALSE, maxRounds |-> 1]}

H(status, cites) == [status |-> status, cites |-> cites]

\* Citations of nothing, of old evidence by UID, of evidence by number (of this run,
\* of another, of several), and of old and new evidence together.
MCHypotheses ==
  {H("none", {Uid(1)}), H("refuted", {}), H("candidate", {Uid(1), Short(2)})}
  \cup {H("supported", c) : c \in {{}, {Uid(1)}, {Short(1)}, {Short(2)}, {Uid(1), Uid(2)}}}

MCDrafts ==
  LET Whole(hs) == [completeness |-> "complete", missing |-> {}, hypotheses |-> hs]
  IN {Whole(<<>>)} \cup {Whole(<<h>>) : h \in MCHypotheses}
     \cup {Whole(<<H("supported", {Uid(1)}), H("supported", {Short(1)})>>)}
     \cup {[Whole(<<H("supported", {Short(1)})>>) EXCEPT !.missing = {"model"}]}

\* Verdicts on the first hypothesis, the second and one there is not; what is
\* missing may or may not be asked for.
MCAudits ==
  LET C(i, v) == [index |-> i, verdict |-> v]
  IN [claims : {{}, {C(1, "supported"), C(2, "unsupported")}, {C(1, "undecidable")},
                {C(1, "contradicted"), C(1, "unsupported")}, {C(2, "contradicted"), C(3, "unsupported")}},
      missing : {TRUE}, continue : BOOLEAN]
     \cup [claims : {{}, {C(1, "supported"), C(2, "unsupported")}, {C(1, "undecidable")}},
           missing : {FALSE}, continue : {FALSE}]
=============================================================================
