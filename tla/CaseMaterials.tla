--------------------------- MODULE CaseMaterials ---------------------------
(***************************************************************************)
(* The frozen material of an evaluation case (src/eval/lf/internals): its  *)
(* public rounds with the directory of logs and the repositories each may  *)
(* read, the private standard it is graded by, and the checks a case must  *)
(* pass before anything of it is read: the schema and the isolation of     *)
(* later rounds and answers from the rounds before.                        *)
(*                                                                         *)
(* A file is known by its inode, by the rounds whose message it contains   *)
(* and by what a locator may look for in it; a directory by its real path. *)
(***************************************************************************)
EXTENDS SequencesExt

CONSTANTS
  NoSha,             \* no commit: none expected, none resolved
  NotInScope         \* the executor's scope lacks the repository

ASSUME NoShaAssumption == NoSha # NotInScope

\* CaseSplit, SourceTier, Admission.
Splits == {"development", "train", "validation", "holdout", "engineering"}
Tiers == {"synthetic_engineering", "public_simulated", "reproduced_history",
          "verified_snapshot", "from_issue_only"}
Admissions == {"candidate", "qualified", "admitted", "deferred"}

Files == [ino : Nat, key : STRING, says : SUBSET Nat, link : {"no", "inside", "outside"},
          answer : BOOLEAN, whole : BOOLEAN]

\* A step of a scripted engine: what it reads and what it then says.
Kinds == {"report", "clarify", "chat"}
Steps == [kind : Kinds, says : {"nothing", "facts", "forbidden"}, reads : Seq(STRING)]

Round(c, r) == c.rounds[r]
Later(c, r) == {s \in DOMAIN c.rounds : s > r}

\* What the files of a case hold, be it well made or not: rounds and steps in order,
\* directories and trees that have an end, and repositories that are somewhere.
Material(c) ==
  /\ c.rounds \in Seq(ToSet(c.rounds)) /\ c.script \in Seq(Steps)
  /\ \A r \in DOMAIN c.rounds :
       /\ Round(c, r).view \subseteq Files /\ IsFiniteSet(Round(c, r).view)
       /\ \A u \in Round(c, r).repos : u.id \in DOMAIN c.repos
  /\ \A id \in DOMAIN c.repos : \A sha \in DOMAIN c.repos[id].trees :
       c.repos[id].trees[sha] \subseteq Files /\ IsFiniteSet(c.repos[id].trees[sha])

-----------------------------------------------------------------------------
(* The schema. *)

\* validateCaseDescriptor: what a run may rely on of a case.json.
ValidCase(c) ==
  /\ c.split \in Splits /\ c.tier \in Tiers /\ c.admission \in Admissions
  /\ c.maxRounds \in 1 .. 10 /\ Len(c.rounds) \in 1 .. c.maxRounds
  /\ \A r \in DOMAIN c.rounds :
       /\ Round(c, r).present
       /\ Round(c, r).repos = {} => c.tier \in {"reproduced_history", "public_simulated"}
       /\ c.split # "engineering" => \A u \in Round(c, r).repos : u.expected # NoSha
  /\ c.scripted => c.split = "engineering"
  /\ c.split = "engineering" => c.tier = "synthetic_engineering"

\* validateCaseDescriptor with requireAdmitted, as every run asks for it.
Admitted(c) == ValidCase(c) /\ (c.split = "engineering" \/ c.admission = "admitted")

\* The locators of a requirement, over all its alternatives.
Named(need) == UNION need.anyOf

\* validateTruth: rounds are told apart, allow something, and name only locators that
\* are defined; every alternative asks for something.
ValidTruth(t) ==
  /\ Len(t.rounds) > 0
  /\ \A i, j \in DOMAIN t.rounds : t.rounds[i].round = t.rounds[j].round => i = j
  /\ \A i \in DOMAIN t.rounds :
       /\ t.rounds[i].outcomes # {} /\ t.rounds[i].outcomes \subseteq {"report", "clarify", "blocked"}
       /\ \A n, m \in t.rounds[i].needs : n.id = m.id => n = m
       /\ \A n \in t.rounds[i].needs :
            n.anyOf # {} /\ {} \notin n.anyOf /\ Named(n) \subseteq DOMAIN t.locators

\* truth.rounds.find: the standard of round r, at most one.
TruthOf(t, r) == {t.rounds[i] : i \in {j \in DOMAIN t.rounds : t.rounds[j].round = r}}

\* validatePairing, which the seeding of a dataset calls and a run does not.
Paired(c) == {c.truth.rounds[i].round : i \in DOMAIN c.truth.rounds} = DOMAIN c.rounds

-----------------------------------------------------------------------------
(* Isolation, before the case runs (checkIsolation). *)

\* leakHit: a message of less than 12 characters is not looked for.
Leaks(f, c, r) == \E s \in f.says \cap Later(c, r) : ~Round(c, s).terse

\* The commits checkIsolation reads of a repository: the expected one and HEAD.
Refs(c, u) == {c.repos[u.id].head} \cup ({u.expected} \ {NoSha})

Readable(c, id, sha) == sha \in DOMAIN c.repos[id].trees

\* repoTextFiles of those commits.
PinnedFiles(c, r) ==
  UNION {UNION {c.repos[u.id].trees[sha] : sha \in {s \in Refs(c, u) : Readable(c, u.id, s)}}
           : u \in {v \in Round(c, r).repos : c.repos[v.id].git}}

Scanned(c, r) == Round(c, r).view \cup PinnedFiles(c, r)

\* A later round's directory must be neither that of an earlier one, nor inside it,
\* nor around it; the private one in none that a tool reads.
PathOverlap(c) ==
  \/ \E i, j \in DOMAIN c.rounds : i < j /\ \/ IsPrefix(Round(c, i).dir, Round(c, j).dir)
                                            \/ IsPrefix(Round(c, j).dir, Round(c, i).dir)
  \/ \E r \in DOMAIN c.rounds : IsPrefix(Round(c, r).dir, c.private.dir)
  \/ \E r \in DOMAIN c.rounds : \E u \in Round(c, r).repos : IsPrefix(c.repos[u.id].dir, c.private.dir)

LinkEscape(c) == \E r \in DOMAIN c.rounds : \E f \in Round(c, r).view : f.link = "outside"

AnswerFilename(c) == \E r \in DOMAIN c.rounds : \E f \in Scanned(c, r) : f.answer

RepoNotPinned(c) ==
  \E r \in DOMAIN c.rounds : \E u \in Round(c, r).repos :
    ~c.repos[u.id].git \/ \E sha \in Refs(c, u) : ~Readable(c, u.id, sha)

PrivateLink(c) == c.private.link

\* One inode under two names: no path rule finds it when the case runs.
HardlinkEscape(c) ==
  \/ \E r \in DOMAIN c.rounds : \E f \in Round(c, r).view : f.ino \in c.private.inodes
  \/ \E i, j \in DOMAIN c.rounds :
       i < j /\ \E f \in Round(c, i).view, g \in Round(c, j).view : f.ino = g.ino

FutureMessageLeak(c) ==
  \E r \in DOMAIN c.rounds : \E f \in Scanned(c, r) : f.whole /\ Leaks(f, c, r)

\* Whatever was not read, being too large, too many or refused, is a violation.
IncompleteScan(c) ==
  \/ \E r \in DOMAIN c.rounds : ~Round(c, r).listed \/ \E f \in Scanned(c, r) : ~f.whole
  \/ ~c.private.listed
  \/ RepoNotPinned(c)

Isolated(c) ==
  ~ \/ PathOverlap(c) \/ LinkEscape(c) \/ AnswerFilename(c) \/ RepoNotPinned(c)
    \/ PrivateLink(c) \/ HardlinkEscape(c) \/ FutureMessageLeak(c) \/ IncompleteScan(c)

\* scanResolvedTreeForIsolation: the commit the executor has pinned may be neither
\* the expected one nor HEAD, so its tree is read before the engine may.
ResolvedScanOk(c, r, id, sha) ==
  /\ Readable(c, id, sha)
  /\ \A f \in c.repos[id].trees[sha] : f.whole /\ ~f.answer /\ ~Leaks(f, c, r)

\* The comparison of onPrepared between the repositories a round declares and those
\* in the executor's scope.
CheckOf(u) ==
  IF u.resolved = NotInScope THEN "missing-in-scope"
  ELSE IF u.resolved = NoSha THEN "unresolved"
  ELSE IF u.expected = NoSha THEN "no-expected"
  ELSE IF u.expected = u.resolved THEN "ok" ELSE "mismatch"

\* The record of one comparison; the tree is scanned where the comparison passes.
ScopeCheck(c, r, u) ==
  LET passes == CheckOf(u) \in {"ok", "no-expected"} IN
  [id |-> u.id, expected |-> u.expected, resolved |-> u.resolved, check |-> CheckOf(u),
   scan |-> IF passes THEN IF ResolvedScanOk(c, r, u.id, u.resolved) THEN "ok" ELSE "bad" ELSE "none"]

ScopeChecks(c, r) == {ScopeCheck(c, r, u) : u \in Round(c, r).repos}

\* Mutant: the engine starts on the comparison alone, the scan being only recorded.
PassedUnscanned(checks) == \A k \in checks : k.check \in {"ok", "no-expected"}

\* No comparison failed and no scan did: the engine may start.
Passed(checks) == \A k \in checks : k.check \in {"ok", "no-expected"} /\ k.scan = "ok"

-----------------------------------------------------------------------------
(* Loading a case (loadLoadedCase).  Private resources are read only of a case *)
(* that is isolated.                                                          *)
Loaded(c) ==
  CASE ~Admitted(c) \/ ~ValidTruth(c.truth) -> "refused"
    [] Admitted(c) /\ ValidTruth(c.truth) /\ ~Isolated(c) -> "leaks"
    [] Admitted(c) /\ ValidTruth(c.truth) /\ Isolated(c) /\ c.scripted
         /\ Len(c.script) < Len(c.rounds) -> "short"
    [] OTHER -> "ok"
=============================================================================
