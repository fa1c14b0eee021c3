--------------------------- MODULE EvidenceCommit ---------------------------
(***************************************************************************)
(* The evidence and the session log of one investigation, as successive    *)
(* executors write them: a Runner commits each tool result as a batch      *)
(* through the Host and may send it again (src/evidence/ipc-sink.ts), the  *)
(* Host numbers and stores it (Store.commitEvidenceBatch) and stores the   *)
(* session entries (Store.appendSessionEntry), and the next executor       *)
(* completes what a dead one left (src/agent/session-recovery.ts).         *)
(*                                                                         *)
(* A tool call makes one batch, so both have one number, the call's.  The  *)
(* engine of pi hands its entries over when it ends.  An inline executor   *)
(* is one whose Host reads every line at once and always answers.          *)
(***************************************************************************)
EXTENDS SequencesExt, Ordering

CONSTANTS
  MaxClaims,         \* bound: executions of the investigation's runs
  MaxCalls,          \* bound: tool calls of the model
  MaxSends,          \* EVIDENCE_COMMIT_MAX_ATTEMPTS
  MaxSupplements,    \* config.diagnosis.audit.maxRounds
  Items(_)           \* how many items the batch of a call has

Claims == 1 .. MaxClaims
Calls == 1 .. MaxCalls

ASSUME EvidenceCommitAssumption ==
  /\ MaxClaims \in Nat \ {0} /\ MaxCalls \in Nat \ {0} /\ MaxSends \in Nat \ {0}
  /\ MaxSupplements \in Nat
  /\ \A c \in Calls : Items(c) \in Nat

VARIABLES
  runOf,             \* the claims so far: the run each one was a claim of
  owner,             \* the claim that holds its run, 0 for none
  batches,           \* evidence_batches: calls whose batch is saved
  evidence,          \* rows of evidence: the item and its number
  log,               \* session_entries in order of seq
  phase,             \* of each executor
  turn,              \* engine runs it has finished before this one
  prior,             \* its sink's priorEntries
  saved,             \* its sink's savedToolResults
  seed,              \* what its engine started from
  fresh,             \* what its engine added and has not handed over
  pipe,              \* lines of its child the Host has not read
  answers,           \* answers of the Host not read by the child
  issuer,            \* the tool calls so far: the claim each one was made in
  call,              \* state of each tool call
  sends              \* how often its batch was sent, while it waits

storeVars == <<runOf, owner, batches, evidence, log>>
engineVars == <<phase, turn, prior, saved, seed, fresh>>
linkVars == <<pipe, answers>>
callVars == <<issuer, call, sends>>
vars == <<storeVars, engineVars, linkVars, callVars>>

\* A line of the child.  The text of a result tells a real one ("shown",
\* "failed") from one that recovery put in ("saved", "unknown"); "by" is the
\* claim and turn that made it, which makes it unique.
LineOf(kind, c, text, by) == [kind |-> kind, call |-> c, text |-> text, by |-> by]

Entry ==
  [kind : {"user", "call", "result"}, call : 0 .. MaxCalls,
   text : {"", "shown", "failed", "saved", "unknown"},
   by : Claims \X (0 .. MaxSupplements)]
Message ==
  Entry \cup [kind : {"commit"}, call : Calls, text : {""},
              by : Claims \X (0 .. MaxSupplements)]
Answer == [call : Calls, verdict : {"ack", "lease_lost"}]
Row == [number : Nat, call : Calls, item : Nat]

TypeOK ==
  /\ runOf \in Seq(Nat) /\ Len(runOf) <= MaxClaims
  /\ owner \in 0 .. Len(runOf)
  /\ batches \subseteq Calls
  /\ evidence \subseteq Row
  /\ log \in Seq(Entry)
  /\ phase \in [Claims -> {"none", "prepared", "engine", "gone"}]
  /\ turn \in [Claims -> 0 .. MaxSupplements]
  /\ prior \in [Claims -> Seq(Entry)]
  /\ saved \in [Claims -> SUBSET Calls]
  /\ seed \in [Claims -> Seq(Entry)]
  /\ fresh \in [Claims -> Seq(Entry)]
  /\ pipe \in [Claims -> Seq(Message)]
  /\ answers \subseteq Answer
  /\ issuer \in Seq(Claims) /\ Len(issuer) <= MaxCalls
  /\ call \in [Calls -> {"none", "waiting", "backoff", "shown", "failed"}]
  /\ sends \in [Calls -> 0 .. MaxSends]

Init ==
  /\ runOf = <<>> /\ owner = 0
  /\ batches = {} /\ evidence = {} /\ log = <<>>
  /\ phase = [k \in Claims |-> "none"]
  /\ turn = [k \in Claims |-> 0]
  /\ prior = [k \in Claims |-> <<>>]
  /\ saved = [k \in Claims |-> {}]
  /\ seed = [k \in Claims |-> <<>>]
  /\ fresh = [k \in Claims |-> <<>>]
  /\ pipe = [k \in Claims |-> <<>>]
  /\ answers = {}
  /\ issuer = <<>>
  /\ call = [c \in Calls |-> "none"]
  /\ sends = [c \in Calls |-> 0]

-----------------------------------------------------------------------------
(* Reading a session.                                                      *)

Answered(entries, c) ==
  \E e \in ToSet(entries) : e.kind = "result" /\ e.call = c

\* pendingToolCallIds: calls without a result, in order.
Pending(entries) ==
  LET open == InOrder({i \in DOMAIN entries :
                 entries[i].kind = "call" /\ ~Answered(entries, entries[i].call)})
  IN [n \in DOMAIN open |-> entries[open[n]]]

\* The results reconcileSession adds: the saved one, or "outcome unknown".
Missing(entries, known, by) ==
  LET open == Pending(entries)
  IN [i \in 1 .. Len(open) |->
        LineOf("result", open[i].call,
             IF open[i].call \in known THEN "saved" ELSE "unknown", by)]

\* A broken SavedResults that looks for batches of the new attempt.
SavedResults_ByAttempt(entries, run) ==
  {e.call : e \in {p \in ToSet(Pending(entries)) :
                     p.call \in batches /\ issuer[p.call] > Len(runOf)}}

\* buildSavedToolResults: pending calls whose batch this run has saved.
SavedResults(entries, run) ==
  {e.call : e \in {p \in ToSet(Pending(entries)) :
                     p.call \in batches /\ runOf[issuer[p.call]] = run}}

-----------------------------------------------------------------------------
(* Claims.                                                                 *)

\* An executor claims a run and prepares its child: it reads the log, and appends
\* the question unless the run has entries already.
ClaimRun(run) ==
  LET k == Len(runOf) + 1
      resumed == \E e \in ToSet(log) : runOf[e.by[1]] = run
      question == IF resumed THEN <<>> ELSE <<LineOf("user", 0, "", <<k, 0>>)>>
  IN
  /\ owner = 0 /\ k \in Claims
  /\ runOf' = Append(runOf, run)
  /\ owner' = k
  /\ phase' = [phase EXCEPT ![k] = "prepared"]
  /\ saved' = [saved EXCEPT ![k] = SavedResults(log, run)]
  /\ prior' = [prior EXCEPT ![k] = log \o question]
  /\ pipe' = [pipe EXCEPT ![k] = question]
  /\ UNCHANGED <<batches, evidence, log, turn, seed, fresh, answers, callVars>>

\* The run of the last claim is back in the queue, or it is settled and the next
\* one is claimed.
Claim ==
  IF runOf = <<>> THEN ClaimRun(1)
  ELSE ClaimRun(Last(runOf)) \/ ClaimRun(Last(runOf) + 1)

\* The run leaves its executor: it is settled or goes back to the queue, with the
\* result of the child, without it, or because the lease ran out.
Released ==
  /\ owner # 0
  /\ owner' = 0
  /\ UNCHANGED <<runOf, batches, evidence, log, engineVars, linkVars, callVars>>

-----------------------------------------------------------------------------
(* The engine.                                                             *)

\* It completes the session it was given and hands over what it completed it with.
\* (It hands over the rest too, which the store has or is about to have.)
EngineStarts(k) ==
  LET missing == Missing(prior[k], saved[k], <<k, turn[k]>>)
  IN
  /\ phase[k] = "prepared"
  /\ phase' = [phase EXCEPT ![k] = "engine"]
  /\ seed' = [seed EXCEPT ![k] = prior[k] \o missing]
  /\ pipe' = [pipe EXCEPT ![k] = @ \o missing]
  /\ UNCHANGED <<storeVars, turn, prior, saved, fresh, answers, callVars>>

InFlight(k) ==
  {c \in Calls : call[c] \in {"waiting", "backoff"} /\ issuer[c] = k}

\* The end of a tool call: its result enters the session of the engine.
Ends(c, text) ==
  LET k == issuer'[c] IN
  /\ call' = [call EXCEPT ![c] = text]
  /\ sends' = [sends EXCEPT ![c] = 0]
  /\ fresh' = [fresh EXCEPT ![k] = Append(@, LineOf("result", c, text, <<k, turn[k]>>))]

Send(k, c) ==
  pipe' = [pipe EXCEPT ![k] = Append(@, LineOf("commit", c, "", <<k, turn[k]>>))]

\* A tool has read its source and commits what it found.
ToolCalled(k) ==
  LET c == Len(issuer) + 1
      made == Append(fresh[k], LineOf("call", c, "", <<k, turn[k]>>))
  IN
  /\ phase[k] = "engine" /\ c \in Calls
  /\ issuer' = Append(issuer, k)
  /\ fresh' = [fresh EXCEPT ![k] = made]
  /\ call' = [call EXCEPT ![c] = "waiting"]
  /\ sends' = [sends EXCEPT ![c] = 1]
  /\ Send(k, c)
  /\ UNCHANGED <<storeVars, phase, turn, prior, saved, seed, answers>>

\* A timeout or an "internal": the batch is sent again after a pause, unless it was
\* sent often enough or an abort has come.
AckTimeout(c) ==
  /\ call[c] = "waiting"
  /\ UNCHANGED issuer
  /\ \/ /\ sends[c] < MaxSends
        /\ call' = [call EXCEPT ![c] = "backoff"]
        /\ UNCHANGED <<fresh, sends>>
     \/ Ends(c, "failed")
  /\ UNCHANGED <<storeVars, phase, turn, prior, saved, seed, linkVars>>

\* The same batch once more, after a pause that an abort cuts short.
Resend(c) ==
  /\ call[c] = "backoff"
  /\ call' = [call EXCEPT ![c] = "waiting"]
  /\ sends' = [sends EXCEPT ![c] = @ + 1]
  /\ Send(issuer[c], c)
  /\ UNCHANGED <<storeVars, engineVars, answers, issuer>>

GiveUp(c) ==
  /\ call[c] = "backoff"
  /\ UNCHANGED issuer
  /\ Ends(c, "failed")
  /\ UNCHANGED <<storeVars, phase, turn, prior, saved, seed, linkVars>>

\* handleControl: an answer nobody waits for is dropped.
ReadAnswer(answer) ==
  /\ answer \in answers /\ phase[issuer[answer.call]] = "engine"
  /\ answers' = answers \ {answer}
  /\ UNCHANGED issuer
  /\ IF call[answer.call] = "waiting"
     THEN Ends(answer.call, IF answer.verdict = "ack" THEN "shown" ELSE "failed")
     ELSE UNCHANGED <<call, fresh, sends>>
  /\ UNCHANGED <<storeVars, phase, turn, prior, saved, seed, pipe>>

\* The child is gone, and what it knew with it: it has finished and handed over
\* its entries, or it died.  Its lines wait for the Host, which dies by reading no
\* more of them.
Leaves(k) ==
  /\ phase' = [phase EXCEPT ![k] = "gone"]
  /\ prior' = [prior EXCEPT ![k] = <<>>]
  /\ saved' = [saved EXCEPT ![k] = {}]
  /\ seed' = [seed EXCEPT ![k] = <<>>]
  /\ fresh' = [fresh EXCEPT ![k] = <<>>]
  /\ answers' = {a \in answers : issuer[a.call] # k}
  /\ turn' = [turn EXCEPT ![k] = 0]
  /\ UNCHANGED <<storeVars, issuer>>

\* The engine ends and hands over what it added.  Then the audit asks for a
\* supplement, whose engine starts from the sink's entries once more (shouldSupplement: while a
\* tool call is left, here one of the instance) ...
Supplement(k) ==
  LET demand == LineOf("user", 0, "", <<k, turn[k] + 1>>)
  IN
  /\ phase[k] = "engine" /\ InFlight(k) = {}
  /\ turn[k] < MaxSupplements /\ Len(issuer) < MaxCalls
  /\ turn' = [turn EXCEPT ![k] = @ + 1]
  /\ phase' = [phase EXCEPT ![k] = "prepared"]
  /\ prior' = [prior EXCEPT ![k] = Append(@, demand)]
  /\ pipe' = [pipe EXCEPT ![k] = @ \o Append(fresh[k], demand)]
  /\ fresh' = [fresh EXCEPT ![k] = <<>>]
  /\ UNCHANGED <<storeVars, saved, seed, answers, callVars>>

\* ... or the execution is over.
Finish(k) ==
  /\ phase[k] = "engine" /\ InFlight(k) = {}
  /\ pipe' = [pipe EXCEPT ![k] = @ \o fresh[k]]
  /\ Leaves(k)
  /\ UNCHANGED <<call, sends>>

Dies(k) ==
  /\ phase[k] \in {"prepared", "engine"}
  /\ call' = [c \in Calls |-> IF c \in InFlight(k) THEN "failed" ELSE call[c]]
  /\ sends' = [c \in Calls |-> IF c \in InFlight(k) THEN 0 ELSE sends[c]]
  /\ Leaves(k)
  /\ UNCHANGED pipe

-----------------------------------------------------------------------------
(* The Host.                                                               *)

HighestNumber == Max({0} \cup {e.number : e \in evidence})

\* commitEvidenceBatch behind its guard: a batch that is there stays as it is.
SaveBatch(c) ==
  IF c \in batches
  THEN UNCHANGED <<batches, evidence>>
  ELSE
  /\ batches' = batches \cup {c}
  /\ evidence' = evidence \cup
       {[number |-> HighestNumber + i, call |-> c, item |-> i] : i \in 1 .. Items(c)}

\* A broken StoreEntry that takes entries of a superseded executor.
StoreEntry_Unfenced(k, line) == log' = Append(log, line)

\* appendSessionEntry; every line but those left out above is new to the store.
StoreEntry(k, line) == log' = IF owner = k THEN Append(log, line) ELSE log

ReadEntry(k) ==
  /\ pipe[k] # <<>> /\ Head(pipe[k]).kind # "commit"
  /\ pipe' = [pipe EXCEPT ![k] = Tail(@)]
  /\ StoreEntry(k, Head(pipe[k]))
  /\ UNCHANGED <<runOf, owner, batches, evidence, engineVars, answers, callVars>>

\* The answer is lost on a child that is gone.
Reply(k, c, verdict) ==
  answers' = IF phase[k] = "gone" THEN answers
             ELSE answers \cup {[call |-> c, verdict |-> verdict]}

\* A broken ReadCommit without the guard on the generation.
ReadCommit_Unfenced(k) ==
  LET c == Head(pipe[k]).call IN
  /\ pipe[k] # <<>> /\ Head(pipe[k]).kind = "commit"
  /\ pipe' = [pipe EXCEPT ![k] = Tail(@)]
  /\ SaveBatch(c) /\ Reply(k, c, "ack")
  /\ UNCHANGED <<runOf, owner, log, engineVars, callVars>>

\* The database may fail: its answer, "internal", is to the sink a timeout that
\* comes early.
ReadCommit(k) ==
  LET c == Head(pipe[k]).call IN
  /\ pipe[k] # <<>> /\ Head(pipe[k]).kind = "commit"
  /\ pipe' = [pipe EXCEPT ![k] = Tail(@)]
  /\ \/ owner = k /\ SaveBatch(c) /\ Reply(k, c, "ack")
     \/ owner # k /\ UNCHANGED <<batches, evidence>> /\ Reply(k, c, "lease_lost")
     \/ UNCHANGED <<batches, evidence, answers>>
  /\ UNCHANGED <<runOf, owner, log, engineVars, callVars>>

-----------------------------------------------------------------------------
Next ==
  \/ Claim \/ Released
  \/ \E k \in Claims :
       \/ EngineStarts(k) \/ ToolCalled(k)
       \/ Supplement(k) \/ Finish(k) \/ Dies(k)
       \/ ReadEntry(k) \/ ReadCommit(k)
  \/ \E c \in Calls : AckTimeout(c) \/ Resend(c) \/ GiveUp(c)
  \/ \E answer \in answers : ReadAnswer(answer)

Spec == Init /\ [][Next]_vars

-----------------------------------------------------------------------------
(* Properties.                                                             *)

\* A number stands for one item and an item has one number, however often its
\* batch was sent; the numbers have no gaps, and a batch lies in one piece.
NumberedOnce ==
  /\ \A e, f \in evidence :
       e.number = f.number \/ (e.call = f.call /\ e.item = f.item) => e = f
  /\ {e.number : e \in evidence} = 1 .. HighestNumber
  /\ \A e, f \in evidence :
       e.call = f.call /\ e.item < f.item => f.number - e.number = f.item - e.item

\* Numbers follow the executions: what a superseded executor found is never
\* numbered behind what its successor found, under a report that cites by number.
NumbersFollowExecutions ==
  \A e, f \in evidence :
    issuer[e.call] < issuer[f.call] => e.number < f.number

\* What the model was shown, by its tools or by recovery, is saved: it never
\* argues from material that a reader of its report could not look up.
ShownIsSaved ==
  /\ \A c \in Calls : call[c] = "shown" => c \in batches
  /\ \A k \in Claims : \A e \in ToSet(seed[k]) :
       e.text \in {"shown", "saved"} => e.call \in batches

\* Recovery tells the model "outcome unknown" of a call of its own run only if
\* nothing was saved, and nothing is saved behind its back: a commit is read before
\* the log has its call.
UnknownIsUnsaved ==
  \A k \in Claims : \A e \in ToSet(log) \cup ToSet(seed[k]) :
    e.text = "unknown" /\ runOf[issuer[e.call]] = runOf[e.by[1]]
      => e.call \notin batches

\* A call whose real result is in the log has no other: recovery never repeats
\* or contradicts what the tool returned.
AnsweredOnce ==
  \A e, f \in ToSet(log) :
    e.kind = "result" /\ f.kind = "result" /\ e.call = f.call
      /\ e.text \in {"shown", "failed"} => e = f

\* Evidence is counted once and in the order of the executions that found it.
EvidenceInvariant ==
  TypeOK /\ NumberedOnce /\ NumbersFollowExecutions

\* What the model is told of its calls is so: what it is shown is saved, and what is
\* called unknown is not.
ToldTheTruth ==
  ShownIsSaved /\ UnknownIsUnsaved
=============================================================================
