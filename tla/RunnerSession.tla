---------------------------- MODULE RunnerSession ---------------------------
(***************************************************************************)
(* One execution of a run in a Runner child process: the Host's side       *)
(* (src/host/runner-executor.ts) with its timers, its heartbeat and the    *)
(* handlers of the child's output and exit, and the child's side           *)
(* (src/entrypoints/runner.ts), which reads control lines from its stdin   *)
(* and writes protocol lines to its stdout.                                *)
(*                                                                         *)
(* The exit event and the last lines of output come in either order, as    *)
(* Node documents.  A line stands for its effect on the execution; what it *)
(* stores besides (entries, evidence, progress) is left out.               *)
(***************************************************************************)
EXTENDS Naturals, Sequences, RunOutcomes

CONSTANT PipeSize    \* bound: lines of output the Host has not read yet

ASSUME RunnerSessionAssumption == PipeSize \in Nat \ {0}

VARIABLES
  row,               \* the run's row: still ours and running, or how it ended
  cancelRequested,   \* runs.cancel_requested
  host,              \* the Host's process
  flags,             \* cancelRequested, leaseLost, timedOut
  resultSeen,
  settled,           \* done() was called: the worker's slot is free
  timer,             \* timeoutTimer, then the two seconds before done()
  exitSeen,          \* the child's exit event was handled
  child,             \* the child's process
  aborted,           \* controller.signal.aborted in the child
  cancelSent,        \* a cancel line is in the child's stdin
  output             \* lines the child wrote and the Host has not read

hostVars == <<host, flags, resultSeen, settled, timer, exitSeen>>
childVars == <<child, aborted, cancelSent, output>>
vars == <<row, cancelRequested, hostVars, childVars>>

\* "stale" is a ready line of another protocol version; "note" any line that is
\* only stored; "noise" no protocol line at all; "aborted" an error line with
\* code "cancelled".
Line == {"ready", "stale", "note", "commit", "noise", "result", "error", "aborted"}
RowState == {"open", "taken", "succeeded", "cancelled"} \cup RunErrorCode

TypeOK ==
  /\ row \in RowState
  /\ cancelRequested \in BOOLEAN
  /\ host \in {"up", "killed", "crashed"}
  /\ flags \subseteq Signal
  /\ resultSeen \in BOOLEAN
  /\ settled \in BOOLEAN
  /\ timer \in {"armed", "grace", "over"}
  /\ exitSeen \in BOOLEAN
  /\ child \in {"starting", "working", "exiting", "dead"}
  /\ aborted \in BOOLEAN
  /\ cancelSent \in BOOLEAN
  /\ output \in Seq(Line)
  /\ Len(output) <= PipeSize

\* The child has been spawned and its task written to its stdin.
Init ==
  /\ row = "open" /\ cancelRequested = FALSE
  /\ host = "up" /\ flags = {}
  /\ resultSeen = FALSE /\ settled = FALSE
  /\ timer = "armed" /\ exitSeen = FALSE
  /\ child = "starting" /\ aborted = FALSE /\ cancelSent = FALSE
  /\ output = <<>>

-----------------------------------------------------------------------------
(* Pieces of the Host's handlers.                                          *)

\* Every settling transaction is fenced: it writes only a row that is ours.
Decide(outcome) == row' = IF row = "open" THEN outcome ELSE row

\* A broken Done that leaves the child alone.
Done_NoKill == settled' = TRUE /\ UNCHANGED <<child, aborted, cancelSent>>

\* done(): timers cleared, SIGKILL, the executor's promise resolved.
Done ==
  /\ settled' = TRUE
  /\ child' = "dead"
  /\ UNCHANGED <<aborted, cancelSent>>

\* sendControl.  Writing to a child that is gone, before its exit event has
\* destroyed the stream, fails with EPIPE in an 'error' event nobody listens
\* to; the try around the write does not see it, and the Host ends.  A child
\* that is only just being killed may still take the line.
Tell(cancel) ==
  \/ /\ child = "dead" /\ ~exitSeen
     /\ host' = "crashed"
     /\ UNCHANGED cancelSent
  \/ /\ cancelSent' = (cancelSent \/ cancel)
     /\ UNCHANGED host

\* A broken ErrorOutcome that looks at the flags in the wrong order.
ErrorOutcome_TimeoutFirst ==
  IF "timed_out" \in flags THEN {"timeout"}
  ELSE IF "cancel_requested" \in flags THEN {"cancelled"}
  ELSE IF "lease_lost" \in flags THEN {"interrupted"}
  ELSE Classified

\* What an error line of the child comes to.
ErrorOutcome ==
  IF "cancel_requested" \in flags THEN {"cancelled"}
  ELSE IF "timed_out" \in flags THEN {"timeout"}
  ELSE IF "lease_lost" \in flags THEN {"interrupted"}
  ELSE Classified

\* What the exit of a child that said nothing comes to.
ExitOutcome ==
  IF "cancel_requested" \in flags THEN "cancelled"
  ELSE IF "timed_out" \in flags THEN "timeout"
  ELSE IF "lease_lost" \in flags THEN "interrupted"
  ELSE "runtime_error"

-----------------------------------------------------------------------------
(* The Host's handlers.                                                    *)

\* Each tick looks at the cancel request and renews the lease, and passes on
\* what it finds as a cancel.
HeartbeatTick ==
  LET found == (IF cancelRequested THEN {"cancel_requested"} ELSE {})
                 \cup (IF row = "open" THEN {} ELSE {"lease_lost"})
  IN
  /\ host = "up" /\ ~settled
  /\ found # {}
  /\ flags' = flags \cup found
  /\ Tell(TRUE)
  /\ UNCHANGED <<row, cancelRequested, resultSeen, settled, timer, exitSeen,
                 child, aborted, output>>

\* A broken TimeLimit that trusts the child to react.
TimeLimit_Trusting ==
  /\ host = "up" /\ ~settled /\ timer = "armed"
  /\ timer' = "over"
  /\ flags' = flags \cup {"timed_out"}
  /\ Tell(TRUE)
  /\ UNCHANGED <<row, cancelRequested, resultSeen, settled, exitSeen,
                 child, aborted, output>>

TimeLimit ==
  /\ host = "up" /\ ~settled /\ timer = "armed"
  /\ timer' = "grace"
  /\ flags' = flags \cup {"timed_out"}
  /\ Tell(TRUE)
  /\ UNCHANGED <<row, cancelRequested, resultSeen, settled, exitSeen,
                 child, aborted, output>>

\* Two seconds later; the run itself is left to the exit event.
GraceEnds ==
  /\ host = "up" /\ timer = "grace"
  /\ timer' = "over"
  /\ Done
  /\ UNCHANGED <<row, cancelRequested, host, flags, resultSeen, exitSeen, output>>

Read(line) ==
  /\ host = "up"
  /\ output # <<>> /\ Head(output) = line
  /\ output' = Tail(output)

ReadReady ==
  /\ Read("ready")
  /\ UNCHANGED <<row, cancelRequested, hostVars, child, aborted, cancelSent>>

\* A child of another version, a report or an error ends the execution; when
\* storing it throws, the run stays as it is, for its lease to run out.
Concludes(line, outcomes) ==
  /\ Read(line)
  /\ resultSeen' = TRUE
  /\ \/ \E o \in outcomes : Decide(o)
     \/ line # "stale" /\ UNCHANGED row
  /\ Done
  /\ UNCHANGED <<cancelRequested, host, flags, timer, exitSeen>>

ReadStale == Concludes("stale", {"runtime_error"})
ReadResult == Concludes("result", {"succeeded"})
ReadError == Concludes("error", ErrorOutcome)
ReadAborted == Concludes("aborted", {"cancelled"})

\* An illegal line ends the execution, and so does one that cannot be stored.
ReadNoise ==
  /\ Read("noise") \/ Read("note")
  /\ IF resultSeen THEN UNCHANGED row ELSE Decide("runtime_error")
  /\ resultSeen' = TRUE
  /\ Done
  /\ UNCHANGED <<cancelRequested, host, flags, timer, exitSeen>>

ReadNote ==
  /\ Read("note")
  /\ UNCHANGED <<row, cancelRequested, hostVars, child, aborted, cancelSent>>

\* commitEvidenceBatch, then its acknowledgement or rejection.
ReadCommit ==
  /\ Read("commit")
  /\ Tell(FALSE)
  /\ UNCHANGED <<row, cancelRequested, flags, resultSeen, settled, timer, exitSeen,
                 child, aborted>>

\* A broken ExitEvent that skips an execution whose slot is free.
ExitEvent_UnlessSettled ==
  /\ host = "up" /\ child = "dead" /\ ~exitSeen
  /\ exitSeen' = TRUE
  /\ IF resultSeen \/ settled THEN UNCHANGED row ELSE Decide(ExitOutcome)
  /\ Done
  /\ UNCHANGED <<cancelRequested, host, flags, resultSeen, timer, output>>

ExitEvent ==
  /\ host = "up" /\ child = "dead" /\ ~exitSeen
  /\ exitSeen' = TRUE
  /\ IF resultSeen THEN UNCHANGED row ELSE Decide(ExitOutcome)
  /\ Done
  /\ UNCHANGED <<cancelRequested, host, flags, resultSeen, timer, output>>

\* The 'error' event instead: the process could not be created.
SpawnFails ==
  /\ host = "up" /\ child = "starting" /\ ~settled
  /\ exitSeen' = TRUE
  /\ Decide("runtime_error")
  /\ Done
  /\ UNCHANGED <<cancelRequested, host, flags, resultSeen, timer, output>>

ReadOutput ==
  \/ ReadReady \/ ReadNote \/ ReadCommit \/ ReadNoise
  \/ ReadStale \/ ReadResult \/ ReadError \/ ReadAborted

HostKilled ==
  /\ host = "up"
  /\ host' = "killed"
  /\ UNCHANGED <<row, cancelRequested, flags, resultSeen, settled, timer, exitSeen,
                 childVars>>

-----------------------------------------------------------------------------
(* The child.                                                              *)

Alive == child \in {"starting", "working", "exiting"}

Write(line) ==
  /\ Len(output) < PipeSize
  /\ output' = Append(output, line)

ChildStarts ==
  /\ child = "starting"
  /\ Write("ready") \/ Write("stale")
  /\ child' = "working"
  /\ UNCHANGED <<row, cancelRequested, hostVars, aborted, cancelSent>>

ChildWorks ==
  /\ child = "working"
  /\ \E line \in {"note", "commit", "noise"} : Write(line)
  /\ UNCHANGED <<row, cancelRequested, hostVars, child, aborted, cancelSent>>

CancelArrives ==
  /\ cancelSent /\ ~aborted
  /\ child \in {"starting", "working"}
  /\ aborted' = TRUE
  /\ UNCHANGED <<row, cancelRequested, hostVars, child, cancelSent, output>>

\* The Host is gone: the child's stdin closes and it aborts its own execution.
StdinCloses ==
  /\ host # "up" /\ Alive /\ ~aborted
  /\ aborted' = TRUE
  /\ UNCHANGED <<row, cancelRequested, hostVars, child, cancelSent, output>>

\* The final line, which an abort may overtake or turn into a cancellation.  A
\* task that cannot be read, or of another version, leads to an error at once.
ChildFinishes ==
  /\ \/ child = "starting" /\ Write("error")
     \/ child = "working" /\ Write("result")
     \/ child = "working" /\ Write(IF aborted THEN "aborted" ELSE "error")
     \/ child = "working" /\ host # "up" /\ UNCHANGED output
  /\ child' = "exiting"
  /\ UNCHANGED <<row, cancelRequested, hostVars, aborted, cancelSent>>

\* process.exit once the final line is written, or a death at any time.
ChildDies ==
  /\ Alive
  /\ child' = "dead"
  /\ UNCHANGED <<row, cancelRequested, hostVars, aborted, cancelSent, output>>

-----------------------------------------------------------------------------
(* The rest of the system.                                                 *)

\* The Web API sets the flag of the run.
UserCancels ==
  /\ ~cancelRequested
  /\ cancelRequested' = TRUE
  /\ UNCHANGED <<row, hostVars, childVars>>

\* The lease runs out and another worker recovers the run.
Recovered ==
  /\ row = "open"
  /\ row' = "taken"
  /\ UNCHANGED <<cancelRequested, hostVars, childVars>>

-----------------------------------------------------------------------------
Next ==
  \/ HeartbeatTick \/ TimeLimit \/ GraceEnds
  \/ ReadOutput \/ ExitEvent \/ SpawnFails \/ HostKilled
  \/ ChildStarts \/ ChildWorks \/ ChildFinishes \/ ChildDies
  \/ CancelArrives \/ StdinCloses
  \/ UserCancels \/ Recovered

Spec == Init /\ [][Next]_vars

\* Timers fire, events are handled, a child that finished exits, and one that
\* was aborted stops.  Otherwise the engine in the child may hang for ever.
\* Output is sure to be read only until the slot is free: after that each chunk
\* is cut short after one line.  A lease nobody renews runs out.
Fairness ==
  /\ WF_vars(TimeLimit) /\ WF_vars(GraceEnds) /\ WF_vars(ExitEvent)
  /\ WF_vars(~settled /\ ReadOutput)
  /\ WF_vars(StdinCloses)
  /\ WF_vars(aborted /\ host # "up" /\ ChildFinishes)
  /\ WF_vars(child = "exiting" /\ ChildDies)
  /\ WF_vars((settled \/ host # "up") /\ Recovered)

FairSpec == Spec /\ Fairness

-----------------------------------------------------------------------------
(* Properties.                                                             *)

Promise == INSTANCE Attempt WITH fate <- row, raised <- flags

\* However exit, output, timers, cancels and the loss of the lease interleave,
\* the execution ends once and in a way its signals justify: in particular a
\* cancel the Host has seen is never turned into a retry.
ImplementsAttempt == Promise!AttemptSpec

\* A slot is never freed with the run undecided and nobody left to decide it:
\* the exit event is still to come, or a conclusion could not be stored.
NotForgotten ==
  settled /\ row = "open" /\ host = "up" => resultSeen \/ ~exitSeen

\* Every execution ends, although the engine may hang and ignore its abort, the
\* child or the Host may die, and what the child said may never be stored.
ExecutionSettles == row = "open" ~> row # "open"

\* No child outlives its execution, nor for long a Host that died.
NoOrphan == (settled \/ host # "up") ~> child = "dead"

-----------------------------------------------------------------------------
(* What these rest on, kept by every step.                                 *)

SaysAborted == \E i \in 1 .. Len(output) : output[i] = "aborted"

\* A child is aborted, or about to be, only once a signal was raised.
AbortIsSignalled ==
  aborted \/ cancelSent \/ SaysAborted => flags # {} \/ host # "up"

\* The inductive invariant: an undecided run still has somebody to decide it,
\* and a child's "cancelled" answers a cancel of the Host.
SessionInvariant ==
  /\ TypeOK
  /\ NotForgotten
  /\ exitSeen => settled
  /\ AbortIsSignalled
=============================================================================
