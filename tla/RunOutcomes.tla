----------------------------- MODULE RunOutcomes -----------------------------
(***************************************************************************)
(* How an execution of a run may end, given the signals its executor has   *)
(* raised.  Shared by the run queue, which settles the run, and by the     *)
(* supervision of a Runner process, which decides how.                     *)
(***************************************************************************)

RunErrorCode == {"interrupted", "timeout", "provider_unavailable",
                 "rate_limited", "budget_iterations", "budget_tools",
                 "cancelled", "invalid_input", "auth", "runtime_error"}

\* The flags cancelRequested, leaseLost and timedOut of both executors.
Signal == {"cancel_requested", "lease_lost", "timed_out"}

\* What classifyRunError makes of an engine's error message.
Classified == {"interrupted", "auth", "rate_limited", "runtime_error"}

\* The codes the inline executor calls failRun with.  Exhausting the tool
\* budget is reported whatever the flags say.
InlineFailures(raised) ==
  {"budget_tools"} \cup
  (IF "cancel_requested" \in raised THEN {}
   ELSE IF "lease_lost" \in raised THEN {"interrupted"}
   ELSE IF "timed_out" \in raised THEN {"timeout"}
   ELSE Classified)

\* Those of the executor that supervises a Runner.  An illegal protocol line is
\* reported whatever the flags say.
ProcessFailures(raised) ==
  {"runtime_error"} \cup
  (IF "cancel_requested" \in raised THEN {}
   ELSE IF "timed_out" \in raised THEN {"timeout"}
   ELSE IF "lease_lost" \in raised THEN {"interrupted"}
   ELSE Classified)

\* The inline executor cancels when its heartbeat saw the request.
InlineCancels(raised) == "cancel_requested" \in raised

\* The other also does when the Runner reports "cancelled", which it reports for
\* any abort the Host asked it for.
ProcessCancels(raised) == raised # {}
=============================================================================
