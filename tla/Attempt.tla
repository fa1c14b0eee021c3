------------------------------ MODULE Attempt -------------------------------
(***************************************************************************)
(* One execution of a run as the run queue sees it: signals are raised,    *)
(* and it ends once, in a way they justify, unless its lease runs out and  *)
(* another worker takes the run first.  No processes, pipes or timers.     *)
(***************************************************************************)
EXTENDS RunOutcomes

VARIABLES
  fate,              \* "open", or how the execution ended
  raised             \* the signals its executor has raised

attemptVars == <<fate, raised>>

AttemptInit == fate = "open" /\ raised = {}

Raise ==
  /\ \E s \in SUBSET Signal : raised' = raised \cup s
  /\ UNCHANGED fate

Endings ==
  {"succeeded", "taken"} \cup ProcessFailures(raised)
  \cup (IF ProcessCancels(raised) THEN {"cancelled"} ELSE {})

End ==
  /\ fate = "open"
  /\ fate' \in Endings
  /\ UNCHANGED raised

AttemptSpec == AttemptInit /\ [][Raise \/ End]_attemptVars
=============================================================================
