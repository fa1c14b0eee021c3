CONSTANTS
  PipeSize = 3
SPECIFICATION FairSpec
INVARIANTS
  SessionInvariant
  NotForgotten
PROPERTIES
  ImplementsAttempt
  ExecutionSettles
  NoOrphan
CHECK_DEADLOCK FALSE
