SPECIFICATION Spec
CONSTANTS
  NoSha = NoSha
  NotInScope = NotInScope
  None = None
  MaxAttempts = 2
  MaxAuditRounds = 1
  MaxCalls = 2
  MaxCites = 1
  Catalog <- MCCatalog
  Requests <- MCRequests
INVARIANTS EvaluationInvariant NothingFromTheFuture ScoreIsEarned
PROPERTY ExperimentEnds
CHECK_DEADLOCK FALSE
