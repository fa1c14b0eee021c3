CONSTANTS
  MaxClaims = 2
  MaxCalls = 2
  MaxSends = 2
  MaxSupplements = 1
  Items <- TwoThenOne
SPECIFICATION Spec
INVARIANTS
  EvidenceInvariant
  ToldTheTruth
  AnsweredOnce
CHECK_DEADLOCK FALSE
