CONSTANTS
  w1 = w1
  w2 = w2
  iA = iA
  iB = iB
  NoInvestigation = NoInvestigation
  Workers <- Slots
  InlineWorkers <- Slots
  Investigations = {iA}
  MaxRuns = 2
  ImRuns = {1}
  MaxAttempts = 2
  MaxManualRetries = 1
SPECIFICATION Spec
SYMMETRY SlotSymmetry
INVARIANTS
  QueueInvariant
  Fenced
  RetryBudget
PROPERTIES
  SettledIsFinal
  CancelIsRequested
CHECK_DEADLOCK FALSE
