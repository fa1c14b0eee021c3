CONSTANTS
  w1 = w1
  w2 = w2
  iA = iA
  iB = iB
  NoInvestigation = NoInvestigation
  Workers <- Slots
  InlineWorkers <- Slots
  Investigations = {iA}
  MaxRuns = 1
  ImRuns = {1}
  MaxAttempts = 2
  MaxManualRetries = 0
SPECIFICATION Spec
PROPERTIES
  SupersededWritesNothing
CHECK_DEADLOCK FALSE
