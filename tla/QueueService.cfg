CONSTANTS
  w1 = w1
  w2 = w2
  iA = iA
  iB = iB
  NoInvestigation = NoInvestigation
  Workers <- Slots
  InlineWorkers = {w1}
  Investigations <- Conversations
  MaxRuns = 2
  ImRuns = {1}
  MaxAttempts = 2
  MaxManualRetries = 0
SPECIFICATION FairSpec
INVARIANTS
  RoundsBuildOnEachOther
PROPERTIES
  ImplementsRoundService
  EveryRunSettles
CHECK_DEADLOCK FALSE
