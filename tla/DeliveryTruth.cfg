CONSTANTS
  t1 = t1
  t2 = t2
  go1 = go1
  go2 = go2
  DirectSenders <- Ticks
  Adapters = {}
  MaxDeliveries = 3
  MaxAttempts = 3
SPECIFICATION Spec
SYMMETRY SenderSymmetry
INVARIANTS
  OutcomeIsTrue
PROPERTIES
  ImplementsOutbox
CHECK_DEADLOCK FALSE
