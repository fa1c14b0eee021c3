CONSTANTS
  t1 = t1
  t2 = t2
  go1 = go1
  go2 = go2
  DirectSenders <- Ticks
  Adapters <- GoAdapters
  MaxDeliveries = 2
  MaxAttempts = 3
SPECIFICATION FairSpec
INVARIANTS
  DeliveryInvariant
  AtMostOnce
PROPERTIES
  KnownOutcomeIsFinal
  EveryDeliverySettles
CHECK_DEADLOCK FALSE
