SPECIFICATION Spec
CONSTANTS
  i1 = i1
  i2 = i2
  p1 = p1
  Investigations = {i1, i2}
  Pages = {p1}
  NoInvestigation = NoInvestigation
  ReplayLimit = 2
  MaxEvents = 3
  MaxChanges = 1
  MaxClicks = 2
  MaxFaults = 2
  MaxAsked = 2
INVARIANTS StreamInvariant NeitherLostNorRepeated PageAtRestIsCurrent
PROPERTY PageCatchesUp
CHECK_DEADLOCK FALSE
