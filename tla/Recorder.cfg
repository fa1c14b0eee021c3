SPECIFICATION TraceSpec
CONSTANTS
  MaxCalls = 2
  MaxPhases = 2
  MaxPending = 3
  MaxWire = 4
  MaxRepeats = 1
INVARIANTS RecorderInvariant StatusIsReported OrderDoesNotMatter
CHECK_DEADLOCK FALSE
