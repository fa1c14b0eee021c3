CONSTANTS
  MaxMessages = 3
  MaxRepeats = 1
  MaxHandOvers = 3
  TopicChats = {"g"}
  GroupChats = {"g"}
  PrivateChats = {"p"}
  RequireMention = TRUE
SPECIFICATION Spec
INVARIANTS
  IntakeInvariant
  OneRoundInItsPlace
  AcknowledgedIsKept
CHECK_DEADLOCK FALSE
