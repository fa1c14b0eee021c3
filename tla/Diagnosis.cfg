SPECIFICATION LoopSpec
CONSTANTS
  s1 = s1
  s2 = s2
  NoSha = NoSha
  None = None
  Shas = {s1}
  OldShas = {s2}
  Configs <- MCConfigs
  Histories <- MCHistories
  Drafts <- MCDrafts
  Audits <- MCAudits
  MaxToolCalls = 2
  MaxAuditRounds = 1
  MaxDisturbances = 1
INVARIANTS
  DiagnosisInvariant
  StatusIsEarned
  CompleteIsWhole
PROPERTIES
  AttemptEnds
CHECK_DEADLOCK FALSE
