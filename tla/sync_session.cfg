SPECIFICATION FairSpec
CONSTANTS
  w1 = w1
  w2 = w2
  Configs <- MixedConfigs
  NoAddress = "none"
INVARIANTS
  SessionInOrder
  WaitsKept
PROPERTIES
  DeferredCommitReachesSession
  DeathAfterUpload
  OldSessionsAnswerNobody
  DyingEnds
  ActiveWaitEnds
CHECK_DEADLOCK FALSE
