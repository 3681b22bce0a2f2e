SPECIFICATION Spec
CONSTANTS
  w1 = w1
  w2 = w2
  Configs <- ResyncConfigs
  NoAddress = "none"
INVARIANT NoWaitLost
CHECK_DEADLOCK FALSE
