SPECIFICATION FairSpec
CONSTANTS
  w1 = w1
  w2 = w2
  Configs <- ClosingConfigs
  NoAddress = "none"
PROPERTY DyingStops
CHECK_DEADLOCK FALSE
