SPECIFICATION FairSpec
CONSTANTS
  o1 = o1
  o2 = o2
  body = body
  NoData = NoData
  Ops <- MCOps
  Bodies <- MCBodies
  Cancellable <- MCCancelNone
CHECK_DEADLOCK FALSE
PROPERTIES
  ChainProceeds
