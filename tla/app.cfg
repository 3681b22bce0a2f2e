SPECIFICATION AppSpec
CONSTANTS
  root = root
  c1 = c1
  c2 = c2
  t1 = t1
  t2 = t2
  Controllers <- MCControllers
  Root = root
  MaxDepth = 3
  MaxRecognizers = 3
  Clients = {t1, t2}
  NoClient = "nobody"
  Keys = {1, 2}
  MaxCalls = 4
  Way <- MCWay
  o1 = o1
  o2 = o2
  body = body
  NoData = NoData
  Ops <- MCOps
  Bodies <- MCBodies
  Cancellable <- MCCancelOne
INVARIANTS
  NavigationInOrder
  FinishedMeansDelivered
  HangOnlyByOverwrite
  OperationInv
PROPERTIES
  DeletionExact
  TransitionEnds
  CallsReturn
  CallersTold
  EveryFetchEnds
  ImplementsContract
CHECK_DEADLOCK FALSE
