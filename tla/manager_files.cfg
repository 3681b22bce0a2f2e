SPECIFICATION ManagerFairSpec
CONSTANTS
  Openers = {o1, o2}
  UserThreads = {l1}
  Loop = loop
  Free = free
  Settings <- AllSettings
  MaxSessions = 3
  Realms = {"r1", "r2"}
  Troubles <- AllTroubles
  MaxContents = 3
  MaxMarks = 2
INVARIANTS
  SessionsInOrder
  NewRealmKept
PROPERTIES
  DeletionsJustified
  StartupRunsActions
CHECK_DEADLOCK FALSE
