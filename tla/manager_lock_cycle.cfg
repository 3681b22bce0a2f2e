SPECIFICATION ManagerSpec
CONSTANTS
  Openers = {o1, o2}
  UserThreads = {l1}
  Loop = loop
  Free = free
  Settings <- Usual
  MaxSessions = 2
  Realms = {"r1", "r2"}
  Troubles <- AllTroubles
  MaxContents = 3
  MaxMarks = 2
INVARIANT
  NoLockCycle
CHECK_DEADLOCK FALSE
