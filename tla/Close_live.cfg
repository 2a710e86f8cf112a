SPECIFICATION FairSpec
CONSTANTS
  Name = {n1, n2}
  NoName = NoName
  Ops = {"newSession", "newWindow", "killWindow", "rename", "undo", "killSession", "restart", "prune"}
  DedupWindow = 1
  DedupScan = 5
  UndoScan = 50
  Keep = 1
  KeepCloses = 1
  DayLen = 2
  Week = 20
  MaxClock = 3
  MaxChanges = 3
  MaxSaves = 2
  MaxLost = 0
  Quiet = {}
PROPERTY PruneKeepsRecoverable
PROPERTY HooksAreAnswered
CHECK_DEADLOCK FALSE
