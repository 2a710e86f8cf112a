SPECIFICATION Spec
CONSTANTS
  Name = {n1, n2}
  NoName = NoName
  Ops = {"newSession", "newWindow", "split", "move", "exit", "killPane", "killWindow", "undo"}
  DedupWindow = 1
  DedupScan = 5
  UndoScan = 50
  Keep = 1
  KeepCloses = 10
  DayLen = 2
  Week = 20
  MaxClock = 3
  MaxChanges = 3
  MaxSaves = 2
  MaxLost = 1
  Quiet = {}
SYMMETRY Symmetry
INVARIANT TypeOK
INVARIANT NoSnapshotBehind
INVARIANT ClosedIsGone
CHECK_DEADLOCK FALSE
