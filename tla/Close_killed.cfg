SPECIFICATION Spec
CONSTANTS
  Name = {n1, n2}
  NoName = NoName
  Ops = {"newSession", "split", "killPane"}
  DedupWindow = 1
  DedupScan = 5
  UndoScan = 50
  Keep = 1
  KeepCloses = 10
  DayLen = 2
  Week = 20
  MaxClock = 1
  MaxChanges = 5
  MaxSaves = 2
  MaxLost = 0
  Quiet = {"save", "tail", "sweep", "capture"}
SYMMETRY Symmetry
INVARIANT RecordsTheKilledPane
CHECK_DEADLOCK FALSE
