SPECIFICATION Spec
CONSTANTS
  Name = {n1, n2}
  NoName = NoName
  Ops = {"newSession", "newWindow", "killWindow", "restart"}
  DedupWindow = 1
  DedupScan = 5
  UndoScan = 50
  Keep = 1
  KeepCloses = 10
  DayLen = 2
  Week = 20
  MaxClock = 2
  MaxChanges = 5
  MaxSaves = 1
  MaxLost = 0
  Quiet = {"save", "tail", "sweep", "capture"}
SYMMETRY Symmetry
INVARIANT ResolvesToWhatWasClosed
CHECK_DEADLOCK FALSE
