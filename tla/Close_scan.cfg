SPECIFICATION Spec
CONSTANTS
  Name = {n1, n2}
  NoName = NoName
  Ops = {"newSession", "killWindow", "undo"}
  DedupWindow = 1
  DedupScan = 5
  UndoScan = 2
  Keep = 1
  KeepCloses = 10
  DayLen = 2
  Week = 20
  MaxClock = 2
  MaxChanges = 6
  MaxSaves = 1
  MaxLost = 0
  Quiet = {"capture", "save", "tail", "sweep"}
SYMMETRY Symmetry
INVARIANT UndoKeepsItsWord
CHECK_DEADLOCK FALSE
