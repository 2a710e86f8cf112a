SPECIFICATION FairSpec
CONSTANTS
  Name = {n1, n2}
  IdleShells = {"bash", "zsh"}
  AllowList = {"vim", "top"}
  AutoFilter <- MCFilter
  Toggles <- MCToggles
  SnapshotAge = 0
  Second = 2
  BaseIndex = 0
  Room = 2
  Epoch = 11
  Shapes <- MCShapes
  Ops = {"newWindow", "attach", "killWindow", "killServer"}
  Keep = 2
  DayLen = 12
  Week = 20
  MaxClock = 12
  MaxWindows = 2
  MaxChanges = 3
  MaxSaves = 2
  MaxPicks = 1
CHECK_DEADLOCK FALSE
INVARIANT TypeOK
INVARIANT AutoPicksThePast
INVARIANT RestoreIsComplete
PROPERTY OldWindowsUntouched
PROPERTY AutoRestores
