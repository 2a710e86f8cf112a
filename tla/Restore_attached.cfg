SPECIFICATION Spec
CONSTANTS
  Name = {n1, n2}
  IdleShells = {"bash", "zsh"}
  AllowList = {"vim", "top"}
  AutoFilter <- MCFilter
  Toggles <- MCToggles
  SnapshotAge = 0
  Second = 2
  BaseIndex = 0
  Room = 2
  Epoch = 11
  Shapes <- MCShapes
  Ops = {"killServer"}
  Keep = 2
  DayLen = 4
  Week = 20
  MaxClock = 14
  MaxWindows = 2
  MaxChanges = 4
  MaxSaves = 2
  MaxPicks = 0
INVARIANT FreshIsNotStale
CHECK_DEADLOCK FALSE
