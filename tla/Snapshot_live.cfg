SPECIFICATION FairSpec
CONSTANTS
  Proc = {w1,w2}
  NoProc = NoProc
  Pane = {p1}
  Act = {a1,a2}
  Content = {c1}
  NoSha = NoSha
  CaptureScrollback = TRUE
  Workers = 2
  MinSaveInterval = 2
  Keep = 1
  DayLen = 2
  Week = 20
  MaxClock = 4
  MaxChanges = 3
  MaxId = 4
  MaxStops = 0
PROPERTY ChurnEventuallySaved
