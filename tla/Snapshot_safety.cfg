SPECIFICATION Spec
CONSTANTS
  Proc = {w1, w2}
  NoProc = NoProc
  Pane = {p1, p2}
  Act = {a1, a2}
  Content = {c1, c2}
  NoSha = NoSha
  CaptureScrollback = TRUE
  Workers = 2
  MinSaveInterval = 1
  Keep = 1
  DayLen = 2
  Week = 20
  MaxClock = 3
  MaxChanges = 2
  MaxId = 3
  MaxStops = 1
SYMMETRY Symmetry
INVARIANT TypeOK
INVARIANT RefcountExact
INVARIANT LinkedIsReadable
INVARIANT InFlightIsReadable
INVARIANT CompleteIsReadable
INVARIANT IInv
PROPERTY SkipLosesNoStructure
PROPERTY ImplementsArchive
PROPERTY PruneKeepsLatest
