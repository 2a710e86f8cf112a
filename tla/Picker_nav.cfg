SPECIFICATION Spec
CONSTANTS
  IdleShells = {"bash", "zsh"}
  AllowList = {"vim"}
  UnknownSession = "?"
  Running = {"a"}
  Inputs <- MCSnapshotInputs
  Lines <- MCLines
  Sizes <- MCSizes
  MaxX = 8
CHECK_DEADLOCK FALSE
INVARIANT TreeKeysWork
