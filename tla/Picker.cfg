SPECIFICATION Spec
CONSTANTS
  IdleShells = {"bash", "zsh"}
  AllowList = {"vim"}
  UnknownSession = "?"
  Running = {"a"}
  Inputs <- MCInputs
  Lines <- MCLines
  Sizes <- MCSizes
  MaxX = 8
CHECK_DEADLOCK FALSE
INVARIANT TypeOK
INVARIANT CursorOnClose
INVARIANT ChoiceIsRestorable
INVARIANT PlanIsWhatTheTreeShows
INVARIANT CloseListIsRight
INVARIANT ListShowsCursor
INVARIANT PreviewReachesAll
PROPERTY ManualExpandSurvives
PROPERTY PreviewIsScheduled
PROPERTY ClosePreviewCompletes
