CONSTANTS
  File = {f1}
  None = None
  Window = 1
  MaxGeneration = 2
  MaxLines = 2
  MaxToggle = 3
  MaxCrash = 1
SPECIFICATION Spec
INVARIANTS CursorsOnlyPassForwarded OnlyCompleteLines HistoryStaysHidden
PROPERTY LinesForwarded
