SPECIFICATION WorkerSpec
CONSTANTS
  Char = {0, 1, 2}
  NL = 0
  MaxPat = 4
  MaxText = 7
  MaxLines = 6
  Patterns <- AllPatterns
  Texts <- AllTexts
  DEFAULT_SIZE = 6
  MaxLine = 4
  HiliLen = 2
  ResetLen = 1
  LinumLen = 2
INVARIANTS
  TypeOK TableHoldsBorders Sound CompleteIfTableIs LineNumbers
  WithinCapacity TerminatorFits ReportIsExcerpts
PROPERTIES
  Terminates GrowTerminates
