SPECIFICATION WorkerSpec
CONSTANTS
  Char = {0, 1, 2}
  NL = 0
  MaxPat = 2
  MaxText = 5
  MaxLines = 4
  Patterns <- AllPatterns
  Texts <- AllTexts
  DEFAULT_SIZE = 6
  MaxLine = 4
  HiliLen = 2
  ResetLen = 1
  LinumLen = 2
INVARIANTS
  LineWrittenOnce
