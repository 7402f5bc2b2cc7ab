SPECIFICATION Spec
CONSTANTS
  a = a  b = b  newline = newline
  Char <- Byte
  NL = newline
  MaxPat = 5
  MaxText = 8
  MaxLines = 0
  Patterns <- AllPatterns
  Texts <- AllTexts
INVARIANTS
  Complete
