SPECIFICATION Spec
CONSTANTS
  Byte = {1, 2, 3}
  BufLen = 3
  magic_index <- Table
  Files <- AllFiles
  NoFile = NoFile
INVARIANTS
  EveryTextIsAccepted
