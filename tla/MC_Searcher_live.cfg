SPECIFICATION Spec
CONSTANTS
  f1 = f1  f2 = f2  f3 = f3  f4 = f4  f5 = f5  git = git  head = head
  w1 = w1  w2 = w2
  NoFile = NoFile  NoRec = NoRec  NoOne = NoOne
  Worker <- TwoWorkers
  Vcs <- Vcses
  PipeCap = 1
  MaxMatch = 1
  MaxIntr = 1
  Entry <- SmallTree
  Regular <- SmallRegular
  Below <- SmallBelow
  Fd = {9, 10}
  ListOnly = TRUE
  Walks = {TRUE, FALSE}
INVARIANTS
  EveryFileAccounted
PROPERTIES
  TerminatesOrStranded
CHECK_DEADLOCK FALSE
