SPECIFICATION Spec
CONSTANTS
  f1 = f1  f2 = f2  f3 = f3  f4 = f4  f5 = f5  git = git  head = head
  w1 = w1  w2 = w2
  NoFile = NoFile  NoRec = NoRec  NoOne = NoOne
  Worker <- TwoWorkers
  Vcs <- Vcses
  PipeCap = 1
  MaxMatch = 1
  MaxIntr = 1
  Entry <- BigTree
  Regular <- BigRegular
  Below <- BigBelow
  Fd = {9, 10, 11, 12}
  ListOnly = FALSE
  Walks = {TRUE}
SYMMETRY Symmetric
INVARIANTS
  RecordsValid NoFdLeak DescriptorsSuffice ReportsNotInterleaved
  ReportComplete NamesLeftOver NoEarlyExit QuietShutdown
