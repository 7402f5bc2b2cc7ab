SPECIFICATION Spec
CONSTANTS
  w1 = w1  w2 = w2
  Worker <- TwoWorkers
  MaxTask = 4
  MaxSpurious = 2
  NoTask = NoTask
  NoOne = NoOne
  MainThread = MainThread
INVARIANTS
  SlotsConsistent TasksConserved DroppedUnseen SerialUnlessStolen QuietDestroy
PROPERTIES
  PoolEnds
CHECK_DEADLOCK FALSE
