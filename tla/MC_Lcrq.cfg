SPECIFICATION Spec
CONSTANTS
  Thread = {p1, p2}
  p1 = p1
  p2 = p2
  MaxRings = 3
  Ring <- MCRing
  RING_SIZE = 2
  Tries = 2
  Spins = 1
  Recheck = 2
  MaxOps = 3
  MaxIndex = 4
  Null = Null
  Empty = Empty
SYMMETRY ThreadSymmetry
INVARIANTS TypeOK TakenOnce NothingIsLost
PROPERTIES Fifo EmptyIsHonest
