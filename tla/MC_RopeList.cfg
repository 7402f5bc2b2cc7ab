SPECIFICATION Spec
CONSTANTS
  r1 = r1  r2 = r2  r3 = r3  r4 = r4  a = a  b = b
  Rope <- SomeRopes
  Text <- SomeTexts
  ropelist = ropelist
  Junk = Junk
INVARIANTS
  NoUseAfterFree DestroyFreesAll
PROPERTIES
  ImplementsRopeLog
