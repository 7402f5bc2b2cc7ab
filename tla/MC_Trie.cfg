SPECIFICATION Spec
CONSTANTS
  Byte = {0, 1}
  Target <- SomeTargets
  Null = Null
INVARIANTS
  Connected NoDeadBranch
PROPERTIES
  ImplementsTrieSet DestroyFreesAll
