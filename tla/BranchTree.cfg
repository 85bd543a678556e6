CONSTANTS
  State = {s1, s2, s3, s4}
  InitState = s1
  MaxIdx = 2
  MaxNodes = 4
  Null = Null
SPECIFICATION Spec
INVARIANTS
  SlotsMatchStates
  FindsOtherSubtree
PROPERTIES
  ImplementsPaths
