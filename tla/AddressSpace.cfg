CONSTANTS
  Space = {a1, a2, a3}
  InitSpace = a1
  Object = {m1, m2}
  Value = {0, 1}
  Handle = {h1, h2, h3, h4}
  Null = Null
  ReadOnly = {}
  MaxKey = 3
SPECIFICATION Spec
SYMMETRY Symmetry
VIEW View
INVARIANTS
  HandlesOwned
PROPERTIES
  SeparateMemories
CHECK_DEADLOCK FALSE
