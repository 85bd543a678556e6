CONSTANTS
  Offset = {o1, o2, o3}
  Byte = {b1, b2}
  None = None
  ExternalFlushed = FALSE
SPECIFICATION ObjSpec
SYMMETRY Symmetry
INVARIANTS
  CachesAgree
PROPERTIES
  ImplementsArray
