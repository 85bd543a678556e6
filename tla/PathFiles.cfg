CONSTANTS
  State = {s1, s2, s3}
  InitState = s1
  BufferSize = 2
  MaxRecords = 4
SPECIFICATION Spec
SYMMETRY Symmetry
VIEW View
INVARIANTS OpensFirst ReadsBack ReadsItsPath
CHECK_DEADLOCK FALSE
