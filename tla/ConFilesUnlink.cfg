CONSTANTS
  a = a
  b = b
  States = {s1, s2}
  Root = s1
  Infos = {i1, i2, i3}
  Names = {a, b}
  HostFds <- MCHostFds
  Null = Null
  Fds = {3, 4}
  MaxLinks = 2
  InitialSlots = 1
  MaxSlots = 2
  Byte = {0, 1, 2, 3}
  Data = {1}
  Counts = {0, 2}
  Zero = 0
  Symbolic = 3
  BufMin = 1
  MaxSize = 2
  Disks <- MCDisks
  Special = {b}
  UnlinkOpen = TRUE
  Truncate = FALSE
  MaxMoves = 5
  MaxChanges = 1
SPECIFICATION MCSpec
SYMMETRY Symmetry
VIEW View
INVARIANT AssertsHold
CHECK_DEADLOCK FALSE
