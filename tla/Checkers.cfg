SPECIFICATION MCSpec
CONSTANTS
  None = None
  Null = 0
  Std = Std
  Paths = {p1, p2}
  Threads = {t1, t2}
  Names = {a, b}
  Inos = {1, 2, 3}
  Fds <- MCFds
  Fps = {1, 2}
  Mutexes = {m1}
  Addrs = {1, 2}
  Sites = {1, 2}
  Places = {x, y}
  MaxDepth = 2
  Setups <- MCSetups
  MaxCalls = 6
  MaxForked = 4
SYMMETRY Symmetry
CHECK_DEADLOCK FALSE
INVARIANTS FilesTracked LossesSeen HeapTracked  LeaksShown
