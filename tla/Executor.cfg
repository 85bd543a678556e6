CONSTANTS
  State = {s1, s2, s3}
  InitState = s1
  NoState = NoState
  MaxIdx = 2
  MaxPath = 2
  Seeding = TRUE
  OnlySeed = FALSE
  MarkPrunedOnly = FALSE
  DumpStatesOnHalt = TRUE
  SymbolicCalls = TRUE
  ExternalTargets = FALSE
SPECIFICATION FairSpec
INVARIANTS
  NoFault
  StatesAccounted
  TreesMatchStates
  SelectsLive
  PrunedStatesStop
PROPERTIES
  HaltStops
