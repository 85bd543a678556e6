CONSTANTS
  State = {s1, s2, s3}
  InitState = s1
  NoState = NoState
  MaxIdx = 1
  MaxPath = 2
  Seeding = FALSE
  OnlySeed = FALSE
  MarkPrunedOnly = FALSE
  DumpStatesOnHalt = TRUE
  SymbolicCalls = TRUE
  ExternalTargets = TRUE
SPECIFICATION Spec
INVARIANT
  DestroyedNotTouched
