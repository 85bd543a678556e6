SPECIFICATION Spec
CONSTANTS
  Arrays = {"A", "B"}
  Size <- MCSize
  Byte = {0, 1}
  Exprs <- MCExprs
  Neg <- MCNeg
  Reads <- MCReads
  Symbolic = Symbolic
  Models <- MCModels
  Smaller <- MCSmaller
  Preferences <- MCPreferences
  Null = Null
  Experimental = FALSE
  MaxDepth = 2
  MaxQueries = 3
VIEW View
CHECK_DEADLOCK FALSE
INVARIANTS CachesTrue PathsShareInputs TrieFinds WorklistIsLeast RangeIsTight
PROPERTY ImplementsOracle
