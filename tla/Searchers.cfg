SPECIFICATION FairSpec
CONSTANTS
  MaxStates = 3
  MaxForks = 3
  Points = {1, 2}
  Configs <- MCConfigs
INVARIANTS HeldOnce RunsLive FaultsExplained TreeLeads
 
CHECK_DEADLOCK FALSE
