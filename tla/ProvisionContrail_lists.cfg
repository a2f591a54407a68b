SPECIFICATION Spec
CONSTANTS
  ConfigNodes <- TwoConfigs
  First = "cfg1"
  Vip = TRUE
  Entries <- ControlEntries
  Lists <- ControlLists
  FirstLists <- ControlFirst
  MaxChanges = 2
  MaxFaults = 1
INVARIANTS TypeOK MarkedMeansRegistered
