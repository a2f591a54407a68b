SPECIFICATION FairSpec
CONSTANTS
  ConfigNodes = {"cfg1"}
  First = "cfg1"
  Vip = FALSE
  Entries <- ControlEntries
  Lists <- ControlLists
  FirstLists <- ControlFirst
  MaxChanges = 1
  MaxFaults = 0
PROPERTIES ControlsAreRegistered
