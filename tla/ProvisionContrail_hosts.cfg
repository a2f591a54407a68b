SPECIFICATION FairSpec
CONSTANTS
  ConfigNodes = {"cfg1"}
  First = "cfg1"
  Vip = FALSE
  Entries <- ComputeEntries
  Lists <- ComputeLists
  FirstLists <- ComputeEntries
  MaxChanges = 3
  MaxFaults = 2
INVARIANTS CompletedMeansRegistered
PROPERTIES ListedAreRegistered UnlistedAreRemoved VroutersAreRegistered
