SPECIFICATION FairHaSpec
CONSTANTS
  Hosts <- TwoNodes
  Faulty <- NotFirst
  MaxFaults = 2
INVARIANTS HaTypeOK CleanRunMeansConfigured
PROPERTIES KeepsClusterPromise KeysShared GrantsReachCluster AllComplete
