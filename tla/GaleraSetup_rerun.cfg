SPECIFICATION FairSpec
CONSTANTS
  N = 3
  RerunFirst = TRUE
  Faulty <- NoNode
  MaxFaults = 0
  MaxClusters = 2
PROPERTIES AllClustered
