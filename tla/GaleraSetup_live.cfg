SPECIFICATION FairSpec
CONSTANTS
  N = 3
  RerunFirst = FALSE
  Faulty <- Others
  MaxFaults = 1
  MaxClusters = 2
PROPERTIES AllClustered
