SPECIFICATION Spec
CONSTANTS
  N = 3
  RerunFirst = TRUE
  Faulty <- AllNodes
  MaxFaults = 2
  MaxClusters = 3
INVARIANTS TypeOK NoSplitBrain CreatedOnce MarkedMeansMember
PROPERTY ImplementsCluster
