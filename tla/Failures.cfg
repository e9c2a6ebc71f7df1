\* What is reached in spite of failures, without checked correction.
CONSTANTS
  Configurations <- FailureRuns
  TimeMax = 1000
  MaxSeq = 0
  MaxRequests = 0
  Delays = {}
  SendTags = {}
SPECIFICATION CSpec
INVARIANTS
  NeighboursCovered
  TreeReachesBelow
  FewFailuresTolerated
  AwaitedChildren
  WholeSubtreesFinish
PROPERTY
  ImplementsConvergecast
