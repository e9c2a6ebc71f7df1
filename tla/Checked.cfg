\* Checked correction and gossip, in every registered style, and the unit tests.
CONSTANTS
  Configurations <- CheckedAndTests
  TimeMax = 1000
  MaxSeq = 0
  MaxRequests = 0
  Delays = {}
  SendTags = {}
SPECIFICATION CSpec
INVARIANTS
  StatisticsAgree
  TotalTimeCoversAll
  RingsMeet
  ExclusiveBarrier
  TreeIsOver
  GossipWindow
  CheckedReachesAll
  MatchesTests
PROPERTY
  ImplementsBroadcast
