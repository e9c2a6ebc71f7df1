\* A node is sent to on both rings.
CONSTANTS
  Configurations <- TwiceRuns
  TimeMax = 1000
  MaxSeq = 0
  MaxRequests = 0
  Delays = {}
  SendTags = {}
SPECIFICATION CSpec
INVARIANT
  NoNodeTwice
