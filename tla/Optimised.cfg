\* Optimised correction.
CONSTANTS
  Configurations <- OptimisedRuns
  TimeMax = 1000
  MaxSeq = 0
  MaxRequests = 0
  Delays = {}
  SendTags = {}
SPECIFICATION CSpec
INVARIANT
  LeftOutAreCovered
