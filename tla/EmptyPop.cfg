\* Operations that cost nothing strand an idle request.
CONSTANTS
  Configurations <- FreeRuns
  TimeMax = 1000
  MaxSeq = 0
  MaxRequests = 0
  Delays = {}
  SendTags = {}
SPECIFICATION CSpec
INVARIANT
  NoEmptyPop
