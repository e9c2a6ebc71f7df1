\* Every style ends by itself.
CONSTANTS
  Configurations <- FairRuns
  TimeMax = 1000
  MaxSeq = 0
  MaxRequests = 0
  Delays = {}
  SendTags = {}
SPECIFICATION FairCSpec
PROPERTY
  Terminates
