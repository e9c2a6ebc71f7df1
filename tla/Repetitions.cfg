\* Repeated experiments.
CONSTANTS
  Configurations <- Experiments
  TimeMax = 1000
  MaxSeq = 0
  MaxRequests = 0
  Delays = {}
  SendTags = {}
SPECIFICATION RSpec
INVARIANTS
  RepetitionsAgree
  SeedReproduces
