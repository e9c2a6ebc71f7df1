\* The open engine: any phase of two nodes, on four command lines.
CONSTANTS
  Configurations <- MCConfigurations
  TimeMax = 1000
  MaxSeq = 6
  MaxRequests = 2
  Delays = {1}
  SendTags = {"TREE"}
SPECIFICATION QSpec
INVARIANTS
  TypeOK
  NoTimewarp
  CountMatchesPending
  EmptyPopOnlyWithoutCosts
  BusyNodesHaveEndTasks
  IdleMeansFree
  TopIsUnique
  LogPCapacity
