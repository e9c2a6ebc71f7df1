\* The optimal tree on every machine.
CONSTANT
  Machines <- AllMachines
SPECIFICATION FairSpec
INVARIANTS
  OutsideOnlyIfTied
  SpansIfSlow
  LeastIfEven
  DeadlineKnowsLabels
PROPERTY
  ConstructionEnds
