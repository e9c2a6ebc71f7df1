\* The timelines with all their events.
CONSTANTS
  Shapes <- AllShapes
  MaxStart = 5
  MaxEvents = 6
SPECIFICATION Spec
INVARIANTS
  Chronological
  UsedInOrder
  WalkVisitsAll
  EndIsLatest
  AcceptsIfFree
PROPERTY
  ImplementsSlots
