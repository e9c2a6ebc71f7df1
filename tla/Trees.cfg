\* Every constructor, for up to 17 nodes: one more than a full binomial tree.
CONSTANTS
  MaxP = 17
  Ks = {1, 2, 3, 4}
SPECIFICATION Spec
INVARIANTS
  SpanningTree
  ScatteredSubtrees
  LameIsPunctual
