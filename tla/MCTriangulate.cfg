SPECIFICATION LiveSpec
CONSTANT
  Inputs <- ManyInputs
INVARIANTS
  BondsMutual
  InsertionRight
  LocallyBest
  DelaunayTriangulation
  BoundaryRight
  OutputRight
  SegmentsRight
  CarvedRight
PROPERTY
  Ends
