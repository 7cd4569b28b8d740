SPECIFICATION Spec
CONSTANTS
  Triangulations <- MCTriangulations
  QueryPoints <- MCQueryPoints
  SearchTurnOn = 20
INVARIANT AllFound
