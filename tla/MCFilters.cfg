SPECIFICATION PartsSpec
CONSTANTS
  Framebuffers = {b1, b2}
  NoBuffer = NoBuffer
  MaxAppear = 2
  Values = {1, 2}
  Predictions <- MCPredictions
  Least <- MCLeast
  Greatest = 9
  MaxParts = 32
  Triangulations <- MCTriangulations
  QueryPoints <- MCQueryPoints
  SearchTurnOn = 3
  Shapes <- MCShapes
  Requests <- OneKind
  Null = Null
INVARIANTS
  FullGraphInFrame
  InputIsNew
  CacheRight
  LandmarkFirst
  ForeheadInPlace
  PointsFollow
  TypeOK
  OnlyContaining
  AllFoundInside
  MemoryRight
  ListsRight
PROPERTIES
  FramesShown
  SlidersObeyed
  SearchEnds
