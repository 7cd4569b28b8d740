SPECIFICATION Spec
CONSTANTS
  NStart = 1
  MaxEntries = 4
  Values = {1, 2}
  None = None
  ItemsPerBlock = 2
  MaxBlocks = 2
  Triangs = {t1, t2, t3, t4}
  Keys = {500, 850, 1000}
  NumQueues = 4
  Null = Null
  MaxSize = 5
  Places = {1, 2, 3}
  Sites = 5
  Times = {1, 2, 3}
  MaxCircles = 2
  Axis = {0, 1}
  MaxPoints = 4
  NaN = NaN
  Tasks <- Thinnings
INVARIANT AllAveraged
