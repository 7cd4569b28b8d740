SPECIFICATION LiveSpec
CONSTANT
  Inputs <- TwoCross
INVARIANT PointsAsGiven
