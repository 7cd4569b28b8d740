SPECIFICATION Spec
CONSTANTS
  Rects = {r1}
  Zero = Zero
  Heights = {1}
  MaxFrame = 1
INVARIANT MeshHasPoints
CHECK_DEADLOCK FALSE
