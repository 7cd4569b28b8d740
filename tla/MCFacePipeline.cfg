SPECIFICATION LiveSpec
CONSTANTS
  Rects = {r1, r2}
  Zero = Zero
  Heights = {0, 2}
  MaxFrame = 3
INVARIANTS
  TypeOK
  OneDetection
  RectsInSync
  SnapshotNotStale
  BufferAlive
  PredictorSeesFrame
  CrashOnlyBeforeFirstPoints
PROPERTIES
  ServiceSafety
  FaceLossShows
  PointsKeepUp
  ServiceSpec
CHECK_DEADLOCK FALSE
