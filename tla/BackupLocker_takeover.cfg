CONSTANTS
  Xids = {w1, w2, w3}
  First = w1
  None = None
  Other = Other
  MaxFailures = 1
  VisualMayVanish = TRUE
  MaxEvents = 2
  MaxPopups = 2
SPECIFICATION FairSpec
INVARIANTS
  TypeOK
  KnownStageIsLeftAlone
  WatchedIsMonitored
PROPERTIES
  KeepsPromise
  CrashIsCovered
  StageIsServed
CHECK_DEADLOCK FALSE
