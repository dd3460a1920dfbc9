CONSTANTS
  Calls = {c1}
  CanLock = TRUE
  UseFallback = TRUE
  IdleLockPolicies = {"off", "now", "later"}
  SpawnMayRaise = TRUE
  BuildMayBreak = TRUE
  PamMayFail = TRUE
  HelperMayDie = TRUE
  FallbackMayFail = TRUE
  MaxSignals = 1
  MaxAuth = 1
  MaxIdles = 1
  MaxHolds = 1
SPECIFICATION Spec
INVARIANTS
  TypeOK
  AwakeOnlyWhenLocked
  CallbacksFindTheirStage
  ActiveTimeTellsActive
  StageKeepsProcess
  ActiveHoldsInput
  FallbackOnlyWhileLocked
  ActiveIsAnnounced
  UncoveredIsRefreshed
PROPERTIES
  UnlockTakesAllDown
  KeepsPromise
CHECK_DEADLOCK FALSE
