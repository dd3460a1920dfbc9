CONSTANTS
  Calls = {c1}
  CanLock = TRUE
  UseFallback = TRUE
  IdleLockPolicies = {"later"}
  SpawnMayRaise = FALSE
  BuildMayBreak = FALSE
  PamMayFail = FALSE
  HelperMayDie = FALSE
  FallbackMayFail = FALSE
  MaxSignals = 1
  MaxAuth = 1
  MaxIdles = 1
  MaxHolds = 0
SPECIFICATION Spec
INVARIANT
  LockedStageHoldsKeyboard
CHECK_DEADLOCK FALSE
