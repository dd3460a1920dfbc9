CONSTANTS
  Calls = {c1, c2}
  CanLock = TRUE
  UseFallback = TRUE
  IdleLockPolicies = {"later"}
  SpawnMayRaise = FALSE
  BuildMayBreak = FALSE
  PamMayFail = FALSE
  HelperMayDie = FALSE
  FallbackMayFail = FALSE
  MaxSignals = 2
  MaxAuth = 2
  MaxIdles = 1
  MaxHolds = 0
  MaxInputs = 5
SPECIFICATION LiveSpec
INVARIANT
  AwakeCanSleep
PROPERTIES
  LockCallsAnswered
  DialogIsLowered
  ActiveBecomesLocked
CHECK_DEADLOCK FALSE
