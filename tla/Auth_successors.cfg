CONSTANTS
  Helpers = {h1, h2}
  None = None
  MAX_FAILURES = 2
  StartMayFail = TRUE
  InitMayFail = TRUE
  HelperMayDie = TRUE
  MaxUnread = 1
SYMMETRY Sym
SPECIFICATION Spec
INVARIANTS
  TypeOK
  ToldUnlessCurrent
  CurrentIsHeard
  SuccessEarned
PROPERTY
  KeepsPromise
CHECK_DEADLOCK FALSE
