CONSTANTS
  Helpers = {h1}
  None = None
  MAX_FAILURES = 3
  StartMayFail = TRUE
  InitMayFail = TRUE
  HelperMayDie = TRUE
  MaxUnread = 2
SPECIFICATION FairSpec
PROPERTIES
  PasswordIsAnswered
  ToldHelperEnds
CHECK_DEADLOCK FALSE
