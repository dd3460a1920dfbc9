CONSTANTS
  Entries = {e1, e2}
  None = None
  MaxSwitches = 0
  MaxClicks = 0
  MaxEdits = 0
SPECIFICATION Spec
PROPERTIES
  UnlockRestoresLayout
CHECK_DEADLOCK FALSE
