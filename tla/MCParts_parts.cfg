CONSTANTS
  Entries = {e1, e2, e3}
  None = None
  MaxSwitches = 1
  MaxClicks = 1
  MaxEdits = 1
  PlayerNames = {"p1", "p2"}
  MaxOwnerChanges = 3
  MaxPower = 2
  MaxNotifications = 2
  MaxStages = 2
  Widths = {10, 11}
  Heights = {8}
  DialogSizes = {3, 4, 7}
  FloaterSizes = {1, 3, 12}
SPECIFICATION PartsSpec
INVARIANTS
  TypesOK
  IconTellsLayout
  CountedIsShown
  DischargeIsShown
  NothingOverlaps
PROPERTIES
  PlayersAreFound
CHECK_DEADLOCK FALSE
