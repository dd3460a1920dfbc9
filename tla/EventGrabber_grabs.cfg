CONSTANTS
  Clients = {saver, locker}
  App = App
  None = None
  retries = 4
  MaxRefusals = 2
  MaxBreaks = 1
  MaxAppGrabs = 1
SPECIFICATION FairSpec
INVARIANTS
  TypeOK
  NoCircularWait
PROPERTIES
  KeepsPromise
  MoveEnds
CHECK_DEADLOCK FALSE
