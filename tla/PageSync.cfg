SPECIFICATION FairSpec
CONSTANTS
  o1 = o1
  None = None
  Opens <- OneOpen
  MaxTurns = 1
  MaxEdits = 1
  MaxQueue = 1
  MaxDrops = 1
  MaxFails = 1
INVARIANTS
  CaughtUp
  Watched
PROPERTIES
  ResyncNeverGoesBack
  CaretClears
CHECK_DEADLOCK FALSE
