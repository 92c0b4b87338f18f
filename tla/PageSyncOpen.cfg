SPECIFICATION Spec
CONSTANTS
  o1 = o1
  None = None
  Opens <- OneOpen
  MaxTurns = 0
  MaxEdits = 1
  MaxQueue = 1
  MaxDrops = 0
  MaxFails = 0
PROPERTIES
  ViewNeverGoesBack
CHECK_DEADLOCK FALSE
