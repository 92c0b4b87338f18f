SPECIFICATION Spec
CONSTANTS
  g1 = g1
  g2 = g2
  None = None
  Gens <- TwoGens
  Clients <- OneClient
  MaxPreviews = 1
  MaxFaults = 0
  MaxCrashes = 1
  MaxRaces = 1
PROPERTIES
  StartFindsTrees
CHECK_DEADLOCK FALSE
