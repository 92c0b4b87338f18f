SPECIFICATION Spec
CONSTANTS
  g1 = g1
  g2 = g2
  None = None
  Gens <- TwoGens
  Clients <- OneClient
  MaxPreviews = 2
  MaxFaults = 1
  MaxCrashes = 1
  MaxRaces = 1
INVARIANTS
  RowIsBacked
  RunsWhatIsRecorded
  OldTreeKept
PROPERTIES
  ConsentIsForThatRow
  RollsBack
  UnreadIsKept
CHECK_DEADLOCK FALSE
