SPECIFICATION FairSpec
CONSTANTS
  r1 = r1
  r2 = r2
  r3 = r3
  None = None
  Requests <- ThreeRequests
  Offered <- Mixed
  MaxFaults = 1
INVARIANTS
  OneGeneration
  OneTerminalFrame
PROPERTIES
  StoppedTurnsSendNothing
  ReplyRecorded
  EveryStreamEnds
  SlotIsFreed
  KeepsThePromise
CHECK_DEADLOCK FALSE
