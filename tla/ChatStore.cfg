SPECIFICATION Spec
CONSTANTS
  r1 = r1
  r2 = r2
  r3 = r3
  r4 = r4
  First = First
  None = None
  Requests <- FourRequests
  Offered <- Operations
SYMMETRY Interchangeable
INVARIANTS
  OneEntryAnswers
  AnsweredMayWrite
  EditsAreKept
  AcknowledgedIsOnDisk
PROPERTIES
  ReleasedNeverWrite
CHECK_DEADLOCK FALSE
