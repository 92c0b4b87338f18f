SPECIFICATION Spec
CONSTANTS
  t1 = t1
  t2 = t2
  t3 = t3
  None = None
  Txns <- ThreeTxns
  Recovers = TRUE
  MaxFaults = 2
  MaxCrashes = 2
SYMMETRY Alike
INVARIANTS
  PromotesOwnTree
  BusyIsLive
  NotWedged
PROPERTIES
  InstalledStays
  InstallsAtomically
CHECK_DEADLOCK FALSE
