SPECIFICATION Spec
CONSTANTS
  t1 = t1
  t2 = t2
  t3 = t3
  None = None
  Txns <- TwoTxns
  Recovers = FALSE
  MaxFaults = 0
  MaxCrashes = 1
SYMMETRY Alike
INVARIANTS
  OnlyTheLiveAreBusy
CHECK_DEADLOCK FALSE
