SPECIFICATION FairSpec
CONSTANTS
  h1 = h1
  h2 = h2
  h3 = h3
  h4 = h4
  NoFile = NoFile
  Hosts <- FourHosts
  Pids <- Numbers
  Pid <- Recycled
  Foreign <- SecondUser
INVARIANTS
  OneHostAtATime
PROPERTIES
  NobodyIsLockedOut
CHECK_DEADLOCK FALSE
