SPECIFICATION FileSpec
CONSTANTS
  Greetings <- UpToThree
  MaxEvents = 9
INVARIANTS
  OneReplyPerTurn
  SurfaceInOrder
  SelectionShown
  RoundTrip
PROPERTIES
  EarlierReadingsStay
CHECK_DEADLOCK FALSE
