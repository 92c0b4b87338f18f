SPECIFICATION FairSpec
CONSTANTS
  helper = helper
  mvu = mvu
  t1 = t1
  c1 = c1
  None = None
  Plugins <- TwoPlugins
  Needs <- MvuNeedsHelper
  Writers <- TwoPlugins
  Hosted <- JustMvu
  Turns <- OneTurn
  Calls <- OneCall
  MaxBirths = 4
  MaxFaults = 1
  MaxCrashes = 2
INVARIANTS
  WorkKeepsItsActivation
  DependenciesRun
  RowsAreTrue
PROPERTIES
  FencedCallsAreCurrent
  WritersAreAsked
  TransitionsEnd
