SPECIFICATION FairSpec
CONSTANTS
  cup = cup
  shelf = shelf
  brew = brew
  rinse = rinse
  sell = sell
  Place = {cup, shelf}
  DataPlace = {}
  Transition = {brew, rinse, sell}
  MaxInt = 20
  Nets <- MCNets
  Runs <- MCRuns
  Declared <- MCDeclared
  MaxSteps = 6
INVARIANTS Accounted
PROPERTIES OneClockSpec RunEnds
CHECK_DEADLOCK FALSE
