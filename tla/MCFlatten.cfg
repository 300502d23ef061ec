CONSTANTS
  Place <- MCPlace
  DataPlace <- MCDataPlace
  Transition <- MCTransition
  MaxInt = 20
  Nets = {}
  Bundles <- MCBundles
  Names <- MCNames
  MaxLinks = 3
  Horizon = 4
SPECIFICATION PSpec
INVARIANTS LawsKept  CheckRight
PROPERTIES TogetherSpec
CHECK_DEADLOCK FALSE
