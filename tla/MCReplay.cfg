CONSTANTS
  Place <- MCPlace
  DataPlace = {}
  Transition <- MCTransition
  MaxInt = 30
  Nets = {}
  Activity <- MCActivity
  PlaceName <- MCPlaceName
  Traces <- MCTraces
  GivenNets <- MCGivenNets
  Sizes = {1, 2}
  MaxGroups = 2
SPECIFICATION Spec
INVARIANTS FitsAsRun Accounted EscapesRight MinedReplays
CHECK_DEADLOCK FALSE
