CONSTANTS
  Place <- MCPlace
  DataPlace = {}
  Transition <- MCTransition
  MaxInt = 30
  Nets = {}
  Models <- MCModels
  Declared <- MCDeclared
SPECIFICATION Spec
PROPERTIES ReportedSpec
CHECK_DEADLOCK FALSE
