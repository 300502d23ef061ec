SPECIFICATION FairSpec
CONSTANTS
  p = p
  q = q
  a = a
  b = b
  c = c
  none = none
  Unseen = Unseen
  Place = {p, q}
  DataPlace = {}
  Transition = {a, b, c}
  MaxInt = 4
  Nets <- MCNets
  Jobs <- MCJobs
  Declared <- MCDeclared
INVARIANTS GraphExact ComponentsRight VerdictsSound TargetsRight
PROPERTIES Ends
CHECK_DEADLOCK FALSE
