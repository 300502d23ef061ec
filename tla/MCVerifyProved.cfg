SPECIFICATION Spec
CONSTANTS
  p = p
  q = q
  r = r
  a = a
  b = b
  c = c
  nowhere = nowhere
  Unseen = Unseen
  Place = {p, q, r}
  DataPlace = {}
  Transition = {a, b, c}
  MaxInt = 5
  Nets <- MCNets
  Jobs <- MCJobs
  Declared <- MCDeclared
  Claims <- MCClaims
INVARIANT ProvedHolds
CHECK_DEADLOCK FALSE
