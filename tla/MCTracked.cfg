SPECIFICATION Spec
CONSTANTS
  p = p
  q = q
  data = data
  mover = mover
  gate = gate
  Place = {p, q}
  DataPlace = {data}
  Transition = {mover, gate}
  MaxInt = 3
  Nets <- SmallNets
  Starts = {0, 1, 3}
  MaxDepth = 3
INVARIANTS TypeOK TrackedExact
PROPERTY WalkSpec
CHECK_DEADLOCK FALSE
