SPECIFICATION FairSpec
CONSTANTS
  A = A
  B = B
  pool = pool
  escrow = escrow
  till = till
  sink = sink
  Sagas = {A, B}
  Account = {pool, escrow, till, sink}
  Plans <- SmallPlans
INVARIANTS TypeOK OneToken InOrder Accounted StrandedByOthersOnly
PROPERTY ComesToAnEnd
CHECK_DEADLOCK FALSE
