SPECIFICATION FairSpec
CONSTANTS
  r1 = r1
  r2 = r2
  None = None
  Dead = Dead
  Requests = {r1, r2}
  MaxDeposits = 2
  MaxHandlers = 2
  Target = 2
  FirstIndex = 1
  DefaultBatch = 2
  BatchSizes = {None, 0, 1}
  MaxBatch = 2
  MaxFaults = 1
  MaxSweeps = 2
INVARIANTS
  KeeperTypeOK
  FirstExecutedOnce
  RepayIsSigned
  SucceededIsPaid
PROPERTIES
  BatchesDisjoint
  SweepPays
CHECK_DEADLOCK FALSE
