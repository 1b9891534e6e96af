SPECIFICATION Spec
CONSTANTS
  t1 = t1
  t2 = t2
  t3 = t3
  Token = {t1, t2, t3}
  SyncToken = {t1}
  Canceler = {c1}
  NoToken = NoToken
  NSteps = 2
  RepairBudget = 1
  Ladder = 0
  MaxCrashes = 1
INVARIANTS LeaseFollowsRun WorkerEndsRun  ProposalComplete 
PROPERTIES KeepsDurableRun FencedByLease 
SYMMETRY Alike
CHECK_DEADLOCK FALSE
