SPECIFICATION FairSpec
CONSTANTS
  t1 = t1
  t2 = t2
  Token = {t1, t2}
  SyncToken = {t1}
  Canceler = {c1}
  NoToken = NoToken
  NSteps = 1
  RepairBudget = 1
  Ladder = 1
  MaxCrashes = 1
INVARIANT ProposedOncePerLife
PROPERTY AcceptedRunEnds
CHECK_DEADLOCK FALSE
