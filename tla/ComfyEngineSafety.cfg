SPECIFICATION Spec
CONSTANTS
  Proc = {p1}
  NoProc = NoProc
  Client = {native, phase7}
  Checked = {native}
  Free = Free
  MaxWork = 1
  Ops = {"start", "stop", "restart", "shutdown", "status"}
  Faults = {"crash", "wedge", "config", "conflict", "rival", "hang", "late"}
INVARIANTS NoOrphanEngine OwnerCoversEngine LockExclusive DrainNeverInterrupts
PROPERTY LaunchWanted
