SPECIFICATION FairSpec
CONSTANTS
  Proc = {p1}
  NoProc = NoProc
  Client = {phase7}
  Checked = {}
  Free = Free
  MaxWork = 1
  Ops = {"start", "stop", "restart"}
  Faults = {"crash"}
PROPERTIES StopReturns RestartReported CrashRecovered
