SPECIFICATION FairQueueSpec
CONSTANTS
  Worker = {w1, w2}
  Job = {j1}
  Nobody = Nobody
  NoJob = NoJob
  MaxAttempts = 2
  MaxCrashes = 1
  MaxBeats = 1
  Targets = {"canceled", "interrupted"}
INVARIANTS NeverRequeued OncePerReservation
PROPERTIES KeepsLifecycle EverySettled
CHECK_DEADLOCK FALSE
