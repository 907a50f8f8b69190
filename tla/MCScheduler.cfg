SPECIFICATION MCSpec
CONSTANTS
  N = 2
  Tasks = {t1}
  Callbacks = {f1}
  Clients = {c1}
  NoJob = NoJob
  MaxSuspends = 1
  MayStop = TRUE
  MayWaitAll = TRUE
CHECK_DEADLOCK FALSE
INVARIANTS ResumesAreSafe WaitAllWaitsForTasks
PROPERTIES ImplementsJobPool WorkEnds StopReturns
