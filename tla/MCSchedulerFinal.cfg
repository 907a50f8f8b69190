SPECIFICATION Spec
CONSTANTS
  N = 2
  Tasks = {t1}
  Callbacks = {}
  Clients = {c1}
  NoJob = NoJob
  MaxSuspends = 1
  MayStop = FALSE
  MayWaitAll = FALSE
CHECK_DEADLOCK FALSE
INVARIANT FrameOutlivesFinalSuspend
