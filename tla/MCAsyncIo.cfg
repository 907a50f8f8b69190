SPECIFICATION Spec
CONSTANTS
  Coroutines = {a}
  K = 2
  Timed <- AllTimed
  MayCancel = TRUE
  NoOp = NoOp
INVARIANTS ArmedMeansSuspended NoLostWakeup
PROPERTY TimedOperationReturns
