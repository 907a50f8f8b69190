SPECIFICATION Spec
CONSTANTS
  Coroutines = {a}
  K = 3
  Timed <- FirstTimed
  MayCancel = FALSE
  NoOp = NoOp
PROPERTY ResumedWhenReady
CHECK_DEADLOCK FALSE
