SPECIFICATION Spec
CONSTANTS
  t1 = t1
  t2 = t2
  Timers = {t1, t2}
  Ms <- Periods
  Recurring = {}
  ResetMs = {1}
  MaxResets = 1
  MaxTime = 3
  MaxWait = 3
INVARIANT NoOversleep
PROPERTIES ProcessesAllExpired TimerFires
