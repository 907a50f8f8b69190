SPECIFICATION Spec
CONSTANTS
  MaxFiles = 3
  Sync = "everysec"
  Flusher = flusher
  Rotators = {r1}
  NoOne = NoOne
  MaxCommands = 3
  MaxCrashes = 1
  MayFail = FALSE
  MayConfigure = FALSE
CHECK_DEADLOCK FALSE
INVARIANT EnabledMeansAppended
