SPECIFICATION Spec
CONSTANTS
  MaxFiles = 3
  Sync = "everysec"
  Flusher = flusher
  Rotators = {r1}
  NoOne = NoOne
  MaxCommands = 2
  MaxCrashes = 1
  MayFail = TRUE
  MayConfigure = TRUE
CHECK_DEADLOCK FALSE
INVARIANT LogIsWhole
PROPERTIES RecoversTheLog AppendedReachesFile
