SPECIFICATION Spec
CONSTANTS
  Clients = {Alice, Bob}
  Shards = 2
  Workers = 3
  Handlers = {First, Second}
  Eofs = {1}
  Retries = 1
  MaxWrites = 2
  MaxStops = 1
  WireRoom = 2
CHECK_DEADLOCK FALSE
INVARIANTS NothingAppliedAfterStop
PROPERTIES ImplementsLogCopy  StopReturns
