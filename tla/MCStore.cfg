SPECIFICATION Spec
CONSTANTS
  Alice = Alice
  Bob = Bob
  Keys = {1, 2, 3}
  ShardOf <- TwoShards
  Clients = {Alice, Bob}
  DBs = {0, 1}
  Chars = {9, 10}
  Numbers = {1, 10}
  Scores = {0, 1}
  Uses <- Users
  Shards = 2
  Single = {1, 2}
  MaxItems = 2
  MaxLen = 2
  MaxScore = 1
  TimeStep = 3
CHECK_DEADLOCK FALSE
INVARIANTS ZSetAgrees QueriesAgree LogReplays
