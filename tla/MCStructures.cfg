SPECIFICATION Spec
CONSTANTS
  MaxKey = 4
  MAX_LEVEL = 3
  Compact = 8
  MaxBuffer = 24
  Keys = {1}
  ShardOf <- OneShard
  Bar = 10
  SHARD_COUNT = 2
  Hashes = {1, 2, 3, 4, 5}
  Streams <- Pipelines
  Chars = {9, 10}
  Scores = {10000000, 12345678}
  Counts = {1, 2, 3}
  Users <- SomeUsers
  Hosts <- SomeHosts
  Ports <- SomePorts
  Paths <- SomePaths
  Queries <- SomeQueries
  Fragments <- SomeFragments
  Bytes = {37, 43, 32, 50, 66, 102, 128, 255}
  Values <- SomeValues
  Items <- SomeItems
  LogFiles <- SomeLogs
  Rotates <- SomeRotates
  BaseSize = 2
  WordBits = 16
  Typed <- SomeTyped
  Urls <- SomeUrls
  Matches <- SomeMatches
  MaxCalls = 3
  PoolCapacity = 2
  MaxNodes = 5
  MaxBytes = 6
  MaxSpan = 13
  GzipMin = 3
  Methods <- SomeMethods
  Messages <- SomeMessages
CHECK_DEADLOCK FALSE
INVARIANTS SkipListIsExact LookupsAreExact DeliversEveryValue  ScanReturnsEveryKey TextsAreReadBack ConfigFollowsFile ByteArrayIsFlat HttpMessagesAreReceived
