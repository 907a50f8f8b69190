SPECIFICATION Spec
CONSTANTS
  Parts = {"group", "pool", "server", "mysql", "sockets", "slowlog", "rotation", "saves"}
  Doers = {d1, d2, d3}
  Waiters = {l, w1, w2}
  Leader = l
  Rounds = 1
  Nobody = Nobody
  Requesters = {r1, r2}
  Conns = {k1, k2}
  m_maxSize = 1
  m_maxRequest = 2
  MaxRequests = 3
  Listeners = {s1, s2}
  Peers = {p1, p2}
  Modulus = 8
  Threads = {t1, t2, t3}
  pool_size = 2
  MaxLosses = 3
  Socks = {a, b}
  Fds = {1, 2}
  Pushers = {q1, q2}
  Capacity = 2
  MaxLens = {1, 2}
  MaxEntries = 3
  MaxSyncs = 2
  Writers = {f1, f2}
  rotate_file_num = 3
  rotate_file_size = 1
  MaxLines = 8
  MaxFailures = 1
  Savers = {v1, v2}
  DumpShards = 2
  MaxSaves = 3
CHECK_DEADLOCK FALSE
INVARIANTS LeaderWaitsForDoers ResourcesAreExact ResponseIsOwn ConnectionsCounted RecordsAreKept
PROPERTY EveryWaiterReleased
