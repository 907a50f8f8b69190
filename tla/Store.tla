-------------------------------- MODULE Store --------------------------------
(***************************************************************************)
(* The command table at work: connections that authenticate, select a      *)
(* database and run the commands of module Keyspace, and the append-only   *)
(* log that executeTable() writes (command_handler_table.cpp:8).           *)
(*                                                                         *)
(* executeTable() appends a write command to the log before it calls the   *)
(* handler, so the two are separate steps; so are the turns of the shard   *)
(* lock of a handler that takes it more than once (one key of MSET, MGET   *)
(* or DEL, one field of HSET, one shard of FLUSHDB, the second lock with   *)
(* which GET erases an expired value).  Everything under one turn of the   *)
(* lock is one step.                                                       *)
(*                                                                         *)
(* Instead of the log, the model keeps what loadAOF() would rebuild from   *)
(* it: aof is the state of the replay, and logging a command runs it there *)
(* as the loader's socket does (level 1, database 0 until a SELECT).       *)
(***************************************************************************)
EXTENDS Keyspace

CONSTANTS Clients, DBs,  \* connections; database numbers, with 0
          Chars,         \* characters, also the elements of collections
          Scores,        \* scores of sorted sets
          Uses,          \* which commands each client may use: functions from clients
          Shards,        \* number of shards
          MaxItems, MaxLen, MaxScore, \* bounds: elements stored, length of a string, a score
          Numbers,       \* bound: the numbers that INCR may arrive at
          Single,         \* bound: keys that a command with a single key names
          TimeStep       \* bound: how much time passes at once

ASSUME StoreBounds ==
  /\ DBs \subseteq Nat /\ 0 \in DBs /\ IsFiniteSet(DBs)
  /\ IsFiniteSet(Keys) /\ Single \subseteq Keys /\ Shards \in Nat \ {0} /\ \A k \in Keys : ShardOf[k] < Shards
  /\ Chars \subseteq Nat /\ Scores \subseteq Nat
  /\ MaxItems \in Nat /\ MaxLen \in 1..2 /\ MaxScore \in Nat /\ TimeStep \in Nat \ {0}

VARIABLES dbs,       \* m_dbs
          conn,      \* per connection the level and the database of its socket
          admin,     \* m_admin_sock, at most one connection
          running,   \* per connection the commands in flight: at most one
          aof,       \* what the log rebuilds: databases and selected database
          exact,     \* history: nothing happened that the log cannot reproduce
          faulted,   \* the process divided by zero, or used the front of an empty list or
                     \* a dangling reference: it is not followed any further
          ops        \* the member of Uses that holds in this behaviour
vars == <<dbs, conn, admin, running, aof, exact, faulted, ops>>

-----------------------------------------------------------------------------
(* Commands and their arguments. *)

Cmd(op, ks, v, m, n, e) == [op |-> op, ks |-> ks, v |-> v, m |-> m, n |-> n, e |-> e]

One(names, vs, ms, ns) == {Cmd(op, <<k>>, v, m, n, {}) :
                             op \in names, k \in Single, v \in vs, m \in ms, n \in ns}
Two(names, ms) == {Cmd(op, <<k, k2>>, 0, m, 0, {}) : op \in names, k \in Keys, k2 \in Keys, m \in ms}

SetCmds == {Cmd("SET", <<k>>, v, 0, 0, e) : k \in Single, v \in Chars, e \in {{}, {1}}}
Zadd(k, m, s) == Cmd("ZADD", <<k>>, 0, m, 0, {s})
ZaddBare(k, m) == Cmd("ZADD", <<k>>, 0, m, 0, {})
ZaddCmds == {ZaddBare(k, m) : k \in Single, m \in Chars}
            \cup {Zadd(k, m, s) : k \in Single, m \in Chars, s \in Scores}
ServerCmds == {Cmd("SELECT", <<>>, 0, 0, n, {}) : n \in DBs}
              \cup {Cmd(op, <<>>, 0, 0, n, {}) : op \in {"FLUSHDB", "FLUSHDBALL"}, n \in {0, 1}}

AllCommands ==
  SetCmds \cup ZaddCmds \cup ServerCmds
  \cup One({"GET", "STRLEN", "DEL", "INCR", "PERSIST", "SRANDMEMBER"}, {0}, {0}, {0})
  \cup One({"INCRBY", "EXPIRE", "PEXPIRE", "LPOP", "RPOP", "SPOP"}, {0}, {0}, {1})
  \cup One({"GETSET", "APPEND", "SETNX", "LPUSH", "RPUSH"}, Chars, {0}, {0})
  \cup One({"LSET"}, Chars, {0}, {-1, 1})
  \cup One({"LINSERT"}, Chars, Chars, {0, 1})
  \cup One({"HSET"}, Chars, Chars, {0})
  \cup One({"HDEL", "SADD", "SREM", "ZREM"}, {0}, Chars, {0})
  \cup One({"ZINCRBY", "ZINCRBYFLOAT", "ZREMRANGEBYSCORE"}, {0}, Chars, {1})
  \cup Two({"RENAME", "RENAMENX", "RPOPLPUSH", "LPOPRPUSH"}, {0})
  \cup {Cmd(op, SetToSeq(Single), v, 0, 0, {}) : op \in {"MSET", "MGET"}, v \in Chars}
  \cup Two({"SMOVE"}, Chars)

Commands(c) == {cmd \in AllCommands : cmd.op \in ops[c]}

\* AOFModule::isWriteCommand, which decides for the commands outside the table.
isWriteCommand(op) == op \in
  {"SET", "SETNX", "MSET", "APPEND", "GETSET", "INCR", "INCRBY", "HSET", "HDEL",
   "LPUSH", "RPUSH", "LPOP", "RPOP", "LSET", "LINSERT", "LPOPRPUSH", "RPOPLPUSH",
   "SADD", "SREM", "SMOVE", "SPOP",
   "ZADD", "ZREM", "ZINCRBY", "ZREMRANGEBYSCORE", "ZINCRBYFLOAT",
   "DEL", "EXPIRE", "PEXPIRE", "PERSIST", "RENAME", "RENAMENX",
   "FLUSHDB", "FLUSHDBALL", "SELECT"}
HotCommands == {"GET", "SET", "DEL", "HSET", "HGET", "LPUSH", "LPOP", "SADD", "ZADD"}

\* The is_write entries of the command table, which decide for the others.
TableWrites ==
  {"SELECT", "MSET", "GETSET", "APPEND", "SETNX", "HDEL", "RPUSH", "RPOP", "LINSERT",
   "LSET", "RPOPLPUSH", "LPOPRPUSH", "ZREM", "ZREMRANGEBYSCORE", "SREM", "SPOP", "SMOVE",
   "FLUSHDB", "FLUSHDBALL"}
Logs(c) == IF c.op \in HotCommands THEN isWriteCommand(c.op) ELSE c.op \in TableWrites

-----------------------------------------------------------------------------
(* One turn of the lock of a command, on the database the client selected. *)

\* A command whose handler reads front() or back() of an empty list, or divides by
\* the size of an empty set.
Faults(c, d) ==
  \/ c.op = "SRANDMEMBER" /\ SRANDMEMBERFaults(d, c.ks[1])
  \/ /\ c.op \in {"RPOPLPUSH", "LPOPRPUSH"} /\ c.ks[1] # c.ks[2]
     /\ Has(d.lists, c.ks[1]) /\ d.lists[c.ks[1]] = <<>>

\* A command whose handler may read a value through a reference that the insertion
\* of another key has made dangle: it does when the map is rehashed.
Dangles(c, d) ==
  \/ c.op = "RENAME" /\ RENAMEDangles(d, c.ks[1], c.ks[2])
  \/ c.op = "RENAMENX" /\ RENAMENXDangles(d, c.ks[1], c.ks[2])

\* What a command may make of the contents d at its first key: one result, or one
\* per draw of SPOP and per content of memory that is read after it was freed.
Results(c, d) ==
  LET k == c.ks[1]
      k2 == c.ks[Len(c.ks)]
  IN IF Faults(c, d) THEN {} ELSE
     CASE c.op = "SET" -> {SET(d, k, c.v, c.e)}
       [] c.op = "MSET" -> {SET(d, k, c.v, {})}
       [] c.op = "GETSET" -> {GETSET(d, k, c.v)}
       [] c.op = "APPEND" -> {APPEND(d, k, c.v)}
       [] c.op = "SETNX" -> {SETNX(d, k, c.v)}
       [] c.op = "DEL" -> {DEL(d, k)}
       [] c.op = "INCR" -> {INCR(d, k)}
       [] c.op = "INCRBY" -> {INCRBY(d, k, c.n)}
       [] c.op = "EXPIRE" -> {EXPIRE(d, k, c.n)}
       [] c.op = "PEXPIRE" -> {PEXPIRE(d, k, c.n)}
       [] c.op = "PERSIST" -> {PERSIST(d, k)}
       [] c.op = "HSET" -> {HSET(d, k, c.m, c.v)}
       [] c.op = "HDEL" -> {HDEL(d, k, {c.m})}
       [] c.op = "LPUSH" -> {LPUSH(d, k, <<c.v>>)}
       [] c.op = "RPUSH" -> {RPUSH(d, k, <<c.v>>)}
       [] c.op = "LPOP" -> {LPOP(d, k, c.n)}
       [] c.op = "RPOP" -> {RPOP(d, k, c.n)}
       [] c.op = "LINSERT" -> {LINSERT(d, k, c.n = 1, c.m, c.v)}
       [] c.op = "LSET" -> {LSET(d, k, c.n, c.v)}
       [] c.op = "RPOPLPUSH" -> {RPOPLPUSH(d, k, k2, tem) : tem \in Chars}
       [] c.op = "LPOPRPUSH" -> {LPOPRPUSH(d, k, k2, tem) : tem \in Chars}
       [] c.op = "SADD" -> {SADD(d, k, {c.m})}
       [] c.op = "SREM" -> {SREM(d, k, {c.m})}
       [] c.op = "SPOP" -> {SPOP(d, k, gone) : gone \in SPOPDraws(d, k, c.n)}
       [] c.op = "SMOVE" -> {SMOVE(d, k, k2, c.m)}
       [] c.op = "ZADD" -> {ZADD(d, k, c.e, c.m)}
       [] c.op = "ZREM" -> {ZREM(d, k, {c.m})}
       [] c.op \in {"ZINCRBY", "ZINCRBYFLOAT"} -> {ZINCRBY(d, k, c.n, c.m)}
       [] c.op = "ZREMRANGEBYSCORE" -> {ZREMRANGEBYSCORE(d, k, c.n, c.n)}
       [] c.op = "RENAME" -> {RENAME(d, k, k2)}
       [] c.op = "RENAMENX" -> {RENAMENX(d, k, k2)}
       [] OTHER -> {d}

PerKey == {"MSET", "MGET"}

\* A client flushes with CONFIRM (n = 1), the administrator with or without it.
MayFlush(level, c) == level = 2 \/ (level = 1 /\ c.n = 1)

-----------------------------------------------------------------------------
(* The replay of the log, for the fields of aof. *)

ReplayFlush(a, c) ==
  IF ~MayFlush(1, c) THEN a
  ELSE [a EXCEPT !.dbs = [n \in DBs |-> IF c.op = "FLUSHDBALL" \/ n = a.db THEN EmptyDb ELSE @[n]]]

\* The effect of a logged command on the replay; of a random one, some effect. When
\* a value expires depends on the time of the replay and is left open.
Forget(d) == [d EXCEPT !.store = [k \in DOMAIN @ |-> StoreData(@[k].val, {})]]
\* Mutant of Replay: of a command with several keys only the first is replayed.
ReplayFirstKey(a, c) ==
  CASE c.op = "SELECT" -> [a EXCEPT !.db = c.n]
    [] c.op \in {"FLUSHDB", "FLUSHDBALL"} -> ReplayFlush(a, c)
    [] OTHER -> [a EXCEPT !.dbs[a.db] = Forget(CHOOSE x \in Results(c, @) : TRUE)]
\* MSET, from its first key to its last.
SetAll(d, ks, v) ==
  [d EXCEPT !.store = [k \in DOMAIN @ \cup Range(ks) |->
                         IF k \in Range(ks) THEN StoreData(<<v>>, {}) ELSE @[k]]]
Replay(a, c) ==
  CASE c.op = "SELECT" -> [a EXCEPT !.db = c.n]
    [] c.op \in {"FLUSHDB", "FLUSHDBALL"} -> ReplayFlush(a, c)
    [] c.op = "MSET" -> [a EXCEPT !.dbs[a.db] = SetAll(@, c.ks, c.v)]
    [] OTHER -> [a EXCEPT !.dbs[a.db] = Forget(CHOOSE x \in Results(c, @) : TRUE)]

Blank == [db |-> 0, dbs |-> [n \in DBs |-> EmptyDb]]

\* The log and the databases part: the replay is not followed any further.
Part == exact' = FALSE /\ aof' = Blank

-----------------------------------------------------------------------------
(* Connections. *)

NewConn == [level |-> 0, db |-> 0]

Init ==
  /\ dbs = [n \in DBs |-> EmptyDb]
  /\ conn = [c \in Clients |-> NewConn]
  /\ admin = {}
  /\ running = [c \in Clients |-> <<>>]
  /\ aof = Blank /\ exact = TRUE /\ faulted = FALSE
  /\ ops \in Uses

\* A command in flight; a flush has come to shard `at` of its nth database.
Job(cmd) == [cmd |-> cmd, pc |-> "run", nth |-> 1, at |-> 0]
Idle(c) == running[c] = <<>>
Authenticating(c) == ~Idle(c) /\ running[c][1].cmd.op = "AUTH"
Ready(c) == ~faulted /\ ops[c] # {} /\ Idle(c)

\* handleAUTH with the client's password.
AuthClient(c) ==
  /\ Ready(c) /\ conn[c].level = 0
  /\ conn' = [conn EXCEPT ![c].level = 1]
  /\ UNCHANGED <<dbs, admin, running, aof, exact, faulted, ops>>

\* handleAUTH with the administrator's: there is to be one administrator at a time, but
\* the test that m_admin_sock has expired ...
CheckAdmin(c) ==
  /\ Ready(c) /\ "AUTH" \in ops[c] /\ admin = {} /\ conn[c].level # 1
  /\ running' = [running EXCEPT ![c] = <<Job(Cmd("AUTH", <<>>, 0, 0, 0, {}))>>]
  /\ UNCHANGED <<dbs, conn, admin, aof, exact, faulted, ops>>

\* ... and the assignment are not one step.
SetAdmin(c) ==
  /\ ~faulted /\ Authenticating(c)
  /\ conn' = [conn EXCEPT ![c].level = 2]
  /\ admin' = {c}
  /\ running' = [running EXCEPT ![c] = <<>>]
  /\ UNCHANGED <<dbs, aof, exact, faulted, ops>>

\* The connection closes and another takes its place; the weak reference expires.
Reconnect(c) ==
  /\ Ready(c) /\ "AUTH" \in ops[c] /\ conn[c] # NewConn
  /\ conn' = [conn EXCEPT ![c] = NewConn]
  /\ admin' = admin \ {c}
  /\ UNCHANGED <<dbs, running, aof, exact, faulted, ops>>

-----------------------------------------------------------------------------
(* Running a command. *)

Db(c) == dbs[conn[c].db]
SetDb(c, d) == dbs' = [dbs EXCEPT ![conn[c].db] = d]

Values(d) == [d EXCEPT !.store = [k \in DOMAIN @ |-> @[k].val]]

\* An empty collection counts as one element.
Weigh(f, size(_)) == MapThenSumSet(LAMBDA k : IF size(f[k]) = 0 THEN 1 ELSE size(f[k]), DOMAIN f)
Items(d) == Cardinality(DOMAIN d.store)
            + Weigh(d.hash, LAMBDA h : Cardinality(DOMAIN h)) + Weigh(d.lists, Len)
            + Weigh(d.sets, Cardinality) + Weigh(d.zset, Cardinality)
Fits(d) ==
  /\ \A k \in DOMAIN d.store : Len(d.store[k].val) <= MaxLen
  /\ \A k \in DOMAIN d.store : Range(d.store[k].val) \subseteq Chars \/ stoll(d.store[k].val) \in Numbers
  /\ \A k \in DOMAIN d.zset : \A p \in d.zset[k] : p[1] <= MaxScore
Small(all) == MapThenSumSet(LAMBDA n : Items(all[n]), DBs) <= MaxItems /\ \A n \in DBs : Fits(all[n])

\* What logging cmd does to the replay.  The log is of no use when the handler is
\* going to refuse the command (level 0), when two commands are logged in one order
\* and run in the other, when the loader has selected another database or may not
\* flush as the administrator may, and when the command draws at random.
LogEffect(c, cmd) ==
  IF \/ conn[c].level = 0
     \/ \E o \in Clients \ {c} : ~Idle(o) /\ Logs(running[o][1].cmd)
     \/ cmd.op # "SELECT" /\ aof.db # conn[c].db
     \/ cmd.op \in {"FLUSHDB", "FLUSHDBALL"} /\ MayFlush(conn[c].level, cmd) /\ ~MayFlush(1, cmd)
     \/ \A r \in Results(cmd, Db(c)) : Results(cmd, Db(c)) # {r}
    THEN Part
    ELSE UNCHANGED exact /\ aof' = IF exact THEN Replay(aof, cmd) ELSE aof

Finish(c) == running' = [running EXCEPT ![c] = <<>>]

\* The next key of a command that takes the lock once per key.
NextKey(c, job) ==
  IF job.cmd.op \in PerKey /\ Len(job.cmd.ks) > 1
    THEN running' = [running EXCEPT ![c] = <<[job EXCEPT !.cmd.ks = Tail(@), !.pc = "run"]>>]
    ELSE Finish(c)

\* Every handler refuses a connection that has not authenticated.
Refuse(c, job) ==
  /\ conn[c].level = 0
  /\ Finish(c)
  /\ UNCHANGED <<dbs, conn, admin, faulted>>

Select(c, job) ==
  /\ conn[c].level > 0 /\ job.cmd.op = "SELECT"
  /\ conn' = [conn EXCEPT ![c].db = job.cmd.n]
  /\ Finish(c)
  /\ UNCHANGED <<dbs, admin, faulted>>

\* One shard of FLUSHDB, or of one database after the other of FLUSHDBALL.
Flush(c, job) ==
  LET all == job.cmd.op = "FLUSHDBALL"
      db == IF all THEN SetToSeq(DBs)[job.nth] ELSE conn[c].db
  IN /\ conn[c].level > 0 /\ job.cmd.op \in {"FLUSHDB", "FLUSHDBALL"}
     /\ IF MayFlush(conn[c].level, job.cmd)
          THEN /\ dbs' = [dbs EXCEPT ![db] = FLUSHSHARD(@, job.at)]
               /\ IF job.at + 1 < Shards
                    THEN running' = [running EXCEPT ![c] = <<[job EXCEPT !.at = @ + 1]>>]
                  ELSE IF all /\ job.nth < Cardinality(DBs)
                    THEN running' = [running EXCEPT ![c] = <<[job EXCEPT !.at = 0, !.nth = @ + 1]>>]
                  ELSE Finish(c)
          ELSE Finish(c) /\ UNCHANGED dbs
     /\ UNCHANGED <<conn, admin, faulted>>

Lazy == {"GET", "MGET", "STRLEN"}
OnKey(c, job) == conn[c].level > 0 /\ job.cmd.ks # <<>> /\ job.pc = "run"

\* GET, MGET and STRLEN that find an expired value release the shared lock ...
FindExpired(c, job) ==
  LET k == job.cmd.ks[1]
  IN /\ OnKey(c, job) /\ job.cmd.op \in Lazy
     /\ Has(Db(c).store, k) /\ IsExpired(Db(c).store[k])
     /\ running' = [running EXCEPT ![c] = <<[job EXCEPT !.pc = "erase"]>>]
     /\ UNCHANGED <<dbs, conn, admin, faulted>>

\* ... and erase the key under the exclusive lock, without a second look at it.
EraseExpired(c, job) ==
  LET k == job.cmd.ks[1]
  IN /\ job.pc = "erase"
     /\ SetDb(c, DEL(Db(c), k))
     /\ NextKey(c, job)
     /\ UNCHANGED <<conn, admin, faulted>>

\* One turn of the lock of any other command, or of a lazy one that finds no
\* expired value.
Turn(c, job) ==
  /\ OnKey(c, job)
  /\ ~(job.cmd.op \in Lazy /\ Has(Db(c).store, job.cmd.ks[1]) /\ IsExpired(Db(c).store[job.cmd.ks[1]]))
  /\ \E r \in Results(job.cmd, Db(c)) : SetDb(c, r)
  /\ NextKey(c, job)
  /\ UNCHANGED <<conn, admin, faulted>>

Fault(c, job) ==
  /\ OnKey(c, job) /\ (Faults(job.cmd, Db(c)) \/ Dangles(job.cmd, Db(c)))
  /\ faulted' = TRUE /\ Finish(c)
  /\ UNCHANGED <<dbs, conn, admin>>

Handle(c, job) ==
  \/ Refuse(c, job) \/ Select(c, job) \/ Flush(c, job)
  \/ FindExpired(c, job) \/ EraseExpired(c, job) \/ Turn(c, job) \/ Fault(c, job)

\* A change that the log does not have: an expired value erased, or a write whose
\* table entry says is_write = false.
Drift(c, job) ==
  IF ~Logs(job.cmd) /\ Values(dbs'[conn[c].db]) # Values(Db(c))
    THEN Part ELSE UNCHANGED <<exact, aof>>

\* executeTable() logs a write command before its handler runs ...
Alone(c) == \A o \in Clients \ {c} : ops[o] = {}
Log(c) ==
  /\ Ready(c) /\ ~Alone(c)
  /\ \E cmd \in Commands(c) :
       /\ Logs(cmd) /\ \A r \in Results(cmd, Db(c)) : Small([dbs EXCEPT ![conn[c].db] = r])
       /\ running' = [running EXCEPT ![c] = <<Job(cmd)>>]
       /\ LogEffect(c, cmd)
  /\ UNCHANGED <<dbs, conn, admin, faulted, ops>>

\* ... and when there is no other client to notice, the first turn of the handler
\* is taken in the same step.
LogAndExecute(c) ==
  /\ Ready(c) /\ Alone(c)
  /\ \E cmd \in Commands(c) :
       /\ Logs(cmd)
       /\ Handle(c, Job(cmd)) /\ Small(dbs')
       /\ LogEffect(c, cmd)
  /\ UNCHANGED ops

\* The handler of a command that was logged, or that is not at its end.
Execute(c) ==
  /\ ~faulted /\ ~Idle(c) /\ ~Authenticating(c)
  /\ Handle(c, running[c][1]) /\ Drift(c, running[c][1])
  /\ UNCHANGED ops

\* A command that is not logged.
Call(c) ==
  /\ Ready(c) /\ conn[c].level > 0
  /\ \E cmd \in Commands(c) :
       /\ ~Logs(cmd)
       /\ Handle(c, Job(cmd)) /\ Small(dbs') /\ Drift(c, Job(cmd))
  /\ UNCHANGED ops

\* Time passes; how long ago a value expired makes no difference.
Later(sd) == StoreData(sd.val, {IF t < TimeStep THEN -1 ELSE t - TimeStep : t \in sd.expire})
Tick ==
  /\ ~faulted
  /\ \E n \in DBs : \E k \in DOMAIN dbs[n].store : \E t \in dbs[n].store[k].expire : t >= 0
  /\ dbs' = [n \in DBs |-> [dbs[n] EXCEPT !.store = [k \in DOMAIN @ |-> Later(@[k])]]]
  /\ UNCHANGED <<conn, admin, running, aof, exact, faulted, ops>>

ClientStep(c) == AuthClient(c) \/ CheckAdmin(c) \/ SetAdmin(c) \/ Reconnect(c)
                 \/ Log(c) \/ LogAndExecute(c) \/ Execute(c) \/ Call(c)

Next == Tick \/ \E c \in Clients : ClientStep(c)

Spec == Init /\ [][Next]_vars

-----------------------------------------------------------------------------
(* Properties. *)
\* The two maps of a sorted set agree: whatever ZADD, ZREM, ZINCRBY,
\* ZREMRANGEBYSCORE, RENAME (to a key in the same shard or in another, whatever other
\* types either key has) and FLUSHDB do, a key is in zset exactly when it is in
\* zset_score, and its skip list holds one pair per member, with the member's score;
\* until a RENAME within a shard meets a rehash, which nothing can be said of.
ZSetAgrees ==
  \A n \in DBs :
    /\ DOMAIN dbs[n].zset = DOMAIN dbs[n].zset_score
    /\ \A k \in DOMAIN dbs[n].zset :
         LET scores == dbs[n].zset_score[k]
         IN dbs[n].zset[k] = {<<scores[m], m>> : m \in DOMAIN scores}

\* Commands that ask the same question through different maps, types or indices
\* give answers that fit: EXISTS, TYPE, RANDOMKEY and KEYS, which leaves keys out
\* only after a whole shard; TTL and PTTL; the lengths and the contents
\* of a hash; LINDEX and LRANGE; SDIFF, SINTER and SUNION; ZRANK and ZCOUNT, which
\* go by the scores, and ZRANGE, which goes by the skip list.
QueriesAgree ==
  \A n \in {x \in DBs : dbs[x] # EmptyDb} : \A k \in Keys :
    LET d == dbs[n]
    IN /\ (EXISTS(d, k) <=> TYPE(d, k) # "none") /\ (EXISTS(d, k) <=> k \in RANDOMKEY(d))
       /\ WrongType(d, k, "store") => STRLEN(d, k) = 0 /\ TTL(d, k) = -2
       /\ IF PTTL(d, k) > 0 THEN TTL(d, k) = PTTL(d, k) \div Second /\ ~IsExpired(d.store[k])
                            ELSE TTL(d, k) = PTTL(d, k)
       /\ HLEN(d, k) = Cardinality(HGETALL(d, k)) /\ HVALS(d, k) = UNION {HGET(d, k, f) : f \in HKEYS(d, k)}
       /\ \A f \in Chars : HEXISTS(d, k, f) <=> HGET(d, k, f) # {}
       /\ LLEN(d, k) = Len(LRANGE(d, k, 0, -1))
       /\ \A i \in 0..MaxItems : LINDEX(d, k, i) = Range(LRANGE(d, k, i, i))
       /\ \A i \in 1..LLEN(d, k) : LRANGE(d, k, -i, -i) = LRANGE(d, k, LLEN(d, k) - i, LLEN(d, k) - i)
       /\ \A j \in Keys : SDIFF(d, k, {j}) \cup SINTER(d, k, {j}) = SMEMBERS(d, k)
       /\ \A j \in Keys : SISMEMBER(d, k, 1) => 1 \in SUNION(d, k, {j}) /\ SCARD(d, j) <= Cardinality(SUNION(d, j, {k}))
       /\ Len(ZRANGE(d, k, 0, -1)) = ZCOUNT(d, k, 0, MaxScore + 1)
       /\ \A m \in Chars : LET r == ZRANK(d, k, m)
                           IN IF ZSCORE(d, k, m) = {} THEN r = -1 ELSE ZRANGE(d, k, r, r) = <<m>>
       /\ \A m \in ZRANGEBYSCORE(d, k, 0, 0), i \in Chars \ ZRANGEBYSCORE(d, k, 0, 0) :
            ZSCORE(d, k, i) # {} => ZRANK(d, k, m) < ZRANK(d, k, i)
       /\ LET all == KEYS(d, Keys, getTotalKeys(d))
          IN Len(all) = getTotalKeys(d) /\ Range(all) = RANDOMKEY(d)
       /\ LET some == KEYS(d, Keys, 1) IN some # <<>> /\ IsPrefix(some, KEYS(d, Keys, getTotalKeys(d)))

\* As long as nothing of the known kinds (LogEffect, Drift) spoiled the log, loadAOF()
\* would rebuild the databases from it, whenever no command is in flight; only the
\* times at which values expire are measured anew.
LogReplays ==
  (exact /\ \A c \in Clients : Idle(c))
    => \A n \in DBs : Values(aof.dbs[n]) = Values(dbs[n])
=============================================================================
