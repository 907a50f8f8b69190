----------------------------- MODULE MySqlPool -----------------------------
(***************************************************************************)
(* MySQLPool (src/src/util/mysqlpool.cpp) as DbManager uses it: a thread   *)
(* takes a connection, runs one statement on it and gives it back.         *)
(***************************************************************************)
EXTENDS Integers, Sequences, FiniteSets

CONSTANTS Threads,      \* threads that run statements
          pool_size,
          MaxLosses     \* bound: connections that the server drops

ASSUME MySqlAssumption == pool_size \in Nat

VARIABLES m_pool,    \* the idle connections, numbers
          m_idle,
          holder,    \* who holds m_mutex, at most one thread
          user,      \* per thread where it is and the connection it has
          dead,      \* connections the server has dropped
          dropped,   \* connections that were taken out of the pool for good
          losses
mysqlVars == <<m_pool, m_idle, holder, user, dead, dropped, losses>>

Connections == 1 .. pool_size
Away == [pc |-> "away", conn |-> {}]

\* Create(): every connection is made before the pool is used.
MySqlInit ==
  /\ m_pool = [i \in Connections |-> i] /\ m_idle = pool_size /\ holder = {} /\ dead = {} /\ dropped = {}
  /\ user = [t \in Threads |-> Away] /\ losses = 0

UserAt(t, pc) == user' = [user EXCEPT ![t].pc = pc]

\* getConnection(): the front of the pool, once there is one; the lock is held during the ping.
getConnection(t) ==
  /\ user[t].pc = "away" /\ holder = {} /\ m_pool # <<>>
  /\ holder' = {t} /\ user' = [user EXCEPT ![t] = [pc |-> "ping", conn |-> {Head(m_pool)}]]
  /\ m_pool' = Tail(m_pool) /\ m_idle' = m_idle - 1
  /\ UNCHANGED <<dead, dropped, losses>>
\* wait_for() gives up: the statement fails.
PoolTimesOut(t) ==
  /\ user[t].pc = "away" /\ holder = {} /\ m_pool = <<>>
  /\ UNCHANGED mysqlVars
Ping(t) ==
  /\ user[t].pc = "ping" /\ user[t].conn \cap dead = {} /\ UserAt(t, "query") /\ holder' = {}
  /\ UNCHANGED <<m_pool, m_idle, dead, dropped, losses>>
\* A dead connection is replaced by a new one, which goes by the same number here ...
Reconnect(t) ==
  /\ user[t].pc = "ping" /\ user[t].conn \subseteq dead /\ UserAt(t, "query") /\ holder' = {}
  /\ dead' = dead \ user[t].conn
  /\ UNCHANGED <<m_pool, m_idle, dropped, losses>>
\* ... or nullptr is returned, and nothing comes back to the pool for it.
ReconnectFails(t) ==
  /\ user[t].pc = "ping" /\ user[t].conn \subseteq dead /\ holder' = {}
  /\ user' = [user EXCEPT ![t] = Away] /\ dropped' = dropped \cup user[t].conn
  /\ UNCHANGED <<m_pool, m_idle, dead, losses>>

\* execute(), query() and escape() give the connection back, also after a failed statement.
releaseConnection(t) ==
  /\ user[t].pc = "query" /\ holder = {}
  /\ \E k \in user[t].conn : m_pool' = Append(m_pool, k)
  /\ m_idle' = m_idle + 1 /\ user' = [user EXCEPT ![t] = Away]
  /\ UNCHANGED <<holder, dead, dropped, losses>>

\* The server (external)
ServerDrops(k) ==
  /\ k \notin dead /\ losses < MaxLosses /\ losses' = losses + 1 /\ dead' = dead \cup {k}
  /\ UNCHANGED <<m_pool, m_idle, holder, user, dropped>>

MySqlNext ==
  \/ \E t \in Threads : getConnection(t) \/ PoolTimesOut(t) \/ Ping(t) \/ Reconnect(t) \/ ReconnectFails(t) \/ releaseConnection(t)
  \/ \E k \in Connections : ServerDrops(k)

-----------------------------------------------------------------------------
(* Properties. *)

\* Every connection is idle, or with one thread, or was dropped because it could not be replaced;
\* m_idle is the length of the pool. A pool that lost all of its connections this way refuses
\* every statement from then on.
MySqlPoolIsExact ==
  LET idle == {m_pool[i] : i \in DOMAIN m_pool}
      taken == UNION {user[t].conn : t \in Threads}
  IN /\ m_idle = Len(m_pool) /\ Cardinality(idle) = Len(m_pool)
     /\ Cardinality(taken) = Cardinality({t \in Threads : user[t].conn # {}})
     /\ idle \cup taken \cup dropped = Connections
     /\ Len(m_pool) + Cardinality(taken) + Cardinality(dropped) = pool_size
=============================================================================
