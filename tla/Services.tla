------------------------------ MODULE Services ------------------------------
(***************************************************************************)
(* The services around the command server that keep shared state of their  *)
(* own: the coroutine barrier, the HTTP server and the connections of the  *)
(* HTTP client, the MySQL connections, the descriptors of the sockets, the *)
(* slow log, the rotation of the log files and the snapshot file.  They    *)
(* share nothing with each other here, so a behaviour is about one of them, its `part`, and   *)
(* the others stay in their initial state.                                 *)
(***************************************************************************)
EXTENDS WaitGroup, HttpPool, HttpServer, MySqlPool, Sockets, SlowLog, LogRotation, Saves

CONSTANT Parts

VARIABLE part
vars == <<part, groupVars, poolVars, serverVars, mysqlVars, socketVars, slowVars, rotationVars, saveVars>>

Init ==
  /\ part \in Parts
  /\ GroupInit /\ PoolInit /\ ServerInit /\ MySqlInit /\ SocketInit /\ SlowInit /\ RotationInit /\ SaveInit

OfGroup(A) ==
  /\ part = "group" /\ A
  /\ UNCHANGED <<part, poolVars, serverVars, mysqlVars, socketVars, slowVars, rotationVars, saveVars>>
OfPool(A) ==
  /\ part = "pool" /\ A
  /\ UNCHANGED <<part, groupVars, serverVars, mysqlVars, socketVars, slowVars, rotationVars, saveVars>>
OfServer(A) ==
  /\ part = "server" /\ A
  /\ UNCHANGED <<part, groupVars, poolVars, mysqlVars, socketVars, slowVars, rotationVars, saveVars>>
OfMySql(A) ==
  /\ part = "mysql" /\ A
  /\ UNCHANGED <<part, groupVars, poolVars, serverVars, socketVars, slowVars, rotationVars, saveVars>>
OfSockets(A) ==
  /\ part = "sockets" /\ A
  /\ UNCHANGED <<part, groupVars, poolVars, serverVars, mysqlVars, slowVars, rotationVars, saveVars>>
OfSlowLog(A) ==
  /\ part = "slowlog" /\ A
  /\ UNCHANGED <<part, groupVars, poolVars, serverVars, mysqlVars, socketVars, rotationVars, saveVars>>
OfRotation(A) ==
  /\ part = "rotation" /\ A
  /\ UNCHANGED <<part, groupVars, poolVars, serverVars, mysqlVars, socketVars, slowVars, saveVars>>
OfSaves(A) ==
  /\ part = "saves" /\ A
  /\ UNCHANGED <<part, groupVars, poolVars, serverVars, mysqlVars, socketVars, slowVars, rotationVars>>

Next ==
  \/ OfGroup(GroupNext) \/ OfPool(PoolNext) \/ OfServer(ServerNext)
  \/ OfMySql(MySqlNext) \/ OfSockets(SocketNext) \/ OfSlowLog(SlowNext) \/ OfRotation(RotationNext) \/ OfSaves(SaveNext)

\* Every coroutine of the barrier that can run is run by the scheduler.
Fairness ==
  /\ WF_vars(OfGroup(Add))
  /\ \A w \in Waiters : WF_vars(OfGroup(Arrive(w))) /\ WF_vars(OfGroup(WaiterStep(w)))
  /\ \A d \in Runs : WF_vars(OfGroup(DoerStep(d)))

Spec == Init /\ [][Next]_vars /\ Fairness

-----------------------------------------------------------------------------
(* Properties. *)

\* Both connection pools account for every connection they made, and the sockets for
\* the descriptors they opened.
ResourcesAreExact == PoolIsExact /\ MySqlPoolIsExact /\ SocketsOwnDescriptors

\* The slow log and the log files keep the newest of what was logged, whole and in order,
\* and the snapshot file is the last save, but for what SlowLogIsExact, LogKeepsNewest
\* and SavedFileIsWhole except.
RecordsAreKept == SlowLogIsExact /\ LogKeepsNewest /\ SavedFileIsWhole
=============================================================================
