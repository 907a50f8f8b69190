------------------------------ MODULE Sockets ------------------------------
(***************************************************************************)
(* The descriptors of the MSocket objects (net/msocket.cpp) and their      *)
(* entries in FdManager (util/fdmanager.cpp).                              *)
(*                                                                         *)
(* The kernel hands out the lowest number that is free, so a number is     *)
(* used again as soon as it is closed.  MSocket::close() closes the number *)
(* first, deletes its FdManager entry next and forgets it last, and        *)
(* another thread can accept a connection, or close the same socket, in    *)
(* between: a client's handler closes its socket at the end of its loop    *)
(* (command_handler.cpp:237, 499) and ShutDownServer() closes the sockets  *)
(* of all clients (command_handler.cpp:60).                                *)
(***************************************************************************)
EXTENDS Integers, FiniteSets

CONSTANTS Socks,   \* the MSocket objects, each of which is opened once
          Fds      \* the numbers of descriptors

ASSUME FdsAreNumbers == Fds \subseteq Nat \ {0}

VARIABLES kernel,       \* number -> the object it was opened for, or NoSock
          m_datas,      \* number -> its FdCxt: "absent", "socket", or "other" if fstat failed
          m_sockfd,     \* object -> its number, -1 if none
          m_isConnected,\* the objects that are connected
          stage,        \* object -> how far its opening has come
          connfd,       \* object -> what accept() returned
          closing,      \* object, thread -> the step of close() that comes next
          busy,         \* object, way -> the number a read or a write is waiting with
          twoClosers,   \* two threads were inside close() of one object
          openFiles,    \* how many files the process may open
          late          \* the numbers whose entry was deleted after they were used again
socketVars == <<kernel, m_datas, m_sockfd, m_isConnected, stage, connfd, closing, busy, twoClosers, openFiles, late>>

NoSock == "none"
ASSUME NoneIsNoSocket == NoSock \notin Socks
Handler == "handler"
Closers == {Handler, "shutdown"}
Ways == {"read", "write"}
FreeFds == {f \in Fds : f <= openFiles /\ kernel[f] = NoSock}
LowestFree(f) == f \in FreeFds /\ \A g \in FreeFds : f <= g

SocketInit ==
  /\ kernel = [f \in Fds |-> NoSock] /\ m_datas = [f \in Fds |-> "absent"]
  /\ m_sockfd = [s \in Socks |-> -1] /\ m_isConnected = {}
  /\ stage = [s \in Socks |-> "new"] /\ connfd = [s \in Socks |-> -1]
  /\ closing = [s \in Socks |-> [t \in Closers |-> "out"]]
  /\ busy = [s \in Socks |-> [way \in Ways |-> -1]] /\ twoClosers = FALSE /\ openFiles \in Fds /\ late = {}

-----------------------------------------------------------------------------
(* Opening.  connect() and setValidFd() do not tell FdManager. *)

_newSocket(s, next) ==
  /\ stage[s] = "new"
  /\ IF FreeFds = {} THEN stage' = [stage EXCEPT ![s] = "refused"] /\ UNCHANGED <<kernel, m_sockfd>>
     ELSE /\ \E f \in Fds : /\ LowestFree(f)
                            /\ kernel' = [kernel EXCEPT ![f] = s]
                            /\ m_sockfd' = [m_sockfd EXCEPT ![s] = f]
          /\ stage' = [stage EXCEPT ![s] = next]
  /\ UNCHANGED <<m_datas, m_isConnected, connfd, closing, busy, twoClosers, late, openFiles>>

bindSock(s) == _newSocket(s, "live")
connect(s) == _newSocket(s, "connecting")

\* co_await Connect() returns; a failure is closed at once.
Connected(s, ok) ==
  /\ stage[s] = "connecting"
  /\ stage' = [stage EXCEPT ![s] = "live"]
  /\ m_isConnected' = IF ok THEN m_isConnected \cup {s} ELSE m_isConnected
  /\ closing' = IF ok THEN closing ELSE [closing EXCEPT ![s][Handler] = "close"]
  /\ UNCHANGED <<kernel, m_datas, m_sockfd, connfd, busy, twoClosers, late, openFiles>>

accept(s) ==
  /\ stage[s] = "new"
  /\ \E f \in Fds : /\ LowestFree(f)
                    /\ kernel' = [kernel EXCEPT ![f] = s]
                    /\ connfd' = [connfd EXCEPT ![s] = f]
  /\ stage' = [stage EXCEPT ![s] = "accepted"]
  /\ UNCHANGED <<m_datas, m_sockfd, m_isConnected, closing, busy, twoClosers, late, openFiles>>

\* FdManager::get(connfd, true); a new FdCxt asks the kernel what the number is.
get(s) ==
  /\ stage[s] = "accepted"
  /\ m_datas' = [m_datas EXCEPT ![connfd[s]] =
                   IF @ # "absent" THEN @ ELSE IF kernel[connfd[s]] = NoSock THEN "other" ELSE "socket"]
  /\ stage' = [stage EXCEPT ![s] = "registered"]
  /\ UNCHANGED <<kernel, m_sockfd, m_isConnected, connfd, closing, busy, twoClosers, late, openFiles>>

\* Without its entry the object is dropped, and the number stays open for ever.
_init(s) ==
  /\ stage[s] = "registered"
  /\ IF m_datas[connfd[s]] = "socket"
       THEN /\ m_sockfd' = [m_sockfd EXCEPT ![s] = connfd[s]]
            /\ m_isConnected' = m_isConnected \cup {s}
            /\ stage' = [stage EXCEPT ![s] = "live"]
       ELSE stage' = [stage EXCEPT ![s] = "lost"] /\ UNCHANGED <<m_sockfd, m_isConnected>>
  /\ UNCHANGED <<kernel, m_datas, connfd, closing, busy, twoClosers, late, openFiles>>

-----------------------------------------------------------------------------
(* Reading and writing: the number is read once, before the coroutine waits, with or *)
(* without a time limit.  A client's handler reads while others, who publish or      *)
(* replicate, write.                                                                 *)

Waits(s, way) ==
  /\ s \in m_isConnected /\ closing[s][Handler] = "out" /\ busy[s][way] = -1
  /\ busy' = [busy EXCEPT ![s][way] = m_sockfd[s]]
  /\ UNCHANGED <<kernel, m_datas, m_sockfd, m_isConnected, stage, connfd, closing, twoClosers, late, openFiles>>

send(s) == Waits(s, "write")
recv(s) == Waits(s, "read")

Transferred(s, way) ==
  /\ busy[s][way] # -1
  /\ busy' = [busy EXCEPT ![s][way] = -1]
  /\ UNCHANGED <<kernel, m_datas, m_sockfd, m_isConnected, stage, connfd, closing, twoClosers, late, openFiles>>

-----------------------------------------------------------------------------
(* close(), also the destructor's. *)

close(s, t) ==
  /\ stage[s] = "live" /\ closing[s][t] = "out"
  /\ t = Handler => busy[s]["read"] = -1
  /\ s \in m_isConnected \/ m_sockfd[s] # -1
  /\ m_isConnected' = m_isConnected \ {s}
  /\ closing' = IF m_sockfd[s] = -1 THEN closing ELSE [closing EXCEPT ![s][t] = "close"]
  /\ twoClosers' = (twoClosers \/ \E u \in Closers : closing[s][u] # "out")
  /\ UNCHANGED <<kernel, m_datas, m_sockfd, stage, connfd, busy, late, openFiles>>

\* ::close() of a number that is not open does nothing.
CloseNumber(s, t) ==
  /\ closing[s][t] = "close"
  /\ kernel' = [f \in Fds |-> IF f = m_sockfd[s] THEN NoSock ELSE kernel[f]]
  /\ closing' = [closing EXCEPT ![s][t] = "del"]
  /\ UNCHANGED <<m_datas, m_sockfd, m_isConnected, stage, connfd, busy, twoClosers, late, openFiles>>

del(s, t) ==
  /\ closing[s][t] = "del"
  /\ m_datas' = [f \in Fds |-> IF f = m_sockfd[s] THEN "absent" ELSE m_datas[f]]
  /\ late' = late \cup {f \in Fds : f = m_sockfd[s] /\ kernel[f] # NoSock}
  /\ closing' = [closing EXCEPT ![s][t] = "reset"]
  /\ UNCHANGED <<kernel, m_sockfd, m_isConnected, stage, connfd, busy, twoClosers, openFiles>>

\* Mutant of ForgetNumber: m_sockfd keeps the number.
ForgetNumberNot(s, t) ==
  /\ closing[s][t] = "reset"
  /\ closing' = [closing EXCEPT ![s][t] = "out"]
  /\ UNCHANGED <<kernel, m_datas, m_sockfd, m_isConnected, stage, connfd, busy, twoClosers, late, openFiles>>

ForgetNumber(s, t) ==
  /\ closing[s][t] = "reset"
  /\ m_sockfd' = [m_sockfd EXCEPT ![s] = -1]
  /\ closing' = [closing EXCEPT ![s][t] = "out"]
  /\ UNCHANGED <<kernel, m_datas, m_isConnected, stage, connfd, busy, twoClosers, late, openFiles>>

SocketNext ==
  \E s \in Socks :
    \/ bindSock(s) \/ connect(s) \/ (\E ok \in BOOLEAN : Connected(s, ok))
    \/ accept(s) \/ get(s) \/ _init(s)
    \/ send(s) \/ recv(s) \/ (\E way \in Ways : Transferred(s, way))
    \/ \E t \in Closers : close(s, t) \/ CloseNumber(s, t) \/ del(s, t) \/ ForgetNumber(s, t)

-----------------------------------------------------------------------------
\* As long as no two threads were in close() of one socket: a socket that is not being
\* closed has its own number, and so has a read or a write that waits on a connected
\* one; FdManager knows no number that is neither open nor being closed; and a
\* connection is lost only because close() deleted the entry of its number late.
SocketsOwnDescriptors ==
  twoClosers \/
    /\ \A s \in Socks : m_sockfd[s] # -1 /\ (\A t \in Closers : closing[s][t] \in {"out", "close"})
                          => kernel[m_sockfd[s]] = s
    /\ \A s \in m_isConnected, way \in Ways : busy[s][way] # -1 => kernel[busy[s][way]] = s
    /\ \A f \in Fds : m_datas[f] # "absent" => kernel[f] # NoSock \/ \E s \in Socks : m_sockfd[s] = f
    /\ \A s \in Socks : stage[s] = "lost" => connfd[s] \in late
=============================================================================
