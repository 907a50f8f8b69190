----------------------------- MODULE HttpServer -----------------------------
(***************************************************************************)
(* TcpServer (src/src/net/tcpServer.cpp) and the HttpServer on top of it   *)
(* (src/src/http/httpserver.cpp): one accept loop per listening socket,    *)
(* one handler per client, and the shutdown of both.                       *)
(*                                                                         *)
(* The loops, the handlers and the one who stops the server run on several *)
(* threads.  A client is a peer that connects, sends requests and goes;    *)
(* what a request is answered with is left out (HttpParser has how it is   *)
(* read).  m_connections has Modulus values, so that getMaxClientCount(),  *)
(* which is -1 and never overridden, is compared as Modulus - 1.           *)
(***************************************************************************)
EXTENDS Integers, FiniteSets

CONSTANTS Listeners,   \* the addresses bound
          Peers,       \* the peers that connect, each once
          Modulus      \* 2^32 in the code: the values of m_connections

ASSUME ServerBounds ==
  /\ IsFiniteSet(Listeners) /\ IsFiniteSet(Peers)
  /\ Modulus \in Nat \ {0} /\ Cardinality(Peers) < Modulus - 1

VARIABLES m_isStop, m_acceptDone, m_connections, m_rejected,
          m_socks,     \* listening sockets that are open
          m_clients,   \* sockets of the handlers that have begun
          m_shutdown,
          loop,        \* where each accept loop is
          peer,        \* where each peer and its handler are
          closed,      \* sockets of peers that ShutDownServer has closed
          stopping     \* how far ShutDownServer is
serverVars == <<m_isStop, m_acceptDone, m_connections, m_rejected, m_socks, m_clients, m_shutdown, loop, peer, closed, stopping>>

ServerInit ==
  /\ m_isStop = TRUE /\ m_acceptDone = TRUE /\ m_shutdown = FALSE
  /\ m_connections = 0 /\ m_rejected = FALSE
  /\ m_socks = {} /\ m_clients = {} /\ closed = {} /\ stopping = "no"
  /\ loop = [l \in Listeners |-> "none"]
  /\ peer = [p \in Peers |-> "away"]

At(l, pc) == loop' = [loop EXCEPT ![l] = pc]
PeerAt(p, pc) == peer' = [peer EXCEPT ![p] = pc]

\* bind() opens a socket per address; when one of them fails, all are closed again.
bind ==
  /\ m_isStop /\ stopping = "no" /\ m_socks = {}
  /\ \E fails \in SUBSET Listeners : m_socks' = IF fails = {} THEN Listeners ELSE {}
  /\ UNCHANGED <<m_isStop, m_acceptDone, m_connections, m_rejected, m_clients, m_shutdown, loop, peer, closed, stopping>>

\* start() schedules the accept loops of the sockets there are; only a stopped server starts.
start ==
  /\ m_isStop /\ stopping = "no" /\ \A l \in Listeners : loop[l] = "none"
  /\ m_isStop' = FALSE
  /\ loop' = [l \in Listeners |-> IF l \in m_socks THEN "begin" ELSE loop[l]]
  /\ UNCHANGED <<m_acceptDone, m_connections, m_rejected, m_socks, m_clients, m_shutdown, peer, closed, stopping>>

AcceptBegins(l) ==
  /\ loop[l] = "begin" /\ m_acceptDone' = FALSE /\ At(l, "check")
  /\ UNCHANGED <<m_isStop, m_connections, m_rejected, m_socks, m_clients, m_shutdown, peer, closed, stopping>>

AcceptEnds(l) ==
  /\ (loop[l] = "check" /\ m_isStop) \/ loop[l] = "broken"
  /\ m_acceptDone' = TRUE /\ At(l, "ended")
  /\ UNCHANGED <<m_isStop, m_connections, m_rejected, m_socks, m_clients, m_shutdown, peer, closed, stopping>>

\* As many connections as there may be: a minute's sleep.
RefuseClients(l) ==
  /\ loop[l] = "check" /\ ~m_isStop /\ m_connections >= Modulus - 1
  /\ m_rejected' = TRUE /\ At(l, "sleep")
  /\ UNCHANGED <<m_isStop, m_acceptDone, m_connections, m_socks, m_clients, m_shutdown, peer, closed, stopping>>

AwaitAccept(l) ==
  /\ loop[l] = "check" /\ ~m_isStop /\ m_connections < Modulus - 1 /\ At(l, "accept")
  /\ UNCHANGED <<m_isStop, m_acceptDone, m_connections, m_rejected, m_socks, m_clients, m_shutdown, peer, closed, stopping>>

\* A client: its handler is scheduled, and only then is it counted.
Accept(l, p) ==
  /\ loop[l] = "accept" /\ l \in m_socks /\ peer[p] = "knocking"
  /\ PeerAt(p, "scheduled") /\ At(l, "count")
  /\ UNCHANGED <<m_isStop, m_acceptDone, m_connections, m_rejected, m_socks, m_clients, m_shutdown, closed, stopping>>
addConnection(l) ==
  /\ loop[l] = "count" /\ m_connections' = (m_connections + 1) % Modulus /\ At(l, "check")
  /\ UNCHANGED <<m_isStop, m_acceptDone, m_rejected, m_socks, m_clients, m_shutdown, peer, closed, stopping>>

\* acceptT(500) times out, and a second passes before the next attempt.
AcceptTimesOut(l) ==
  /\ loop[l] = "accept" /\ l \in m_socks /\ At(l, "sleep")
  /\ UNCHANGED <<m_isStop, m_acceptDone, m_connections, m_rejected, m_socks, m_clients, m_shutdown, peer, closed, stopping>>

\* The socket is closed: the loop stops the others too.
AcceptFails(l) ==
  /\ loop[l] = "accept" /\ l \notin m_socks
  /\ m_isStop' = TRUE /\ At(l, "broken")
  /\ UNCHANGED <<m_acceptDone, m_connections, m_rejected, m_socks, m_clients, m_shutdown, peer, closed, stopping>>

\* The end of either sleep.
Wake(l) ==
  /\ loop[l] = "sleep" /\ At(l, "check")
  /\ UNCHANGED <<m_isStop, m_acceptDone, m_connections, m_rejected, m_socks, m_clients, m_shutdown, peer, closed, stopping>>

-----------------------------------------------------------------------------
(* handleClient, up to its three ends. *)

HandlerBegins(p) ==
  /\ peer[p] = "scheduled" /\ m_clients' = m_clients \cup {p} /\ PeerAt(p, "peek")
  /\ UNCHANGED <<m_isStop, m_acceptDone, m_connections, m_rejected, m_socks, m_shutdown, loop, closed, stopping>>

\* The first byte says whether TLS is spoken; a failed handshake closes the socket.
SessionMade(p) ==
  /\ peer[p] = "peek" /\ PeerAt(p, "recv")
  /\ UNCHANGED <<m_isStop, m_acceptDone, m_connections, m_rejected, m_socks, m_clients, m_shutdown, loop, closed, stopping>>
HandshakeFails(p) ==
  /\ peer[p] = "peek" /\ PeerAt(p, "close")
  /\ UNCHANGED <<m_isStop, m_acceptDone, m_connections, m_rejected, m_socks, m_clients, m_shutdown, loop, closed, stopping>>

\* One request and its response; keep-alive keeps the handler in the loop.
ServeRequest(p) ==
  /\ peer[p] = "recv" /\ p \notin closed
  /\ \E keepAlive \in BOOLEAN : PeerAt(p, IF keepAlive THEN "recv" ELSE "close")
  /\ UNCHANGED <<m_isStop, m_acceptDone, m_connections, m_rejected, m_socks, m_clients, m_shutdown, loop, closed, stopping>>

\* The peer closed, sent what is no request, or was silent for a second.
RecvEnds(p) ==
  /\ peer[p] = "recv" /\ PeerAt(p, "close")
  /\ UNCHANGED <<m_isStop, m_acceptDone, m_connections, m_rejected, m_socks, m_clients, m_shutdown, loop, closed, stopping>>

\* Mutant of subConnection: a handler whose socket was closed for it returns without it.
subConnectionUnlessClosed(p) ==
  /\ peer[p] = "close" /\ PeerAt(p, "gone")
  /\ m_connections' = IF p \in closed THEN m_connections ELSE (m_connections - 1) % Modulus
  /\ UNCHANGED <<m_isStop, m_acceptDone, m_rejected, m_socks, m_clients, m_shutdown, loop, closed, stopping>>
subConnection(p) ==
  /\ peer[p] = "close" /\ PeerAt(p, "gone")
  /\ m_connections' = (m_connections - 1) % Modulus
  /\ UNCHANGED <<m_isStop, m_acceptDone, m_rejected, m_socks, m_clients, m_shutdown, loop, closed, stopping>>

\* /admin/shutdown sets a flag that no one reads.
AdminShutdown(p) ==
  /\ peer[p] = "recv" /\ p \notin closed /\ ~m_shutdown
  /\ m_shutdown' = TRUE
  /\ UNCHANGED <<m_isStop, m_acceptDone, m_connections, m_rejected, m_socks, m_clients, loop, peer, closed, stopping>>

-----------------------------------------------------------------------------
(* Stopping. *)

\* ShutDownServer: the flags, then the listening sockets, then the clients.
StopAccepting ==
  /\ stopping = "no" /\ stopping' = "flags" /\ m_isStop' = TRUE /\ m_shutdown' = TRUE
  /\ UNCHANGED <<m_acceptDone, m_connections, m_rejected, m_socks, m_clients, loop, peer, closed>>
closeAllFds ==
  /\ stopping = "flags" /\ stopping' = "sockets" /\ m_socks' = {}
  /\ UNCHANGED <<m_isStop, m_acceptDone, m_connections, m_rejected, m_clients, m_shutdown, loop, peer, closed>>
CloseClients ==
  /\ stopping = "sockets" /\ stopping' = "done"
  /\ closed' = closed \cup m_clients /\ m_clients' = {}
  /\ UNCHANGED <<m_isStop, m_acceptDone, m_connections, m_rejected, m_socks, m_shutdown, loop, peer>>

\* The peer (external)
Knock(p) ==
  /\ peer[p] = "away" /\ PeerAt(p, "knocking")
  /\ UNCHANGED <<m_isStop, m_acceptDone, m_connections, m_rejected, m_socks, m_clients, m_shutdown, loop, closed, stopping>>

LoopStep(l) ==
  \/ AcceptBegins(l) \/ AcceptEnds(l) \/ RefuseClients(l) \/ AwaitAccept(l) \/ addConnection(l)
  \/ AcceptTimesOut(l) \/ AcceptFails(l) \/ Wake(l) \/ \E p \in Peers : Accept(l, p)
HandlerStep(p) ==
  HandlerBegins(p) \/ SessionMade(p) \/ HandshakeFails(p) \/ ServeRequest(p) \/ RecvEnds(p) \/ subConnection(p)
ServerNext ==
  \/ bind \/ start \/ StopAccepting \/ closeAllFds \/ CloseClients
  \/ \E l \in Listeners : LoopStep(l)
  \/ \E p \in Peers : HandlerStep(p) \/ AdminShutdown(p) \/ Knock(p)

-----------------------------------------------------------------------------
(* Properties. *)

Served == {p \in Peers : peer[p] \in {"scheduled", "peek", "recv", "close"}}
Uncounted == {l \in Listeners : loop[l] = "count"}

\* m_connections is the number of clients being served, less those whose accept loop has not
\* come to addConnection() yet: a handler that ends before that takes the unsigned counter below
\* zero, and only then, as long as there are fewer clients than the counter can hold, a loop
\* finds it at its limit and refuses clients for a minute.
ConnectionsCounted ==
  /\ m_connections = (Cardinality(Served) - Cardinality(Uncounted)) % Modulus
  /\ m_connections >= Modulus - 1 => Cardinality(Served) < Cardinality(Uncounted)
=============================================================================
