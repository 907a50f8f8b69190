------------------------------ MODULE HttpPool ------------------------------
(***************************************************************************)
(* HttpConnectionPool and HttpConnection (src/src/http/httpconnection.cpp):*)
(* requesters take a connection from the pool or make one, send a request, *)
(* wait for the response until a timeout and give the connection back.     *)
(*                                                                         *)
(* A request is identified by its number; the response to it carries the   *)
(* same number. The peer answers the requests on a connection in order,    *)
(* late or never, and may close it. m_isBusy is FALSE for every connection *)
(* in the pool and left out; a connection is never too old, because its    *)
(* creation time is read from another clock than the one it is compared    *)
(* with.                                                                   *)
(***************************************************************************)
EXTENDS Integers, Sequences, SequencesExt, FiniteSets

CONSTANTS Requesters,    \* coroutines that call HttpConnectionPool::doRequest
          Conns,         \* addresses of HttpConnection objects
          m_maxSize, m_maxRequest,
          MaxRequests    \* bound on the requests made

ASSUME PoolAssumption ==
  /\ IsFiniteSet(Requesters) /\ IsFiniteSet(Conns)
  /\ m_maxSize \in Nat /\ m_maxRequest \in Nat /\ MaxRequests \in Nat

VARIABLES pool,       \* m_pool
          conn,       \* the HttpConnection objects
          total,      \* m_total
          req,        \* the requesters
          requests    \* requests made so far
poolVars == <<pool, conn, total, req, requests>>

NoConn == [live |-> FALSE, connected |-> FALSE, size |-> 0, open |-> FALSE, owed |-> <<>>, arrived |-> <<>>, behind |-> FALSE, pooled |-> FALSE]
NewConn == [NoConn EXCEPT !.live = TRUE, !.connected = TRUE, !.open = TRUE]
PooledConn == [NewConn EXCEPT !.pooled = TRUE]
Idling == [pc |-> "idle", conn |-> {}, id |-> 0, got |-> 0]

PoolInit ==
  /\ pool = <<>> /\ conn = [k \in Conns |-> NoConn] /\ total = 0 /\ requests = 0
  /\ req = [r \in Requesters |-> Idling]

Held(r) == CHOOSE k \in req[r].conn : TRUE
Live == {k \in Conns : conn[k].live}
\* An address that is free; they are all alike.
Free == CHOOSE k \in Conns : ~conn[k].live
Go(r, pc) == req' = [req EXCEPT ![r].pc = pc]

\* Under the lock: connections that are not connected are dropped until there is one that is.
getConnnection(r) ==
  /\ req[r].pc = "idle" /\ requests < MaxRequests
  /\ requests' = requests + 1
  /\ LET usable == {i \in DOMAIN pool : conn[pool[i]].connected}
         n == IF usable = {} THEN Len(pool) + 1 ELSE CHOOSE i \in usable : \A j \in usable : i <= j
         invalid == {pool[i] : i \in 1..(n - 1)}
     IN /\ pool' = SubSeq(pool, n + 1, Len(pool))
        /\ conn' = [k \in Conns |-> IF k \in invalid THEN NoConn ELSE conn[k]]
        /\ total' = total - Cardinality(invalid)
        /\ req' = [req EXCEPT ![r] = [pc |-> IF usable = {} THEN "connect" ELSE "send",
                                      conn |-> IF usable = {} THEN {} ELSE {pool[n]}, id |-> requests', got |-> 0]]

\* The coroutine is suspended while the connection is made; the request fails when it cannot be.
Connect(r) ==
  /\ req[r].pc = "connect" /\ Live # Conns
  /\ conn' = [conn EXCEPT ![Free] = PooledConn] /\ total' = total + 1
  /\ req' = [req EXCEPT ![r].pc = "send", ![r].conn = {Free}]
  /\ UNCHANGED <<pool, requests>>
ConnectFails(r) ==
  /\ req[r].pc = "connect" /\ req' = [req EXCEPT ![r] = Idling]
  /\ UNCHANGED <<pool, conn, total, requests>>

\* HttpConnection::DoRequest makes a connection for one request, which ends with it.
DoRequest(r) ==
  /\ req[r].pc = "idle" /\ Live # Conns /\ requests < MaxRequests /\ requests' = requests + 1
  /\ conn' = [conn EXCEPT ![Free] = NewConn]
  /\ req' = [req EXCEPT ![r] = [pc |-> "send", conn |-> {Free}, id |-> requests', got |-> 0]]
  /\ UNCHANGED <<pool, total>>
DoRequestEnds(r) ==
  /\ req[r].pc = "release" /\ ~conn[Held(r)].pooled
  /\ conn' = [conn EXCEPT ![Held(r)] = NoConn]
  /\ req' = [req EXCEPT ![r].pc = "done", ![r].conn = {}]
  /\ UNCHANGED <<pool, total, requests>>

\* Mutant of sendRequest: the request is written once more.
sendRequestTwice(r) ==
  /\ req[r].pc = "send" /\ conn[Held(r)].connected
  /\ conn' = [conn EXCEPT ![Held(r)].owed = IF conn[Held(r)].open THEN @ \o <<req[r].id, req[r].id>> ELSE @]
  /\ Go(r, "recv")
  /\ UNCHANGED <<pool, total, requests>>

\* Writing to a connection that the peer has closed may still succeed.
sendRequest(r) ==
  /\ req[r].pc = "send" /\ conn[Held(r)].connected
  /\ conn' = [conn EXCEPT ![Held(r)].owed = IF conn[Held(r)].open THEN Append(@, req[r].id) ELSE @]
  /\ Go(r, "recv")
  /\ UNCHANGED <<pool, total, requests>>
SendFails(r) ==
  /\ req[r].pc = "send" /\ ~(conn[Held(r)].connected /\ conn[Held(r)].open)
  /\ Go(r, "release")
  /\ UNCHANGED <<pool, conn, total, requests>>

\* All that has arrived is read at once and the first response of it is the result.
RecvResponse(r) ==
  /\ req[r].pc = "recv" /\ conn[Held(r)].arrived # <<>>
  /\ req' = [req EXCEPT ![r].pc = "release", ![r].got = Head(conn[Held(r)].arrived)]
  /\ conn' = [conn EXCEPT ![Held(r)].arrived = <<>>]
  /\ UNCHANGED <<pool, total, requests>>

\* The timeout of the socket, or the end of the stream: there is no response, and the
\* one that was waited for may still be on its way.
RecvFails(r) ==
  /\ req[r].pc = "recv" /\ conn[Held(r)].arrived = <<>>
  /\ Go(r, "release")
  /\ conn' = [conn EXCEPT ![Held(r)].behind = TRUE]
  /\ UNCHANGED <<pool, total, requests>>

\* The one who has the connection may close it before it is given back.
CloseHeld(r) ==
  /\ req[r].pc \in {"send", "release"} /\ conn[Held(r)].connected
  /\ conn' = [conn EXCEPT ![Held(r)].connected = FALSE]
  /\ UNCHANGED <<pool, total, req, requests>>

\* ReleasePtr: delete before m_total is reduced, reset() before the lock is taken.
ReleaseDeletes(r) ==
  /\ req[r].pc = "release" /\ conn[Held(r)].pooled
  /\ (~conn[Held(r)].connected \/ conn[Held(r)].size + 1 >= m_maxRequest)
  /\ conn' = [conn EXCEPT ![Held(r)] = NoConn] /\ Go(r, "count")
  /\ UNCHANGED <<pool, total, requests>>

ReleaseResets(r) ==
  /\ req[r].pc = "release" /\ conn[Held(r)].pooled /\ conn[Held(r)].connected /\ conn[Held(r)].size + 1 < m_maxRequest
  /\ conn' = [conn EXCEPT ![Held(r)].size = @ + 1, ![Held(r)].arrived = <<>>]
  /\ Go(r, "push")
  /\ UNCHANGED <<pool, total, requests>>

ReleasePushes(r) ==
  /\ req[r].pc = "push"
  /\ IF Len(pool) < m_maxSize
     THEN pool' = Append(pool, Held(r)) /\ req' = [req EXCEPT ![r].pc = "done", ![r].conn = {}] /\ UNCHANGED conn
     ELSE conn' = [conn EXCEPT ![Held(r)] = NoConn] /\ Go(r, "count") /\ UNCHANGED pool
  /\ UNCHANGED <<total, requests>>

CountDeleted(r) ==
  /\ req[r].pc = "count" /\ total' = total - 1
  /\ req' = [req EXCEPT ![r].pc = "done", ![r].conn = {}]
  /\ UNCHANGED <<pool, conn, requests>>

Returned(r) ==
  /\ req[r].pc = "done" /\ req' = [req EXCEPT ![r] = Idling]
  /\ UNCHANGED <<pool, conn, total, requests>>

\* The peer (external)
Respond(k) ==
  /\ conn[k].owed # <<>> /\ conn[k].open
  /\ conn' = [conn EXCEPT ![k].owed = Tail(@), ![k].arrived = Append(@, Head(conn[k].owed))]
  /\ UNCHANGED <<pool, total, req, requests>>
PeerCloses(k) ==
  /\ conn[k].live /\ conn[k].open
  /\ conn' = [conn EXCEPT ![k].open = FALSE, ![k].owed = <<>>]
  /\ UNCHANGED <<pool, total, req, requests>>

Requester(r) ==
  \/ getConnnection(r) \/ Connect(r) \/ ConnectFails(r) \/ sendRequest(r) \/ SendFails(r) \/ RecvResponse(r)
  \/ RecvFails(r) \/ CloseHeld(r) \/ ReleaseDeletes(r) \/ ReleaseResets(r) \/ ReleasePushes(r) \/ CountDeleted(r)
  \/ Returned(r) \/ DoRequest(r) \/ DoRequestEnds(r)
PoolNext == (\E r \in Requesters : Requester(r)) \/ (\E k \in Conns : Respond(k) \/ PeerCloses(k))

-----------------------------------------------------------------------------
(* Properties. *)

\* Every connection is either idle in the pool, once, or in the hands of one requester, the pool
\* is never larger than m_maxSize, and m_total counts the connections there are and those whose
\* deletion has not been counted yet; so the test for more invalid connections than m_total never
\* fails a request.
PoolIsExact ==
  /\ IsInjective(pool) /\ Len(pool) <= m_maxSize
  /\ \A k \in Live : Cardinality({r \in Requesters : k \in req[r].conn /\ req[r].pc # "count"})
                       = (IF k \in Range(pool) THEN 0 ELSE 1)
  /\ \A i \in DOMAIN pool : conn[pool[i]].live /\ conn[pool[i]].connected
  /\ total = Cardinality({k \in Live : conn[k].pooled}) + Cardinality({r \in Requesters : req[r].pc = "count"})

\* The response a request returns with is the response to this request. It may be the response to an
\* earlier one when a request on the same connection ended without its response: the connection
\* is given back and used again, and reset() drops only what has arrived by then.
ResponseIsOwn ==
  \A r \in Requesters :
    req[r].got \notin {0, req[r].id} =>
      /\ req[r].got < req[r].id
      /\ req[r].pc \in {"release", "push"} => conn[Held(r)].behind /\ conn[Held(r)].pooled
=============================================================================
