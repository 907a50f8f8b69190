----------------------------- MODULE Replication -----------------------------
(***************************************************************************)
(* Replication from a master to one replica (modules/replication.cpp,      *)
(* handleSYNC, handleREPLICAOF, generateRDB).                              *)
(*                                                                         *)
(* The data are lists, one per shard, and the writes are RPUSHs of         *)
(* numbers, the numbers in the order in which the master sends them: a     *)
(* write that is lost, doubled or out of order is visible in a list.       *)
(*                                                                         *)
(* Master.  executeTable() broadcasts a write before its handler runs, so  *)
(* a client is between the two steps for a while.  SYNC registers the      *)
(* connection and schedules the snapshot coroutine, which sends one        *)
(* command per element and holds the shard's shared lock while it waits    *)
(* for the socket; broadcasts go to the same socket in between.            *)
(*                                                                         *)
(* Replica.  The replication thread connects, loads the snapshot and then  *)
(* feeds a queue that the consumer coroutine executes; REPLICAOF NO ONE    *)
(* stops both, and handlers of several of them overlap.  A reconnected     *)
(* replica loads the snapshot on top of what it has.                       *)
(***************************************************************************)
EXTENDS Integers, Sequences, FiniteSets, SequencesExt

CONSTANTS Clients,     \* clients of the master
          Shards,      \* number of shards, each with one list
          Workers,     \* worker threads of the replica
          Handlers,    \* connections of the replica that send REPLICAOF NO ONE
          Eofs,        \* the writes whose text has "EOF" in it
          Retries,     \* s_repl_retry_count
          MaxWrites,   \* bound: writes issued
          MaxStops,    \* bound: times the replica is told to stop
          WireRoom     \* bound: commands that the sockets between the two hold

ASSUME ReplicationBounds ==
  /\ Shards \in Nat \ {0} /\ Workers \in Nat \ {0} /\ Retries \in Nat
  /\ IsFiniteSet(Handlers) /\ Eofs \subseteq Nat \ {0}
  /\ MaxWrites \in Nat /\ MaxStops \in Nat /\ WireRoom \in Nat \ {0}

VARIABLES
  data,      \* master: the lists
  log,       \* history: the writes of each list in the order of their broadcast
  pending,   \* client -> writes broadcast and not executed: at most one
  slave,     \* m_slaves has the replica's connection
  syncing,   \* a SYNC request is on its way to the master
  snap,      \* the snapshot coroutine: next shard and element
  up,        \* the connection is open
  wire,      \* commands on their way to the replica
  copy,      \* replica: the lists
  thread,    \* the replication thread
  retry,     \* retry_count of replicationLoop
  wedged,    \* the parser of the connection waits for bytes that never come
  queue,     \* m_repl_queue
  consumer,  \* processReplQueue
  stop,      \* m_repl_stop and m_repl_queue_stop
  admin,     \* handler of REPLICAOF NO ONE -> where it is
  isMaster,  \* s_repl_is_master of the replica
  stops,     \* how often it was stopped
  overtaken, \* history: a handler returned while another one was stopping
  undefined, \* two handlers used m_relp_thread at once: nothing is said from there on
  spoilt     \* history: something happened that replication does not repair

masterVars == <<data, log, pending, slave, snap>>
replicaVars == <<copy, thread, retry, wedged, queue, consumer>>
adminVars == <<stop, admin, isMaster, stops, overtaken, undefined>>
vars == <<masterVars, syncing, up, wire, replicaVars, adminVars, spoilt>>

ShardSet == 1..Shards
NoSnap == [shard |-> 0, at |-> 0]
EOF == [shard |-> 0, id |-> 0]
Half == [shard |-> 0, id |-> -1]  \* the beginning of a command whose rest was not sent
Write(s, i) == [shard |-> s, id |-> i]
Snapping == snap # NoSnap
Issued == MaxWrites - Cardinality({i \in 1..MaxWrites : \A s \in ShardSet : i \notin Range(log[s])})
Room == Len(wire) < WireRoom

Init ==
  /\ data = [s \in ShardSet |-> <<>>] /\ log = data /\ copy = data
  /\ pending = [c \in Clients |-> <<>>]
  /\ slave = FALSE /\ syncing = FALSE /\ snap = NoSnap
  /\ up = FALSE /\ wire = <<>>
  /\ thread = "off" /\ retry = 0 /\ wedged = FALSE
  /\ queue = <<>> /\ consumer = "off"
  /\ stop = TRUE /\ admin = [h \in Handlers |-> "idle"] /\ isMaster = TRUE /\ stops = 0
  /\ overtaken = FALSE /\ undefined = FALSE
  /\ spoilt = FALSE

-----------------------------------------------------------------------------
(* The master. *)

\* The snapshot has all of shard s: what is broadcast now comes after it.
Sent(s) == snap = NoSnap \/ snap.shard > s

\* broadcastToSlaves: the command is sent without waiting.  A full socket takes
\* nothing (EAGAIN is not an error) or a part of it; a dead one leaves m_slaves.
broadcastToSlaves(s, m) ==
  \/ /\ ~slave
     /\ UNCHANGED <<slave, wire, spoilt>>
  \/ /\ slave /\ ~up
     /\ slave' = FALSE /\ UNCHANGED <<wire, spoilt>>
  \/ /\ slave /\ up /\ Room
     /\ wire' = Append(wire, m)
     /\ spoilt' = (spoilt \/ ~Sent(s)) /\ UNCHANGED slave
  \/ /\ slave /\ up /\ ~Room
     /\ wire' \in {wire, Append(wire, Half)}
     /\ spoilt' = TRUE /\ UNCHANGED slave

\* executeTable: a write is broadcast (the idle clients are alike: one of them writes) ...
Issue(c) ==
  /\ pending[c] = <<>> /\ Issued < MaxWrites
  /\ c = CHOOSE d \in Clients : pending[d] = <<>>
  /\ \E s \in ShardSet :
       LET i == Issued + 1
       IN /\ log' = [log EXCEPT ![s] = Append(@, i)]
          /\ pending' = [pending EXCEPT ![c] = <<[shard |-> s, id |-> i, sent |-> slave /\ up]>>]
          /\ broadcastToSlaves(s, Write(s, i))
  /\ UNCHANGED <<data, snap, syncing, up, replicaVars, adminVars>>

\* ... and its handler runs when it has the shard's lock.  Two writes that were
\* broadcast in one order may be executed in the other.
ExecuteWrite(c) ==
  /\ pending[c] # <<>>
  /\ LET w == pending[c][1]
     IN /\ snap.shard # w.shard
        /\ data' = [data EXCEPT ![w.shard] = Append(@, w.id)]
        /\ spoilt' = (spoilt \/ \E o \in Clients \ {c} : \E v \in Range(pending[o]) :
                                   v.shard = w.shard /\ v.id < w.id)
  /\ pending' = [pending EXCEPT ![c] = <<>>]
  /\ UNCHANGED <<log, slave, snap, syncing, up, wire, replicaVars, adminVars>>

\* Whether a client has a write of shard s in hand that this connection was not sent.
Unsent(s) == \E c \in Clients : \E w \in Range(pending[c]) : w.shard = s /\ ~w.sent

\* handleSYNC: addSlaves(), then the snapshot is scheduled; generateRDB() has the
\* lock of the first shard when it starts.
handleSYNC ==
  /\ syncing /\ up
  /\ syncing' = FALSE
  /\ slave' = TRUE
  /\ snap' = [shard |-> 1, at |-> 1]
  /\ pending' = [c \in Clients |-> [i \in DOMAIN pending[c] |-> [pending[c][i] EXCEPT !.sent = FALSE]]]
  /\ spoilt' = (\/ spoilt \/ queue # <<>> \/ \E s \in ShardSet : copy[s] # <<>>
                \/ \E c \in Clients : \E w \in Range(pending[c]) : w.shard = 1)
  /\ UNCHANGED <<data, log, up, wire, replicaVars, adminVars>>

\* sendRDBStreaming: the next element of the shard, or the lock of the next shard,
\* or EOF; each send waits for room in the socket.
SendElement ==
  /\ Snapping /\ up /\ Room /\ snap.shard <= Shards /\ snap.at <= Len(data[snap.shard])
  /\ wire' = Append(wire, Write(snap.shard, data[snap.shard][snap.at]))
  /\ snap' = [snap EXCEPT !.at = @ + 1]
  /\ UNCHANGED <<data, log, pending, slave, syncing, up, replicaVars, adminVars, spoilt>>

NextShard ==
  /\ Snapping /\ snap.shard <= Shards /\ snap.at > Len(data[snap.shard])
  /\ snap' = [shard |-> snap.shard + 1, at |-> 1]
  /\ spoilt' = (spoilt \/ (snap.shard < Shards /\ Unsent(snap.shard + 1)))
  /\ UNCHANGED <<data, log, pending, slave, syncing, up, wire, replicaVars, adminVars>>

SendEOF ==
  /\ Snapping /\ up /\ Room /\ snap.shard > Shards
  /\ wire' = Append(wire, EOF)
  /\ snap' = NoSnap
  /\ UNCHANGED <<data, log, pending, slave, syncing, up, replicaVars, adminVars, spoilt>>

\* The socket takes a part of the chunk only: the send counts as done, and nobody
\* sends the rest.
SendPart ==
  /\ Snapping /\ up /\ ~Room
  /\ \/ /\ snap.shard <= Shards /\ snap.at <= Len(data[snap.shard])
        /\ snap' = [snap EXCEPT !.at = @ + 1]
     \/ snap.shard > Shards /\ snap' = NoSnap
  /\ wire' = Append(wire, Half)
  /\ spoilt' = TRUE
  /\ UNCHANGED <<data, log, pending, slave, syncing, up, replicaVars, adminVars>>

\* The send fails: the replica is removed and the coroutine, with its lock, ends.
SendFails ==
  /\ Snapping /\ ~up
  /\ snap' = NoSnap /\ slave' = FALSE
  /\ UNCHANGED <<data, log, pending, syncing, up, wire, replicaVars, adminVars, spoilt>>

-----------------------------------------------------------------------------
(* The replica: the replication thread. *)

Close == up' = FALSE /\ wire' = <<>> /\ syncing' = FALSE

\* What the commands ms push to the list of shard s, and the lists after them.
Pushes(s, ms) ==
  FlattenSeq([i \in 1..Len(ms) |-> IF ms[i].shard = s /\ ms[i].id > 0 THEN <<ms[i].id>> ELSE <<>>])
Apply(lists, ms) == [s \in ShardSet |-> lists[s] \o Pushes(s, ms)]

\* The top of replicationLoop: retry_count is of the thread, not of the outage.
GiveUp ==
  /\ thread = "loop" /\ ~stop /\ retry = Retries
  /\ thread' = "gaveup"
  /\ UNCHANGED <<masterVars, syncing, up, wire, copy, retry, wedged, queue, consumer, adminVars, spoilt>>

\* Connect and send AUTH and SYNC; the master has dropped the old connection by
\* then, a failed attempt waits for five seconds.
Connect ==
  /\ thread = "loop" /\ ~stop /\ retry < Retries /\ ~Snapping
  /\ retry' = retry + 1
  /\ \/ /\ up' = TRUE /\ syncing' = TRUE /\ wire' = <<>> /\ slave' = FALSE
        /\ thread' = "transfer" /\ wedged' = FALSE
     \/ UNCHANGED <<up, syncing, wire, slave, thread, wedged>>
  /\ UNCHANGED <<data, log, pending, snap, copy, queue, consumer, adminVars, spoilt>>

\* loadRDBFromMemory executes the commands of the snapshot, and whatever else it
\* receives before EOF. An "EOF" that two chunks share is not seen.
LoadCommand ==
  /\ thread = "transfer" /\ ~stop /\ wire # <<>> /\ Head(wire) # EOF
  /\ wire' = Tail(wire)
  /\ copy' = IF wedged THEN copy ELSE Apply(copy, <<Head(wire)>>)
  /\ wedged' \in {wedged, wedged \/ Head(wire) = Half}
  /\ UNCHANGED <<masterVars, syncing, up, thread, retry, queue, consumer, adminVars, spoilt>>

\* Mutant of FinishTransfer: what follows EOF in its chunk is dropped.
FinishTransferDropsRest ==
  /\ thread = "transfer" /\ ~stop /\ wire # <<>> /\ Head(wire) = EOF
  /\ \E n \in 0..(Len(wire) - 1) : wire' = SubSeq(wire, n + 2, Len(wire))
  /\ thread' = "online"
  /\ UNCHANGED <<masterVars, syncing, up, copy, retry, wedged, queue, consumer, adminVars, spoilt>>

\* The chunk with EOF in it is the last of the transfer: the n commands behind it in
\* the chunk are executed too, and when the chunk ends within a command (torn) the
\* first part of that command is lost with the parser. An "EOF" that two chunks share
\* is not seen: the thread goes on as before.
FinishTransfer ==
  /\ thread = "transfer" /\ ~stop /\ wire # <<>> /\ Head(wire) = EOF
  /\ \/ /\ wire' = Tail(wire)
        /\ UNCHANGED <<copy, thread, wedged, spoilt>>
     \/ \E n \in 0..(Len(wire) - 1) : \E torn \in BOOLEAN :
          /\ torn => n + 2 <= Len(wire)
          /\ wire' = SubSeq(wire, IF torn THEN n + 3 ELSE n + 2, Len(wire))
          /\ copy' = IF wedged THEN copy ELSE Apply(copy, SubSeq(wire, 2, n + 1))
          /\ thread' = "online"
          /\ wedged' \in IF torn THEN BOOLEAN ELSE {FALSE}
          /\ spoilt' = (spoilt \/ torn)
  /\ UNCHANGED <<masterVars, syncing, up, retry, queue, consumer, adminVars>>

\* Any "EOF" in a chunk ends the transfer, one in the data too: the chunk is executed
\* to its end as above, and the rest of the snapshot goes through the queue. The
\* consumer starts in database 0, which is another one than the snapshot was in or
\* the same.
EndsEarly ==
  /\ thread = "transfer" /\ ~stop /\ wire # <<>> /\ Head(wire).id \in Eofs \cup {Half.id}
  /\ \E n \in 0..(Len(wire) - 1) : \E torn, elsewhere \in BOOLEAN :
       /\ torn => n + 2 <= Len(wire)
       /\ wire' = SubSeq(wire, IF torn THEN n + 3 ELSE n + 2, Len(wire))
       /\ copy' = IF wedged THEN copy ELSE Apply(copy, SubSeq(wire, 1, n + 1))
       /\ wedged' \in IF torn THEN BOOLEAN ELSE {FALSE}
       /\ spoilt' = (spoilt \/ torn \/ elsewhere)
  /\ thread' = "online"
  /\ UNCHANGED <<masterVars, syncing, up, retry, queue, consumer, adminVars>>

\* Online, what is received goes to the queue.
Enqueue ==
  /\ thread = "online" /\ ~stop /\ wire # <<>>
  /\ wire' = Tail(wire)
  /\ queue' = IF wedged \/ Head(wire).id <= 0 THEN queue ELSE Append(queue, Head(wire))
  /\ wedged' \in {wedged, wedged \/ Head(wire) = Half}
  /\ UNCHANGED <<masterVars, syncing, up, copy, thread, retry, consumer, adminVars, spoilt>>

\* recv() returns 0 or an error: close, wait and connect again.
Disconnected ==
  /\ thread \in {"transfer", "online"} /\ ~up /\ ~stop
  /\ thread' = "loop"
  /\ Close
  /\ UNCHANGED <<masterVars, copy, retry, wedged, queue, consumer, adminVars, spoilt>>

\* The loops end when the flag is set.
ThreadEnds ==
  /\ stop /\ thread \in {"loop", "transfer", "online"}
  /\ thread' = "off"
  /\ Close
  /\ UNCHANGED <<masterVars, copy, retry, wedged, queue, consumer, adminVars, spoilt>>

\* The connection is lost with what is on it.
LinkDown ==
  /\ up
  /\ Close
  /\ UNCHANGED <<masterVars, replicaVars, adminVars, spoilt>>

-----------------------------------------------------------------------------
(* The replica: the consumer coroutine and REPLICAOF. *)

\* The handlers that are at one of the places.
At(places) == {h \in Handlers : admin[h] \in places}

\* processReplQueue() never suspends: it needs a worker for itself, and a handler
\* that waits for its end keeps one.
ConsumerStarts ==
  /\ consumer = "scheduled" /\ Cardinality(At({"join", "wait"})) < Workers
  /\ consumer' = "running"
  /\ UNCHANGED <<masterVars, syncing, up, wire, copy, thread, retry, wedged, queue, adminVars, spoilt>>

Consume ==
  /\ consumer = "running" /\ ~stop /\ queue # <<>>
  /\ copy' = Apply(copy, <<Head(queue)>>)
  /\ queue' = Tail(queue)
  /\ UNCHANGED <<masterVars, syncing, up, wire, thread, retry, wedged, consumer, adminVars, spoilt>>

\* Mutant of ConsumerEnds: the consumer leaves its loop only with an empty queue.
ConsumerEndsWhenDrained ==
  /\ consumer = "running" /\ stop /\ queue = <<>>
  /\ consumer' = "off"
  /\ UNCHANGED <<masterVars, syncing, up, wire, copy, thread, retry, wedged, queue, adminVars, spoilt>>

ConsumerEnds ==
  /\ consumer = "running" /\ stop
  /\ consumer' = "off"
  /\ UNCHANGED <<masterVars, syncing, up, wire, copy, thread, retry, wedged, queue, adminVars, spoilt>>


\* startReplication(): it returns at once while a replication runs; otherwise the flags
\* are cleared, the thread and, unless the old one has not ended, the consumer start.
startReplication ==
  IF ~stop THEN UNCHANGED <<stop, thread, retry, consumer>>
  ELSE /\ stop' = FALSE
       /\ thread' = "loop" /\ retry' = 0
       /\ consumer' = IF consumer = "off" THEN "scheduled" ELSE consumer

\* REPLICAOF host port on a server that is a master. On one that is a replica of this
\* master it does nothing.
handleREPLICAOF ==
  /\ isMaster /\ At({"join"}) = {}
  /\ isMaster' = FALSE
  /\ startReplication
  /\ UNCHANGED <<masterVars, syncing, up, wire, copy, wedged, queue, admin, stops, overtaken, undefined, spoilt>>

\* SLAVEOF, whose handler is a copy of the one of REPLICAOF.
handleSLAVEOF == handleREPLICAOF

\* Two handlers at m_relp_thread: a start or a second stop, past its look at the flags,
\* joins the thread that the first one is joining, or two start a thread each.
RaceForThread ==
  /\ \E g, h \in Handlers : /\ g # h /\ admin[g] = "idle"
                            /\ admin[h] = "join" \/ (admin[h] = "idle" /\ isMaster /\ stop)
  /\ undefined' = TRUE
  /\ UNCHANGED <<masterVars, syncing, up, wire, replicaVars, stop, admin, isMaster, stops, overtaken, spoilt>>

\* REPLICAOF NO ONE (from one of the idle connections, which are alike, too):
\* stopReplication() sets the flags and closes the connection ...
StopReplication(h) ==
  /\ ~isMaster /\ admin[h] = "idle" /\ ~stop /\ stops < MaxStops
  /\ h = CHOOSE g \in Handlers : admin[g] = "idle"
  /\ stop' = TRUE /\ stops' = stops + 1
  /\ Close
  /\ admin' = [admin EXCEPT ![h] = "join"]
  /\ UNCHANGED <<masterVars, replicaVars, isMaster, overtaken, undefined, spoilt>>

\* ... or returns at once when another handler has set them, which may still wait ...
StopAgain(h) ==
  /\ ~isMaster /\ admin[h] = "idle" /\ stop
  /\ h = CHOOSE g \in Handlers : admin[g] = "idle"
  /\ admin' = [admin EXCEPT ![h] = "store"]
  /\ overtaken' = TRUE
  /\ UNCHANGED <<masterVars, syncing, up, wire, replicaVars, stop, isMaster, stops, undefined, spoilt>>

\* ... joins the thread ...
JoinThread(h) ==
  /\ admin[h] = "join" /\ thread \in {"off", "gaveup"}
  /\ admin' = [admin EXCEPT ![h] = "wait"]
  /\ UNCHANGED <<masterVars, syncing, up, wire, replicaVars, stop, isMaster, stops, overtaken, undefined, spoilt>>

\* ... waits for the consumer ...
SeeConsumerEnd(h) ==
  /\ admin[h] = "wait" /\ consumer = "off"
  /\ admin' = [admin EXCEPT ![h] = "clear"]
  /\ UNCHANGED <<masterVars, syncing, up, wire, replicaVars, stop, isMaster, stops, overtaken, undefined, spoilt>>

\* Mutant of Stopped: the queue keeps the commands of the old master.
StoppedKeepsQueue(h) ==
  /\ admin[h] = "clear"
  /\ admin' = [admin EXCEPT ![h] = "store"]
  /\ UNCHANGED <<masterVars, syncing, up, wire, replicaVars, stop, isMaster, stops, overtaken, undefined, spoilt>>

\* ... empties the queue, which may be that of the next replication by now ...
Stopped(h) ==
  /\ admin[h] = "clear"
  /\ queue' = <<>>
  /\ spoilt' = (spoilt \/ (~stop /\ queue # <<>>))
  /\ admin' = [admin EXCEPT ![h] = "store"]
  /\ UNCHANGED <<masterVars, syncing, up, wire, copy, thread, retry, wedged, consumer, stop, isMaster, stops,
                 overtaken, undefined>>

\* ... and the server is a master again.
BecomeMaster(h) ==
  /\ admin[h] = "store"
  /\ isMaster' = TRUE
  /\ admin' = [admin EXCEPT ![h] = "idle"]
  /\ UNCHANGED <<masterVars, syncing, up, wire, replicaVars, stop, stops, overtaken, undefined, spoilt>>

-----------------------------------------------------------------------------
MasterStep == SendElement \/ SendPart \/ NextShard \/ SendEOF \/ SendFails \/ handleSYNC
ThreadStep == GiveUp \/ Connect \/ LoadCommand \/ FinishTransfer \/ EndsEarly \/ Enqueue
              \/ Disconnected \/ ThreadEnds
ConsumerStep == ConsumerStarts \/ Consume \/ ConsumerEnds
HandlerStep(h) == JoinThread(h) \/ SeeConsumerEnd(h) \/ Stopped(h) \/ BecomeMaster(h)

Next ==
  /\ ~undefined
  /\ \/ \E c \in Clients : Issue(c) \/ ExecuteWrite(c)
     \/ MasterStep \/ ThreadStep \/ ConsumerStep
     \/ \E h \in Handlers : HandlerStep(h) \/ StopReplication(h) \/ StopAgain(h)
     \/ LinkDown \/ handleREPLICAOF \/ handleSLAVEOF \/ RaceForThread

\* Workers, the thread, the sockets and the handlers make progress; nobody has to
\* write, to lose the connection or to change the role of the server.
Fairness ==
  /\ \A c \in Clients : WF_vars(~undefined /\ ExecuteWrite(c))
  /\ WF_vars(~undefined /\ MasterStep) /\ WF_vars(~undefined /\ ThreadStep) /\ WF_vars(~undefined /\ ConsumerStep)
  /\ \A h \in Handlers : WF_vars(~undefined /\ HandlerStep(h))

Spec == Init /\ [][Next]_vars /\ Fairness

-----------------------------------------------------------------------------
(* Properties. *)

TypeOK ==
  /\ \A s \in ShardSet : Range(data[s]) \cup Range(log[s]) \cup Range(copy[s]) \subseteq 1..MaxWrites
  /\ \A c \in Clients : Len(pending[c]) <= 1
  /\ thread \in {"off", "loop", "transfer", "online", "gaveup"} /\ retry \in 0..Retries
  /\ consumer \in {"off", "scheduled", "running"} /\ admin \in [Handlers -> {"idle", "join", "wait", "clear", "store"}]
  /\ {slave, syncing, up, wedged, stop, isMaster, overtaken, undefined, spoilt} \subseteq BOOLEAN

Copying == INSTANCE LogCopy WITH Lists <- ShardSet

\* Replication implements the copying of a log: unless a write met the snapshot or
\* another write of its shard half way, or a full socket, the end of a chunk or of the
\* transfer, a reconnection or an overtaken stop spoilt the copy, every list of the
\* replica is the master's list as it was issued up to some point, snapshot, hand-over
\* to the queue and broadcasts taken together.
ImplementsLogCopy == Copying!Spec


\* stopReplication() leaves nothing behind that could still execute a command of the
\* old master: when the flags are set and every handler has returned, the thread and
\* the consumer have ended and the queue is empty, whoever overtook whom; and a server
\* whose handlers did not overtake each other says that it is a master only then.
NothingAppliedAfterStop ==
  /\ stop /\ At({"idle"}) = Handlers => thread \in {"off", "gaveup"} /\ consumer = "off" /\ queue = <<>>
  /\ isMaster /\ ~overtaken => stop /\ At({"idle"}) = Handlers

\* REPLICAOF NO ONE returns, whatever the thread and the consumer are doing, when there
\* are more workers than handlers, unless another replication is started over it.
StopReturns == (At({"idle"}) # Handlers) ~> (At({"idle"}) = Handlers \/ ~stop \/ undefined)
=============================================================================
