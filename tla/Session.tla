------------------------------- MODULE Session -------------------------------
(***************************************************************************)
(* The connections of the server: the client loop of CommandHandler        *)
(* (command_handler.cpp, batch mode) with its transaction and subscription *)
(* modes, the mode state of MSocket (msocket.h), the channel lists of      *)
(* SubscriptionModule (subscription.cpp), the list of MonitorModule        *)
(* (monitor.cpp) and ShutDownServer().                                     *)
(*                                                                         *)
(* Every connection is a coroutine; coroutines run on several workers, so  *)
(* the steps of two connections interleave. The requests of a connection   *)
(* are numbered in the order in which they are sent; what the next one is  *)
(* is chosen from the connection's Menu when it is parsed. One watched key *)
(* stands for the data; a command that neither writes it nor touches the   *)
(* session is any other entry of the menu. The lists of sockets, of a      *)
(* channel and of the monitors, may hold a socket several times; which     *)
(* entry comes first is of no consequence, so a list is kept as the number *)
(* of entries of each client.                                              *)
(***************************************************************************)
EXTENDS Integers, Sequences, FiniteSets, SequencesExt

CONSTANTS
  Clients,      \* connections, each made at most once
  Channels,     \* names of channels
  Menu,         \* the commands each client may send, by number: records [cmd, args]
  BatchMax,     \* s_max_exec_batch_size
  MaxRequests,  \* bound: requests of each client
  NoClient

ASSUME BoundsAssumption == BatchMax \in Nat \ {0} /\ MaxRequests \in [Clients -> Nat]
ASSUME ClientsAssumption == NoClient \notin Clients
ASSUME ChannelsAssumption ==
  /\ IsFiniteSet(Channels) /\ Channels \cap Nat = {}
  /\ \A c \in Clients : \A i \in 1 .. MaxRequests[c] : \A m \in Menu[c][i] :
       /\ m.cmd = "PUBLISH" => m.args[1] \in Channels
       /\ m.cmd \in {"SUBSCRIBE", "UNSUBSCRIBE"} => m.args \in Seq(Channels)

VARIABLES
  shutdown,   \* ServerData::m_shutdown
  stopped,    \* TcpServer::m_isStop
  clients,    \* m_clients
  value,      \* the key; 0 when it is not in the store
  monitors,   \* m_monitor_clients: how often each client is listed
  channels,   \* m_channels: per channel how often each client is listed
  loc,        \* the locals of each handleClient()
  sock,       \* each MSocket: modes, transaction, watches, connection
  wire,       \* what was sent to each client: replies (numbers) and messages
  hist        \* history per client, for the properties only

server == <<shutdown, stopped, clients>>
vars   == <<server, monitors, value, channels, loc, sock, wire, hist>>

\* loc[c].pc: "new" before accept; "begin"; "top" of the loop; "recv" in the
\* system call; "wait" suspended in it; "woken" resumed from it; "parse";
\* "exec" a batch; "subscribe", "unsubscribe", "commit" inside those commands;
\* "drain" after the parse loop; "yield"; "cancel" and "close" inside
\* ShutDownServer(); "clean" after the loop; "closed".
Pcs == {"new", "begin", "top", "recv", "wait", "woken", "parse", "exec", "subscribe", "unsubscribe",
        "commit", "drain", "yield", "cancel", "close", "clean", "closed"}

Nowhere == [c \in Clients |-> 0]  \* an empty list
NewLoc  == [pc |-> "new", back |-> "parse", buf |-> 0, id |-> 0, batch |-> <<>>, out |-> <<>>,
            chans |-> <<>>, todo |-> {}, victim |-> NoClient]
NewSock == [connected |-> FALSE, inTransaction |-> FALSE, inSubScription |-> FALSE, inMonitor |-> FALSE,
            transaction |-> <<>>, watched |-> {}, subs |-> {}]
NewHist == [ran |-> <<>>, batched |-> {}, queued |-> {}, dropped |-> {}, late |-> FALSE]

Init ==
  /\ shutdown = FALSE /\ stopped = FALSE /\ clients = {}
  /\ value = 0 /\ monitors = Nowhere
  /\ channels = [ch \in Channels |-> Nowhere]
  /\ loc = [c \in Clients |-> NewLoc]
  /\ sock = [c \in Clients |-> NewSock]
  /\ wire = [c \in Clients |-> <<>>]
  /\ hist = [c \in Clients |-> NewHist]

At(c, pc) == loc[c].pc = pc

Goto(c, pc) == loc' = [loc EXCEPT ![c].pc = pc]

\* send_response(): client c goes on with locals l once what l has buffered is
\* sent, or dropped because the socket was closed; w is the wire so far. (A peer
\* that goes away is noticed when the loop reads again, see Depart.)
SendResponse(c, l, w) ==
  /\ loc' = [loc EXCEPT ![c] = [l EXCEPT !.out = <<>>]]
  /\ wire' = [w EXCEPT ![c] = IF sock[c].connected THEN @ \o l.out ELSE @]

\* pushToMonitor() writes to the monitors that are connected and drops the others; what
\* it writes is left out.
PushToMonitor(list) == monitors' = [d \in Clients |-> IF sock[d].connected THEN list[d] ELSE 0]

\* An answer of the parse loop that is no QUEUED is shown to the monitors and sent at
\* once; the commands of a batch are not shown.
Answer(c, l, w) == PushToMonitor(monitors) /\ SendResponse(c, l, w)

-----------------------------------------------------------------------------
(* The client loop: reading. *)

\* startAccept() hands a connection to handleClient().
Accept(c) ==
  /\ At(c, "new") /\ ~stopped
  /\ Goto(c, "begin")
  /\ sock' = [sock EXCEPT ![c].connected = TRUE]
  /\ UNCHANGED <<server, monitors, value, channels, wire, hist>>

Begin(c) ==
  /\ At(c, "begin")
  /\ clients' = clients \cup {c}
  /\ Goto(c, "top")
  /\ UNCHANGED <<shutdown, stopped, monitors, value, channels, sock, wire, hist>>

\* The head of the loop; ShutDownServer() sets both flags and closes the
\* listening sockets first.
Top(c) ==
  /\ At(c, "top")
  /\ IF shutdown \/ stopped
       THEN /\ shutdown' = TRUE /\ stopped' = TRUE
            /\ loc' = [loc EXCEPT ![c].pc = "cancel", ![c].todo = clients]
       ELSE Goto(c, "recv") /\ UNCHANGED <<shutdown, stopped>>
  /\ UNCHANGED <<clients, monitors, value, channels, sock, wire, hist>>

\* recv() would block: the coroutine registers for the event and suspends.
Suspend(c) ==
  /\ At(c, "recv") /\ sock[c].connected
  /\ Goto(c, "wait")
  /\ hist' = [hist EXCEPT ![c].late = \E d \in Clients : loc[d].victim = c]
  /\ UNCHANGED <<server, monitors, value, channels, sock, wire>>

Receiving(c) == \E pc \in {"recv", "wait", "woken"} : At(c, pc)

\* One or more requests arrive; the parser takes them.
Receive(c) ==
  /\ Receiving(c) /\ sock[c].connected
  /\ \E n \in 1 .. MaxRequests[c] - loc[c].id - loc[c].buf :
       loc' = [loc EXCEPT ![c].pc = "parse", ![c].buf = @ + n]
  /\ UNCHANGED <<server, monitors, value, channels, sock, wire, hist>>

\* The peer closes the connection or breaks the protocol (recv() returns 0 or
\* an error, feed() or the size check overflows): the loop ends.
Depart(c) ==
  /\ Receiving(c) /\ sock[c].connected
  /\ Goto(c, "clean")
  /\ UNCHANGED <<server, monitors, value, channels, sock, wire, hist>>

\* recv() fails because the socket was closed. Nothing wakes a coroutine whose
\* descriptor was closed while it was suspended.
Leave(c) ==
  /\ (At(c, "recv") \/ At(c, "woken")) /\ ~sock[c].connected
  /\ Goto(c, "clean")
  /\ UNCHANGED <<server, monitors, value, channels, sock, wire, hist>>

\* recv() fails with EAGAIN after a cancellation, or on a closed socket, where
\* errno is what the thread saw last: back to the head of the loop.
Again(c) ==
  /\ At(c, "woken") \/ (At(c, "recv") /\ ~sock[c].connected)
  /\ Goto(c, "top")
  /\ UNCHANGED <<server, monitors, value, channels, sock, wire, hist>>

-----------------------------------------------------------------------------
(* Commands of the table, executed in a batch or by EXEC. *)

WatchedAfter(c, m) ==
  CASE m.cmd = "WATCH"   -> {value}
    [] m.cmd = "UNWATCH" -> {}
    [] OTHER             -> sock[c].watched

\* executeTable() of request r.id for client c. A command the table does not
\* know (MULTI and EXEC included) changes nothing.
Execute(c, r) ==
  /\ value' = IF r.m.cmd = "SET" THEN r.m.args[1] ELSE value
  /\ shutdown' = (shutdown \/ r.m.cmd = "SHUTDOWN")
  /\ hist' = [hist EXCEPT ![c].ran = Append(@, r.id)]

\* handleMONITOR() lists the client, once more if it was listed already.
Monitors(c, m) == IF m.cmd = "MONITOR" THEN [monitors EXCEPT ![c] = @ + 1] ELSE monitors
MonitorAfter(c, m) == sock[c].inMonitor \/ m.cmd = "MONITOR"

\* executeBatch() command by command; other workers run in between. A response
\* that reaches s_max_batch_size is sent, and the coroutine suspends in
\* suspend_always, which registers it nowhere.
ExecuteBatch(c) ==
  /\ At(c, "exec")
  /\ LET r == Head(loc[c].batch) IN
       /\ Execute(c, r)
       /\ sock' = [sock EXCEPT ![c].watched = WatchedAfter(c, r.m), ![c].inMonitor = MonitorAfter(c, r.m)]
       /\ monitors' = Monitors(c, r.m)
       /\ LET l == [loc[c] EXCEPT !.batch = Tail(@), !.out = Append(@, r.id)] IN
            \/ /\ loc' = [loc EXCEPT ![c] = [l EXCEPT !.pc = IF l.batch # <<>> THEN "exec" ELSE l.back]]
               /\ UNCHANGED wire
            \/ l.batch = <<>> /\ SendResponse(c, [l EXCEPT !.pc = "yield"], wire)
  /\ UNCHANGED <<stopped, clients, channels>>

-----------------------------------------------------------------------------
(* The parse loop. *)

Parsing(c) == At(c, "parse") /\ loc[c].buf > 0
InMode(c)  == sock[c].inTransaction \/ sock[c].inSubScription
ModeCmds   == {"MULTI", "SUBSCRIBE", "PUBLISH"}

\* What the next request can be. A HUGE one is an array of more than 1000
\* elements.
Parsed(c) == Menu[c][loc[c].id + 1]
Sane(c)   == {m \in Parsed(c) : m.cmd # "HUGE"}

\* The locals after the next request was taken from the parser, and after it
\* was answered besides (the answer is sent at once).
Taken(c)    == [loc[c] EXCEPT !.buf = @ - 1, !.id = @ + 1]
Answered(c) == [Taken(c) EXCEPT !.out = Append(@, loc[c].id + 1)]

\* A table command is collected; a full batch is executed.
Collect(c) ==
  /\ Parsing(c) /\ ~InMode(c)
  /\ \E m \in Sane(c) :
       /\ m.cmd \notin ModeCmds
       /\ LET b == Append(loc[c].batch, [id |-> loc[c].id + 1, m |-> m]) IN
            loc' = [loc EXCEPT ![c] = [Taken(c) EXCEPT !.batch = b, !.back = "parse",
                                         !.pc = IF Len(b) >= BatchMax THEN "exec" ELSE "parse"]]
  /\ hist' = [hist EXCEPT ![c].batched = @ \cup {loc[c].id + 1}]
  /\ UNCHANGED <<server, monitors, value, channels, sock, wire>>

\* A command of the mode, or a command that switches modes, that is refused
\* (authentication, number of arguments), and PING in subscription mode.
AnswerOnly(c) ==
  /\ Parsing(c)
  /\ \E m \in Sane(c) :
       /\ sock[c].inTransaction => m.cmd \in {"EXEC", "DISCARD"}
       /\ InMode(c) \/ m.cmd \in ModeCmds
  /\ Answer(c, Answered(c), wire)
  /\ UNCHANGED <<server, value, channels, sock, hist>>

\* An array of more than 1000 elements: the answer is buffered and the loop
\* left, with the requests behind it still in the parser.
TooLarge(c) ==
  /\ Parsing(c)
  /\ \E m \in Parsed(c) : m.cmd = "HUGE"
  /\ loc' = [loc EXCEPT ![c] = [Answered(c) EXCEPT !.pc = "drain"]]
  /\ UNCHANGED <<server, monitors, value, channels, sock, wire, hist>>

Multi(c) ==
  /\ Parsing(c) /\ ~InMode(c)
  /\ \E m \in Sane(c) : m.cmd = "MULTI"
  /\ sock' = [sock EXCEPT ![c].inTransaction = TRUE]
  /\ Answer(c, Answered(c), wire)
  /\ UNCHANGED <<server, value, channels, hist>>

Queue(c) ==
  /\ Parsing(c) /\ sock[c].inTransaction
  /\ \E m \in Sane(c) :
       /\ m.cmd \notin {"EXEC", "DISCARD"}
       /\ sock' = [sock EXCEPT ![c].transaction = Append(@, [id |-> loc[c].id + 1, m |-> m])]
  /\ hist' = [hist EXCEPT ![c].queued = @ \cup {loc[c].id + 1}]
  /\ SendResponse(c, Answered(c), wire)
  /\ UNCHANGED <<server, monitors, value, channels>>

Ids(rs) == {rs[i].id : i \in DOMAIN rs}

\* Mutant of Discard: the queued commands stay.
DiscardKeepsQueue(c) ==
  /\ Parsing(c) /\ sock[c].inTransaction
  /\ \E m \in Sane(c) : m.cmd = "DISCARD"
  /\ sock' = [sock EXCEPT ![c].inTransaction = FALSE]
  /\ hist' = [hist EXCEPT ![c].dropped = @ \cup Ids(sock[c].transaction)]
  /\ Answer(c, Answered(c), wire)
  /\ UNCHANGED <<server, value, channels>>

\* DISCARD leaves the watches as they are.
Discard(c) ==
  /\ Parsing(c) /\ sock[c].inTransaction
  /\ \E m \in Sane(c) : m.cmd = "DISCARD"
  /\ sock' = [sock EXCEPT ![c].inTransaction = FALSE, ![c].transaction = <<>>]
  /\ hist' = [hist EXCEPT ![c].dropped = @ \cup Ids(sock[c].transaction)]
  /\ Answer(c, Answered(c), wire)
  /\ UNCHANGED <<server, value, channels>>

\* hasKeyModified(): a watched version differs from the present one. The
\* version of a key is the hash of its value, 0 when there is none.
HasKeyModified(c) == \E v \in sock[c].watched : v # value

\* EXEC compares the versions first ...
Exec(c) ==
  /\ Parsing(c) /\ sock[c].inTransaction
  /\ \E m \in Sane(c) : m.cmd = "EXEC"
  /\ IF HasKeyModified(c)
       THEN /\ sock' = [sock EXCEPT ![c].inTransaction = FALSE, ![c].transaction = <<>>, ![c].watched = {}]
            /\ hist' = [hist EXCEPT ![c].dropped = @ \cup Ids(sock[c].transaction)]
            /\ Answer(c, Answered(c), wire)
       ELSE /\ loc' = [loc EXCEPT ![c] = [Taken(c) EXCEPT !.pc = "commit"]]
            /\ UNCHANGED <<sock, hist, wire, monitors>>
  /\ UNCHANGED <<server, value, channels>>

\* ... then executes the queued commands, with other workers in between ...
Commit(c) ==
  /\ At(c, "commit") /\ sock[c].transaction # <<>>
  /\ LET r == Head(sock[c].transaction) IN
       /\ Execute(c, r)
       /\ sock' = [sock EXCEPT ![c].transaction = Tail(@), ![c].watched = WatchedAfter(c, r.m),
                                ![c].inMonitor = MonitorAfter(c, r.m)]
       /\ monitors' = Monitors(c, r.m)
  /\ UNCHANGED <<stopped, clients, channels, loc, wire>>

\* ... and leaves the transaction mode.
EndCommit(c) ==
  /\ At(c, "commit") /\ sock[c].transaction = <<>>
  /\ sock' = [sock EXCEPT ![c].inTransaction = FALSE, ![c].watched = {}]
  /\ Answer(c, [loc[c] EXCEPT !.out = Append(@, loc[c].id), !.pc = "parse"], wire)
  /\ UNCHANGED <<server, value, channels, hist>>

-----------------------------------------------------------------------------
(* Subscriptions. *)

\* SUBSCRIBE of channels, each listed as often as it is named.
Subscribe(c) ==
  /\ Parsing(c) /\ ~InMode(c)
  /\ \E m \in Sane(c) :
       /\ m.cmd = "SUBSCRIBE"
       /\ loc' = [loc EXCEPT ![c] = [Taken(c) EXCEPT !.pc = "subscribe", !.chans = m.args]]
  /\ sock' = [sock EXCEPT ![c].inSubScription = TRUE]
  /\ UNCHANGED <<server, monitors, value, channels, wire, hist>>

\* addSubScriptionChannel() and addSubscriber() of the next channel.
AddSubscriber(c) ==
  /\ At(c, "subscribe") /\ loc[c].chans # <<>>
  /\ LET ch == Head(loc[c].chans) IN
       /\ sock' = [sock EXCEPT ![c].subs = @ \cup {ch}]
       /\ channels' = [channels EXCEPT ![ch][c] = @ + 1]
  /\ loc' = [loc EXCEPT ![c].chans = Tail(@)]
  /\ UNCHANGED <<server, monitors, value, wire, hist>>

\* remove_if: every entry of the client goes.
Without(list, c) == [list EXCEPT ![c] = 0]

\* UNSUBSCRIBE of the channels it names, or of all.
Unsubscribe(c) ==
  /\ Parsing(c) /\ sock[c].inSubScription
  /\ \E m \in Sane(c) :
       /\ m.cmd = "UNSUBSCRIBE"
       /\ loc' = [loc EXCEPT ![c] =
            [Taken(c) EXCEPT !.pc = "unsubscribe",
                             !.chans = IF m.args = <<>> THEN SetToSeq(sock[c].subs) ELSE m.args]]
  /\ UNCHANGED <<server, monitors, value, channels, sock, wire, hist>>

\* Mutant of RemoveSubscriber: only the first entry is removed.
RemoveOneSubscription(c) ==
  /\ At(c, "unsubscribe") /\ loc[c].chans # <<>>
  /\ LET ch == Head(loc[c].chans) IN
       /\ sock' = [sock EXCEPT ![c].subs = @ \ {ch}]
       /\ channels' = [channels EXCEPT ![ch] = [@ EXCEPT ![c] = IF @ = 0 THEN 0 ELSE @ - 1]]
  /\ loc' = [loc EXCEPT ![c].chans = Tail(@)]
  /\ UNCHANGED <<server, monitors, value, wire, hist>>

\* removeSubscriber() takes every entry of the client out of the list.
RemoveSubscriber(c) ==
  /\ At(c, "unsubscribe") /\ loc[c].chans # <<>>
  /\ LET ch == Head(loc[c].chans) IN
       /\ sock' = [sock EXCEPT ![c].subs = @ \ {ch}]
       /\ channels' = [channels EXCEPT ![ch] = Without(@, c)]
  /\ loc' = [loc EXCEPT ![c].chans = Tail(@)]
  /\ UNCHANGED <<server, monitors, value, wire, hist>>

\* The answer to both; without channels the client leaves the mode.
EndSubscription(c) ==
  /\ At(c, "subscribe") \/ At(c, "unsubscribe")
  /\ loc[c].chans = <<>>
  /\ sock' = [sock EXCEPT ![c].inSubScription = sock[c].subs # {}]
  /\ Answer(c, [loc[c] EXCEPT !.out = Append(@, loc[c].id), !.pc = "parse"], wire)
  /\ UNCHANGED <<server, value, channels, hist>>

\* publishMessage() writes to the sockets of the list itself, once per entry,
\* under the lock of the lists.
Publish(c) ==
  /\ Parsing(c) /\ ~InMode(c)
  /\ \E m \in Sane(c) :
       /\ m.cmd = "PUBLISH"
       /\ LET ch == m.args[1]
              Copies(d) == IF sock[d].connected THEN [i \in 1 .. channels[ch][d] |-> ch] ELSE <<>>
          IN Answer(c, Answered(c), [d \in Clients |-> wire[d] \o Copies(d)])
  /\ UNCHANGED <<server, value, channels, sock, hist>>

-----------------------------------------------------------------------------
(* The end of an iteration. *)

AfterParsing(c) == At(c, "drain") \/ (At(c, "parse") /\ loc[c].buf = 0)

\* Mutant of Drain: the rest of the batch is dropped.
DrainForgetsBatch(c) ==
  /\ AfterParsing(c)
  /\ SendResponse(c, [loc[c] EXCEPT !.pc = "top", !.batch = <<>>], wire)
  /\ UNCHANGED <<server, monitors, value, channels, sock, hist>>

\* After the parse loop the rest of the batch is executed, then what is
\* buffered is sent.
Drain(c) ==
  /\ AfterParsing(c)
  /\ IF loc[c].batch # <<>>
       THEN loc' = [loc EXCEPT ![c].pc = "exec", ![c].back = "drain"] /\ UNCHANGED wire
       ELSE SendResponse(c, [loc[c] EXCEPT !.pc = "top", !.back = "parse"], wire)
  /\ UNCHANGED <<server, monitors, value, channels, sock, hist>>

-----------------------------------------------------------------------------
(* The end: ShutDownServer() and the code after the loop. *)

\* Mutant of CancelAll: nobody is woken.
CancelNobody(c) ==
  /\ At(c, "cancel")
  /\ \E d \in loc[c].todo :
       loc' = [loc EXCEPT ![c].pc = "close", ![c].victim = d, ![c].todo = @ \ {d}]
  /\ UNCHANGED <<server, monitors, value, channels, sock, wire, hist>>

\* cancelAll() of the next client: it wakes one that waits for an event.
CancelAll(c) ==
  /\ At(c, "cancel")
  /\ \E d \in loc[c].todo :
       loc' = [loc EXCEPT ![c].pc = "close", ![c].victim = d, ![c].todo = @ \ {d},
                          ![d].pc = IF At(d, "wait") /\ sock[d].connected THEN "woken"
                                    ELSE IF d = c THEN "close" ELSE @]
  /\ UNCHANGED <<server, monitors, value, channels, sock, wire, hist>>

\* shutdown() and close(). A client that suspended after cancelAll() is woken
\* only if the epoll thread sees the hang-up before the descriptor is gone.
CloseClient(c) ==
  /\ At(c, "close")
  /\ LET d == loc[c].victim IN
       /\ sock' = [sock EXCEPT ![d].connected = FALSE]
       /\ \E pc \in IF At(d, "wait") /\ sock[d].connected THEN {"wait", "woken"} ELSE {loc[d].pc} :
            loc' = [loc EXCEPT ![d].pc = pc, ![c].pc = "cancel", ![c].victim = NoClient]
  /\ UNCHANGED <<server, monitors, value, channels, wire, hist>>

EndShutDown(c) ==
  /\ At(c, "cancel") /\ loc[c].todo = {}
  /\ clients' = {}
  /\ Goto(c, "clean")
  /\ UNCHANGED <<shutdown, stopped, monitors, value, channels, sock, wire, hist>>

\* The connection is over: its coroutine, its socket and its record end.
End(c) ==
  /\ loc' = [loc EXCEPT ![c] = [NewLoc EXCEPT !.pc = "closed"]]
  /\ sock' = [sock EXCEPT ![c] = NewSock]
  /\ wire' = [wire EXCEPT ![c] = <<>>]
  /\ hist' = [hist EXCEPT ![c] = NewHist]

\* Mutant of Clean: the monitors are looked through before the socket is closed.
CleanMonitorsFirst(c) ==
  /\ At(c, "clean")
  /\ channels' = [ch \in Channels |-> Without(channels[ch], c)]
  /\ PushToMonitor(monitors)
  /\ End(c)
  /\ UNCHANGED <<server, value>>

\* removeAllSubscribers(), clearSubScription(), close(), and only then removeMonitor(),
\* which finds the monitors that are not connected.
Clean(c) ==
  /\ At(c, "clean")
  /\ channels' = [ch \in Channels |-> Without(channels[ch], c)]
  /\ PushToMonitor(Without(monitors, c))
  /\ End(c)
  /\ UNCHANGED <<server, value>>

-----------------------------------------------------------------------------
Step(c) ==
  \/ Begin(c) \/ Top(c) \/ Suspend(c) \/ Leave(c) \/ Again(c)
  \/ ExecuteBatch(c) \/ Collect(c) \/ AnswerOnly(c) \/ TooLarge(c)
  \/ Multi(c) \/ Queue(c) \/ Discard(c) \/ Exec(c) \/ Commit(c) \/ EndCommit(c)
  \/ Subscribe(c) \/ AddSubscriber(c) \/ Unsubscribe(c) \/ RemoveSubscriber(c) \/ EndSubscription(c)
  \/ Publish(c) \/ Drain(c)
  \/ CancelAll(c) \/ CloseClient(c) \/ EndShutDown(c) \/ Clean(c)

Next == \E c \in Clients : Accept(c) \/ Depart(c) \/ Receive(c) \/ Step(c)

\* Workers run what is runnable. Nothing is assumed of the peers.
Fairness == \A c \in Clients : WF_vars(Step(c))

Spec == Init /\ [][Next]_vars /\ Fairness

-----------------------------------------------------------------------------
(* Properties. *)

Numbers(c) == 1 .. MaxRequests[c]
IsRequest(c, r) == r.id \in Numbers(c) /\ r.m \in Menu[c][r.id]

TypeOK ==
  /\ {shutdown, stopped} \subseteq BOOLEAN
  /\ clients \subseteq Clients
  /\ channels \in [Channels -> [Clients -> Nat]] /\ monitors \in [Clients -> Nat]
  /\ \A c \in Clients :
       /\ loc[c].pc \in Pcs /\ loc[c].back \in {"parse", "drain"}
       /\ loc[c].buf + loc[c].id \in 0 .. MaxRequests[c]
       /\ (\A r \in ToSet(loc[c].batch) : IsRequest(c, r)) /\ Len(loc[c].batch) <= BatchMax
       /\ loc[c].out \in Seq(Numbers(c)) /\ loc[c].chans \in Seq(Channels)
       /\ loc[c].todo \subseteq Clients /\ loc[c].victim \in Clients \cup {NoClient}
       /\ {sock[c].connected, sock[c].inTransaction, sock[c].inSubScription, sock[c].inMonitor} \subseteq BOOLEAN
       /\ (\A r \in ToSet(sock[c].transaction) : IsRequest(c, r)) /\ sock[c].subs \subseteq Channels

\* The members of set that s has are in increasing order, none of them twice.
Increasing(s, set) ==
  \A i, j \in DOMAIN s : i < j /\ s[i] \in set /\ s[j] \in set => s[i] < s[j]

\* Every request is answered once: whenever the loop comes back to reading,
\* exactly the requests taken from the parser have been answered on a
\* connection that still stands, wherever batch limits, mode switches and
\* oversized commands fell in the pipeline. The answers of batched requests are
\* in order, and so are those of the requests answered at once.
AnsweredOnceInOrder ==
  \A c \in Clients :
    /\ loc[c].pc \in {"top", "recv", "wait", "woken"} /\ sock[c].connected =>
         \A r \in Numbers(c) : (\E i \in DOMAIN wire[c] : wire[c][i] = r) <=> r <= loc[c].id
    /\ Increasing(wire[c], hist[c].batched)
    /\ Increasing(wire[c], Numbers(c) \ hist[c].batched)

\* A queued command runs once, in its place, if EXEC commits its transaction,
\* and never otherwise: not after DISCARD or a failed EXEC, not before EXEC, and
\* nothing queued is left over for the next transaction.
QueuedRunsOnCommit ==
  \A c \in Clients :
    LET ran == hist[c].ran IN
      /\ IsInjective(ran)
      /\ Increasing(ran, hist[c].queued) /\ Increasing(ran, hist[c].batched)
      /\ ToSet(ran) \cap (hist[c].dropped \cup Ids(sock[c].transaction)) = {}
      /\ ~sock[c].inTransaction => sock[c].transaction = <<>>
      /\ hist[c].queued \subseteq ToSet(ran) \cup hist[c].dropped \cup Ids(sock[c].transaction)

\* m_channels and the sockets agree: who is listed for a channel has subscribed
\* to it and is in subscription mode, outside the commands themselves who has
\* subscribed is listed, and who has left is listed nowhere. So a message goes
\* to subscribers only, and to all of them. The list of monitors agrees with the
\* sockets in the same way.
SubscriptionsAgree ==
  \A c \in Clients :
    /\ \A ch \in Channels :
         /\ channels[ch][c] > 0 => ch \in sock[c].subs
         /\ ch \in sock[c].subs => channels[ch][c] > 0
    /\ ~At(c, "subscribe") /\ ~At(c, "unsubscribe") => (sock[c].inSubScription <=> sock[c].subs # {})
    /\ ~(sock[c].inSubScription /\ sock[c].inTransaction)
    /\ sock[c].connected => (sock[c].inMonitor <=> monitors[c] > 0)
    /\ At(c, "closed") => monitors[c] = 0

\* After SHUTDOWN every connection ends: when nothing is left to run, nobody is
\* left in recv() but who suspended there between the cancelAll() and the
\* close() of its socket by ShutDownServer().
ShutdownReachesClients ==
  shutdown /\ (\A c \in Clients : loc[c].pc \in {"new", "wait", "closed"}) =>
    \A c \in Clients : At(c, "wait") => hist[c].late
=============================================================================
