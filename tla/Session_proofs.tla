---------------------------- MODULE Session_proofs ----------------------------
(***************************************************************************)
(* Proofs about Session, for any clients, channels, menus and numbers of   *)
(* requests, and any limit of a batch.                                     *)
(***************************************************************************)
EXTENDS Session, FiniteSetTheorems, TLAPS

-----------------------------------------------------------------------------
(* Types. *)

Commands == UNION {UNION {Menu[c][i] : i \in Numbers(c)} : c \in Clients}
Values   == {0} \cup {m.args[1] : m \in Commands}
Request  == [id : Nat, m : Commands]

LocType  == [pc : Pcs, back : {"parse", "drain"}, buf : Nat, id : Nat, batch : Seq(Request), out : Seq(Nat),
             chans : Seq(Channels), todo : SUBSET Clients, victim : Clients \cup {NoClient}]
SockType == [connected : BOOLEAN, inTransaction : BOOLEAN, inSubScription : BOOLEAN, inMonitor : BOOLEAN,
             transaction : Seq(Request), watched : SUBSET Values, subs : SUBSET Channels]
HistType == [ran : Seq(Nat), batched : SUBSET Nat, queued : SUBSET Nat, dropped : SUBSET Nat, late : BOOLEAN]

\* The locals of a client that runs: what it executes next, and the client it is
\* about to close, are there.
Ready(c, l) ==
  /\ l.buf + l.id <= MaxRequests[c]
  /\ l.pc = "exec" => l.batch # <<>>
  /\ l.pc = "close" => l.victim \in Clients

Types ==
  /\ loc \in [Clients -> LocType] /\ sock \in [Clients -> SockType] /\ hist \in [Clients -> HistType]
  /\ wire \in [Clients -> Seq(Nat \cup Channels)]
  /\ channels \in [Channels -> [Clients -> Nat]] /\ monitors \in [Clients -> Nat]
  /\ value \in Values /\ clients \subseteq Clients
  /\ \A c \in Clients : Ready(c, loc[c])

LEMMA InitTypes == Init => Types
BY BoundsAssumption DEF Init, Types, NewLoc, NewSock, NewHist, LocType, SockType, HistType, Values, Ready, Pcs, Nowhere

LEMMA OneClient ==
  ASSUME Types, NEW c \in Clients
  PROVE  /\ loc[c] \in LocType /\ sock[c] \in SockType /\ hist[c] \in HistType
         /\ wire[c] \in Seq(Nat \cup Channels)
         /\ loc[c].buf \in Nat /\ loc[c].id \in Nat /\ MaxRequests[c] \in Nat
         /\ loc[c].buf + loc[c].id <= MaxRequests[c]
         /\ Ready(c, loc[c])
BY BoundsAssumption DEF Types, Ready, LocType

\* What the parser can hand out is a command of the menu.
LEMMA ParsedCommand ==
  ASSUME Types, NEW c \in Clients, Parsing(c)
  PROVE  /\ Taken(c) \in LocType /\ Answered(c) \in LocType
         /\ Taken(c) = [loc[c] EXCEPT !.buf = loc[c].buf - 1, !.id = loc[c].id + 1]
         /\ Answered(c) = [loc[c] EXCEPT !.buf = loc[c].buf - 1, !.id = loc[c].id + 1,
                                         !.out = Append(loc[c].out, loc[c].id + 1)]
         /\ Ready(c, Taken(c)) /\ Ready(c, Answered(c))
         /\ loc[c].id + 1 \in Numbers(c)
         /\ Parsed(c) \subseteq Commands
<1>1. /\ loc[c] \in LocType /\ loc[c].buf > 0 /\ loc[c].pc = "parse" /\ MaxRequests[c] \in Nat
      /\ loc[c].buf \in Nat /\ loc[c].id \in Nat /\ loc[c].buf + loc[c].id <= MaxRequests[c]
  BY OneClient DEF Parsing, At
<1>2. loc[c].id + 1 \in Numbers(c)
  BY <1>1 DEF Numbers
<1>3. Parsed(c) \subseteq Commands
  BY <1>2 DEF Parsed, Commands
<1>4. Taken(c) = [loc[c] EXCEPT !.buf = loc[c].buf - 1, !.id = loc[c].id + 1]
  BY DEF Taken
<1>5. Answered(c) = [loc[c] EXCEPT !.buf = loc[c].buf - 1, !.id = loc[c].id + 1,
                                   !.out = Append(loc[c].out, loc[c].id + 1)]
  BY <1>1, <1>4 DEF Answered, LocType
<1>a. loc[c].buf - 1 \in Nat /\ loc[c].id + 1 \in Nat
  BY <1>1
<1>6. Taken(c) \in LocType
  BY <1>1, <1>4, <1>a DEF LocType
<1>7. Append(loc[c].out, loc[c].id + 1) \in Seq(Nat)
  BY <1>1 DEF LocType
<1>8. Answered(c) \in LocType
  BY <1>1, <1>5, <1>7, <1>a DEF LocType
<1>9. Ready(c, Taken(c)) /\ Ready(c, Answered(c))
  BY <1>1, <1>4, <1>5 DEF LocType, Ready
<1> QED
  BY <1>2, <1>3, <1>4, <1>5, <1>6, <1>8, <1>9

\* A step that gives one client new locals, and nothing else of the locals.
LEMMA LocStep ==
  ASSUME Types, NEW c \in Clients, NEW l \in LocType, Ready(c, l), loc' = [loc EXCEPT ![c] = l]
  PROVE  loc' \in [Clients -> LocType] /\ \A d \in Clients : Ready(d, loc'[d])
BY DEF Types

LEMMA GotoStep ==
  ASSUME Types, NEW c \in Clients, NEW pc \in Pcs \ {"exec", "close"}, Goto(c, pc)
  PROVE  loc' \in [Clients -> LocType] /\ \A d \in Clients : Ready(d, loc'[d])
<1>1. loc[c] \in LocType /\ Ready(c, loc[c])
  BY OneClient
<1>2. loc' = [loc EXCEPT ![c] = [loc[c] EXCEPT !.pc = pc]]
  BY DEF Goto
<1>3. [loc[c] EXCEPT !.pc = pc] \in LocType
  BY <1>1 DEF LocType
<1>4. Ready(c, [loc[c] EXCEPT !.pc = pc])
  BY <1>1 DEF LocType, Ready
<1> QED
  BY <1>2, <1>3, <1>4, LocStep

\* What send_response() leaves behind.
LEMMA SendStep ==
  ASSUME Types, NEW c \in Clients, NEW l \in LocType, Ready(c, l),
         NEW w \in [Clients -> Seq(Nat \cup Channels)], SendResponse(c, l, w)
  PROVE  /\ loc' \in [Clients -> LocType] /\ \A d \in Clients : Ready(d, loc'[d])
         /\ wire' \in [Clients -> Seq(Nat \cup Channels)]
<1>0. <<>> \in Seq(Nat)
  OBVIOUS
<1>1. [l EXCEPT !.out = <<>>] \in LocType
  BY <1>0 DEF LocType
<1>3. Ready(c, [l EXCEPT !.out = <<>>])
  BY DEF LocType, Ready
<1>2. w[c] \o l.out \in Seq(Nat \cup Channels)
  BY SMTT(30) DEF LocType
<1> QED
  BY <1>1, <1>2, <1>3, LocStep DEF SendResponse

LEMMA PushStep ==
  ASSUME NEW list \in [Clients -> Nat], PushToMonitor(list)
  PROVE  monitors' \in [Clients -> Nat]
BY DEF PushToMonitor

\* What executeTable() leaves behind.
LEMMA ExecuteTypes ==
  ASSUME Types, NEW c \in Clients, NEW r \in Request, Execute(c, r)
  PROVE  /\ value' \in Values /\ hist' \in [Clients -> HistType]
         /\ WatchedAfter(c, r.m) \in SUBSET Values /\ Monitors(c, r.m) \in [Clients -> Nat]
         /\ MonitorAfter(c, r.m) \in BOOLEAN
<1>1. value' \in Values
  BY DEF Types, Execute, Values, Request
<1>2. Append(hist[c].ran, r.id) \in Seq(Nat)
  BY DEF Types, HistType, Request
<1>3. hist' \in [Clients -> HistType]
  BY <1>2 DEF Types, Execute, HistType
<1>4. WatchedAfter(c, r.m) \in SUBSET Values
  BY DEF WatchedAfter, Types, SockType
<1>5. Monitors(c, r.m) \in [Clients -> Nat]
  BY DEF Monitors, Types
<1>6. MonitorAfter(c, r.m) \in BOOLEAN
  BY DEF MonitorAfter, Types, SockType
<1> QED
  BY <1>1, <1>3, <1>4, <1>5, <1>6

LEMMA ReadTypes ==
  ASSUME Types, NEW c \in Clients,
         Accept(c) \/ Begin(c) \/ Top(c) \/ Suspend(c) \/ Receive(c) \/ Depart(c) \/ Leave(c) \/ Again(c)
  PROVE  Types'
<1>a. loc[c] \in LocType /\ sock[c] \in SockType /\ hist[c] \in HistType /\ Ready(c, loc[c])
  BY OneClient
<1>1. CASE Accept(c)
  <2>1. [sock[c] EXCEPT !.connected = TRUE] \in SockType
    BY <1>a DEF SockType
  <2> QED
    BY <1>1, <2>1, GotoStep DEF Accept, Types, Pcs, server
<1>2. CASE Begin(c)
  BY <1>2, GotoStep DEF Begin, Types, Pcs
<1>3. CASE Top(c)
  <2>1. CASE shutdown \/ stopped
    <3> DEFINE l == [loc[c] EXCEPT !.pc = "cancel", !.todo = clients]
    <3>1. loc' = [loc EXCEPT ![c] = l]
      BY <1>3, <2>1 DEF Top
    <3>2. clients \in SUBSET Clients /\ "cancel" \in Pcs
      BY DEF Types, Pcs
    <3>3. l \in LocType
      BY <1>a, <3>2 DEF LocType
    <3>4. Ready(c, l)
      BY <1>a DEF LocType, Ready
    <3> HIDE DEF l
    <3> QED
      BY <1>3, <3>1, <3>3, <3>4, LocStep DEF Top, Types
  <2>2. CASE ~(shutdown \/ stopped)
    BY <1>3, <2>2, GotoStep DEF Top, Types, Pcs
  <2> QED
    BY <2>1, <2>2
<1>4. CASE Suspend(c)
  <2>1. (\E d \in Clients : loc[d].victim = c) \in BOOLEAN
    OBVIOUS
  <2>2. hist' \in [Clients -> HistType]
    BY <1>4, <1>a, <2>1 DEF Suspend, Types, HistType
  <2> QED
    BY <1>4, <2>2, GotoStep DEF Suspend, Types, Pcs, server
<1>5. CASE Receive(c)
  <2> PICK n \in 1 .. MaxRequests[c] - loc[c].id - loc[c].buf :
             loc' = [loc EXCEPT ![c].pc = "parse", ![c].buf = @ + n]
    BY <1>5 DEF Receive
  <2> DEFINE l == [loc[c] EXCEPT !.pc = "parse", !.buf = loc[c].buf + n]
  <2>1. loc' = [loc EXCEPT ![c] = l]
    BY <1>a DEF LocType
  <2>2. /\ loc[c].buf + n \in Nat /\ loc[c].buf + n + loc[c].id <= MaxRequests[c]
        /\ "parse" \in Pcs
    BY OneClient DEF Pcs
  <2>3. l \in LocType
    BY <1>a, <2>2 DEF LocType
  <2>4. Ready(c, l)
    BY <1>a, <2>2 DEF LocType, Ready
  <2> HIDE DEF l
  <2> QED
    BY <1>5, <2>1, <2>3, <2>4, LocStep DEF Receive, Types, server
<1>6. CASE Depart(c)
  BY <1>6, GotoStep DEF Depart, Types, Pcs, server
<1>7. CASE Leave(c)
  BY <1>7, GotoStep DEF Leave, Types, Pcs, server
<1>8. CASE Again(c)
  BY <1>8, GotoStep DEF Again, Types, Pcs, server
<1> QED
  BY <1>1, <1>2, <1>3, <1>4, <1>5, <1>6, <1>7, <1>8

LEMMA BatchTypes ==
  ASSUME Types, NEW c \in Clients, ExecuteBatch(c) \/ Collect(c) \/ Drain(c)
  PROVE  Types'
<1>a. loc[c] \in LocType /\ sock[c] \in SockType /\ hist[c] \in HistType /\ Ready(c, loc[c])
  BY OneClient
<1>b. wire \in [Clients -> Seq(Nat \cup Channels)] /\ {"exec", "yield", "parse", "drain", "top"} \subseteq Pcs
  BY DEF Types, Pcs
<1>1. CASE ExecuteBatch(c)
  <2> DEFINE r == Head(loc[c].batch)
             l == [loc[c] EXCEPT !.batch = Tail(loc[c].batch), !.out = Append(loc[c].out, r.id)]
             k == [sock[c] EXCEPT !.watched = WatchedAfter(c, r.m), !.inMonitor = MonitorAfter(c, r.m)]
  <2>1. loc[c].batch # <<>> /\ loc[c].batch \in Seq(Request) /\ loc[c].out \in Seq(Nat)
    BY <1>1, <1>a DEF ExecuteBatch, At, Ready, LocType
  <2>2. r \in Request /\ r.id \in Nat /\ Tail(loc[c].batch) \in Seq(Request)
    <3>1. r \in Request /\ Tail(loc[c].batch) \in Seq(Request)
      BY <2>1
    <3> QED
      BY <3>1 DEF Request
  <2>3. Append(loc[c].out, r.id) \in Seq(Nat)
    BY <2>1, <2>2
  <2>4. l \in LocType
    BY <1>a, <2>2, <2>3 DEF LocType
  <2>5. l.buf + l.id <= MaxRequests[c] /\ l.back \in {"parse", "drain"}
    BY <1>a DEF LocType, Ready
  <2>6. Execute(c, r) /\ sock' = [sock EXCEPT ![c] = k] /\ monitors' = Monitors(c, r.m)
    BY <1>1 DEF ExecuteBatch
  <2>7. /\ value' \in Values /\ hist' \in [Clients -> HistType] /\ monitors' \in [Clients -> Nat]
        /\ WatchedAfter(c, r.m) \in SUBSET Values /\ MonitorAfter(c, r.m) \in BOOLEAN
    <3> HIDE DEF r
    <3> QED BY <2>2, <2>6, ExecuteTypes
  <2>8. k \in SockType
    BY <1>a, <2>7 DEF SockType
  <2>9. sock' \in [Clients -> SockType]
    <3> HIDE DEF k
    <3> QED BY <2>6, <2>8 DEF Types
  <2>10. /\ loc' \in [Clients -> LocType] /\ \A d \in Clients : Ready(d, loc'[d])
         /\ wire' \in [Clients -> Seq(Nat \cup Channels)]
    <3>1. CASE /\ loc' = [loc EXCEPT ![c] = [l EXCEPT !.pc = IF l.batch # <<>> THEN "exec" ELSE l.back]]
               /\ UNCHANGED wire
      <4> DEFINE pc == IF l.batch # <<>> THEN "exec" ELSE l.back
      <4>1. pc \in Pcs /\ (pc = "exec" => l.batch # <<>>) /\ pc # "close"
        BY <2>5, <1>b
      <4> HIDE DEF pc, l
      <4>2. [l EXCEPT !.pc = pc] \in LocType
        BY <2>4, <4>1 DEF LocType
      <4>3. Ready(c, [l EXCEPT !.pc = pc])
        BY <2>4, <2>5, <4>1 DEF LocType, Ready
      <4> QED
        BY <3>1, <4>2, <4>3, LocStep, <1>b DEF pc
    <3>2. CASE SendResponse(c, [l EXCEPT !.pc = "yield"], wire)
      <4> HIDE DEF l
      <4>1. [l EXCEPT !.pc = "yield"] \in LocType
        BY <2>4, <1>b DEF LocType
      <4>2. Ready(c, [l EXCEPT !.pc = "yield"])
        BY <2>4, <2>5 DEF LocType, Ready
      <4> QED
        BY <3>2, <4>1, <4>2, SendStep, <1>b
    <3> QED
      BY <1>1, <3>1, <3>2 DEF ExecuteBatch
  <2> QED
    BY <1>1, <2>7, <2>9, <2>10 DEF ExecuteBatch, Types
<1>2. CASE Collect(c)
  <2> PICK m \in Sane(c) :
        LET b == Append(loc[c].batch, [id |-> loc[c].id + 1, m |-> m]) IN
          loc' = [loc EXCEPT ![c] = [Taken(c) EXCEPT !.batch = b, !.back = "parse",
                                       !.pc = IF Len(b) >= BatchMax THEN "exec" ELSE "parse"]]
    BY <1>2 DEF Collect
  <2> DEFINE b == Append(loc[c].batch, [id |-> loc[c].id + 1, m |-> m])
             pc == IF Len(b) >= BatchMax THEN "exec" ELSE "parse"
             l == [Taken(c) EXCEPT !.batch = b, !.back = "parse", !.pc = pc]
  <2>0. Parsing(c) /\ m \in Parsed(c)
    BY <1>2 DEF Collect, Sane
  <2>1. Taken(c) \in LocType /\ Ready(c, Taken(c)) /\ m \in Commands
    BY <2>0, ParsedCommand
  <2>2. b \in Seq(Request) /\ b # <<>>
    <3>1. loc[c].batch \in Seq(Request) /\ loc[c].id + 1 \in Nat
      BY <1>a DEF LocType
    <3>2. [id |-> loc[c].id + 1, m |-> m] \in Request
      BY <2>1, <3>1 DEF Request
    <3> QED
      BY <3>1, <3>2
  <2>3. pc \in {"exec", "parse"} /\ pc \in Pcs
    BY <1>b
  <2> HIDE DEF b, pc
  <2>4. l \in LocType
    BY <2>1, <2>2, <2>3 DEF LocType
  <2>5. Ready(c, l)
    BY <2>1, <2>2, <2>3 DEF LocType, Ready
  <2>6. loc' = [loc EXCEPT ![c] = l]
    BY DEF b, pc
  <2>7. hist' \in [Clients -> HistType]
    <3>0. hist[c].batched \cup {loc[c].id + 1} \in SUBSET Nat
      BY <1>a DEF HistType, LocType
    <3>1. [hist[c] EXCEPT !.batched = hist[c].batched \cup {loc[c].id + 1}] \in HistType
      BY <1>a, <3>0 DEF HistType
    <3> QED
      BY <1>2, <3>1 DEF Collect, Types
  <2> HIDE DEF l
  <2> QED
    BY <1>2, <2>4, <2>5, <2>6, <2>7, LocStep DEF Collect, Types, server
<1>3. CASE Drain(c)
  <2>1. CASE loc[c].batch # <<>>
    <3> DEFINE l == [loc[c] EXCEPT !.pc = "exec", !.back = "drain"]
    <3>1. l \in LocType
      BY <1>a, <1>b DEF LocType
    <3>2. Ready(c, l)
      BY <1>a, <2>1 DEF LocType, Ready
    <3>3. loc' = [loc EXCEPT ![c] = l] /\ wire' = wire
      BY <1>3, <2>1 DEF Drain
    <3> HIDE DEF l
    <3> QED
      BY <1>3, <3>1, <3>2, <3>3, LocStep DEF Drain, Types, server
  <2>2. CASE loc[c].batch = <<>>
    <3> DEFINE l == [loc[c] EXCEPT !.pc = "top", !.back = "parse"]
    <3>1. l \in LocType
      BY <1>a, <1>b DEF LocType
    <3>2. Ready(c, l)
      BY <1>a DEF LocType, Ready
    <3>3. SendResponse(c, l, wire)
      BY <1>3, <2>2 DEF Drain
    <3> HIDE DEF l
    <3> QED
      BY <1>3, <1>b, <3>1, <3>2, <3>3, SendStep DEF Drain, Types, server
  <2> QED
    BY <2>1, <2>2
<1> QED
  BY <1>1, <1>2, <1>3

\* Every answer that is shown to the monitors and sent.
LEMMA AnswerStep ==
  ASSUME Types, NEW c \in Clients, NEW l \in LocType, Ready(c, l),
         NEW w \in [Clients -> Seq(Nat \cup Channels)], Answer(c, l, w)
  PROVE  /\ loc' \in [Clients -> LocType] /\ \A d \in Clients : Ready(d, loc'[d])
         /\ wire' \in [Clients -> Seq(Nat \cup Channels)]
         /\ monitors' \in [Clients -> Nat]
<1>1. monitors \in [Clients -> Nat] /\ SendResponse(c, l, w) /\ PushToMonitor(monitors)
  BY DEF Types, Answer
<1> QED
  BY <1>1, SendStep, PushStep

LEMMA AnswerTypes ==
  ASSUME Types, NEW c \in Clients, AnswerOnly(c) \/ TooLarge(c) \/ Publish(c) \/ Multi(c)
  PROVE  Types'
<1>a. /\ loc[c] \in LocType /\ sock[c] \in SockType
      /\ Answered(c) \in LocType /\ Ready(c, Answered(c)) /\ Parsed(c) \subseteq Commands
      /\ loc[c].id + 1 \in Numbers(c)
  BY OneClient, ParsedCommand DEF AnswerOnly, TooLarge, Publish, Multi
<1>b. wire \in [Clients -> Seq(Nat \cup Channels)] /\ "drain" \in Pcs
  BY DEF Types, Pcs
<1>1. CASE AnswerOnly(c)
  BY <1>1, <1>a, <1>b, AnswerStep DEF AnswerOnly, Types, server
<1>2. CASE TooLarge(c)
  <2> DEFINE l == [Answered(c) EXCEPT !.pc = "drain"]
  <2>1. l \in LocType
    BY <1>a, <1>b DEF LocType
  <2>2. Ready(c, l)
    BY <1>a DEF LocType, Ready
  <2>3. loc' = [loc EXCEPT ![c] = l]
    BY <1>2 DEF TooLarge
  <2> HIDE DEF l
  <2> QED
    BY <1>2, <2>1, <2>2, <2>3, LocStep DEF TooLarge, Types, server
<1>3. CASE Publish(c)
  <2> PICK m \in Sane(c) :
        /\ m.cmd = "PUBLISH"
        /\ LET ch == m.args[1]
               Copies(d) == IF sock[d].connected THEN [i \in 1 .. channels[ch][d] |-> ch] ELSE <<>>
           IN Answer(c, Answered(c), [d \in Clients |-> wire[d] \o Copies(d)])
    BY <1>3 DEF Publish
  <2> DEFINE ch == m.args[1]
             Copies(d) == IF sock[d].connected THEN [i \in 1 .. channels[ch][d] |-> ch] ELSE <<>>
             w == [d \in Clients |-> wire[d] \o Copies(d)]
  <2>1. ch \in Channels
    BY <1>a, ChannelsAssumption DEF Sane, Parsed, Numbers
  <2>2. \A d \in Clients : Copies(d) \in Seq(Nat \cup Channels)
    <3> TAKE d \in Clients
    <3>1. channels[ch][d] \in Nat
      BY <2>1 DEF Types
    <3> HIDE DEF ch
    <3>2. [i \in 1 .. channels[ch][d] |-> ch] \in Seq(Nat \cup Channels)
      BY <2>1, <3>1
    <3> QED
      BY <3>2
  <2>3. w \in [Clients -> Seq(Nat \cup Channels)]
    <3> HIDE DEF Copies
    <3> QED BY <1>b, <2>2
  <2>4. Answer(c, Answered(c), w)
    OBVIOUS
  <2> HIDE DEF w
  <2> QED
    BY <1>3, <1>a, <2>3, <2>4, AnswerStep DEF Publish, Types, server
<1>4. CASE Multi(c)
  <2>1. [sock[c] EXCEPT !.inTransaction = TRUE] \in SockType
    BY <1>a DEF SockType
  <2> QED
    BY <1>4, <1>a, <1>b, <2>1, AnswerStep DEF Multi, Types, server
<1> QED
  BY <1>1, <1>2, <1>3, <1>4

LEMMA TransactionTypes ==
  ASSUME Types, NEW c \in Clients, Queue(c) \/ Discard(c) \/ Exec(c) \/ Commit(c) \/ EndCommit(c)
  PROVE  Types'
<1>a. loc[c] \in LocType /\ sock[c] \in SockType /\ hist[c] \in HistType /\ Ready(c, loc[c])
  BY OneClient
<1>b. /\ wire \in [Clients -> Seq(Nat \cup Channels)] /\ {"commit", "parse"} \subseteq Pcs
      /\ sock[c].transaction \in Seq(Request) /\ <<>> \in Seq(Request) /\ {} \in SUBSET Values
      /\ loc[c].id \in Nat /\ loc[c].out \in Seq(Nat)
  BY <1>a DEF Types, Pcs, SockType, LocType
<1>c. /\ Parsing(c) => /\ Answered(c) \in LocType /\ Ready(c, Answered(c)) /\ Parsed(c) \subseteq Commands
                      /\ Taken(c) \in LocType /\ Ready(c, Taken(c))
  BY ParsedCommand
<1>d. Ids(sock[c].transaction) \in SUBSET Nat
  <2>1. \A i \in DOMAIN sock[c].transaction : sock[c].transaction[i] \in Request
    BY <1>b
  <2> QED
    BY <2>1 DEF Ids, Request
<1>e. [hist[c] EXCEPT !.dropped = hist[c].dropped \cup Ids(sock[c].transaction)] \in HistType
  <2>1. hist[c].dropped \cup Ids(sock[c].transaction) \in SUBSET Nat
    BY <1>a, <1>d DEF HistType
  <2> QED
    BY <1>a, <2>1 DEF HistType
<1>1. CASE Queue(c)
  <2> PICK m \in Sane(c) :
        sock' = [sock EXCEPT ![c].transaction = Append(@, [id |-> loc[c].id + 1, m |-> m])]
    BY <1>1 DEF Queue
  <2> DEFINE t == Append(sock[c].transaction, [id |-> loc[c].id + 1, m |-> m])
  <2>1. Parsing(c) /\ m \in Parsed(c)
    BY <1>1 DEF Queue, Sane
  <2>2. [id |-> loc[c].id + 1, m |-> m] \in Request
    BY <2>1, <1>b, <1>c DEF Request
  <2>3. t \in Seq(Request)
    BY <1>b, <2>2
  <2>4. [sock[c] EXCEPT !.transaction = t] \in SockType
    <3> HIDE DEF t
    <3> QED BY <1>a, <2>3 DEF SockType
  <2>5. sock' \in [Clients -> SockType]
    BY <2>4 DEF Types
  <2>a. hist[c].queued \cup {loc[c].id + 1} \in SUBSET Nat
    BY <1>a, <1>b DEF HistType
  <2>6. [hist[c] EXCEPT !.queued = hist[c].queued \cup {loc[c].id + 1}] \in HistType
    BY <1>a, <2>a DEF HistType
  <2>7. hist' \in [Clients -> HistType]
    BY <1>1, <2>6 DEF Queue, Types
  <2> QED
    BY <1>1, <1>b, <1>c, <2>1, <2>5, <2>7, SendStep DEF Queue, Types, server
<1>2. CASE Discard(c)
  <2>1. [sock[c] EXCEPT !.inTransaction = FALSE, !.transaction = <<>>] \in SockType
    BY <1>a, <1>b DEF SockType
  <2> QED
    BY <1>2, <1>b, <1>c, <1>e, <2>1, AnswerStep DEF Discard, Types, server
<1>3. CASE Exec(c)
  <2>1. CASE HasKeyModified(c)
    <3>1. [sock[c] EXCEPT !.inTransaction = FALSE, !.transaction = <<>>, !.watched = {}] \in SockType
      BY <1>a, <1>b DEF SockType
    <3> QED
      BY <1>3, <1>b, <1>c, <1>e, <2>1, <3>1, AnswerStep DEF Exec, Types, server
  <2>2. CASE ~HasKeyModified(c)
    <3> DEFINE l == [Taken(c) EXCEPT !.pc = "commit"]
    <3>1. l \in LocType
      BY <1>3, <1>b, <1>c DEF LocType, Exec
    <3>2. Ready(c, l)
      BY <1>3, <1>c DEF LocType, Ready, Exec
    <3>3. loc' = [loc EXCEPT ![c] = l]
      BY <1>3, <2>2 DEF Exec
    <3> HIDE DEF l
    <3> QED
      BY <1>3, <2>2, <3>1, <3>2, <3>3, LocStep DEF Exec, Types, server
  <2> QED
    BY <2>1, <2>2
<1>4. CASE Commit(c)
  <2> DEFINE r == Head(sock[c].transaction)
             k == [sock[c] EXCEPT !.transaction = Tail(sock[c].transaction), !.watched = WatchedAfter(c, r.m),
                                  !.inMonitor = MonitorAfter(c, r.m)]
  <2>1. r \in Request /\ Tail(sock[c].transaction) \in Seq(Request)
    BY <1>4, <1>b DEF Commit
  <2>2. Execute(c, r) /\ sock' = [sock EXCEPT ![c] = k] /\ monitors' = Monitors(c, r.m)
    BY <1>4 DEF Commit
  <2>3. /\ value' \in Values /\ hist' \in [Clients -> HistType] /\ monitors' \in [Clients -> Nat]
        /\ WatchedAfter(c, r.m) \in SUBSET Values /\ MonitorAfter(c, r.m) \in BOOLEAN
    <3> HIDE DEF r
    <3> QED BY <2>1, <2>2, ExecuteTypes
  <2>4. k \in SockType
    BY <1>a, <2>1, <2>3 DEF SockType
  <2> HIDE DEF k
  <2> QED
    BY <1>4, <2>2, <2>3, <2>4, ZenonT(60) DEF Commit, Types
<1>5. CASE EndCommit(c)
  <2>1. [sock[c] EXCEPT !.inTransaction = FALSE, !.watched = {}] \in SockType
    BY <1>a, <1>b DEF SockType
  <2> DEFINE l == [loc[c] EXCEPT !.out = Append(loc[c].out, loc[c].id), !.pc = "parse"]
  <2>2. Append(loc[c].out, loc[c].id) \in Seq(Nat)
    BY <1>b
  <2>3. l \in LocType
    BY <1>a, <1>b, <2>2 DEF LocType
  <2>4. Ready(c, l)
    BY <1>a DEF LocType, Ready
  <2>5. Answer(c, l, wire)
    BY <1>5 DEF EndCommit
  <2> HIDE DEF l
  <2> QED
    BY <1>5, <1>b, <2>1, <2>3, <2>4, <2>5, AnswerStep DEF EndCommit, Types, server
<1> QED
  BY <1>1, <1>2, <1>3, <1>4, <1>5

LEMMA SubscriptionTypes ==
  ASSUME Types, NEW c \in Clients,
         Subscribe(c) \/ AddSubscriber(c) \/ Unsubscribe(c) \/ RemoveSubscriber(c) \/ EndSubscription(c)
  PROVE  Types'
<1>a. loc[c] \in LocType /\ sock[c] \in SockType /\ Ready(c, loc[c])
  BY OneClient
<1>b. /\ wire \in [Clients -> Seq(Nat \cup Channels)] /\ {"subscribe", "unsubscribe", "parse"} \subseteq Pcs
      /\ loc[c].id \in Nat /\ loc[c].out \in Seq(Nat) /\ loc[c].chans \in Seq(Channels)
      /\ sock[c].subs \in SUBSET Channels
  BY <1>a DEF Types, Pcs, SockType, LocType
<1>c. /\ Parsing(c) => /\ Taken(c) \in LocType /\ Ready(c, Taken(c)) /\ loc[c].id + 1 \in Numbers(c)
  BY ParsedCommand
<1>1. CASE Subscribe(c)
  <2> PICK m \in Sane(c) :
        /\ m.cmd = "SUBSCRIBE"
        /\ loc' = [loc EXCEPT ![c] = [Taken(c) EXCEPT !.pc = "subscribe", !.chans = m.args]]
    BY <1>1 DEF Subscribe
  <2>0. Parsing(c)
    BY <1>1 DEF Subscribe
  <2>1. m.args \in Seq(Channels)
    BY <2>0, <1>c, ChannelsAssumption DEF Sane, Parsed, Numbers
  <2> DEFINE l == [Taken(c) EXCEPT !.pc = "subscribe", !.chans = m.args]
  <2>2. l \in LocType
    BY <2>0, <1>b, <1>c, <2>1 DEF LocType
  <2>3. Ready(c, l)
    BY <2>0, <1>c DEF LocType, Ready
  <2>4. [sock[c] EXCEPT !.inSubScription = TRUE] \in SockType
    BY <1>a DEF SockType
  <2>5. loc' = [loc EXCEPT ![c] = l]
    OBVIOUS
  <2> HIDE DEF l
  <2> QED
    BY <1>1, <2>2, <2>3, <2>4, <2>5, LocStep DEF Subscribe, Types, server
<1>2. CASE AddSubscriber(c) \/ RemoveSubscriber(c)
  <2> DEFINE ch == Head(loc[c].chans)
             l == [loc[c] EXCEPT !.chans = Tail(loc[c].chans)]
  <2>1. ch \in Channels /\ Tail(loc[c].chans) \in Seq(Channels)
    BY <1>2, <1>b DEF AddSubscriber, RemoveSubscriber
  <2>2. l \in LocType
    BY <1>a, <2>1 DEF LocType
  <2>3. Ready(c, l)
    BY <1>a DEF LocType, Ready
  <2>4. loc' = [loc EXCEPT ![c] = l]
    BY <1>2 DEF AddSubscriber, RemoveSubscriber
  <2>5. /\ [sock[c] EXCEPT !.subs = sock[c].subs \cup {ch}] \in SockType
        /\ [sock[c] EXCEPT !.subs = sock[c].subs \ {ch}] \in SockType
    <3> HIDE DEF ch
    <3>1. sock[c].subs \cup {ch} \in SUBSET Channels /\ sock[c].subs \ {ch} \in SUBSET Channels
      BY <1>b, <2>1
    <3> QED
      BY <1>a, <3>1 DEF SockType
  <2>6. sock' \in [Clients -> SockType]
    BY <1>2, <2>5 DEF AddSubscriber, RemoveSubscriber, Types
  <2>7. channels' \in [Channels -> [Clients -> Nat]]
    <3> HIDE DEF ch
    <3>1. /\ [channels[ch] EXCEPT ![c] = channels[ch][c] + 1] \in [Clients -> Nat]
          /\ [channels[ch] EXCEPT ![c] = 0] \in [Clients -> Nat]
      BY <2>1 DEF Types
    <3>2. \/ channels' = [channels EXCEPT ![ch] = [channels[ch] EXCEPT ![c] = channels[ch][c] + 1]]
          \/ channels' = [channels EXCEPT ![ch] = [channels[ch] EXCEPT ![c] = 0]]
      BY <1>2 DEF AddSubscriber, RemoveSubscriber, Without, ch
    <3> QED
      BY <2>1, <3>1, <3>2 DEF Types
  <2> HIDE DEF l
  <2>8. UNCHANGED <<server, monitors, value, wire, hist>>
    BY <1>2 DEF AddSubscriber, RemoveSubscriber
  <2> QED
    BY <2>2, <2>3, <2>4, <2>6, <2>7, <2>8, LocStep DEF Types, server
<1>3. CASE Unsubscribe(c)
  <2> PICK m \in Sane(c) :
        /\ m.cmd = "UNSUBSCRIBE"
        /\ loc' = [loc EXCEPT ![c] =
             [Taken(c) EXCEPT !.pc = "unsubscribe",
                              !.chans = IF m.args = <<>> THEN SetToSeq(sock[c].subs) ELSE m.args]]
    BY <1>3 DEF Unsubscribe
  <2>0. Parsing(c)
    BY <1>3 DEF Unsubscribe
  <2> DEFINE chs == IF m.args = <<>> THEN SetToSeq(sock[c].subs) ELSE m.args
             l == [Taken(c) EXCEPT !.pc = "unsubscribe", !.chans = chs]
  <2>1. chs \in Seq(Channels)
    <3>1. m.args \in Seq(Channels)
      BY <2>0, <1>c, ChannelsAssumption DEF Sane, Parsed, Numbers
    <3>2. IsFiniteSet(sock[c].subs)
      BY <1>b, ChannelsAssumption, FS_Subset
    <3>3. SetToSeq(sock[c].subs) \in Seq(Channels)
      <4> DEFINE S == sock[c].subs
      <4>1. ExistsBijection(1 .. Cardinality(S), S) /\ Cardinality(S) \in Nat
        BY <3>2, FS_NatBijection, FS_CardinalityType
      <4>2. PICK f : f \in Bijection(1 .. Cardinality(S), S)
        BY <4>1 DEF ExistsBijection
      <4>3. f \in [1 .. Cardinality(S) -> S] /\ IsInjective(f)
        BY <4>2 DEF Bijection, Injection, IsInjective
      <4>4. SetToSeq(S) \in [1 .. Cardinality(S) -> S]
        BY <4>3 DEF SetToSeq
      <4>5. SetToSeq(S) \in [1 .. Cardinality(S) -> Channels]
        BY <4>4, <1>b
      <4> QED
        BY <4>1, <4>5
    <3> QED
      BY <3>1, <3>3
  <2> HIDE DEF chs
  <2>2. l \in LocType
    BY <2>0, <1>b, <1>c, <2>1 DEF LocType
  <2>3. Ready(c, l)
    BY <2>0, <1>c DEF LocType, Ready
  <2>4. loc' = [loc EXCEPT ![c] = l]
    BY DEF chs
  <2> HIDE DEF l
  <2> QED
    BY <1>3, <2>2, <2>3, <2>4, LocStep DEF Unsubscribe, Types, server
<1>4. CASE EndSubscription(c)
  <2>1. [sock[c] EXCEPT !.inSubScription = sock[c].subs # {}] \in SockType
    BY <1>a DEF SockType
  <2> DEFINE l == [loc[c] EXCEPT !.out = Append(loc[c].out, loc[c].id), !.pc = "parse"]
  <2>2. Append(loc[c].out, loc[c].id) \in Seq(Nat)
    BY <1>b
  <2>3. l \in LocType
    BY <1>a, <1>b, <2>2 DEF LocType
  <2>4. Ready(c, l)
    BY <1>a DEF LocType, Ready
  <2>5. Answer(c, l, wire)
    BY <1>4 DEF EndSubscription
  <2> HIDE DEF l
  <2> QED
    BY <1>4, <1>b, <2>1, <2>3, <2>4, <2>5, AnswerStep DEF EndSubscription, Types, server
<1> QED
  BY <1>1, <1>2, <1>3, <1>4

LEMMA EndTypes ==
  ASSUME Types, NEW c \in Clients, CancelAll(c) \/ CloseClient(c) \/ EndShutDown(c) \/ Clean(c)
  PROVE  Types'
<1>a. loc[c] \in LocType /\ Ready(c, loc[c]) /\ {"cancel", "close", "woken", "closed", "clean"} \subseteq Pcs
  BY OneClient DEF Pcs
<1>1. CASE CancelAll(c)
  <2> PICK d \in loc[c].todo :
        loc' = [loc EXCEPT ![c].pc = "close", ![c].victim = d, ![c].todo = @ \ {d},
                           ![d].pc = IF At(d, "wait") /\ sock[d].connected THEN "woken"
                                     ELSE IF d = c THEN "close" ELSE @]
    BY <1>1 DEF CancelAll
  <2>1. d \in Clients /\ loc[d] \in LocType /\ Ready(d, loc[d]) /\ loc[c].pc = "cancel"
    BY <1>1, <1>a, OneClient DEF LocType, CancelAll, At
  <2> DEFINE l == [loc[c] EXCEPT !.pc = "close", !.victim = d, !.todo = loc[c].todo \ {d}]
             n == [loc[d] EXCEPT !.pc = "woken"]
  <2>2. l \in LocType /\ n \in LocType
    BY <1>a, <2>1 DEF LocType
  <2>3. Ready(c, l) /\ Ready(d, n)
    BY <1>a, <2>1 DEF LocType, Ready
  <2>a. loc \in [Clients -> LocType] /\ \A e \in Clients : Ready(e, loc[e])
    BY DEF Types
  <2>b. [loc[d] EXCEPT !.pc = loc[d].pc] = loc[d]
    BY <2>1 DEF LocType
  <2>4. \/ loc' = [[loc EXCEPT ![c] = l] EXCEPT ![d] = n] /\ d # c
        \/ loc' = [loc EXCEPT ![c] = l]
    <3>1. CASE At(d, "wait") /\ sock[d].connected
      BY <2>1, <2>a, <3>1 DEF At
    <3>2. CASE ~(At(d, "wait") /\ sock[d].connected) /\ d = c
      <4>1. [l EXCEPT !.pc = "close"] = l
        BY <2>2 DEF LocType
      <4>2. loc' = [loc EXCEPT ![c] = [l EXCEPT !.pc = "close"]]
        BY <2>1, <2>a, <3>2
      <4> QED
        BY <4>1, <4>2
    <3>3. CASE ~(At(d, "wait") /\ sock[d].connected) /\ d # c
      BY <1>a, <2>1, <2>a, <2>b, <3>3
    <3> QED
      BY <3>1, <3>2, <3>3
  <2> HIDE DEF l, n
  <2>5. loc' \in [Clients -> LocType] /\ \A e \in Clients : Ready(e, loc'[e])
    BY <2>1, <2>2, <2>3, <2>4, <2>a
  <2> QED
    BY <1>1, <2>5 DEF CancelAll, Types, server
<1>2. CASE CloseClient(c)
  <2> DEFINE d == loc[c].victim
  <2>0. d \in Clients /\ loc[c].pc = "close"
    BY <1>2, <1>a DEF CloseClient, At, Ready
  <2>1. loc[d] \in LocType /\ Ready(d, loc[d]) /\ sock[d] \in SockType
    BY <2>0, OneClient
  <2>2. PICK pc \in IF At(d, "wait") /\ sock[d].connected THEN {"wait", "woken"} ELSE {loc[d].pc} :
            loc' = [loc EXCEPT ![d].pc = pc, ![c].pc = "cancel", ![c].victim = NoClient]
    BY <1>2 DEF CloseClient
  <2> DEFINE l == [loc[c] EXCEPT !.pc = "cancel", !.victim = NoClient]
             n == [loc[d] EXCEPT !.pc = pc]
  <2>3. pc \in Pcs /\ (pc = "exec" => loc[d].pc = "exec") /\ (pc = "close" => loc[d].pc = "close")
    BY <2>1, <2>2, <1>a DEF LocType, At
  <2>4. l \in LocType /\ n \in LocType
    BY <1>a, <2>1, <2>3 DEF LocType
  <2>5. Ready(c, l) /\ Ready(d, n)
    BY <1>a, <2>1, <2>3 DEF LocType, Ready
  <2>6. \/ loc' = [[loc EXCEPT ![d] = n] EXCEPT ![c] = l] /\ d # c
        \/ loc' = [loc EXCEPT ![c] = l]
    BY <1>a, <2>0, <2>1, <2>2, ZenonT(60) DEF Types, LocType, At
  <2>7. [sock[d] EXCEPT !.connected = FALSE] \in SockType
    BY <2>1 DEF SockType
  <2>8. sock' = [sock EXCEPT ![d] = [sock[d] EXCEPT !.connected = FALSE]]
    BY <1>2 DEF CloseClient
  <2> HIDE DEF l, n
  <2>9. loc' \in [Clients -> LocType] /\ \A e \in Clients : Ready(e, loc'[e])
    BY <2>0, <2>4, <2>5, <2>6 DEF Types
  <2> HIDE DEF d
  <2>10. sock' \in [Clients -> SockType]
    BY <2>0, <2>7, <2>8 DEF Types
  <2>11. UNCHANGED <<server, monitors, value, channels, wire, hist>>
    BY <1>2 DEF CloseClient
  <2> QED
    BY <2>9, <2>10, <2>11 DEF Types, server
<1>3. CASE EndShutDown(c)
  BY <1>3, <1>a, GotoStep DEF EndShutDown, Types
<1>4. CASE Clean(c)
  <2> DEFINE l == [NewLoc EXCEPT !.pc = "closed"]
  <2>0. l \in LocType
    <3>1. NewLoc \in LocType
      BY DEF NewLoc, LocType, Pcs
    <3> QED
      BY <1>a, <3>1 DEF LocType
  <2>1. Ready(c, l) /\ NewSock \in SockType /\ NewHist \in HistType
    BY BoundsAssumption DEF NewLoc, NewSock, NewHist, SockType, HistType, Ready
  <2>2. loc' = [loc EXCEPT ![c] = l]
    BY <1>4 DEF Clean, End
  <2> HIDE DEF l
  <2>3. Without(monitors, c) \in [Clients -> Nat] /\ PushToMonitor(Without(monitors, c))
    BY <1>4 DEF Clean, Without, Types
  <2>4. channels' \in [Channels -> [Clients -> Nat]]
    BY <1>4 DEF Clean, Without, Types
  <2>5. /\ sock' \in [Clients -> SockType] /\ hist' \in [Clients -> HistType]
        /\ wire' \in [Clients -> Seq(Nat \cup Channels)]
    BY <1>4, <2>1 DEF Clean, End, Types
  <2>6. monitors' \in [Clients -> Nat]
    BY <2>3, PushStep
  <2>7. UNCHANGED <<server, value>>
    BY <1>4 DEF Clean
  <2> QED
    BY <2>0, <2>1, <2>2, <2>4, <2>5, <2>6, <2>7, LocStep DEF Types, server
<1> QED
  BY <1>1, <1>2, <1>3, <1>4

LEMMA TypesAlways == Spec => []Types
<1>1. ASSUME Types, [Next]_vars PROVE Types'
  <2>1. CASE UNCHANGED vars
    BY <1>1, <2>1 DEF vars, server, Types
  <2>2. ASSUME NEW c \in Clients, Accept(c) \/ Depart(c) \/ Receive(c) \/ Step(c)
        PROVE  Types'
    BY <1>1, <2>2, ReadTypes, BatchTypes, AnswerTypes, TransactionTypes, SubscriptionTypes, EndTypes DEF Step
  <2> QED
    BY <1>1, <2>1, <2>2 DEF Next
<1> QED
  BY <1>1, InitTypes, PTL DEF Spec

-----------------------------------------------------------------------------
(* What a step of one client does to another. *)

\* The other client keeps all it has, but it may be woken, its socket may be
\* closed, messages may be written to it, and once its socket is closed it may
\* disappear from the monitors.
Untouched(d) ==
  /\ hist'[d] = hist[d]
  /\ sock'[d] = sock[d] \/ sock'[d] = [sock[d] EXCEPT !.connected = FALSE]
  /\ loc'[d] = loc[d] \/ (loc[d].pc = "wait" /\ loc'[d] = [loc[d] EXCEPT !.pc = "woken"])
  /\ wire'[d] = wire[d] \/ \E m \in Seq(Channels) : wire'[d] = wire[d] \o m
  /\ \A ch \in Channels : channels'[ch][d] = channels[ch][d]
  /\ monitors'[d] = monitors[d] \/ (monitors'[d] = 0 /\ ~sock[d].connected)

LEMMA AllClients ==
  ASSUME Types
  PROVE  /\ loc \in [Clients -> LocType] /\ sock \in [Clients -> SockType] /\ hist \in [Clients -> HistType]
         /\ wire \in [Clients -> Seq(Nat \cup Channels)]
         /\ channels \in [Channels -> [Clients -> Nat]] /\ monitors \in [Clients -> Nat]
BY DEF Types

LEMMA CopiesType ==
  ASSUME NEW ch \in Channels, NEW n \in Nat
  PROVE  [i \in 1 .. n |-> ch] \in Seq(Channels)
OBVIOUS

LEMMA OthersUntouched ==
  ASSUME Types, NEW c \in Clients, Accept(c) \/ Depart(c) \/ Receive(c) \/ Step(c), NEW d \in Clients \ {c}
  PROVE  Untouched(d)
<1> USE AllClients
<1>1. CASE Accept(c) \/ Depart(c) \/ Receive(c) \/ Begin(c) \/ Top(c) \/ Suspend(c) \/ Leave(c) \/ Again(c)
  BY <1>1 DEF Accept, Depart, Receive, Begin, Top, Suspend, Leave, Again, Goto, Untouched
<1>2. CASE ExecuteBatch(c) \/ Collect(c) \/ TooLarge(c) \/ Drain(c)
  BY <1>2 DEF ExecuteBatch, Execute, Monitors, SendResponse, Collect, TooLarge, Drain, Untouched
<1>3. CASE AnswerOnly(c) \/ Multi(c)
  BY <1>3 DEF AnswerOnly, Multi, Answer, PushToMonitor, SendResponse, Untouched
<1>4. CASE Queue(c) \/ Discard(c) \/ Exec(c) \/ Commit(c) \/ EndCommit(c)
  BY <1>4 DEF Queue, Discard, Exec, Commit, EndCommit, Execute, Monitors, Answer, PushToMonitor, SendResponse,
              Untouched
<1>5. CASE Subscribe(c) \/ Unsubscribe(c) \/ EndSubscription(c)
  BY <1>5 DEF Subscribe, Unsubscribe, EndSubscription, Answer, PushToMonitor, SendResponse, Untouched
<1>a. CASE AddSubscriber(c) \/ RemoveSubscriber(c)
  <2>1. ASSUME NEW ch \in Channels PROVE channels'[ch][d] = channels[ch][d]
    <3>1. PICK x, n : channels' = [channels EXCEPT ![x] = [channels[x] EXCEPT ![c] = n]]
      BY <1>a DEF AddSubscriber, RemoveSubscriber, Without
    <3> QED
      BY <3>1
  <2>2. /\ UNCHANGED <<monitors, wire, hist>>
        /\ sock'[d] = sock[d] /\ loc'[d] = loc[d]
    BY <1>a DEF AddSubscriber, RemoveSubscriber
  <2> QED
    BY <2>1, <2>2 DEF Untouched
<1>6. CASE Publish(c)
  <2> PICK m \in Sane(c) :
        /\ m.cmd = "PUBLISH"
        /\ LET ch == m.args[1]
               Copies(e) == IF sock[e].connected THEN [i \in 1 .. channels[ch][e] |-> ch] ELSE <<>>
           IN Answer(c, Answered(c), [e \in Clients |-> wire[e] \o Copies(e)])
    BY <1>6 DEF Publish
  <2> DEFINE ch == m.args[1]
             Copies(e) == IF sock[e].connected THEN [i \in 1 .. channels[ch][e] |-> ch] ELSE <<>>
  <2>1. ch \in Channels
    BY <1>6, ParsedCommand, ChannelsAssumption DEF Sane, Parsed, Numbers, Publish
  <2>2. Copies(d) \in Seq(Channels)
    <3>1. channels[ch][d] \in Nat
      BY <2>1
    <3> HIDE DEF ch
    <3>2. [i \in 1 .. channels[ch][d] |-> ch] \in Seq(Channels)
      BY <2>1, <3>1, CopiesType
    <3> QED
      BY <3>2
  <2>3. wire'[d] = wire[d] \o Copies(d) /\ loc'[d] = loc[d]
    <3> HIDE DEF Copies
    <3>1. SendResponse(c, Answered(c), [e \in Clients |-> wire[e] \o Copies(e)])
      BY DEF Answer, Copies
    <3> QED
      BY <3>1 DEF SendResponse
  <2>4. monitors'[d] = monitors[d] \/ (monitors'[d] = 0 /\ ~sock[d].connected)
    BY DEF Answer, PushToMonitor
  <2> HIDE DEF Copies
  <2> QED
    BY <1>6, <2>2, <2>3, <2>4 DEF Publish, Untouched
<1>7. CASE CancelAll(c)
  <2> PICK e \in loc[c].todo :
        loc' = [loc EXCEPT ![c].pc = "close", ![c].victim = e, ![c].todo = @ \ {e},
                           ![e].pc = IF At(e, "wait") /\ sock[e].connected THEN "woken"
                                     ELSE IF e = c THEN "close" ELSE @]
    BY <1>7 DEF CancelAll
  <2>1. loc[d] \in LocType /\ [loc[d] EXCEPT !.pc = loc[d].pc] = loc[d]
    BY DEF LocType
  <2>2. loc'[d] = loc[d] \/ (loc[d].pc = "wait" /\ loc'[d] = [loc[d] EXCEPT !.pc = "woken"])
    <3>1. CASE e = d /\ At(e, "wait") /\ sock[e].connected
      BY <3>1 DEF At
    <3>2. CASE e = d /\ ~(At(e, "wait") /\ sock[e].connected)
      BY <2>1, <3>2
    <3>3. CASE e # d
      BY <3>3
    <3> QED
      BY <3>1, <3>2, <3>3
  <2> QED
    BY <1>7, <2>2 DEF CancelAll, Untouched
<1>b. CASE CloseClient(c)
  <2> DEFINE e == loc[c].victim
  <2>1. PICK pc \in IF At(e, "wait") /\ sock[e].connected THEN {"wait", "woken"} ELSE {loc[e].pc} :
            loc' = [loc EXCEPT ![e].pc = pc, ![c].pc = "cancel", ![c].victim = NoClient]
    BY <1>b DEF CloseClient
  <2>2. loc[d] \in LocType /\ [loc[d] EXCEPT !.pc = loc[d].pc] = loc[d]
    BY DEF LocType
  <2>3. loc'[d] = loc[d] \/ (loc[d].pc = "wait" /\ loc'[d] = [loc[d] EXCEPT !.pc = "woken"])
    BY <2>1, <2>2 DEF At
  <2>4. sock'[d] = sock[d] \/ sock'[d] = [sock[d] EXCEPT !.connected = FALSE]
    BY <1>b DEF CloseClient
  <2> QED
    BY <1>b, <2>3, <2>4 DEF CloseClient, Untouched
<1>8. CASE EndShutDown(c) \/ Clean(c)
  BY <1>8 DEF EndShutDown, Clean, Goto, End, Without, PushToMonitor, Untouched
<1> QED
  BY <1>1, <1>2, <1>3, <1>4, <1>5, <1>6, <1>7, <1>8, <1>a, <1>b DEF Step

-----------------------------------------------------------------------------
(* What a step of a client does to the client itself. *)

Idle == {"new", "begin", "top", "recv", "wait", "woken"}

\* The client goes on with locals l, once what they have buffered is sent behind
\* the messages m.
Replies(c, l, m) ==
  /\ loc'[c] = [l EXCEPT !.out = <<>>]
  /\ wire'[c] = IF sock[c].connected THEN (wire[c] \o m) \o l.out ELSE wire[c] \o m

SameHist(c) ==
  /\ hist'[c].ran = hist[c].ran /\ hist'[c].batched = hist[c].batched
  /\ hist'[c].queued = hist[c].queued /\ hist'[c].dropped = hist[c].dropped

SameModes(c) ==
  /\ sock'[c].inTransaction = sock[c].inTransaction /\ sock'[c].transaction = sock[c].transaction
  /\ sock'[c].inSubScription = sock[c].inSubScription /\ sock'[c].subs = sock[c].subs

SameMonitor(c) ==
  /\ sock'[c].inMonitor = sock[c].inMonitor
  /\ monitors'[c] = monitors[c] \/ (monitors'[c] = 0 /\ ~sock[c].connected)

\* Reading, waiting and shutting down.
Quiet(c) ==
  \/ Accept(c) \/ Depart(c) \/ Receive(c) \/ Begin(c) \/ Top(c) \/ Suspend(c) \/ Leave(c) \/ Again(c)
  \/ CancelAll(c) \/ CloseClient(c) \/ EndShutDown(c)

LEMMA QuietEffect ==
  ASSUME Types, NEW c \in Clients, Quiet(c)
  PROVE  /\ loc'[c].id = loc[c].id /\ loc'[c].batch = loc[c].batch /\ loc'[c].out = loc[c].out
         /\ loc[c].pc \in Idle \cup {"cancel", "close"}
         /\ loc'[c].pc \in (Idle \ {"new"}) \cup {"cancel", "close", "parse", "clean"}
         /\ loc'[c].pc \in Idle \cup {"parse"} => loc[c].pc \in Idle
         /\ sock'[c].connected => sock[c].connected \/ loc[c].pc = "new"
         /\ wire'[c] = wire[c] /\ SameHist(c) /\ SameModes(c) /\ sock'[c].inMonitor = sock[c].inMonitor
         /\ UNCHANGED <<channels, monitors>>
<1> USE AllClients
<1> USE DEF SameHist, SameModes, Idle, At, Goto
<1>a. loc[c] \in LocType /\ sock[c] \in SockType /\ hist[c] \in HistType
  BY OneClient
<1>1. CASE Accept(c)
  BY <1>1, <1>a DEF Accept, LocType, SockType
<1>2. CASE Depart(c) \/ Receive(c)
  BY <1>2, <1>a DEF Depart, Receive, Receiving, LocType
<1>3. CASE Begin(c) \/ Leave(c) \/ Again(c)
  BY <1>3, <1>a DEF Begin, Leave, Again, LocType
<1>4. CASE Top(c)
  BY <1>4, <1>a DEF Top, LocType
<1>5. CASE Suspend(c)
  BY <1>5, <1>a DEF Suspend, LocType, HistType
<1>6. CASE CancelAll(c)
  <2> PICK d \in loc[c].todo :
        loc' = [loc EXCEPT ![c].pc = "close", ![c].victim = d, ![c].todo = @ \ {d},
                           ![d].pc = IF At(d, "wait") /\ sock[d].connected THEN "woken"
                                     ELSE IF d = c THEN "close" ELSE @]
    BY <1>6 DEF CancelAll
  <2>1. loc[c].pc = "cancel"
    BY <1>6 DEF CancelAll
  <2>2. /\ loc'[c].id = loc[c].id /\ loc'[c].batch = loc[c].batch /\ loc'[c].out = loc[c].out
        /\ loc'[c].pc = "close"
    <3>1. CASE d = c
      BY <2>1, <1>a, <3>1 DEF LocType
    <3>2. CASE d # c
      BY <1>a, <3>2 DEF LocType
    <3> QED
      BY <3>1, <3>2
  <2> QED
    BY <1>6, <2>1, <2>2 DEF CancelAll
<1>7. CASE CloseClient(c)
  BY <1>7, <1>a DEF CloseClient, LocType, SockType
<1>8. CASE EndShutDown(c)
  BY <1>8, <1>a DEF EndShutDown, LocType
<1> QED
  BY <1>1, <1>2, <1>3, <1>4, <1>5, <1>6, <1>7, <1>8 DEF Quiet

LEMMA SendEffect ==
  ASSUME Types, NEW c \in Clients, NEW l \in LocType, SendResponse(c, l, wire)
  PROVE  Replies(c, l, <<>>)
<1>1. wire[c] \o <<>> = wire[c] /\ c \in DOMAIN loc /\ c \in DOMAIN wire
  BY AllClients
<1> QED
  BY <1>1, AllClients DEF SendResponse, Replies

LEMMA AnswerEffect ==
  ASSUME Types, NEW c \in Clients, NEW l \in LocType, Answer(c, l, wire)
  PROVE  Replies(c, l, <<>>) /\ (monitors'[c] = monitors[c] \/ (monitors'[c] = 0 /\ ~sock[c].connected))
<1>1. SendResponse(c, l, wire)
  BY DEF Answer
<1>2. monitors'[c] = monitors[c] \/ (monitors'[c] = 0 /\ ~sock[c].connected)
  BY DEF Answer, PushToMonitor
<1> QED
  BY <1>1, <1>2, SendEffect

\* The fields of the locals after a request was taken.
LEMMA ParsedFields ==
  ASSUME Types, NEW c \in Clients, Parsing(c)
  PROVE  /\ loc[c].pc = "parse" /\ Taken(c).pc = "parse" /\ Answered(c).pc = "parse"
         /\ Taken(c).id = loc[c].id + 1 /\ Answered(c).id = loc[c].id + 1
         /\ Taken(c).batch = loc[c].batch /\ Answered(c).batch = loc[c].batch
         /\ Taken(c).out = loc[c].out /\ Answered(c).out = Append(loc[c].out, loc[c].id + 1)
         /\ Taken(c) \in LocType /\ Answered(c) \in LocType
<1>1. loc[c] \in LocType /\ loc[c].pc = "parse"
  BY OneClient DEF Parsing, At
<1> QED
  BY <1>1, ParsedCommand, ZenonT(60) DEF LocType

\* The requests that are answered at once.
LEMMA AnswerOnlyEffect ==
  ASSUME Types, NEW c \in Clients, AnswerOnly(c)
  PROVE  /\ Parsing(c) /\ Replies(c, Answered(c), <<>>) /\ SameHist(c) /\ SameModes(c) /\ SameMonitor(c)
         /\ UNCHANGED <<sock, channels>>
BY AnswerEffect, ParsedFields DEF AnswerOnly, SameHist, SameModes, SameMonitor

LEMMA MultiEffect ==
  ASSUME Types, NEW c \in Clients, Multi(c)
  PROVE  /\ Parsing(c) /\ ~InMode(c) /\ Replies(c, Answered(c), <<>>) /\ SameHist(c) /\ SameMonitor(c)
         /\ sock'[c] = [sock[c] EXCEPT !.inTransaction = TRUE]
         /\ UNCHANGED channels
<1>1. sock[c] \in SockType /\ sock \in [Clients -> SockType]
  BY OneClient, AllClients
<1>2. sock'[c] = [sock[c] EXCEPT !.inTransaction = TRUE] /\ sock'[c].inMonitor = sock[c].inMonitor
  BY <1>1 DEF Multi, SockType
<1> QED
  BY <1>2, AnswerEffect, ParsedFields DEF Multi, SameHist, SameMonitor

LEMMA PublishEffect ==
  ASSUME Types, NEW c \in Clients, Publish(c)
  PROVE  /\ Parsing(c) /\ ~InMode(c) /\ \E m \in Seq(Channels) : Replies(c, Answered(c), m)
         /\ SameHist(c) /\ SameModes(c) /\ SameMonitor(c)
         /\ UNCHANGED <<sock, channels>>
<1> PICK m \in Sane(c) :
      /\ m.cmd = "PUBLISH"
      /\ LET ch == m.args[1]
             Copies(e) == IF sock[e].connected THEN [i \in 1 .. channels[ch][e] |-> ch] ELSE <<>>
         IN Answer(c, Answered(c), [e \in Clients |-> wire[e] \o Copies(e)])
  BY DEF Publish
<1> DEFINE ch == m.args[1]
           Copies(e) == IF sock[e].connected THEN [i \in 1 .. channels[ch][e] |-> ch] ELSE <<>>
<1>1. ch \in Channels
  BY ParsedCommand, ChannelsAssumption DEF Sane, Parsed, Numbers, Publish
<1>2. Copies(c) \in Seq(Channels)
  <2>1. channels[ch][c] \in Nat
    BY <1>1, AllClients
  <2> HIDE DEF ch
  <2>2. [i \in 1 .. channels[ch][c] |-> ch] \in Seq(Channels)
    BY <1>1, <2>1, CopiesType
  <2> QED
    BY <2>2
<1>3. SendResponse(c, Answered(c), [e \in Clients |-> wire[e] \o Copies(e)])
  BY DEF Answer
<1>4. SameMonitor(c)
  BY DEF Answer, PushToMonitor, SameMonitor, Publish
<1> HIDE DEF Copies
<1>5. Replies(c, Answered(c), Copies(c))
  BY <1>3, AllClients DEF SendResponse, Replies
<1> QED
  BY <1>2, <1>4, <1>5 DEF Publish, SameHist, SameModes

LEMMA TooLargeEffect ==
  ASSUME Types, NEW c \in Clients, TooLarge(c)
  PROVE  /\ Parsing(c) /\ loc'[c] = [Answered(c) EXCEPT !.pc = "drain"]
         /\ UNCHANGED <<monitors, channels, sock, wire, hist>>
BY AllClients DEF TooLarge

LEMMA CollectEffect ==
  ASSUME Types, NEW c \in Clients, Collect(c)
  PROVE  /\ Parsing(c) /\ ~InMode(c)
         /\ \E m \in Commands, pc \in {"exec", "parse"} :
              loc'[c] = [Taken(c) EXCEPT !.batch = Append(loc[c].batch, [id |-> loc[c].id + 1, m |-> m]),
                                         !.back = "parse", !.pc = pc]
         /\ hist'[c] = [hist[c] EXCEPT !.batched = hist[c].batched \cup {loc[c].id + 1}]
         /\ UNCHANGED <<monitors, channels, sock, wire>>
<1>1. Sane(c) \subseteq Commands
  BY ParsedCommand DEF Sane, Collect
<1> QED
  BY <1>1, AllClients DEF Collect

\* A request leaves the batch, or the queue, and is executed.
LEMMA ExecuteEffect ==
  ASSUME Types, NEW c \in Clients, ExecuteBatch(c)
  PROVE  LET r == Head(loc[c].batch)
             l == [loc[c] EXCEPT !.batch = Tail(loc[c].batch), !.out = Append(loc[c].out, r.id)]
         IN /\ loc[c].pc = "exec" /\ loc[c].batch # <<>> /\ l \in LocType /\ r \in Request
            /\ \/ /\ wire'[c] = wire[c]
                  /\ loc'[c] = [l EXCEPT !.pc = IF l.batch # <<>> THEN "exec" ELSE l.back]
               \/ Replies(c, [l EXCEPT !.pc = "yield"], <<>>)
            /\ hist'[c] = [hist[c] EXCEPT !.ran = Append(hist[c].ran, r.id)]
            /\ SameModes(c) /\ sock'[c].connected = sock[c].connected
            /\ sock'[c].inMonitor = MonitorAfter(c, r.m) /\ monitors' = Monitors(c, r.m)
            /\ UNCHANGED channels
<1> USE AllClients
<1>a. loc[c] \in LocType /\ sock[c] \in SockType /\ Ready(c, loc[c])
  BY OneClient
<1> DEFINE r == Head(loc[c].batch)
           l == [loc[c] EXCEPT !.batch = Tail(loc[c].batch), !.out = Append(loc[c].out, r.id)]
<1>1. loc[c].pc = "exec" /\ loc[c].batch # <<>> /\ loc[c].batch \in Seq(Request) /\ loc[c].out \in Seq(Nat)
  BY <1>a DEF ExecuteBatch, At, Ready, LocType
<1>2. r \in Request /\ Tail(loc[c].batch) \in Seq(Request)
  BY <1>1
<1>3. Append(loc[c].out, r.id) \in Seq(Nat)
  BY <1>1, <1>2 DEF Request
<1>4. l \in LocType
  BY <1>a, <1>2, <1>3 DEF LocType
<1>5. [l EXCEPT !.pc = "yield"] \in LocType
  <2> HIDE DEF l
  <2> QED BY <1>4 DEF LocType, Pcs
<1>6. \/ /\ wire'[c] = wire[c]
         /\ loc'[c] = [l EXCEPT !.pc = IF l.batch # <<>> THEN "exec" ELSE l.back]
      \/ Replies(c, [l EXCEPT !.pc = "yield"], <<>>)
  <2>1. \/ /\ loc' = [loc EXCEPT ![c] = [l EXCEPT !.pc = IF l.batch # <<>> THEN "exec" ELSE l.back]]
           /\ UNCHANGED wire
        \/ SendResponse(c, [l EXCEPT !.pc = "yield"], wire)
    BY DEF ExecuteBatch
  <2> HIDE DEF l
  <2> QED
    BY <1>5, <2>1, SendEffect
<1>7. /\ hist'[c] = [hist[c] EXCEPT !.ran = Append(hist[c].ran, r.id)]
      /\ monitors' = Monitors(c, r.m) /\ UNCHANGED channels
  BY DEF ExecuteBatch, Execute
<1>8. SameModes(c) /\ sock'[c].connected = sock[c].connected /\ sock'[c].inMonitor = MonitorAfter(c, r.m)
  BY <1>a DEF ExecuteBatch, SameModes, SockType
<1> QED
  BY <1>1, <1>2, <1>4, <1>6, <1>7, <1>8

LEMMA DrainEffect ==
  ASSUME Types, NEW c \in Clients, Drain(c)
  PROVE  /\ loc[c].pc \in {"parse", "drain"}
         /\ \/ /\ loc[c].batch # <<>> /\ wire'[c] = wire[c]
               /\ loc'[c] = [loc[c] EXCEPT !.pc = "exec", !.back = "drain"]
            \/ loc[c].batch = <<>> /\ Replies(c, [loc[c] EXCEPT !.pc = "top", !.back = "parse"], <<>>)
         /\ UNCHANGED <<monitors, channels, sock, hist>>
<1> USE AllClients
<1>1. [loc[c] EXCEPT !.pc = "top", !.back = "parse"] \in LocType
  <2>1. loc[c] \in LocType /\ "top" \in Pcs
    BY DEF Pcs
  <2> QED
    BY <2>1 DEF LocType
<1>2. CASE loc[c].batch # <<>>
  BY <1>2 DEF Drain, AfterParsing, At
<1>3. CASE loc[c].batch = <<>>
  BY <1>1, <1>3, SendEffect DEF Drain, AfterParsing, At
<1> QED
  BY <1>2, <1>3

LEMMA QueueEffect ==
  ASSUME Types, NEW c \in Clients, Queue(c)
  PROVE  /\ Parsing(c) /\ sock[c].inTransaction /\ Replies(c, Answered(c), <<>>)
         /\ \E m \in Commands :
              sock'[c] = [sock[c] EXCEPT !.transaction = Append(sock[c].transaction, [id |-> loc[c].id + 1, m |-> m])]
         /\ hist'[c] = [hist[c] EXCEPT !.queued = hist[c].queued \cup {loc[c].id + 1}]
         /\ UNCHANGED <<monitors, channels>>
<1>1. Sane(c) \subseteq Commands /\ Answered(c) \in LocType
  BY ParsedCommand DEF Sane, Queue
<1>2. Replies(c, Answered(c), <<>>)
  BY <1>1, SendEffect DEF Queue
<1> QED
  BY <1>1, <1>2, AllClients DEF Queue

\* DISCARD, and EXEC when a watched key was modified.
LEMMA DropEffect ==
  ASSUME Types, NEW c \in Clients, Discard(c) \/ (Exec(c) /\ HasKeyModified(c))
  PROVE  /\ Parsing(c) /\ sock[c].inTransaction /\ Replies(c, Answered(c), <<>>)
         /\ ~sock'[c].inTransaction /\ sock'[c].transaction = <<>>
         /\ sock'[c].inSubScription = sock[c].inSubScription /\ sock'[c].subs = sock[c].subs
         /\ sock'[c].connected = sock[c].connected /\ SameMonitor(c)
         /\ hist'[c] = [hist[c] EXCEPT !.dropped = hist[c].dropped \cup Ids(sock[c].transaction)]
         /\ UNCHANGED channels
<1> USE AllClients
<1>a. Parsing(c) /\ sock[c].inTransaction /\ Answer(c, Answered(c), wire)
  BY DEF Discard, Exec
<1>b. sock[c] \in SockType /\ Answered(c) \in LocType
  BY <1>a, OneClient, ParsedCommand
<1>1. /\ Replies(c, Answered(c), <<>>)
      /\ monitors'[c] = monitors[c] \/ (monitors'[c] = 0 /\ ~sock[c].connected)
  BY <1>a, <1>b, AnswerEffect
<1>2. \/ sock'[c] = [sock[c] EXCEPT !.inTransaction = FALSE, !.transaction = <<>>]
      \/ sock'[c] = [sock[c] EXCEPT !.inTransaction = FALSE, !.transaction = <<>>, !.watched = {}]
  BY DEF Discard, Exec
<1>3. /\ ~sock'[c].inTransaction /\ sock'[c].transaction = <<>>
      /\ sock'[c].inSubScription = sock[c].inSubScription /\ sock'[c].subs = sock[c].subs
      /\ sock'[c].connected = sock[c].connected /\ sock'[c].inMonitor = sock[c].inMonitor
  BY <1>b, <1>2 DEF SockType
<1>4. /\ hist'[c] = [hist[c] EXCEPT !.dropped = hist[c].dropped \cup Ids(sock[c].transaction)]
      /\ UNCHANGED channels
  BY DEF Discard, Exec
<1> QED
  BY <1>a, <1>1, <1>3, <1>4 DEF SameMonitor

\* EXEC otherwise, the commands of the transaction, and their end.
LEMMA ExecEffect ==
  ASSUME Types, NEW c \in Clients, Exec(c), ~HasKeyModified(c)
  PROVE  /\ Parsing(c) /\ sock[c].inTransaction /\ loc'[c] = [Taken(c) EXCEPT !.pc = "commit"]
         /\ UNCHANGED <<monitors, channels, sock, wire, hist>>
BY AllClients DEF Exec

LEMMA CommitEffect ==
  ASSUME Types, NEW c \in Clients, Commit(c)
  PROVE  LET r == Head(sock[c].transaction)
         IN /\ loc[c].pc = "commit" /\ sock[c].transaction # <<>> /\ r \in Request
            /\ sock'[c].transaction = Tail(sock[c].transaction)
            /\ sock'[c].inTransaction = sock[c].inTransaction
            /\ sock'[c].inSubScription = sock[c].inSubScription /\ sock'[c].subs = sock[c].subs
            /\ sock'[c].connected = sock[c].connected
            /\ sock'[c].inMonitor = MonitorAfter(c, r.m) /\ monitors' = Monitors(c, r.m)
            /\ hist'[c] = [hist[c] EXCEPT !.ran = Append(hist[c].ran, r.id)]
            /\ UNCHANGED <<loc, channels, wire>>
<1> USE AllClients
<1>a. sock[c] \in SockType
  BY OneClient
<1> DEFINE r == Head(sock[c].transaction)
<1>1. loc[c].pc = "commit" /\ sock[c].transaction # <<>> /\ sock[c].transaction \in Seq(Request)
  BY <1>a DEF Commit, At, SockType
<1>2. r \in Request
  BY <1>1
<1>3. sock'[c] = [sock[c] EXCEPT !.transaction = Tail(sock[c].transaction), !.watched = WatchedAfter(c, r.m),
                                  !.inMonitor = MonitorAfter(c, r.m)]
  BY DEF Commit
<1>4. /\ sock'[c].transaction = Tail(sock[c].transaction)
      /\ sock'[c].inTransaction = sock[c].inTransaction
      /\ sock'[c].inSubScription = sock[c].inSubScription /\ sock'[c].subs = sock[c].subs
      /\ sock'[c].connected = sock[c].connected
      /\ sock'[c].inMonitor = MonitorAfter(c, r.m)
  BY <1>a, <1>3 DEF SockType
<1>5. /\ hist'[c] = [hist[c] EXCEPT !.ran = Append(hist[c].ran, r.id)]
      /\ monitors' = Monitors(c, r.m) /\ UNCHANGED <<loc, channels, wire>>
  BY DEF Commit, Execute
<1> QED
  BY <1>1, <1>2, <1>4, <1>5

\* The end of EXEC, SUBSCRIBE and UNSUBSCRIBE: the answer.
LEMMA EndCommandEffect ==
  ASSUME Types, NEW c \in Clients, EndCommit(c) \/ EndSubscription(c)
  PROVE  LET l == [loc[c] EXCEPT !.out = Append(loc[c].out, loc[c].id), !.pc = "parse"]
         IN /\ l \in LocType /\ Replies(c, l, <<>>) /\ SameMonitor(c) /\ SameHist(c)
            /\ sock'[c].connected = sock[c].connected /\ sock'[c].transaction = sock[c].transaction
            /\ sock'[c].subs = sock[c].subs /\ UNCHANGED <<channels, hist>>
            /\ \/ /\ loc[c].pc = "commit" /\ sock[c].transaction = <<>>
                  /\ ~sock'[c].inTransaction /\ sock'[c].inSubScription = sock[c].inSubScription
               \/ /\ loc[c].pc \in {"subscribe", "unsubscribe"}
                  /\ sock'[c].inTransaction = sock[c].inTransaction
                  /\ sock'[c].inSubScription <=> sock[c].subs # {}
<1> USE AllClients
<1>a. loc[c] \in LocType /\ sock[c] \in SockType
  BY OneClient
<1> DEFINE l == [loc[c] EXCEPT !.out = Append(loc[c].out, loc[c].id), !.pc = "parse"]
<1>1. Append(loc[c].out, loc[c].id) \in Seq(Nat) /\ "parse" \in Pcs
  BY <1>a DEF LocType, Pcs
<1>2. l \in LocType
  BY <1>a, <1>1 DEF LocType
<1>3. Answer(c, l, wire)
  BY DEF EndCommit, EndSubscription
<1>4. /\ Replies(c, l, <<>>)
      /\ monitors'[c] = monitors[c] \/ (monitors'[c] = 0 /\ ~sock[c].connected)
  <2> HIDE DEF l
  <2> QED BY <1>2, <1>3, AnswerEffect
<1>5. /\ sock'[c].connected = sock[c].connected /\ sock'[c].transaction = sock[c].transaction
      /\ sock'[c].subs = sock[c].subs /\ sock'[c].inMonitor = sock[c].inMonitor
      /\ \/ /\ loc[c].pc = "commit" /\ sock[c].transaction = <<>>
            /\ ~sock'[c].inTransaction /\ sock'[c].inSubScription = sock[c].inSubScription
         \/ /\ loc[c].pc \in {"subscribe", "unsubscribe"}
            /\ sock'[c].inTransaction = sock[c].inTransaction
            /\ sock'[c].inSubScription <=> sock[c].subs # {}
  <2>1. CASE EndCommit(c)
    BY <2>1, <1>a DEF EndCommit, At, SockType
  <2>2. CASE EndSubscription(c)
    <3>1. (sock[c].subs # {}) \in BOOLEAN
      OBVIOUS
    <3>2. loc[c].pc \in {"subscribe", "unsubscribe"} /\ sock'[c] = [sock[c] EXCEPT !.inSubScription = sock[c].subs # {}]
      BY <2>2 DEF EndSubscription, At
    <3> QED
      BY <1>a, <3>1, <3>2 DEF SockType
  <2> QED
    BY <2>1, <2>2
<1>6. UNCHANGED <<channels, hist>>
  BY DEF EndCommit, EndSubscription
<1> QED
  BY <1>2, <1>4, <1>5, <1>6 DEF SameMonitor, SameHist

LEMMA SubscribeEffect ==
  ASSUME Types, NEW c \in Clients, Subscribe(c) \/ Unsubscribe(c)
  PROVE  /\ Parsing(c)
         /\ loc'[c].id = loc[c].id + 1 /\ loc'[c].batch = loc[c].batch /\ loc'[c].out = loc[c].out
         /\ loc'[c].pc \in {"subscribe", "unsubscribe"}
         /\ \/ ~InMode(c) /\ sock'[c] = [sock[c] EXCEPT !.inSubScription = TRUE]
            \/ sock[c].inSubScription /\ sock'[c] = sock[c]
         /\ UNCHANGED <<monitors, channels, wire, hist>>
<1> USE AllClients
<1>1. Parsing(c) /\ loc[c].pc = "parse"
  BY DEF Subscribe, Unsubscribe, Parsing, At
<1>2. ASSUME NEW pc, NEW ch, loc' = [loc EXCEPT ![c] = [Taken(c) EXCEPT !.pc = pc, !.chans = ch]]
      PROVE  /\ loc'[c].id = loc[c].id + 1 /\ loc'[c].batch = loc[c].batch /\ loc'[c].out = loc[c].out
             /\ loc'[c].pc = pc
  BY <1>1, <1>2, ParsedFields DEF LocType
<1>3. /\ loc'[c].id = loc[c].id + 1 /\ loc'[c].batch = loc[c].batch /\ loc'[c].out = loc[c].out
      /\ loc'[c].pc \in {"subscribe", "unsubscribe"}
  <2>1. CASE Subscribe(c)
    <3> PICK m \in Sane(c) : loc' = [loc EXCEPT ![c] = [Taken(c) EXCEPT !.pc = "subscribe", !.chans = m.args]]
      BY <2>1 DEF Subscribe
    <3> QED
      BY <1>2
  <2>2. CASE Unsubscribe(c)
    <3> PICK m \in Sane(c) :
          loc' = [loc EXCEPT ![c] =
               [Taken(c) EXCEPT !.pc = "unsubscribe",
                                !.chans = IF m.args = <<>> THEN SetToSeq(sock[c].subs) ELSE m.args]]
      BY <2>2 DEF Unsubscribe
    <3> QED
      BY <1>2
  <2> QED
    BY <2>1, <2>2
<1>4. /\ \/ ~InMode(c) /\ sock'[c] = [sock[c] EXCEPT !.inSubScription = TRUE]
         \/ sock[c].inSubScription /\ sock'[c] = sock[c]
      /\ UNCHANGED <<monitors, channels, wire, hist>>
  BY DEF Subscribe, Unsubscribe
<1> QED
  BY <1>1, <1>3, <1>4

LEMMA ListEffect ==
  ASSUME Types, NEW c \in Clients, AddSubscriber(c) \/ RemoveSubscriber(c)
  PROVE  /\ loc[c].pc \in {"subscribe", "unsubscribe"} /\ loc'[c].pc = loc[c].pc
         /\ loc'[c].id = loc[c].id /\ loc'[c].batch = loc[c].batch /\ loc'[c].out = loc[c].out
         /\ sock'[c].connected = sock[c].connected /\ sock'[c].inMonitor = sock[c].inMonitor
         /\ sock'[c].inTransaction = sock[c].inTransaction /\ sock'[c].transaction = sock[c].transaction
         /\ sock'[c].inSubScription = sock[c].inSubScription
         /\ \E ch \in Channels :
              /\ \/ sock'[c].subs = sock[c].subs \cup {ch} /\ channels'[ch][c] > 0
                 \/ sock'[c].subs = sock[c].subs \ {ch} /\ channels'[ch][c] = 0
              /\ \A x \in Channels \ {ch} : channels'[x] = channels[x]
         /\ UNCHANGED <<monitors, wire, hist>>
<1> USE AllClients
<1>a. loc[c] \in LocType /\ sock[c] \in SockType
  BY OneClient
<1> DEFINE ch == Head(loc[c].chans)
<1>1. ch \in Channels
  <2>1. loc[c].chans \in Seq(Channels) /\ loc[c].chans # <<>>
    BY <1>a DEF AddSubscriber, RemoveSubscriber, LocType
  <2> QED
    BY <2>1
<1>2. /\ loc[c].pc \in {"subscribe", "unsubscribe"} /\ loc'[c].pc = loc[c].pc
      /\ loc'[c].id = loc[c].id /\ loc'[c].batch = loc[c].batch /\ loc'[c].out = loc[c].out
  <2>1. /\ loc[c].pc \in {"subscribe", "unsubscribe"}
        /\ loc'[c] = [loc[c] EXCEPT !.chans = Tail(loc[c].chans)]
    BY DEF AddSubscriber, RemoveSubscriber, At
  <2> QED
    BY <1>a, <2>1 DEF LocType
<1>3. \/ AddSubscriber(c) /\ sock'[c] = [sock[c] EXCEPT !.subs = sock[c].subs \cup {ch}]
      \/ RemoveSubscriber(c) /\ sock'[c] = [sock[c] EXCEPT !.subs = sock[c].subs \ {ch}]
  BY DEF AddSubscriber, RemoveSubscriber
<1>4. /\ sock'[c].connected = sock[c].connected /\ sock'[c].inMonitor = sock[c].inMonitor
      /\ sock'[c].inTransaction = sock[c].inTransaction /\ sock'[c].transaction = sock[c].transaction
      /\ sock'[c].inSubScription = sock[c].inSubScription
      /\ \/ AddSubscriber(c) /\ sock'[c].subs = sock[c].subs \cup {ch}
         \/ RemoveSubscriber(c) /\ sock'[c].subs = sock[c].subs \ {ch}
  <2> HIDE DEF ch
  <2> QED BY <1>a, <1>3 DEF SockType
<1>5. /\ AddSubscriber(c) => channels' = [channels EXCEPT ![ch] = [channels[ch] EXCEPT ![c] = channels[ch][c] + 1]]
      /\ RemoveSubscriber(c) => channels' = [channels EXCEPT ![ch] = [channels[ch] EXCEPT ![c] = 0]]
  BY DEF AddSubscriber, RemoveSubscriber, Without
<1>6. /\ AddSubscriber(c) => channels'[ch][c] > 0
      /\ RemoveSubscriber(c) => channels'[ch][c] = 0
      /\ \A x \in Channels \ {ch} : channels'[x] = channels[x]
  <2> HIDE DEF ch
  <2> QED BY <1>1, <1>5
<1>7. UNCHANGED <<monitors, wire, hist>>
  BY DEF AddSubscriber, RemoveSubscriber
<1> HIDE DEF ch
<1> QED
  BY <1>1, <1>2, <1>4, <1>6, <1>7

LEMMA CleanEffect ==
  ASSUME Types, NEW c \in Clients, Clean(c)
  PROVE  /\ loc'[c] = [NewLoc EXCEPT !.pc = "closed"] /\ sock'[c] = NewSock /\ hist'[c] = NewHist
         /\ wire'[c] = <<>> /\ monitors'[c] = 0 /\ \A ch \in Channels : channels'[ch][c] = 0
BY AllClients DEF Clean, End, Without, PushToMonitor

\* The fields that matter after a request that is answered at once.
LEMMA RepliesFields ==
  ASSUME NEW c, NEW l \in LocType, NEW m, Replies(c, l, m)
  PROVE  loc'[c].pc = l.pc /\ loc'[c].id = l.id /\ loc'[c].batch = l.batch /\ loc'[c].out = <<>>
BY DEF Replies, LocType

LEMMA AnsweredFields ==
  ASSUME Types, NEW c \in Clients, Parsing(c), NEW m, Replies(c, Answered(c), m)
  PROVE  /\ loc[c].pc = "parse" /\ loc'[c].pc = "parse"
         /\ loc'[c].id = loc[c].id + 1 /\ loc'[c].batch = loc[c].batch /\ loc'[c].out = <<>>
BY ParsedFields, RepliesFields

\* The steps of a client, by what they do to it.
LEMMA StepCases ==
  ASSUME NEW c \in Clients, Accept(c) \/ Depart(c) \/ Receive(c) \/ Step(c)
  PROVE  \/ Quiet(c) \/ ExecuteBatch(c) \/ Collect(c) \/ TooLarge(c) \/ Drain(c)
         \/ AnswerOnly(c) \/ Multi(c) \/ Publish(c) \/ Queue(c)
         \/ Discard(c) \/ (Exec(c) /\ HasKeyModified(c)) \/ (Exec(c) /\ ~HasKeyModified(c))
         \/ Commit(c) \/ EndCommit(c) \/ EndSubscription(c) \/ Subscribe(c) \/ Unsubscribe(c)
         \/ AddSubscriber(c) \/ RemoveSubscriber(c) \/ Clean(c)
BY DEF Step, Quiet

-----------------------------------------------------------------------------
(* The lists of channels and of monitors. *)

Subscribing(c) == loc[c].pc \in {"subscribe", "unsubscribe"}

\* SubscriptionsAgree with what it rests on: a client stays in subscription mode
\* as long as it is inside SUBSCRIBE or UNSUBSCRIBE, and a client that was not
\* accepted yet, or has left, is in no mode and in no list.
SubInv(c) ==
  /\ \A ch \in Channels : channels[ch][c] > 0 <=> ch \in sock[c].subs
  /\ Subscribing(c) => sock[c].inSubScription
  /\ ~Subscribing(c) => (sock[c].inSubScription <=> sock[c].subs # {})
  /\ ~(sock[c].inSubScription /\ sock[c].inTransaction)
  /\ sock[c].connected => (sock[c].inMonitor <=> monitors[c] > 0)
  /\ loc[c].pc \in {"new", "closed"} => monitors[c] = 0 /\ ~sock[c].connected /\ ~sock[c].inMonitor

LEMMA SubInit == Init => \A c \in Clients : SubInv(c)
BY DEF Init, SubInv, Subscribing, NewLoc, NewSock, Nowhere

LEMMA SubOther ==
  ASSUME Types, NEW d \in Clients, SubInv(d), Untouched(d)
  PROVE  SubInv(d)'
<1>1. loc[d] \in LocType /\ sock[d] \in SockType
  BY OneClient
<1>2. /\ loc'[d].pc = loc[d].pc \/ (loc[d].pc = "wait" /\ loc'[d].pc = "woken")
  BY <1>1 DEF Untouched, LocType
<1>3. /\ SameModes(d) /\ sock'[d].inMonitor = sock[d].inMonitor
      /\ sock'[d].connected => sock[d].connected
  BY <1>1 DEF Untouched, SockType, SameModes
<1>4. /\ \A ch \in Channels : channels'[ch][d] = channels[ch][d]
      /\ monitors'[d] = monitors[d] \/ (monitors'[d] = 0 /\ ~sock[d].connected)
  BY DEF Untouched
<1> QED
  BY <1>2, <1>3, <1>4 DEF SubInv, Subscribing, SameModes

\* A step that leaves the modes and the lists alone.
LEMMA SubQuiet ==
  ASSUME NEW c \in Clients, SubInv(c), UNCHANGED channels,
         loc'[c].pc \notin {"new", "closed", "subscribe", "unsubscribe"}, ~Subscribing(c),
         sock'[c].inSubScription = sock[c].inSubScription, sock'[c].subs = sock[c].subs,
         sock'[c].inTransaction => sock[c].inTransaction,
         sock'[c].connected => (sock'[c].inMonitor <=> monitors'[c] > 0)
  PROVE  SubInv(c)'
BY DEF SubInv, Subscribing

\* A command that was executed lists the client as a monitor, or not.
LEMMA SubMonitor ==
  ASSUME Types, NEW c \in Clients, SubInv(c), NEW m,
         sock'[c].connected = sock[c].connected,
         sock'[c].inMonitor = MonitorAfter(c, m), monitors' = Monitors(c, m)
  PROVE  sock'[c].connected => (sock'[c].inMonitor <=> monitors'[c] > 0)
<1>1. monitors \in [Clients -> Nat] /\ sock[c] \in SockType
  BY AllClients, OneClient
<1>2. CASE m.cmd = "MONITOR"
  <2>1. monitors'[c] = monitors[c] + 1 /\ monitors[c] \in Nat
    BY <1>1, <1>2 DEF Monitors
  <2>2. sock'[c].inMonitor
    BY <1>2 DEF MonitorAfter
  <2> QED
    BY <2>1, <2>2
<1>3. CASE m.cmd # "MONITOR"
  <2>1. monitors'[c] = monitors[c]
    BY <1>3 DEF Monitors
  <2>2. sock'[c].inMonitor <=> sock[c].inMonitor
    BY <1>3 DEF MonitorAfter
  <2> QED
    BY <2>1, <2>2 DEF SubInv
<1> QED
  BY <1>2, <1>3

LEMMA SubOwn ==
  ASSUME Types, NEW c \in Clients, SubInv(c), Accept(c) \/ Depart(c) \/ Receive(c) \/ Step(c)
  PROVE  SubInv(c)'
<1>a. loc[c] \in LocType /\ sock[c] \in SockType
  BY OneClient
<1>1. CASE Quiet(c)
  BY <1>1, QuietEffect DEF SubInv, Subscribing, SameModes, Idle
<1>2. CASE ExecuteBatch(c)
  <2> DEFINE r == Head(loc[c].batch)
             l == [loc[c] EXCEPT !.batch = Tail(loc[c].batch), !.out = Append(loc[c].out, r.id)]
  <2>1. /\ loc[c].pc = "exec" /\ l \in LocType
        /\ \/ loc'[c] = [l EXCEPT !.pc = IF l.batch # <<>> THEN "exec" ELSE l.back]
           \/ Replies(c, [l EXCEPT !.pc = "yield"], <<>>)
        /\ SameModes(c) /\ sock'[c].connected = sock[c].connected
        /\ sock'[c].inMonitor = MonitorAfter(c, r.m) /\ monitors' = Monitors(c, r.m)
        /\ UNCHANGED channels
    BY <1>2, ExecuteEffect
  <2> HIDE DEF l, r
  <2>2. loc'[c].pc \in {"exec", "parse", "drain", "yield"}
    BY <2>1 DEF LocType, Replies
  <2> QED
    BY <2>1, <2>2, SubMonitor, SubQuiet DEF Subscribing, SameModes
<1>3. CASE Collect(c) \/ TooLarge(c)
  <2>1. loc[c].pc = "parse" /\ loc'[c].pc \in {"parse", "exec", "drain"}
    BY <1>3, CollectEffect, TooLargeEffect, ParsedFields DEF LocType
  <2>2. UNCHANGED <<monitors, channels, sock>>
    BY <1>3, CollectEffect, TooLargeEffect
  <2> QED
    BY <2>1, <2>2, SubQuiet DEF SubInv, Subscribing
<1>4. CASE Drain(c)
  <2>1. loc[c].pc \in {"parse", "drain"} /\ loc'[c].pc \in {"exec", "top"} /\ UNCHANGED <<monitors, channels, sock>>
    BY <1>4, <1>a, DrainEffect DEF LocType, Replies
  <2> QED
    BY <2>1, SubQuiet DEF SubInv, Subscribing
<1>5. CASE AnswerOnly(c) \/ Publish(c)
  <2>1. Parsing(c) /\ SameModes(c) /\ SameMonitor(c) /\ UNCHANGED <<sock, channels>>
    BY <1>5, AnswerOnlyEffect, PublishEffect
  <2>2. loc[c].pc = "parse" /\ loc'[c].pc = "parse"
    BY <1>5, AnswerOnlyEffect, PublishEffect, AnsweredFields
  <2> QED
    BY <2>1, <2>2, SubQuiet DEF SubInv, Subscribing, SameMonitor
<1>6. CASE Multi(c)
  <2>1. /\ ~InMode(c) /\ SameMonitor(c) /\ sock'[c] = [sock[c] EXCEPT !.inTransaction = TRUE] /\ UNCHANGED channels
        /\ loc[c].pc = "parse" /\ loc'[c].pc = "parse"
    BY <1>6, MultiEffect, AnsweredFields
  <2>2. /\ sock'[c].inSubScription = sock[c].inSubScription /\ sock'[c].subs = sock[c].subs
        /\ sock'[c].connected = sock[c].connected
    BY <2>1, <1>a DEF SockType
  <2> QED
    BY <2>1, <2>2 DEF SubInv, Subscribing, SameMonitor, InMode
<1>7. CASE Queue(c)
  <2>1. /\ sock[c].inTransaction /\ UNCHANGED <<monitors, channels>> /\ loc[c].pc = "parse" /\ loc'[c].pc = "parse"
    BY <1>7, QueueEffect, AnsweredFields
  <2>2. /\ sock'[c].inSubScription = sock[c].inSubScription /\ sock'[c].subs = sock[c].subs
        /\ sock'[c].connected = sock[c].connected /\ sock'[c].inMonitor = sock[c].inMonitor
    BY <1>7, <1>a, QueueEffect DEF SockType
  <2> QED
    BY <2>1, <2>2, SubQuiet DEF SubInv, Subscribing
<1>8. CASE Discard(c) \/ (Exec(c) /\ HasKeyModified(c))
  <2>1. loc[c].pc = "parse" /\ loc'[c].pc = "parse"
    BY <1>8, DropEffect, AnsweredFields
  <2> QED
    BY <1>8, <2>1, DropEffect, SubQuiet DEF SubInv, Subscribing, SameMonitor
<1>9. CASE Exec(c) /\ ~HasKeyModified(c)
  <2>1. /\ loc[c].pc = "parse" /\ loc'[c].pc = "commit" /\ UNCHANGED <<monitors, channels, sock>>
    BY <1>9, ExecEffect, ParsedFields DEF LocType
  <2> QED
    BY <2>1, SubQuiet DEF SubInv, Subscribing
<1>10. CASE Commit(c)
  <2> DEFINE r == Head(sock[c].transaction)
  <2>1. /\ loc[c].pc = "commit" /\ UNCHANGED <<loc, channels>>
        /\ sock'[c].inTransaction = sock[c].inTransaction
        /\ sock'[c].inSubScription = sock[c].inSubScription /\ sock'[c].subs = sock[c].subs
        /\ sock'[c].connected = sock[c].connected
        /\ sock'[c].inMonitor = MonitorAfter(c, r.m) /\ monitors' = Monitors(c, r.m)
    BY <1>10, CommitEffect
  <2> HIDE DEF r
  <2> QED
    BY <2>1, SubMonitor, SubQuiet DEF Subscribing
<1>11. CASE EndCommit(c) \/ EndSubscription(c)
  <2> DEFINE l == [loc[c] EXCEPT !.out = Append(loc[c].out, loc[c].id), !.pc = "parse"]
  <2>1. /\ l \in LocType /\ Replies(c, l, <<>>) /\ SameMonitor(c)
        /\ sock'[c].connected = sock[c].connected
        /\ sock'[c].subs = sock[c].subs /\ UNCHANGED channels
        /\ \/ /\ loc[c].pc = "commit"
              /\ ~sock'[c].inTransaction /\ sock'[c].inSubScription = sock[c].inSubScription
           \/ /\ loc[c].pc \in {"subscribe", "unsubscribe"}
              /\ sock'[c].inTransaction = sock[c].inTransaction
              /\ sock'[c].inSubScription <=> sock[c].subs # {}
    BY <1>11, EndCommandEffect
  <2>2. l.pc = "parse"
    BY <1>a DEF LocType
  <2> HIDE DEF l
  <2>3. loc'[c].pc = "parse"
    BY <2>1, <2>2, RepliesFields
  <2> QED
    BY <2>1, <2>3 DEF SubInv, Subscribing, SameMonitor
<1>12. CASE Subscribe(c) \/ Unsubscribe(c)
  <2>1. loc[c].pc = "parse"
    BY <1>12, SubscribeEffect DEF Parsing, At
  <2>2. /\ sock'[c].inSubScription /\ sock'[c].subs = sock[c].subs
        /\ sock'[c].inTransaction = sock[c].inTransaction /\ ~sock[c].inTransaction
        /\ sock'[c].connected = sock[c].connected /\ sock'[c].inMonitor = sock[c].inMonitor
    BY <1>12, <1>a, SubscribeEffect, ZenonT(60) DEF SockType, InMode, SubInv
  <2> QED
    BY <1>12, <2>1, <2>2, SubscribeEffect DEF SubInv, Subscribing
<1>13. CASE AddSubscriber(c) \/ RemoveSubscriber(c)
  BY <1>13, ListEffect DEF SubInv, Subscribing
<1>14. CASE Clean(c)
  BY <1>14, CleanEffect DEF SubInv, Subscribing, NewLoc, NewSock
<1> QED
  BY <1>1, <1>2, <1>3, <1>4, <1>5, <1>6, <1>7, <1>8, <1>9, <1>10, <1>11, <1>12, <1>13, <1>14, StepCases

\* SUBSCRIBE, UNSUBSCRIBE, MONITOR and the end of a connection keep m_channels,
\* the monitors and the modes of the sockets in agreement, whoever runs in between.
THEOREM ListsAgree == Spec => []SubscriptionsAgree
<1> DEFINE Inv == \A c \in Clients : SubInv(c)
<1>1. ASSUME Types, Inv, [Next]_vars PROVE Inv'
  <2>1. CASE UNCHANGED vars
    BY <1>1, <2>1 DEF vars, SubInv, Subscribing
  <2>2. ASSUME NEW c \in Clients, Accept(c) \/ Depart(c) \/ Receive(c) \/ Step(c), NEW d \in Clients
        PROVE  SubInv(d)'
    <3>1. CASE d = c
      BY <1>1, <2>2, <3>1, SubOwn
    <3>2. CASE d # c
      BY <1>1, <2>2, <3>2, SubOther, OthersUntouched
    <3> QED
      BY <3>1, <3>2
  <2> QED
    BY <1>1, <2>1, <2>2 DEF Next
<1>2. Inv => SubscriptionsAgree
  BY DEF SubInv, Subscribing, SubscriptionsAgree, At
<1> QED
  BY <1>1, <1>2, SubInit, TypesAlways, PTL DEF Spec

-----------------------------------------------------------------------------
(* The requests on their way to execution. *)

\* The requests of q wait in the order of their numbers, which belong to the set
\* S, behind all members of S that ran.
Line(q, S, ran) ==
  /\ \A i \in DOMAIN q : q[i].id \in S
  /\ \A i, j \in DOMAIN q : i < j => q[i].id < q[j].id
  /\ \A k \in DOMAIN ran, i \in DOMAIN q : ran[k] \in S => ran[k] < q[i].id

LEMMA LineAppend ==
  ASSUME NEW q \in Seq(Request), NEW S \in SUBSET Nat, NEW ran \in Seq(Nat), NEW n \in Nat, NEW m \in Commands,
         Line(q, S, ran), \A x \in S : x < n, \A k \in DOMAIN ran : ran[k] < n
  PROVE  Line(Append(q, [id |-> n, m |-> m]), S \cup {n}, ran)
<1> DEFINE p == Append(q, [id |-> n, m |-> m])
<1>1. /\ DOMAIN q = 1 .. Len(q) /\ DOMAIN p = 1 .. Len(q) + 1 /\ Len(q) \in Nat
      /\ \A i \in DOMAIN q : p[i] = q[i]
      /\ p[Len(q) + 1] = [id |-> n, m |-> m]
  OBVIOUS
<1>2. p[Len(q) + 1].id = n
  BY <1>1
<1> HIDE DEF p
<1>3. \A i \in DOMAIN p : \/ i \in DOMAIN q /\ p[i] = q[i] /\ i # Len(q) + 1
                          \/ i = Len(q) + 1 /\ p[i].id = n
  <2> TAKE i \in DOMAIN p
  <2>1. CASE i = Len(q) + 1
    BY <1>2, <2>1
  <2>2. CASE i # Len(q) + 1
    <3>1. i \in 1 .. Len(q)
      BY <1>1, <2>2
    <3>2. i \in DOMAIN q /\ p[i] = q[i]
      BY <1>1, <3>1, Zenon
    <3> QED
      BY <3>2, <2>2, Zenon
  <2> QED
    BY <2>1, <2>2
<1>4. \A i \in DOMAIN q : q[i].id \in S /\ q[i].id \in Nat /\ q[i].id < n
  BY DEF Line
<1>5. \A i \in DOMAIN p : p[i].id \in S \cup {n}
  BY <1>3, <1>4
<1>6. \A i, j \in DOMAIN p : i < j => p[i].id < p[j].id
  BY <1>1, <1>3, <1>4 DEF Line
<1>7. \A k \in DOMAIN ran, i \in DOMAIN p : ran[k] \in S \cup {n} => ran[k] < p[i].id
  BY <1>3, <1>4 DEF Line
<1> QED
  BY <1>5, <1>6, <1>7 DEF Line, p

LEMMA IdsAppend ==
  ASSUME NEW q \in Seq(Request), NEW n \in Nat, NEW m \in Commands
  PROVE  Ids(Append(q, [id |-> n, m |-> m])) = Ids(q) \cup {n}
<1> DEFINE p == Append(q, [id |-> n, m |-> m])
<1>1. /\ DOMAIN q = 1 .. Len(q) /\ DOMAIN p = 1 .. Len(q) + 1 /\ Len(q) \in Nat
      /\ \A i \in DOMAIN q : p[i] = q[i]
      /\ p[Len(q) + 1] = [id |-> n, m |-> m]
  OBVIOUS
<1>2. p[Len(q) + 1].id = n /\ Len(q) + 1 \in DOMAIN p
  BY <1>1
<1> HIDE DEF p
<1>3. ASSUME NEW i \in DOMAIN p PROVE p[i].id \in Ids(q) \cup {n}
  <2>1. CASE i = Len(q) + 1
    BY <1>2, <2>1
  <2>2. CASE i # Len(q) + 1
    <3>1. i \in 1 .. Len(q)
      BY <1>1, <2>2
    <3>2. i \in DOMAIN q /\ p[i].id = q[i].id
      BY <1>1, <3>1, Zenon
    <3> QED
      BY <3>2, Zenon DEF Ids
  <2> QED
    BY <2>1, <2>2
<1>4. ASSUME NEW i \in DOMAIN q PROVE q[i].id \in Ids(p)
  <2>1. i \in DOMAIN p
    BY <1>1
  <2>2. q[i].id = p[i].id
    BY <1>1, Zenon
  <2> QED
    BY <2>1, <2>2, Zenon DEF Ids
<1>5. n \in Ids(p)
  BY <1>2, Zenon DEF Ids
<1>6. \A y \in Ids(p) : y \in Ids(q) \cup {n}
  BY <1>3, Zenon DEF Ids
<1>7. \A y \in Ids(q) : y \in Ids(p)
  BY <1>4, Zenon DEF Ids
<1> QED
  BY <1>5, <1>6, <1>7 DEF p

\* Two lines of different numbers, and nothing else that ran.
Lines(q, S, p, T, ran) ==
  /\ q \in Seq(Request) /\ p \in Seq(Request) /\ ran \in Seq(Nat)
  /\ S \subseteq Nat /\ T \subseteq Nat /\ S \cap T = {}
  /\ Line(q, S, ran) /\ Line(p, T, ran)
  /\ \A k \in DOMAIN ran : ran[k] \in S \cup T
  /\ IsInjective(ran) /\ Increasing(ran, S) /\ Increasing(ran, T)

\* The first of a line runs: the line goes on behind it, the other line is not
\* concerned.
LEMMA LineRuns ==
  ASSUME NEW q, NEW p, NEW S, NEW T, NEW ran, Lines(q, S, p, T, ran), q # <<>>
  PROVE  LET now == Append(ran, Head(q).id)
         IN /\ Head(q).id \in S /\ Head(q).id \notin ToSet(ran)
            /\ Ids(q) = Ids(Tail(q)) \cup {Head(q).id}
            /\ ToSet(now) = ToSet(ran) \cup {Head(q).id}
            /\ Lines(Tail(q), S, p, T, now)
<1> DEFINE x == Head(q).id
           now == Append(ran, x)
           t == Tail(q)
<1>a. /\ q \in Seq(Request) /\ p \in Seq(Request) /\ ran \in Seq(Nat)
      /\ S \in SUBSET Nat /\ T \in SUBSET Nat /\ S \cap T = {}
      /\ Line(q, S, ran) /\ Line(p, T, ran)
      /\ \A k \in DOMAIN ran : ran[k] \in S \cup T
      /\ IsInjective(ran) /\ Increasing(ran, S) /\ Increasing(ran, T)
  BY DEF Lines
<1>1. /\ 1 \in DOMAIN q /\ Head(q) = q[1] /\ x \in S /\ x \in Nat /\ DOMAIN q = 1 .. Len(q) /\ x = q[1].id
  <2>1. 1 \in DOMAIN q /\ Head(q) = q[1] /\ DOMAIN q = 1 .. Len(q)
    BY <1>a
  <2> QED
    BY <1>a, <2>1 DEF Line
<1>2. /\ DOMAIN t = 1 .. Len(q) - 1 /\ \A i \in DOMAIN t : i + 1 \in DOMAIN q /\ t[i] = q[i + 1] /\ i \in Nat
  BY <1>a
<1>3. /\ DOMAIN ran = 1 .. Len(ran) /\ Len(ran) \in Nat /\ DOMAIN now = 1 .. Len(ran) + 1
      /\ \A k \in DOMAIN ran : now[k] = ran[k] /\ ran[k] \in Nat
      /\ now[Len(ran) + 1] = x /\ now \in Seq(Nat)
  BY <1>a, <1>1
<1>b. t \in Seq(Request)
  BY <1>a
<1> HIDE DEF x, now, t
<1>4. \A k \in DOMAIN ran : ran[k] \in S => ran[k] < x
  BY <1>a, <1>1 DEF Line
<1>5. x \notin T
  BY <1>a, <1>1
<1>6. \A k \in DOMAIN now : \/ k \in DOMAIN ran /\ now[k] = ran[k] /\ k < Len(ran) + 1
                            \/ k = Len(ran) + 1 /\ now[k] = x
  <2> TAKE k \in DOMAIN now
  <2>1. CASE k = Len(ran) + 1
    BY <1>3, <2>1
  <2>2. CASE k # Len(ran) + 1
    <3>1. k \in 1 .. Len(ran) /\ k < Len(ran) + 1
      BY <1>3, <2>2
    <3>2. k \in DOMAIN ran /\ now[k] = ran[k]
      BY <1>3, <3>1, Zenon
    <3> QED
      BY <3>1, <3>2, Zenon
  <2> QED
    BY <2>1, <2>2
<1>7. \A k \in DOMAIN ran : ran[k] # x
  BY <1>1, <1>3, <1>4
<1>8. ToSet(now) = ToSet(ran) \cup {x} /\ x \notin ToSet(ran)
  <2>1. \A y \in ToSet(now) : y \in ToSet(ran) \cup {x}
    BY <1>6 DEF ToSet
  <2>2. \A y \in ToSet(ran) \cup {x} : y \in ToSet(now)
    <3>1. DOMAIN ran \subseteq DOMAIN now /\ Len(ran) + 1 \in DOMAIN now
      BY <1>3
    <3> QED
      BY <1>3, <3>1 DEF ToSet
  <2> QED
    BY <2>1, <2>2, <1>7 DEF ToSet
<1>9. Ids(q) = Ids(t) \cup {x}
  <2>1. \A i \in DOMAIN q : i = 1 \/ (i - 1 \in DOMAIN t /\ t[i - 1] = q[i])
    BY <1>1, <1>2
  <2>2. ASSUME NEW i \in DOMAIN q PROVE q[i].id \in Ids(t) \cup {x}
    <3>1. CASE i = 1
      BY <1>1, <3>1
    <3>2. CASE i - 1 \in DOMAIN t /\ t[i - 1] = q[i]
      <4>1. q[i].id = t[i - 1].id /\ i - 1 \in DOMAIN t
        BY <3>2
      <4> QED
        BY <4>1, Zenon DEF Ids
    <3> QED
      BY <2>1, <3>1, <3>2
  <2>3. ASSUME NEW i \in DOMAIN t PROVE t[i].id \in Ids(q)
    <3>1. t[i].id = q[i + 1].id /\ i + 1 \in DOMAIN q
      BY <1>2
    <3> QED
      BY <3>1, Zenon DEF Ids
  <2>4. x \in Ids(q)
    BY <1>1, Zenon DEF Ids
  <2>5. \A y \in Ids(q) : y \in Ids(t) \cup {x}
    BY <2>2, Zenon DEF Ids
  <2>6. \A y \in Ids(t) : y \in Ids(q)
    BY <2>3, Zenon DEF Ids
  <2> QED
    BY <2>4, <2>5, <2>6
<1>10. \A i \in DOMAIN t : x < t[i].id
  <2> TAKE i \in DOMAIN t
  <2>1. 1 < i + 1 /\ i + 1 \in DOMAIN q /\ t[i] = q[i + 1]
    BY <1>2
  <2>2. q[1].id < q[i + 1].id
    BY <1>a, <1>1, <2>1, Zenon DEF Line
  <2> QED
    BY <1>1, <2>1, <2>2, Zenon
<1>11. Line(t, S, now)
  <2>1. \A i \in DOMAIN t : t[i].id \in S
    BY <1>a, <1>2 DEF Line
  <2>2. \A i, j \in DOMAIN t : i < j => t[i].id < t[j].id
    <3> TAKE i, j \in DOMAIN t
    <3> HAVE i < j
    <3>1. i + 1 < j + 1
      BY <1>2
    <3> QED
      BY <1>a, <1>2, <3>1 DEF Line
  <2>3. \A k \in DOMAIN now, i \in DOMAIN t : now[k] \in S => now[k] < t[i].id
    BY <1>a, <1>2, <1>6, <1>10 DEF Line
  <2> QED
    BY <1>a, <2>1, <2>2, <2>3 DEF Line
<1>12. Line(p, T, now)
  BY <1>a, <1>5, <1>6 DEF Line
<1>13. \A k \in DOMAIN now : now[k] \in S \cup T
  BY <1>a, <1>1, <1>6
<1>14. IsInjective(now)
  BY <1>a, <1>6, <1>7 DEF IsInjective
<1>15. ASSUME NEW U \in {S, T} PROVE Increasing(now, U)
  <2> SUFFICES ASSUME NEW i \in DOMAIN now, NEW j \in DOMAIN now, i < j, now[i] \in U, now[j] \in U
               PROVE  now[i] < now[j]
    BY DEF Increasing
  <2>1. i \in DOMAIN ran /\ now[i] = ran[i]
    BY <1>3, <1>6
  <2>2. CASE j \in DOMAIN ran /\ now[j] = ran[j]
    BY <1>a, <2>1, <2>2 DEF Increasing
  <2>3. CASE now[j] = x
    BY <1>4, <1>5, <2>1, <2>3
  <2> QED
    BY <1>6, <2>2, <2>3
<1>16. Lines(t, S, p, T, now)
  BY <1>a, <1>b, <1>3, <1>11, <1>12, <1>13, <1>14, <1>15 DEF Lines
<1> QED
  BY <1>1, <1>8, <1>9, <1>16 DEF x, now, t

\* QueuedRunsOnCommit with what it rests on: batch and transaction are two lines
\* of their own, of numbers that were given out already; what was dropped was
\* queued, never ran and waits in no line.
QueueInv(c) ==
  LET h == hist[c] IN
    /\ \A x \in h.batched \cup h.queued : x <= loc[c].id
    /\ h.batched \cap h.queued = {}
    /\ h.dropped \subseteq h.queued
    /\ \A k \in DOMAIN h.ran : h.ran[k] \in h.batched \cup h.queued
    /\ IsInjective(h.ran) /\ Increasing(h.ran, h.queued) /\ Increasing(h.ran, h.batched)
    /\ Line(loc[c].batch, h.batched, h.ran)
    /\ Line(sock[c].transaction, h.queued, h.ran)
    /\ ToSet(h.ran) \cap (h.dropped \cup Ids(sock[c].transaction)) = {}
    /\ h.dropped \cap Ids(sock[c].transaction) = {}
    /\ h.queued \subseteq ToSet(h.ran) \cup h.dropped \cup Ids(sock[c].transaction)
    /\ ~sock[c].inTransaction => sock[c].transaction = <<>>
    /\ loc[c].pc = "commit" => sock[c].inTransaction

LEMMA QueueNew ==
  ASSUME NEW c \in Clients, NewHist = hist[c], loc[c].batch = <<>>, loc[c].pc # "commit", sock[c] = NewSock
  PROVE  QueueInv(c)
BY DEF NewHist, NewSock, QueueInv, Line, IsInjective, Increasing, ToSet, Ids

LEMMA QueueInit == Init => \A c \in Clients : QueueInv(c)
BY QueueNew DEF Init, NewLoc

\* A step that leaves the lines and the history alone.
LEMMA QueueQuiet ==
  ASSUME Types, NEW c \in Clients, QueueInv(c), SameHist(c),
         sock'[c].transaction = sock[c].transaction, loc'[c].batch = loc[c].batch,
         loc'[c].id \in Nat, loc'[c].id >= loc[c].id,
         ~sock'[c].inTransaction => sock[c].transaction = <<>>,
         loc'[c].pc = "commit" => sock'[c].inTransaction
  PROVE  QueueInv(c)'
<1>1. loc[c].id \in Nat /\ hist[c].batched \subseteq Nat /\ hist[c].queued \subseteq Nat
  BY OneClient DEF HistType
<1>2. \A x \in hist[c].batched \cup hist[c].queued : x <= loc'[c].id
  BY <1>1 DEF QueueInv
<1> QED
  BY <1>2 DEF QueueInv, SameHist

LEMMA QueueOther ==
  ASSUME Types, NEW d \in Clients, QueueInv(d), Untouched(d)
  PROVE  QueueInv(d)'
<1>1. loc[d] \in LocType /\ sock[d] \in SockType /\ loc[d].id \in Nat
  BY OneClient
<1>2. /\ loc'[d].pc = loc[d].pc \/ (loc[d].pc = "wait" /\ loc'[d].pc = "woken")
      /\ loc'[d].batch = loc[d].batch /\ loc'[d].id = loc[d].id
  BY <1>1 DEF Untouched, LocType
<1>3. sock'[d].transaction = sock[d].transaction /\ sock'[d].inTransaction = sock[d].inTransaction
  BY <1>1 DEF Untouched, SockType
<1>4. SameHist(d)
  BY DEF Untouched, SameHist
<1> QED
  BY <1>1, <1>2, <1>3, <1>4, QueueQuiet, SMTT(30) DEF QueueInv

\* A request of the batch or of the transaction runs.
LEMMA QueueRuns ==
  ASSUME Types, NEW c \in Clients, QueueInv(c),
         ExecuteBatch(c) \/ Commit(c)
  PROVE  QueueInv(c)'
<1> DEFINE h == hist[c]
<1>a. /\ loc[c] \in LocType /\ loc[c].batch \in Seq(Request) /\ sock[c].transaction \in Seq(Request)
      /\ h \in HistType /\ h.ran \in Seq(Nat) /\ h.batched \in SUBSET Nat /\ h.queued \in SUBSET Nat
  BY OneClient DEF LocType, SockType, HistType
<1>c. /\ h.batched \cap h.queued = {} /\ \A k \in DOMAIN h.ran : h.ran[k] \in h.batched \cup h.queued
      /\ IsInjective(h.ran) /\ Increasing(h.ran, h.queued) /\ Increasing(h.ran, h.batched)
      /\ Line(loc[c].batch, h.batched, h.ran) /\ Line(sock[c].transaction, h.queued, h.ran)
  BY DEF QueueInv
<1>b. ASSUME NEW x, hist'[c] = [h EXCEPT !.ran = Append(h.ran, x)]
      PROVE  /\ hist'[c].ran = Append(h.ran, x) /\ hist'[c].batched = h.batched
             /\ hist'[c].queued = h.queued /\ hist'[c].dropped = h.dropped
  BY <1>a, <1>b DEF HistType
<1>1. CASE ExecuteBatch(c)
  <2> DEFINE r == Head(loc[c].batch)
             l == [loc[c] EXCEPT !.batch = Tail(loc[c].batch), !.out = Append(loc[c].out, r.id)]
             now == Append(h.ran, r.id)
  <2>1. /\ loc[c].pc = "exec" /\ loc[c].batch # <<>> /\ l \in LocType
        /\ \/ loc'[c] = [l EXCEPT !.pc = IF l.batch # <<>> THEN "exec" ELSE l.back]
           \/ Replies(c, [l EXCEPT !.pc = "yield"], <<>>)
        /\ hist'[c] = [h EXCEPT !.ran = now] /\ SameModes(c)
    BY <1>1, ExecuteEffect
  <2>2. l.batch = Tail(loc[c].batch) /\ l.id = loc[c].id
    BY <1>a DEF LocType
  <2>3. /\ loc'[c].batch = Tail(loc[c].batch) /\ loc'[c].id = loc[c].id
        /\ loc'[c].pc # "commit"
    <3> HIDE DEF l
    <3> QED BY <2>1, <2>2 DEF LocType, Replies
  <2>4. /\ r.id \in h.batched /\ r.id \notin ToSet(h.ran)
        /\ ToSet(now) = ToSet(h.ran) \cup {r.id}
        /\ Line(Tail(loc[c].batch), h.batched, now) /\ Line(sock[c].transaction, h.queued, now)
        /\ \A k \in DOMAIN now : now[k] \in h.batched \cup h.queued
        /\ IsInjective(now) /\ Increasing(now, h.batched) /\ Increasing(now, h.queued)
    <3>1. Lines(loc[c].batch, h.batched, sock[c].transaction, h.queued, h.ran)
      BY <1>a, <1>c DEF Lines
    <3>2. loc[c].batch # <<>>
      BY <2>1
    <3>3. /\ r.id \in h.batched /\ r.id \notin ToSet(h.ran)
          /\ ToSet(now) = ToSet(h.ran) \cup {r.id}
          /\ Lines(Tail(loc[c].batch), h.batched, sock[c].transaction, h.queued, now)
      <4> HIDE DEF h
      <4> QED BY <3>1, <3>2, LineRuns
    <3> HIDE DEF r, h, now
    <3> QED
      BY <3>3, Zenon DEF Lines
  <2>5. r.id \notin h.dropped \cup Ids(sock[c].transaction)
    BY <2>4 DEF QueueInv, Line, Ids
  <2>6. /\ hist'[c].ran = now /\ hist'[c].batched = h.batched
        /\ hist'[c].queued = h.queued /\ hist'[c].dropped = h.dropped
    BY <1>b, <2>1
  <2> HIDE DEF now, r
  <2> QED
    BY <2>1, <2>3, <2>4, <2>5, <2>6 DEF QueueInv, SameModes
<1>2. CASE Commit(c)
  <2> DEFINE r == Head(sock[c].transaction)
             now == Append(h.ran, r.id)
             t == Tail(sock[c].transaction)
  <2>1. /\ sock[c].transaction # <<>> /\ sock'[c].transaction = t
        /\ sock'[c].inTransaction = sock[c].inTransaction
        /\ hist'[c] = [h EXCEPT !.ran = now] /\ UNCHANGED loc
    BY <1>2, CommitEffect
  <2>2. /\ r.id \in h.queued /\ r.id \notin ToSet(h.ran)
        /\ Ids(sock[c].transaction) = Ids(t) \cup {r.id}
        /\ ToSet(now) = ToSet(h.ran) \cup {r.id}
        /\ Line(t, h.queued, now) /\ Line(loc[c].batch, h.batched, now)
        /\ \A k \in DOMAIN now : now[k] \in h.batched \cup h.queued
        /\ IsInjective(now) /\ Increasing(now, h.batched) /\ Increasing(now, h.queued)
    <3>1. Lines(sock[c].transaction, h.queued, loc[c].batch, h.batched, h.ran)
      BY <1>a, <1>c DEF Lines
    <3>2. sock[c].transaction # <<>>
      BY <2>1
    <3>3. /\ r.id \in h.queued /\ r.id \notin ToSet(h.ran)
          /\ Ids(sock[c].transaction) = Ids(t) \cup {r.id}
          /\ ToSet(now) = ToSet(h.ran) \cup {r.id}
          /\ Lines(t, h.queued, loc[c].batch, h.batched, now)
      <4> HIDE DEF h
      <4> QED BY <3>1, <3>2, LineRuns
    <3> HIDE DEF r, h, now, t
    <3> QED
      BY <3>3 DEF Lines
  <2>3. r.id \notin Ids(t)
    <3>1. r.id \in Nat
      BY <1>a, <2>2
    <3>2. Len(h.ran) + 1 \in DOMAIN now /\ now[Len(h.ran) + 1] = r.id
      <4> HIDE DEF h, r
      <4> QED BY <1>a, <3>1
    <3> SUFFICES ASSUME NEW i \in DOMAIN t PROVE t[i].id # r.id
      BY DEF Ids
    <3> HIDE DEF now, t, r, h
    <3>3. r.id < t[i].id
      BY <2>2, <3>2 DEF Line
    <3> QED
      BY <3>1, <3>3
  <2>4. /\ hist'[c].ran = now /\ hist'[c].batched = h.batched
        /\ hist'[c].queued = h.queued /\ hist'[c].dropped = h.dropped
    BY <1>b, <2>1
  <2>5. sock[c].inTransaction
    BY <2>1 DEF QueueInv
  <2> HIDE DEF now, r, t
  <2> QED
    BY <2>1, <2>2, <2>3, <2>4, <2>5 DEF QueueInv
<1> QED
  BY <1>1, <1>2

\* A request is collected into the batch or into the transaction.
LEMMA QueueGrows ==
  ASSUME Types, NEW c \in Clients, QueueInv(c), Collect(c) \/ Queue(c)
  PROVE  QueueInv(c)'
<1> DEFINE h == hist[c]
           n == loc[c].id + 1
<1>a. /\ loc[c] \in LocType /\ sock[c] \in SockType /\ h \in HistType
      /\ loc[c].batch \in Seq(Request) /\ sock[c].transaction \in Seq(Request)
      /\ h.ran \in Seq(Nat) /\ h.batched \in SUBSET Nat /\ h.queued \in SUBSET Nat
      /\ loc[c].id \in Nat /\ n \in Nat
  BY OneClient, SMTT(30) DEF LocType, SockType, HistType
<1>b. Parsing(c)
  BY CollectEffect, QueueEffect
<1>c. /\ \A x \in h.batched \cup h.queued : x < n
      /\ \A x \in h.batched \cup h.queued : x <= n
      /\ n \notin h.batched \cup h.queued
  BY <1>a DEF QueueInv
<1>d. \A k \in DOMAIN h.ran : h.ran[k] \in h.batched \cup h.queued
  BY DEF QueueInv
<1>e. \A k \in DOMAIN h.ran : h.ran[k] < n /\ h.ran[k] # n
  <2> HIDE DEF n, h
  <2> QED BY <1>c, <1>d
<1>f. ASSUME NEW q, NEW S \in {h.batched, h.queued}, Line(q, S, h.ran)
      PROVE  Increasing(h.ran, S) => Increasing(h.ran, S \cup {n})
  BY <1>e DEF Increasing
<1>1. CASE Collect(c)
  <2> PICK m \in Commands, pc \in {"exec", "parse"} :
        loc'[c] = [Taken(c) EXCEPT !.batch = Append(loc[c].batch, [id |-> loc[c].id + 1, m |-> m]),
                                   !.back = "parse", !.pc = pc]
    BY <1>1, CollectEffect
  <2>1. Taken(c) \in LocType /\ Taken(c).id = n
    BY <1>b, ParsedFields
  <2>2. loc'[c].id = n /\ loc'[c].batch = Append(loc[c].batch, [id |-> n, m |-> m]) /\ loc'[c].pc # "commit"
    BY <2>1 DEF LocType
  <2>3. UNCHANGED sock
    BY <1>1, CollectEffect
  <2>4. hist'[c] = [h EXCEPT !.batched = h.batched \cup {n}]
    BY <1>1, CollectEffect
  <2>5. /\ hist'[c].ran = h.ran /\ hist'[c].batched = h.batched \cup {n}
        /\ hist'[c].queued = h.queued /\ hist'[c].dropped = h.dropped
    BY <1>a, <2>4 DEF HistType
  <2>6. Line(loc'[c].batch, h.batched \cup {n}, h.ran)
    <3>1. Line(loc[c].batch, h.batched, h.ran)
      BY DEF QueueInv
    <3>2. \A x \in h.batched : x < n
      BY <1>c
    <3> HIDE DEF n, h
    <3> QED
      BY <1>a, <1>e, <2>2, <3>1, <3>2, LineAppend
  <2>7. Increasing(h.ran, h.batched \cup {n})
    BY <1>f DEF QueueInv
  <2>8. /\ (h.batched \cup {n}) \cap h.queued = {}
        /\ \A x \in (h.batched \cup {n}) \cup h.queued : x <= n
    BY <1>a, <1>c DEF QueueInv
  <2> HIDE DEF n
  <2> QED
    BY <2>2, <2>3, <2>5, <2>6, <2>7, <2>8 DEF QueueInv
<1>2. CASE Queue(c)
  <2>1. sock[c].inTransaction /\ Replies(c, Answered(c), <<>>)
    BY <1>2, QueueEffect
  <2> PICK m \in Commands :
        sock'[c] = [sock[c] EXCEPT !.transaction = Append(sock[c].transaction, [id |-> loc[c].id + 1, m |-> m])]
    BY <1>2, QueueEffect
  <2> DEFINE q == sock[c].transaction
             p == Append(q, [id |-> n, m |-> m])
  <2>2. sock'[c].transaction = p /\ sock'[c].inTransaction
    BY <1>a, <2>1 DEF SockType
  <2>3. loc'[c].id = n /\ loc'[c].batch = loc[c].batch /\ loc'[c].pc # "commit"
    BY <1>b, <2>1, AnsweredFields
  <2>4. hist'[c] = [h EXCEPT !.queued = h.queued \cup {n}]
    BY <1>2, QueueEffect
  <2>5. /\ hist'[c].ran = h.ran /\ hist'[c].batched = h.batched
        /\ hist'[c].queued = h.queued \cup {n} /\ hist'[c].dropped = h.dropped
    BY <1>a, <2>4 DEF HistType
  <2>6. Line(p, h.queued \cup {n}, h.ran)
    <3>1. Line(q, h.queued, h.ran)
      BY DEF QueueInv
    <3>2. \A x \in h.queued : x < n
      BY <1>c
    <3> HIDE DEF n, h, q
    <3>3. q \in Seq(Request)
      BY <1>a DEF q
    <3> QED
      BY <1>a, <1>e, <3>1, <3>2, <3>3, LineAppend
  <2>7. Increasing(h.ran, h.queued \cup {n})
    BY <1>f DEF QueueInv
  <2>8. /\ h.batched \cap (h.queued \cup {n}) = {}
        /\ \A x \in h.batched \cup (h.queued \cup {n}) : x <= n
        /\ n \notin h.dropped
    BY <1>a, <1>c DEF QueueInv
  <2>9. Ids(p) = Ids(q) \cup {n}
    BY <1>a, IdsAppend
  <2>10. n \notin ToSet(h.ran)
    BY <1>e DEF ToSet
  <2> HIDE DEF n, p, q
  <2>11. QueueInv(c) => /\ ToSet(h.ran) \cap (h.dropped \cup Ids(q)) = {}
                        /\ h.dropped \cap Ids(q) = {} /\ h.dropped \subseteq h.queued
                        /\ h.queued \subseteq ToSet(h.ran) \cup h.dropped \cup Ids(q)
    BY DEF QueueInv, q
  <2>12. /\ ToSet(h.ran) \cap (h.dropped \cup Ids(p)) = {}
         /\ h.dropped \cap Ids(p) = {} /\ h.dropped \subseteq h.queued \cup {n}
         /\ h.queued \cup {n} \subseteq ToSet(h.ran) \cup h.dropped \cup Ids(p)
    <3> HIDE DEF h
    <3> QED BY <2>8, <2>9, <2>10, <2>11
  <2> QED
    BY <2>2, <2>3, <2>5, <2>6, <2>7, <2>8, <2>12 DEF QueueInv
<1> QED
  BY <1>1, <1>2

\* DISCARD, and EXEC when a watched key was modified: what was queued is dropped.
LEMMA QueueDrops ==
  ASSUME Types, NEW c \in Clients, QueueInv(c), Discard(c) \/ (Exec(c) /\ HasKeyModified(c))
  PROVE  QueueInv(c)'
<1> DEFINE h == hist[c]
           q == sock[c].transaction
<1>a. h \in HistType /\ loc[c].id \in Nat /\ h.batched \subseteq Nat /\ h.queued \subseteq Nat
  BY OneClient DEF HistType
<1>1. /\ Parsing(c) /\ Replies(c, Answered(c), <<>>) /\ sock'[c].transaction = <<>> /\ ~sock'[c].inTransaction
      /\ hist'[c] = [h EXCEPT !.dropped = h.dropped \cup Ids(q)]
  BY DropEffect
<1>2. loc'[c].id = loc[c].id + 1 /\ loc'[c].batch = loc[c].batch /\ loc'[c].pc # "commit"
  BY <1>1, AnsweredFields
<1>3. /\ hist'[c].ran = h.ran /\ hist'[c].batched = h.batched
      /\ hist'[c].queued = h.queued /\ hist'[c].dropped = h.dropped \cup Ids(q)
  BY <1>a, <1>1 DEF HistType
<1>4. \A x \in h.batched \cup h.queued : x <= loc[c].id + 1
  BY <1>a DEF QueueInv
<1>5. Ids(q) \subseteq h.queued
  BY DEF QueueInv, Line, Ids
<1>6. Ids(<<>>) = {} /\ Line(<<>>, h.queued, h.ran)
  BY DEF Ids, Line
<1> QED
  BY <1>1, <1>2, <1>3, <1>4, <1>5, <1>6 DEF QueueInv

LEMMA QueueOwn ==
  ASSUME Types, NEW c \in Clients, QueueInv(c), Accept(c) \/ Depart(c) \/ Receive(c) \/ Step(c)
  PROVE  QueueInv(c)'
<1>a. loc[c] \in LocType /\ sock[c] \in SockType /\ loc[c].id \in Nat
  BY OneClient
<1>b. ~sock[c].inTransaction => sock[c].transaction = <<>>
  BY DEF QueueInv
<1>1. CASE Quiet(c)
  <2>1. /\ loc'[c].id = loc[c].id /\ loc'[c].batch = loc[c].batch /\ SameHist(c) /\ SameModes(c)
        /\ loc'[c].pc # "commit"
    BY <1>1, QuietEffect DEF Idle
  <2> QED
    BY <1>a, <1>b, <2>1, QueueQuiet DEF SameModes
<1>2. CASE ExecuteBatch(c) \/ Commit(c)
  BY <1>2, QueueRuns
<1>3. CASE Collect(c) \/ Queue(c)
  BY <1>3, QueueGrows
<1>4. CASE Discard(c) \/ (Exec(c) /\ HasKeyModified(c))
  BY <1>4, QueueDrops
<1>5. CASE TooLarge(c)
  <2>1. /\ Parsing(c) /\ loc'[c] = [Answered(c) EXCEPT !.pc = "drain"] /\ UNCHANGED <<sock, hist>>
    BY <1>5, TooLargeEffect
  <2>2. loc'[c].id = loc[c].id + 1 /\ loc'[c].batch = loc[c].batch /\ loc'[c].pc # "commit"
    BY <2>1, ParsedFields DEF LocType
  <2>3. loc'[c].id \in Nat /\ loc'[c].id >= loc[c].id /\ sock'[c] = sock[c] /\ SameHist(c)
    BY <1>a, <2>1, <2>2 DEF SameHist
  <2>4. sock'[c].transaction = sock[c].transaction /\ sock'[c].inTransaction = sock[c].inTransaction
    BY <2>3
  <2> QED
    BY <1>b, <2>1, <2>2, <2>3, <2>4, QueueQuiet
<1>6. CASE Drain(c)
  <2>1. /\ UNCHANGED <<sock, hist>>
        /\ \/ loc'[c] = [loc[c] EXCEPT !.pc = "exec", !.back = "drain"]
           \/ loc'[c] = [[loc[c] EXCEPT !.pc = "top", !.back = "parse"] EXCEPT !.out = <<>>]
    BY <1>6, DrainEffect DEF Replies
  <2>2. loc'[c].id = loc[c].id /\ loc'[c].batch = loc[c].batch /\ loc'[c].pc # "commit"
    BY <1>a, <2>1 DEF LocType
  <2> QED
    BY <1>a, <1>b, <2>1, <2>2, QueueQuiet DEF SameHist
<1>7. CASE AnswerOnly(c) \/ Publish(c) \/ Multi(c)
  <2>1. /\ Parsing(c) /\ SameHist(c) /\ \E m \in Seq(Channels) : Replies(c, Answered(c), m)
    <3>1. <<>> \in Seq(Channels)
      OBVIOUS
    <3> QED
      BY <1>7, <3>1, AnswerOnlyEffect, PublishEffect, MultiEffect
  <2>2. loc'[c].id = loc[c].id + 1 /\ loc'[c].batch = loc[c].batch /\ loc'[c].pc # "commit"
    BY <2>1, AnsweredFields
  <2>3. CASE SameModes(c)
    BY <1>a, <1>b, <2>1, <2>2, <2>3, QueueQuiet DEF SameModes
  <2>4. CASE sock'[c] = [sock[c] EXCEPT !.inTransaction = TRUE]
    <3>1. sock'[c].transaction = sock[c].transaction /\ sock'[c].inTransaction
      BY <1>a, <2>4 DEF SockType
    <3> QED
      BY <1>a, <2>1, <2>2, <3>1, QueueQuiet
  <2> QED
    BY <1>7, <2>3, <2>4, AnswerOnlyEffect, PublishEffect, MultiEffect
<1>8. CASE Exec(c) /\ ~HasKeyModified(c)
  <2>1. /\ Parsing(c) /\ sock[c].inTransaction /\ loc'[c] = [Taken(c) EXCEPT !.pc = "commit"]
        /\ UNCHANGED <<sock, hist>>
    BY <1>8, ExecEffect
  <2>2. loc'[c].id = loc[c].id + 1 /\ loc'[c].batch = loc[c].batch
    BY <2>1, ParsedFields DEF LocType
  <2>3. loc'[c].id \in Nat /\ loc'[c].id >= loc[c].id /\ sock'[c] = sock[c] /\ SameHist(c)
    BY <1>a, <2>1, <2>2 DEF SameHist
  <2>4. sock'[c].transaction = sock[c].transaction /\ sock'[c].inTransaction = sock[c].inTransaction
    BY <2>3
  <2> QED
    BY <2>1, <2>2, <2>3, <2>4, QueueQuiet
<1>9. CASE EndCommit(c) \/ EndSubscription(c)
  <2> DEFINE l == [loc[c] EXCEPT !.out = Append(loc[c].out, loc[c].id), !.pc = "parse"]
  <2>1. /\ l \in LocType /\ Replies(c, l, <<>>) /\ SameHist(c)
        /\ sock'[c].transaction = sock[c].transaction
        /\ \/ sock[c].transaction = <<>>
           \/ sock'[c].inTransaction = sock[c].inTransaction
    BY <1>9, EndCommandEffect
  <2>2. l.id = loc[c].id /\ l.batch = loc[c].batch /\ l.pc = "parse"
    BY <1>a DEF LocType
  <2>3. loc'[c].id = loc[c].id /\ loc'[c].batch = loc[c].batch /\ loc'[c].pc # "commit"
    <3> HIDE DEF l
    <3> QED BY <2>1, <2>2 DEF LocType, Replies
  <2> HIDE DEF l
  <2> QED
    BY <1>a, <1>b, <2>1, <2>3, QueueQuiet
<1>10. CASE Subscribe(c) \/ Unsubscribe(c)
  <2>1. /\ loc'[c].id = loc[c].id + 1 /\ loc'[c].batch = loc[c].batch /\ loc'[c].pc # "commit"
        /\ UNCHANGED hist
        /\ sock'[c] = [sock[c] EXCEPT !.inSubScription = TRUE] \/ sock'[c] = sock[c]
    BY <1>10, SubscribeEffect
  <2>2. sock'[c].transaction = sock[c].transaction /\ sock'[c].inTransaction = sock[c].inTransaction
    BY <1>a, <2>1 DEF SockType
  <2> QED
    BY <1>a, <1>b, <2>1, <2>2, QueueQuiet DEF SameHist
<1>11. CASE AddSubscriber(c) \/ RemoveSubscriber(c)
  BY <1>11, <1>a, <1>b, ListEffect, QueueQuiet DEF SameHist
<1>12. CASE Clean(c)
  <2>1. /\ loc'[c] = [NewLoc EXCEPT !.pc = "closed"] /\ sock'[c] = NewSock /\ hist'[c] = NewHist
    BY <1>12, CleanEffect
  <2>2. loc'[c].batch = <<>> /\ loc'[c].pc # "commit"
    BY <2>1 DEF NewLoc
  <2> QED
    BY <2>1, <2>2 DEF NewHist, NewSock, QueueInv, Line, IsInjective, Increasing, ToSet, Ids
<1> QED
  BY <1>1, <1>2, <1>3, <1>4, <1>5, <1>6, <1>7, <1>8, <1>9, <1>10, <1>11, <1>12, StepCases

\* What MULTI queues runs once, in order and only through the EXEC of its own
\* transaction: DISCARD, an EXEC that finds a watched key modified and the mode
\* switches of the loop leave nothing behind that could run later.
THEOREM QueuedRunsOnce == Spec => []QueuedRunsOnCommit
<1> DEFINE Inv == \A c \in Clients : QueueInv(c)
<1>1. ASSUME Types, Inv, [Next]_vars PROVE Inv'
  <2>1. CASE UNCHANGED vars
    BY <1>1, <2>1 DEF vars, QueueInv
  <2>2. ASSUME NEW c \in Clients, Accept(c) \/ Depart(c) \/ Receive(c) \/ Step(c), NEW d \in Clients
        PROVE  QueueInv(d)'
    <3>1. CASE d = c
      BY <1>1, <2>2, <3>1, QueueOwn
    <3>2. CASE d # c
      BY <1>1, <2>2, <3>2, QueueOther, OthersUntouched
    <3> QED
      BY <3>1, <3>2
  <2> QED
    BY <1>1, <2>1, <2>2 DEF Next
<1>2. Inv => QueuedRunsOnCommit
  BY DEF QueueInv, QueuedRunsOnCommit
<1> QED
  BY <1>1, <1>2, QueueInit, TypesAlways, PTL DEF Spec

-----------------------------------------------------------------------------
(* The answers on their way to the client. *)

Has(s, r) == \E i \in DOMAIN s : s[i] = r

\* The members of set are in increasing order in s, in t and from s to t.
Ordered(s, t, set) ==
  /\ Increasing(s, set) /\ Increasing(t, set)
  /\ \A i \in DOMAIN s, j \in DOMAIN t : s[i] \in set /\ t[j] \in set => s[i] < t[j]

\* What was sent (w), what is buffered (o) and what waits in the batch (b), when
\* requests up to n are settled and those of B among them were batched.
Answers(w, o, b, B, n) ==
  /\ w \in Seq(Nat \cup Channels) /\ o \in Seq(Nat) /\ b \in Seq(Request) /\ B \in SUBSET Nat /\ n \in Nat
  /\ \A x \in B : x <= n
  /\ \A k \in DOMAIN w : w[k] \in Nat => w[k] <= n
  /\ \A k \in DOMAIN o : o[k] <= n
  /\ Ordered(w, o, B) /\ Ordered(w, o, Nat \ B)
  /\ Line(b, B, w) /\ Line(b, B, o)

\* None of them is missing.
Complete(w, o, b, n) == \A r \in 1 .. n : Has(w, r) \/ Has(o, r) \/ r \in Ids(b)

\* The entries of a sequence with one more, and of two sequences.
LEMMA AppendEntries ==
  ASSUME NEW X, NEW s \in Seq(X), NEW x \in X
  PROVE  /\ \A i \in DOMAIN Append(s, x) :
              \/ i \in DOMAIN s /\ Append(s, x)[i] = s[i] /\ i < Len(s) + 1
              \/ i = Len(s) + 1 /\ Append(s, x)[i] = x
         /\ \A i \in DOMAIN s : i \in DOMAIN Append(s, x) /\ Append(s, x)[i] = s[i] /\ i < Len(s) + 1
         /\ Len(s) + 1 \in DOMAIN Append(s, x) /\ Append(s, x)[Len(s) + 1] = x
         /\ Append(s, x) \in Seq(X) /\ Len(s) \in Nat
<1> DEFINE p == Append(s, x)
<1>1. /\ DOMAIN s = 1 .. Len(s) /\ DOMAIN p = 1 .. Len(s) + 1 /\ Len(s) \in Nat
      /\ \A i \in DOMAIN s : p[i] = s[i]
      /\ p[Len(s) + 1] = x /\ p \in Seq(X)
  OBVIOUS
<1> HIDE DEF p
<1>2. ASSUME NEW i \in DOMAIN p, i # Len(s) + 1 PROVE i \in DOMAIN s /\ p[i] = s[i] /\ i < Len(s) + 1
  <2>1. i \in 1 .. Len(s) /\ i < Len(s) + 1
    BY <1>1, <1>2
  <2> QED
    BY <1>1, <2>1, Zenon
<1>3. ASSUME NEW i \in DOMAIN s PROVE i \in DOMAIN p /\ p[i] = s[i] /\ i < Len(s) + 1
  <2>1. i \in 1 .. Len(s) + 1 /\ i < Len(s) + 1
    BY <1>1
  <2> QED
    BY <1>1, <2>1, Zenon
<1>4. Len(s) + 1 \in DOMAIN p
  BY <1>1
<1>5. \A i \in DOMAIN p : i # Len(s) + 1 \/ (i = Len(s) + 1 /\ p[i] = x)
  BY <1>1
<1> QED
  BY <1>1, <1>2, <1>3, <1>4, <1>5, Zenon DEF p

LEMMA JoinEntries ==
  ASSUME NEW X, NEW s \in Seq(X), NEW t \in Seq(X)
  PROVE  /\ \A i \in DOMAIN (s \o t) :
              \/ i \in DOMAIN s /\ (s \o t)[i] = s[i] /\ i <= Len(s)
              \/ i - Len(s) \in DOMAIN t /\ (s \o t)[i] = t[i - Len(s)] /\ i > Len(s)
         /\ \A i \in DOMAIN s : i \in DOMAIN (s \o t) /\ (s \o t)[i] = s[i] /\ i \in Nat
         /\ \A i \in DOMAIN t : i + Len(s) \in DOMAIN (s \o t) /\ (s \o t)[i + Len(s)] = t[i] /\ i \in Nat
         /\ s \o t \in Seq(X) /\ Len(s) \in Nat /\ DOMAIN (s \o t) \subseteq Nat
<1> DEFINE p == s \o t
<1>1. /\ DOMAIN s = 1 .. Len(s) /\ DOMAIN t = 1 .. Len(t) /\ DOMAIN p = 1 .. Len(s) + Len(t)
      /\ Len(s) \in Nat /\ Len(t) \in Nat /\ p \in Seq(X)
  OBVIOUS
<1>2. \A i \in 1 .. Len(s) + Len(t) : p[i] = IF i <= Len(s) THEN s[i] ELSE t[i - Len(s)]
  OBVIOUS
<1> HIDE DEF p
<1>3. ASSUME NEW i \in DOMAIN p
      PROVE  \/ i \in DOMAIN s /\ p[i] = s[i] /\ i <= Len(s)
             \/ i - Len(s) \in DOMAIN t /\ p[i] = t[i - Len(s)] /\ i > Len(s)
  BY <1>1, <1>2
<1>4. ASSUME NEW i \in DOMAIN s PROVE i \in DOMAIN p /\ p[i] = s[i] /\ i \in Nat
  BY <1>1, <1>2
<1>5. ASSUME NEW i \in DOMAIN t PROVE i + Len(s) \in DOMAIN p /\ p[i + Len(s)] = t[i] /\ i \in Nat
  <2>1. i + Len(s) \in 1 .. Len(s) + Len(t) /\ ~(i + Len(s) <= Len(s)) /\ (i + Len(s)) - Len(s) = i /\ i \in Nat
    BY <1>1
  <2> QED
    BY <1>1, <1>2, <2>1
<1>6. DOMAIN p \subseteq Nat
  BY <1>1
<1> QED
  BY <1>1, <1>3, <1>4, <1>5, <1>6, Zenon DEF p

\* One more answer behind all others keeps the order.
LEMMA OrderedAppend ==
  ASSUME NEW s \in Seq(Nat \cup Channels), NEW t \in Seq(Nat), NEW set \in SUBSET Nat, NEW x \in Nat,
         Ordered(s, t, set),
         x \in set => /\ \A i \in DOMAIN s : s[i] \in set => s[i] < x
                      /\ \A i \in DOMAIN t : t[i] \in set => t[i] < x
  PROVE  Ordered(s, Append(t, x), set)
<1> DEFINE p == Append(t, x)
<1>1. \A i \in DOMAIN p : \/ i \in DOMAIN t /\ p[i] = t[i] /\ i < Len(t) + 1
                          \/ i = Len(t) + 1 /\ p[i] = x
  BY AppendEntries
<1>2. DOMAIN p \subseteq Nat /\ Len(t) \in Nat
  OBVIOUS
<1> HIDE DEF p
<1>3. Increasing(p, set)
  <2> SUFFICES ASSUME NEW i \in DOMAIN p, NEW j \in DOMAIN p, i < j, p[i] \in set, p[j] \in set
               PROVE  p[i] < p[j]
    BY DEF Increasing
  <2>1. CASE i = Len(t) + 1
    BY <1>1, <1>2, <2>1
  <2>2. CASE i \in DOMAIN t /\ p[i] = t[i]
    BY <1>1, <2>2 DEF Increasing, Ordered
  <2> QED
    BY <1>1, <2>1, <2>2
<1>4. \A i \in DOMAIN s, j \in DOMAIN p : s[i] \in set /\ p[j] \in set => s[i] < p[j]
  BY <1>1 DEF Ordered
<1> QED
  BY <1>3, <1>4 DEF Ordered, p

\* What is buffered is sent.
LEMMA OrderedSend ==
  ASSUME NEW s \in Seq(Nat \cup Channels), NEW t \in Seq(Nat \cup Channels), NEW set \in SUBSET Nat,
         Ordered(s, t, set)
  PROVE  Ordered(s \o t, <<>>, set) /\ Ordered(s, <<>>, set)
<1> DEFINE p == s \o t
<1>1. /\ \A i \in DOMAIN p : \/ i \in DOMAIN s /\ p[i] = s[i] /\ i <= Len(s)
                             \/ i - Len(s) \in DOMAIN t /\ p[i] = t[i - Len(s)] /\ i > Len(s)
      /\ DOMAIN p \subseteq Nat /\ Len(s) \in Nat
  BY JoinEntries
<1> HIDE DEF p
<1>2. Increasing(p, set)
  <2> SUFFICES ASSUME NEW i \in DOMAIN p, NEW j \in DOMAIN p, i < j, p[i] \in set, p[j] \in set
               PROVE  p[i] < p[j]
    BY DEF Increasing
  <2>1. CASE i \in DOMAIN s /\ p[i] = s[i] /\ j \in DOMAIN s /\ p[j] = s[j]
    BY <2>1 DEF Ordered, Increasing
  <2>2. CASE i \in DOMAIN s /\ p[i] = s[i] /\ j - Len(s) \in DOMAIN t /\ p[j] = t[j - Len(s)]
    BY <2>2 DEF Ordered
  <2>3. CASE /\ i - Len(s) \in DOMAIN t /\ p[i] = t[i - Len(s)]
             /\ j - Len(s) \in DOMAIN t /\ p[j] = t[j - Len(s)]
    <3>1. i - Len(s) < j - Len(s)
      BY <1>1
    <3> QED
      BY <2>3, <3>1 DEF Ordered, Increasing
  <2>4. CASE i > Len(s) /\ j <= Len(s)
    BY <1>1, <2>4
  <2> QED
    BY <1>1, <2>1, <2>2, <2>3, <2>4
<1>3. Increasing(<<>>, set) /\ DOMAIN <<>> = {}
  BY DEF Increasing
<1> QED
  BY <1>2, <1>3 DEF Ordered, p

\* Messages are no numbers.
LEMMA OrderedPush ==
  ASSUME NEW s \in Seq(Nat \cup Channels), NEW t \in Seq(Nat), NEW set \in SUBSET Nat,
         NEW m \in Seq(Channels), Ordered(s, t, set)
  PROVE  Ordered(s \o m, t, set)
<1> DEFINE p == s \o m
<1>1. m \in Seq(Nat \cup Channels) /\ \A i \in DOMAIN m : m[i] \notin set
  BY ChannelsAssumption
<1>2. \A i \in DOMAIN p : \/ i \in DOMAIN s /\ p[i] = s[i]
                          \/ i - Len(s) \in DOMAIN m /\ p[i] = m[i - Len(s)]
  BY <1>1, JoinEntries
<1> HIDE DEF p
<1>3. \A i \in DOMAIN p : p[i] \in set => i \in DOMAIN s /\ p[i] = s[i]
  BY <1>1, <1>2
<1> QED
  BY <1>3 DEF Ordered, Increasing, p

\* A request is collected.
LEMMA AnswersCollect ==
  ASSUME NEW w, NEW o, NEW b, NEW B, NEW n, Answers(w, o, b, B, n), NEW m \in Commands
  PROVE  LET p == Append(b, [id |-> n + 1, m |-> m])
         IN /\ Answers(w, o, p, B \cup {n + 1}, n + 1)
            /\ Complete(w, o, b, n) => Complete(w, o, p, n + 1)
<1> DEFINE r == [id |-> n + 1, m |-> m]
           p == Append(b, r)
           C == B \cup {n + 1}
<1>a. /\ w \in Seq(Nat \cup Channels) /\ o \in Seq(Nat) /\ b \in Seq(Request) /\ B \in SUBSET Nat /\ n \in Nat
      /\ \A x \in B : x <= n
      /\ \A k \in DOMAIN w : w[k] \in Nat => w[k] <= n
      /\ \A k \in DOMAIN o : o[k] <= n
      /\ Ordered(w, o, B) /\ Ordered(w, o, Nat \ B)
      /\ Line(b, B, w) /\ Line(b, B, o)
  BY DEF Answers
<1>b. r \in Request /\ r.id = n + 1 /\ n + 1 \in Nat
  BY <1>a DEF Request
<1>1. /\ \A i \in DOMAIN p : \/ i \in DOMAIN b /\ p[i] = b[i] /\ i < Len(b) + 1
                             \/ i = Len(b) + 1 /\ p[i] = r
      /\ p \in Seq(Request) /\ Len(b) \in Nat
  <2> HIDE DEF r
  <2> QED BY <1>a, <1>b, AppendEntries
<1>2. DOMAIN p \subseteq Nat
  BY <1>1
<1>3. Ids(p) = Ids(b) \cup {n + 1}
  BY <1>a, <1>b, IdsAppend
<1> HIDE DEF r, p
<1>4. \A k \in DOMAIN w : w[k] \in C => w[k] \in B
  BY <1>a, <1>b
<1>5. \A k \in DOMAIN o : o[k] \in C => o[k] \in B
  BY <1>a, <1>b
<1>6. \A i \in DOMAIN b : b[i].id \in B /\ b[i].id \in Nat /\ b[i].id < n + 1
  <2>1. \A i \in DOMAIN b : b[i].id \in B
    BY <1>a, Zenon DEF Line
  <2>2. \A x \in B : x \in Nat /\ x < n + 1
    BY <1>a
  <2> QED
    BY <2>1, <2>2, Zenon
<1>7. /\ \A i \in DOMAIN p : p[i].id \in C
      /\ \A i, j \in DOMAIN p : i < j => p[i].id < p[j].id
  <2>1. \A i \in DOMAIN p : p[i].id \in C
    BY <1>1, <1>6, <1>b
  <2>2. ASSUME NEW i \in DOMAIN p, NEW j \in DOMAIN p, i < j PROVE p[i].id < p[j].id
    <3>1. i \in DOMAIN b /\ p[i] = b[i]
      BY <1>1, <1>2, <2>2
    <3>2. CASE j \in DOMAIN b /\ p[j] = b[j]
      BY <1>a, <2>2, <3>1, <3>2 DEF Line
    <3>3. CASE p[j] = r
      BY <1>6, <1>b, <3>1, <3>3
    <3> QED
      BY <1>1, <3>2, <3>3
  <2> QED
    BY <2>1, <2>2
<1>8. Line(p, C, w)
  <2>1. ASSUME NEW k \in DOMAIN w, NEW i \in DOMAIN p, w[k] \in C PROVE w[k] < p[i].id
    <3>1. w[k] \in B /\ w[k] < n + 1
      <4>1. w[k] \in B
        BY <1>4, <2>1
      <4>2. \A x \in B : x < n + 1
        BY <1>a
      <4> QED
        BY <4>1, <4>2
    <3>2. CASE i \in DOMAIN b /\ p[i] = b[i]
      <4>1. w[k] < b[i].id
        BY <1>a, <3>1, <3>2, Zenon DEF Line
      <4> QED
        BY <3>2, <4>1
    <3>3. CASE p[i] = r
      BY <1>b, <3>1, <3>3
    <3> QED
      BY <1>1, <3>2, <3>3
  <2> QED
    BY <1>7, <2>1 DEF Line
<1>9. Line(p, C, o)
  <2>1. ASSUME NEW k \in DOMAIN o, NEW i \in DOMAIN p, o[k] \in C PROVE o[k] < p[i].id
    <3>1. o[k] \in B /\ o[k] < n + 1
      BY <1>a, <1>5, <2>1
    <3>2. CASE i \in DOMAIN b /\ p[i] = b[i]
      <4>1. o[k] < b[i].id
        BY <1>a, <3>1, <3>2, Zenon DEF Line
      <4> QED
        BY <3>2, <4>1
    <3>3. CASE p[i] = r
      BY <1>b, <3>1, <3>3
    <3> QED
      BY <1>1, <3>2, <3>3
  <2> QED
    BY <1>7, <2>1 DEF Line
<1>10. Ordered(w, o, C) /\ Ordered(w, o, Nat \ C)
  BY <1>a, <1>4, <1>5 DEF Ordered, Increasing
<1>11. Answers(w, o, p, C, n + 1)
  <2>1. /\ \A x \in C : x <= n + 1
        /\ \A k \in DOMAIN w : w[k] \in Nat => w[k] <= n + 1
        /\ \A k \in DOMAIN o : o[k] <= n + 1
        /\ C \in SUBSET Nat
    BY <1>a
  <2> HIDE DEF C
  <2> QED BY <1>a, <1>b, <1>1, <1>8, <1>9, <1>10, <2>1 DEF Answers
<1>12. Complete(w, o, b, n) => Complete(w, o, p, n + 1)
  <2>1. \A r1 \in 1 .. n + 1 : r1 \in 1 .. n \/ r1 = n + 1
    BY <1>a
  <2> QED
    BY <1>3, <2>1 DEF Complete
<1> QED
  BY <1>11, <1>12 DEF p, r

\* A request is answered into the buffer.
LEMMA AnswersBuffer ==
  ASSUME NEW w, NEW o, NEW b, NEW B, NEW n, Answers(w, o, b, B, n)
  PROVE  /\ Answers(w, Append(o, n + 1), b, B, n + 1)
         /\ Complete(w, o, b, n) => Complete(w, Append(o, n + 1), b, n + 1)
<1> DEFINE p == Append(o, n + 1)
<1>a. /\ w \in Seq(Nat \cup Channels) /\ o \in Seq(Nat) /\ b \in Seq(Request) /\ B \in SUBSET Nat /\ n \in Nat
      /\ \A x \in B : x <= n
      /\ \A k \in DOMAIN w : w[k] \in Nat => w[k] <= n
      /\ \A k \in DOMAIN o : o[k] <= n
      /\ Ordered(w, o, B) /\ Ordered(w, o, Nat \ B)
      /\ Line(b, B, w) /\ Line(b, B, o)
  BY DEF Answers
<1>b. n + 1 \in Nat /\ n + 1 \notin B /\ \A k \in DOMAIN o : o[k] \in Nat
  BY <1>a
<1>1. /\ \A i \in DOMAIN p : \/ i \in DOMAIN o /\ p[i] = o[i] /\ i < Len(o) + 1
                             \/ i = Len(o) + 1 /\ p[i] = n + 1
      /\ \A i \in DOMAIN o : i \in DOMAIN p /\ p[i] = o[i]
      /\ p \in Seq(Nat) /\ Len(o) + 1 \in DOMAIN p /\ p[Len(o) + 1] = n + 1
  BY <1>a, <1>b, AppendEntries
<1>2. Ordered(w, p, B)
  BY <1>a, <1>b, OrderedAppend
<1>3. Ordered(w, p, Nat \ B)
  <2> DEFINE T == Nat \ B
  <2>1. T \in SUBSET Nat /\ Ordered(w, o, T)
    BY <1>a
  <2>2. /\ \A i \in DOMAIN w : w[i] \in T => w[i] < n + 1
        /\ \A i \in DOMAIN o : o[i] \in T => o[i] < n + 1
    BY <1>a, <1>b
  <2> HIDE DEF T
  <2>3. Ordered(w, p, T)
    BY <1>a, <1>b, <2>1, <2>2, OrderedAppend
  <2> QED
    BY <2>3 DEF T
<1> HIDE DEF p
<1>4. Line(b, B, p)
  BY <1>a, <1>b, <1>1 DEF Line
<1>5. /\ \A x \in B : x <= n + 1
      /\ \A k \in DOMAIN w : w[k] \in Nat => w[k] <= n + 1
  BY <1>a
<1>6. \A k \in DOMAIN p : p[k] <= n + 1
  <2>1. \A k \in DOMAIN o : o[k] <= n + 1
    BY <1>a, <1>b
  <2>2. n + 1 <= n + 1
    BY <1>b
  <2> QED
    BY <1>1, <2>1, <2>2, Zenon
<1>7. Answers(w, p, b, B, n + 1)
  BY <1>a, <1>b, <1>1, <1>2, <1>3, <1>4, <1>5, <1>6 DEF Answers
<1>8. ASSUME Complete(w, o, b, n) PROVE Complete(w, p, b, n + 1)
  <2> SUFFICES ASSUME NEW r \in 1 .. n + 1 PROVE Has(w, r) \/ Has(p, r) \/ r \in Ids(b)
    BY DEF Complete
  <2>1. CASE r = n + 1
    BY <1>1, <2>1 DEF Has
  <2>2. CASE r \in 1 .. n
    <3>1. Has(w, r) \/ Has(o, r) \/ r \in Ids(b)
      BY <1>8, <2>2 DEF Complete
    <3>2. Has(o, r) => Has(p, r)
      BY <1>1, Zenon DEF Has
    <3> QED
      BY <3>1, <3>2
  <2> QED
    BY <1>a, <2>1, <2>2
<1> QED
  BY <1>7, <1>8 DEF p

\* The first request of the batch is executed.
LEMMA AnswersExecute ==
  ASSUME NEW w, NEW o, NEW b, NEW B, NEW n, Answers(w, o, b, B, n), b # <<>>
  PROVE  LET p == Append(o, Head(b).id)
         IN /\ Answers(w, p, Tail(b), B, n)
            /\ Complete(w, o, b, n) => Complete(w, p, Tail(b), n)
<1> DEFINE x == Head(b).id
           p == Append(o, x)
           t == Tail(b)
<1>a. /\ w \in Seq(Nat \cup Channels) /\ o \in Seq(Nat) /\ b \in Seq(Request) /\ B \in SUBSET Nat /\ n \in Nat
      /\ \A y \in B : y <= n
      /\ \A k \in DOMAIN w : w[k] \in Nat => w[k] <= n
      /\ \A k \in DOMAIN o : o[k] <= n
      /\ Ordered(w, o, B) /\ Ordered(w, o, Nat \ B)
      /\ Line(b, B, w) /\ Line(b, B, o)
  BY DEF Answers
<1>b. t \in Seq(Request)
  BY <1>a
<1>1. 1 \in DOMAIN b /\ Head(b) = b[1]
  BY <1>a
<1>2. x \in B /\ x \in Nat /\ x <= n /\ x = b[1].id
  <2>1. b[1].id \in B
    BY <1>a, <1>1, Zenon DEF Line
  <2> QED
    BY <1>a, <1>1, <2>1
<1>3. /\ DOMAIN t = 1 .. Len(b) - 1 /\ DOMAIN b = 1 .. Len(b)
      /\ \A i \in DOMAIN t : i + 1 \in DOMAIN b /\ t[i] = b[i + 1] /\ i \in Nat
  BY <1>a
<1> HIDE DEF x, t
<1>4. /\ \A i \in DOMAIN p : \/ i \in DOMAIN o /\ p[i] = o[i] /\ i < Len(o) + 1
                             \/ i = Len(o) + 1 /\ p[i] = x
      /\ \A i \in DOMAIN o : i \in DOMAIN p /\ p[i] = o[i]
      /\ p \in Seq(Nat) /\ Len(o) + 1 \in DOMAIN p /\ p[Len(o) + 1] = x
  BY <1>a, <1>2, AppendEntries
<1>5. /\ \A k \in DOMAIN w : w[k] \in B => w[k] < x
      /\ \A k \in DOMAIN o : o[k] \in B => o[k] < x
  BY <1>a, <1>1, <1>2, Zenon DEF Line
<1>6. Ordered(w, p, B)
  BY <1>a, <1>2, <1>5, OrderedAppend
<1>7. Ordered(w, p, Nat \ B)
  <2> DEFINE T == Nat \ B
  <2>1. T \in SUBSET Nat /\ Ordered(w, o, T) /\ x \notin T
    BY <1>a, <1>2
  <2> HIDE DEF T
  <2>2. Ordered(w, p, T)
    BY <1>a, <1>2, <2>1, OrderedAppend
  <2> QED
    BY <2>2 DEF T
<1> HIDE DEF p
<1>8. /\ \A i \in DOMAIN t : t[i].id \in B /\ x < t[i].id
      /\ \A i, j \in DOMAIN t : i < j => t[i].id < t[j].id
  <2>1. ASSUME NEW i \in DOMAIN t PROVE t[i].id \in B /\ x < t[i].id
    <3>1. i + 1 \in DOMAIN b /\ 1 < i + 1 /\ t[i] = b[i + 1]
      BY <1>3
    <3>2. b[i + 1].id \in B /\ b[1].id < b[i + 1].id
      BY <1>a, <1>1, <3>1, Zenon DEF Line
    <3> QED
      BY <1>2, <3>1, <3>2
  <2>2. ASSUME NEW i \in DOMAIN t, NEW j \in DOMAIN t, i < j PROVE t[i].id < t[j].id
    <3>1. /\ i + 1 \in DOMAIN b /\ j + 1 \in DOMAIN b /\ i + 1 < j + 1
          /\ t[i] = b[i + 1] /\ t[j] = b[j + 1]
      BY <1>3, <2>2
    <3>2. b[i + 1].id < b[j + 1].id
      BY <1>a, <3>1, Zenon DEF Line
    <3> QED
      BY <3>1, <3>2
  <2> QED
    BY <2>1, <2>2
<1>9. Line(t, B, w)
  <2>1. ASSUME NEW k \in DOMAIN w, NEW i \in DOMAIN t, w[k] \in B PROVE w[k] < t[i].id
    <3>1. i + 1 \in DOMAIN b /\ t[i] = b[i + 1]
      BY <1>3
    <3>2. w[k] < b[i + 1].id
      BY <1>a, <2>1, <3>1, Zenon DEF Line
    <3> QED
      BY <3>1, <3>2
  <2> QED
    BY <1>8, <2>1, Zenon DEF Line
<1>10. Line(t, B, p)
  <2>1. ASSUME NEW k \in DOMAIN p, NEW i \in DOMAIN t, p[k] \in B PROVE p[k] < t[i].id
    <3>1. i + 1 \in DOMAIN b /\ t[i] = b[i + 1]
      BY <1>3
    <3>2. CASE k \in DOMAIN o /\ p[k] = o[k]
      <4>1. o[k] < b[i + 1].id
        BY <1>a, <2>1, <3>1, <3>2, Zenon DEF Line
      <4> QED
        BY <3>1, <3>2, <4>1
    <3>3. CASE p[k] = x
      BY <1>8, <3>3
    <3> QED
      BY <1>4, <3>2, <3>3
  <2> QED
    BY <1>8, <2>1, Zenon DEF Line
<1>11. \A k \in DOMAIN p : p[k] <= n
  BY <1>a, <1>2, <1>4
<1>12. Answers(w, p, t, B, n)
  BY <1>a, <1>b, <1>4, <1>6, <1>7, <1>9, <1>10, <1>11 DEF Answers
<1>13. ASSUME NEW r \in Ids(b) PROVE r = x \/ r \in Ids(t)
  <2> PICK i \in DOMAIN b : r = b[i].id
    BY <1>13, Zenon DEF Ids
  <2>1. CASE i = 1
    BY <1>2, <2>1
  <2>2. CASE i # 1
    <3>1. i - 1 \in DOMAIN t /\ (i - 1) + 1 = i
      BY <1>3, <2>2
    <3>2. t[i - 1] = b[i]
      BY <1>3, <3>1
    <3> QED
      BY <3>1, <3>2, Zenon DEF Ids
  <2> QED
    BY <2>1, <2>2
<1>14. ASSUME Complete(w, o, b, n) PROVE Complete(w, p, t, n)
  <2> SUFFICES ASSUME NEW r \in 1 .. n PROVE Has(w, r) \/ Has(p, r) \/ r \in Ids(t)
    BY DEF Complete
  <2>1. Has(w, r) \/ Has(o, r) \/ r \in Ids(b)
    BY <1>14 DEF Complete
  <2>2. Has(o, r) => Has(p, r)
    BY <1>4, Zenon DEF Has
  <2>3. r = x => Has(p, r)
    BY <1>4, Zenon DEF Has
  <2> QED
    BY <1>13, <2>1, <2>2, <2>3
<1> QED
  BY <1>12, <1>14 DEF p, t, x

\* Messages are pushed to the client; what is buffered is sent, or dropped.
LEMMA AnswersPush ==
  ASSUME NEW w, NEW o, NEW b, NEW B, NEW n, Answers(w, o, b, B, n), NEW m \in Seq(Channels)
  PROVE  /\ Answers(w \o m, o, b, B, n)
         /\ Complete(w, o, b, n) => Complete(w \o m, o, b, n)
<1> DEFINE p == w \o m
<1>a. /\ w \in Seq(Nat \cup Channels) /\ o \in Seq(Nat) /\ b \in Seq(Request) /\ B \in SUBSET Nat /\ n \in Nat
      /\ \A x \in B : x <= n
      /\ \A k \in DOMAIN w : w[k] \in Nat => w[k] <= n
      /\ \A k \in DOMAIN o : o[k] <= n
      /\ Ordered(w, o, B) /\ Ordered(w, o, Nat \ B)
      /\ Line(b, B, w) /\ Line(b, B, o)
  BY DEF Answers
<1>1. m \in Seq(Nat \cup Channels) /\ \A i \in DOMAIN m : m[i] \notin Nat
  BY ChannelsAssumption
<1>2. /\ \A i \in DOMAIN p : \/ i \in DOMAIN w /\ p[i] = w[i]
                             \/ i - Len(w) \in DOMAIN m /\ p[i] = m[i - Len(w)]
      /\ \A i \in DOMAIN w : i \in DOMAIN p /\ p[i] = w[i]
      /\ p \in Seq(Nat \cup Channels)
  BY <1>a, <1>1, JoinEntries
<1>3. Ordered(p, o, B)
  BY <1>a, OrderedPush
<1>4. Ordered(p, o, Nat \ B)
  <2> DEFINE T == Nat \ B
  <2>1. T \in SUBSET Nat /\ Ordered(w, o, T)
    BY <1>a
  <2> HIDE DEF T
  <2>2. Ordered(p, o, T)
    BY <1>a, <2>1, OrderedPush
  <2> QED
    BY <2>2 DEF T
<1> HIDE DEF p
<1>5. \A i \in DOMAIN p : p[i] \in Nat => i \in DOMAIN w /\ p[i] = w[i]
  BY <1>1, <1>2
<1>6. \A i \in DOMAIN p : p[i] \in Nat => p[i] <= n
  BY <1>a, <1>5
<1>7. Line(b, B, p)
  BY <1>a, <1>5 DEF Line
<1>8. Answers(p, o, b, B, n)
  BY <1>a, <1>2, <1>3, <1>4, <1>6, <1>7 DEF Answers
<1>9. \A r : Has(w, r) => Has(p, r)
  BY <1>2, Zenon DEF Has
<1> QED
  BY <1>8, <1>9 DEF p, Complete

LEMMA AnswersSend ==
  ASSUME NEW w, NEW o, NEW b, NEW B, NEW n, Answers(w, o, b, B, n)
  PROVE  /\ Answers(w \o o, <<>>, b, B, n)
         /\ Complete(w, o, b, n) => Complete(w \o o, <<>>, b, n)
         /\ Answers(w, <<>>, b, B, n)
<1> DEFINE p == w \o o
<1>a. /\ w \in Seq(Nat \cup Channels) /\ o \in Seq(Nat) /\ b \in Seq(Request) /\ B \in SUBSET Nat /\ n \in Nat
      /\ \A x \in B : x <= n
      /\ \A k \in DOMAIN w : w[k] \in Nat => w[k] <= n
      /\ \A k \in DOMAIN o : o[k] <= n
      /\ Ordered(w, o, B) /\ Ordered(w, o, Nat \ B)
      /\ Line(b, B, w) /\ Line(b, B, o)
  BY DEF Answers
<1>1. o \in Seq(Nat \cup Channels)
  BY <1>a, SMTT(30)
<1>2. /\ \A i \in DOMAIN p : \/ i \in DOMAIN w /\ p[i] = w[i]
                             \/ i - Len(w) \in DOMAIN o /\ p[i] = o[i - Len(w)]
      /\ \A i \in DOMAIN w : i \in DOMAIN p /\ p[i] = w[i]
      /\ \A i \in DOMAIN o : i + Len(w) \in DOMAIN p /\ p[i + Len(w)] = o[i]
      /\ p \in Seq(Nat \cup Channels)
  <2> DEFINE X == Nat \cup Channels
  <2>1. w \in Seq(X) /\ o \in Seq(X)
    BY <1>a, <1>1
  <2> HIDE DEF X
  <2>2. /\ \A i \in DOMAIN p : \/ i \in DOMAIN w /\ p[i] = w[i]
                               \/ i - Len(w) \in DOMAIN o /\ p[i] = o[i - Len(w)]
        /\ \A i \in DOMAIN w : i \in DOMAIN p /\ p[i] = w[i]
        /\ \A i \in DOMAIN o : i + Len(w) \in DOMAIN p /\ p[i + Len(w)] = o[i]
        /\ p \in Seq(X)
    BY <2>1, JoinEntries
  <2> QED
    BY <2>2, Zenon DEF X
<1>3. Ordered(p, <<>>, B) /\ Ordered(w, <<>>, B)
  BY <1>a, <1>1, OrderedSend
<1>4. Ordered(p, <<>>, Nat \ B) /\ Ordered(w, <<>>, Nat \ B)
  <2> DEFINE T == Nat \ B
  <2>1. T \in SUBSET Nat /\ Ordered(w, o, T)
    BY <1>a
  <2> HIDE DEF T
  <2>2. Ordered(p, <<>>, T) /\ Ordered(w, <<>>, T)
    BY <1>a, <1>1, <2>1, OrderedSend
  <2> QED
    BY <2>2 DEF T
<1> HIDE DEF p
<1>5. \A i \in DOMAIN p : p[i] \in Nat => p[i] <= n
  BY <1>a, <1>2
<1>6. Line(b, B, p)
  BY <1>a, <1>2 DEF Line
<1>7. /\ <<>> \in Seq(Nat) /\ DOMAIN <<>> = {}
  OBVIOUS
<1>8. Line(b, B, <<>>)
  BY <1>a, <1>7, Zenon DEF Line
<1>9. Answers(p, <<>>, b, B, n) /\ Answers(w, <<>>, b, B, n)
  BY <1>a, <1>2, <1>3, <1>4, <1>5, <1>6, <1>7, <1>8, Zenon DEF Answers
<1>10. \A r : Has(w, r) \/ Has(o, r) => Has(p, r)
  BY <1>2, Zenon DEF Has
<1> QED
  BY <1>9, <1>10 DEF p, Complete

\* Inside EXEC, SUBSCRIBE and UNSUBSCRIBE the present request is not settled yet.
Owes(c) == loc[c].pc \in {"commit", "subscribe", "unsubscribe"}

Settled(c) == IF Owes(c) THEN loc[c].id - 1 ELSE loc[c].id

\* AnsweredOnceInOrder with what it rests on: the wire, the buffer and the batch
\* in their order, and nothing buffered or batched while the client reads.
AnswerInv(c) ==
  /\ Answers(wire[c], loc[c].out, loc[c].batch, hist[c].batched, Settled(c))
  /\ sock[c].connected => Complete(wire[c], loc[c].out, loc[c].batch, Settled(c))
  /\ loc[c].pc \in Idle => loc[c].out = <<>> /\ loc[c].batch = <<>>
  /\ loc[c].pc = "new" => loc[c].id = 0

LEMMA AnswersNew ==
  /\ Answers(<<>>, <<>>, <<>>, {}, 0) /\ Complete(<<>>, <<>>, <<>>, 0)
<1>1. DOMAIN <<>> = {} /\ 1 .. 0 = {}
  OBVIOUS
<1>2. <<>> \in Seq(Nat \cup Channels) /\ <<>> \in Seq(Nat) /\ <<>> \in Seq(Request) /\ 0 \in Nat
  OBVIOUS
<1>3. \A S : Increasing(<<>>, S) /\ Ordered(<<>>, <<>>, S)
  BY <1>1, Zenon DEF Increasing, Ordered
<1>4. Line(<<>>, {}, <<>>)
  BY <1>1, Zenon DEF Line
<1> QED
  BY <1>1, <1>2, <1>3, <1>4, Zenon DEF Answers, Complete

LEMMA AnswerInit == Init => \A c \in Clients : AnswerInv(c)
<1> SUFFICES ASSUME Init, NEW c \in Clients PROVE AnswerInv(c)
  OBVIOUS
<1>1. /\ wire[c] = <<>> /\ loc[c] = NewLoc /\ hist[c] = NewHist
  BY DEF Init
<1>2. /\ loc[c].out = <<>> /\ loc[c].batch = <<>> /\ loc[c].id = 0 /\ loc[c].pc = "new"
      /\ hist[c].batched = {}
  BY <1>1 DEF NewLoc, NewHist
<1>3. Settled(c) = 0
  BY <1>2 DEF Settled, Owes
<1> QED
  BY <1>1, <1>2, <1>3, AnswersNew, Zenon DEF AnswerInv

\* What does not touch the client at most pushes messages to it.
LEMMA AnswerOther ==
  ASSUME Types, NEW d \in Clients, AnswerInv(d), Untouched(d)
  PROVE  AnswerInv(d)'
<1>1. loc[d] \in LocType /\ sock[d] \in SockType
  BY OneClient
<1>2. /\ loc'[d].pc = loc[d].pc \/ (loc[d].pc = "wait" /\ loc'[d].pc = "woken")
      /\ loc'[d].batch = loc[d].batch /\ loc'[d].id = loc[d].id /\ loc'[d].out = loc[d].out
  BY <1>1 DEF Untouched, LocType
<1>3. sock'[d].connected => sock[d].connected
  BY <1>1 DEF Untouched, SockType
<1>4. Settled(d)' = Settled(d) /\ hist'[d].batched = hist[d].batched
  BY <1>2 DEF Settled, Owes, Untouched
<1>5. /\ loc'[d].pc \in Idle => loc'[d].out = <<>> /\ loc'[d].batch = <<>>
      /\ loc'[d].pc = "new" => loc'[d].id = 0
  BY <1>2 DEF AnswerInv, Idle
<1>6. /\ Answers(wire'[d], loc[d].out, loc[d].batch, hist[d].batched, Settled(d))
      /\ sock[d].connected => Complete(wire'[d], loc[d].out, loc[d].batch, Settled(d))
  <2>1. CASE wire'[d] = wire[d]
    BY <2>1 DEF AnswerInv
  <2>2. CASE \E m \in Seq(Channels) : wire'[d] = wire[d] \o m
    BY <2>2, AnswersPush DEF AnswerInv
  <2> QED
    BY <2>1, <2>2 DEF Untouched
<1> QED
  BY <1>2, <1>3, <1>4, <1>5, <1>6 DEF AnswerInv

\* The client goes on with locals l and sends what they have buffered.
LEMMA AnswerReplies ==
  ASSUME NEW c \in Clients, NEW l \in LocType, NEW m \in Seq(Channels), Replies(c, l, m), NEW B, NEW n,
         Answers(wire[c], l.out, l.batch, B, n),
         sock[c].connected => Complete(wire[c], l.out, l.batch, n)
  PROVE  /\ Answers(wire'[c], <<>>, l.batch, B, n)
         /\ sock[c].connected => Complete(wire'[c], <<>>, l.batch, n)
         /\ loc'[c].out = <<>> /\ loc'[c].batch = l.batch /\ loc'[c].id = l.id /\ loc'[c].pc = l.pc
<1> DEFINE w == wire[c] \o m
<1>1. Answers(w, l.out, l.batch, B, n) /\ (sock[c].connected => Complete(w, l.out, l.batch, n))
  BY AnswersPush
<1>2. wire'[c] = IF sock[c].connected THEN w \o l.out ELSE w
  BY DEF Replies
<1> HIDE DEF w
<1>3. /\ Answers(wire'[c], <<>>, l.batch, B, n)
      /\ sock[c].connected => Complete(wire'[c], <<>>, l.batch, n)
  <2>1. CASE sock[c].connected
    BY <1>1, <1>2, <2>1, AnswersSend
  <2>2. CASE ~sock[c].connected
    BY <1>1, <1>2, <2>2, AnswersSend
  <2> QED
    BY <2>1, <2>2
<1> QED
  BY <1>3, RepliesFields

LEMMA AnswerOwn ==
  ASSUME Types, NEW c \in Clients, AnswerInv(c), Accept(c) \/ Depart(c) \/ Receive(c) \/ Step(c)
  PROVE  AnswerInv(c)'
<1> DEFINE w == wire[c]
           o == loc[c].out
           b == loc[c].batch
           B == hist[c].batched
           n == Settled(c)
<1>a. /\ loc[c] \in LocType /\ sock[c] \in SockType /\ hist[c] \in HistType /\ loc[c].id \in Nat
      /\ <<>> \in Seq(Channels)
  BY OneClient
<1>b. Answers(w, o, b, B, n) /\ (sock[c].connected => Complete(w, o, b, n))
  BY DEF AnswerInv
<1>c. ASSUME Parsing(c) PROVE n = loc[c].id /\ loc[c].pc = "parse"
  BY <1>c, ParsedFields DEF Settled, Owes
<1>d. ASSUME Parsing(c)
      PROVE  /\ Answers(w, Append(o, n + 1), b, B, n + 1)
             /\ sock[c].connected => Complete(w, Append(o, n + 1), b, n + 1)
  BY <1>b, AnswersBuffer
<1>1. CASE Quiet(c)
  <2>1. /\ loc'[c].id = loc[c].id /\ loc'[c].batch = b /\ loc'[c].out = o /\ wire'[c] = w
        /\ loc'[c].pc \in (Idle \ {"new"}) \cup {"cancel", "close", "parse", "clean"}
        /\ loc'[c].pc \in Idle \cup {"parse"} => loc[c].pc \in Idle
        /\ loc[c].pc \in Idle \cup {"cancel", "close"}
        /\ sock'[c].connected => sock[c].connected \/ loc[c].pc = "new"
        /\ hist'[c].batched = B
    BY <1>1, QuietEffect DEF SameHist
  <2>2. Settled(c)' = n
    BY <2>1 DEF Settled, Owes, Idle
  <2>3. loc[c].pc = "new" => Complete(w, o, b, n)
    <3>1. loc[c].pc = "new" => n = 0
      BY DEF AnswerInv, Settled, Owes
    <3>2. Complete(w, o, b, 0)
      BY DEF Complete
    <3> QED
      BY <3>1, <3>2
  <2>4. /\ loc'[c].pc \in Idle => loc'[c].out = <<>> /\ loc'[c].batch = <<>>
        /\ loc'[c].pc # "new"
    BY <2>1 DEF AnswerInv, Idle
  <2> HIDE DEF w, o, b, B, n
  <2> QED
    BY <1>b, <2>1, <2>2, <2>3, <2>4 DEF AnswerInv
<1>2. CASE ExecuteBatch(c)
  <2> DEFINE x == Head(b).id
             l == [loc[c] EXCEPT !.batch = Tail(b), !.out = Append(o, x)]
  <2>1. /\ loc[c].pc = "exec" /\ b # <<>> /\ l \in LocType
        /\ \/ wire'[c] = w /\ loc'[c] = [l EXCEPT !.pc = IF l.batch # <<>> THEN "exec" ELSE l.back]
           \/ Replies(c, [l EXCEPT !.pc = "yield"], <<>>)
        /\ hist'[c] = [hist[c] EXCEPT !.ran = Append(hist[c].ran, x)]
        /\ sock'[c].connected = sock[c].connected
    BY <1>2, ExecuteEffect
  <2>2. hist'[c].batched = B
    BY <1>a, <2>1 DEF HistType
  <2>3. l.batch = Tail(b) /\ l.out = Append(o, x) /\ l.id = loc[c].id
    BY <1>a DEF LocType
  <2>4. /\ Answers(w, l.out, l.batch, B, n)
        /\ sock[c].connected => Complete(w, l.out, l.batch, n)
    <3> HIDE DEF w, o, b, B, n, l
    <3> QED BY <1>b, <2>1, <2>3, AnswersExecute
  <2>5. n = loc[c].id
    BY <2>1 DEF Settled, Owes
  <2> HIDE DEF l, x
  <2>6. CASE wire'[c] = w /\ loc'[c] = [l EXCEPT !.pc = IF l.batch # <<>> THEN "exec" ELSE l.back]
    <3>1. loc'[c].out = l.out /\ loc'[c].batch = l.batch /\ loc'[c].id = l.id
      BY <2>1, <2>6 DEF LocType
    <3>2. loc'[c].pc \in {"exec", "parse", "drain"}
      BY <2>1, <2>6 DEF LocType
    <3>3. Settled(c)' = n
      BY <2>3, <2>5, <3>1, <3>2 DEF Settled, Owes
    <3> HIDE DEF w, B, n
    <3> QED
      BY <2>1, <2>2, <2>4, <2>6, <3>1, <3>2, <3>3 DEF AnswerInv, Idle
  <2>7. CASE Replies(c, [l EXCEPT !.pc = "yield"], <<>>)
    <3> DEFINE k == [l EXCEPT !.pc = "yield"]
    <3>1. k \in LocType /\ k.out = l.out /\ k.batch = l.batch /\ k.id = l.id /\ k.pc = "yield"
      BY <2>1 DEF LocType, Pcs
    <3> HIDE DEF k
    <3>2. /\ Answers(wire'[c], <<>>, k.batch, B, n)
          /\ sock[c].connected => Complete(wire'[c], <<>>, k.batch, n)
          /\ loc'[c].out = <<>> /\ loc'[c].batch = k.batch /\ loc'[c].id = k.id /\ loc'[c].pc = k.pc
      <4>1. Replies(c, k, <<>>) /\ Answers(wire[c], k.out, k.batch, B, n)
        BY <2>4, <2>7, <3>1 DEF k
      <4>2. sock[c].connected => Complete(wire[c], k.out, k.batch, n)
        BY <2>4, <3>1
      <4> HIDE DEF B, n
      <4> QED BY <1>a, <3>1, <4>1, <4>2, AnswerReplies
    <3>3. Settled(c)' = n
      BY <2>3, <2>5, <3>1, <3>2 DEF Settled, Owes
    <3> HIDE DEF w, B, n
    <3> QED
      BY <2>1, <2>2, <3>1, <3>2, <3>3 DEF AnswerInv, Idle
  <2> QED
    BY <2>1, <2>6, <2>7
<1>3. CASE Collect(c)
  <2>1. Parsing(c) /\ UNCHANGED <<sock, wire>>
    BY <1>3, CollectEffect
  <2> PICK m \in Commands, pc \in {"exec", "parse"} :
        loc'[c] = [Taken(c) EXCEPT !.batch = Append(loc[c].batch, [id |-> loc[c].id + 1, m |-> m]),
                                   !.back = "parse", !.pc = pc]
    BY <1>3, CollectEffect
  <2>2. Taken(c) \in LocType /\ Taken(c).id = loc[c].id + 1 /\ Taken(c).out = o /\ n = loc[c].id
    BY <2>1, <1>c, ParsedFields
  <2> DEFINE p == Append(b, [id |-> n + 1, m |-> m])
  <2>3. /\ loc'[c].id = n + 1 /\ loc'[c].batch = p /\ loc'[c].out = o
        /\ loc'[c].pc \in {"exec", "parse"}
    BY <2>2 DEF LocType
  <2>4. hist'[c].batched = B \cup {n + 1}
    <3>1. hist'[c] = [hist[c] EXCEPT !.batched = hist[c].batched \cup {loc[c].id + 1}]
      BY <1>3, CollectEffect
    <3>2. hist'[c].batched = B \cup {loc[c].id + 1}
      BY <1>a, <3>1 DEF HistType
    <3> QED
      BY <2>2, <3>2, Zenon
  <2>5. /\ Answers(w, o, p, B \cup {n + 1}, n + 1)
        /\ sock[c].connected => Complete(w, o, p, n + 1)
    <3> HIDE DEF w, o, b, B, n
    <3> QED BY <1>b, AnswersCollect
  <2>6. Settled(c)' = n + 1
    BY <2>3 DEF Settled, Owes
  <2> HIDE DEF n, p, o, B
  <2> QED
    BY <2>1, <2>3, <2>4, <2>5, <2>6 DEF AnswerInv, Idle
<1>4. CASE TooLarge(c)
  <2>1. Parsing(c) /\ loc'[c] = [Answered(c) EXCEPT !.pc = "drain"] /\ UNCHANGED <<sock, wire, hist>>
    BY <1>4, TooLargeEffect
  <2>2. n = loc[c].id
    BY <2>1, <1>c
  <2>3. /\ loc'[c].id = n + 1 /\ loc'[c].batch = b /\ loc'[c].out = Append(o, n + 1)
        /\ loc'[c].pc = "drain"
    BY <2>1, <2>2, ParsedFields DEF LocType
  <2>4. Settled(c)' = n + 1
    BY <2>3 DEF Settled, Owes
  <2> HIDE DEF n, b, o
  <2> QED
    BY <1>d, <2>1, <2>3, <2>4 DEF AnswerInv, Idle
<1>5. CASE Drain(c)
  <2>1. loc[c].pc \in {"parse", "drain"} /\ UNCHANGED <<sock, hist>> /\ n = loc[c].id
    BY <1>5, DrainEffect DEF Settled, Owes
  <2>2. CASE b # <<>> /\ wire'[c] = w /\ loc'[c] = [loc[c] EXCEPT !.pc = "exec", !.back = "drain"]
    <3>1. loc'[c].out = o /\ loc'[c].batch = b /\ loc'[c].id = loc[c].id /\ loc'[c].pc = "exec"
      BY <1>a, <2>2 DEF LocType
    <3>2. Settled(c)' = n
      BY <2>1, <3>1 DEF Settled, Owes
    <3> HIDE DEF w, o, b, n
    <3> QED
      BY <1>b, <2>1, <2>2, <3>1, <3>2 DEF AnswerInv, Idle
  <2>3. CASE b = <<>> /\ Replies(c, [loc[c] EXCEPT !.pc = "top", !.back = "parse"], <<>>)
    <3> DEFINE k == [loc[c] EXCEPT !.pc = "top", !.back = "parse"]
    <3>1. k \in LocType /\ k.out = o /\ k.batch = b /\ k.id = loc[c].id /\ k.pc = "top"
      BY <1>a DEF LocType, Pcs
    <3> HIDE DEF k
    <3>2. /\ Answers(wire'[c], <<>>, k.batch, B, n)
          /\ sock[c].connected => Complete(wire'[c], <<>>, k.batch, n)
          /\ loc'[c].out = <<>> /\ loc'[c].batch = k.batch /\ loc'[c].id = k.id /\ loc'[c].pc = k.pc
      <4>1. Replies(c, k, <<>>) /\ Answers(wire[c], k.out, k.batch, B, n)
        BY <1>b, <2>3, <3>1 DEF k
      <4>2. sock[c].connected => Complete(wire[c], k.out, k.batch, n)
        BY <1>b, <3>1
      <4> HIDE DEF B, n
      <4> QED BY <1>a, <3>1, <4>1, <4>2, AnswerReplies
    <3>3. Settled(c)' = n
      BY <2>1, <3>1, <3>2 DEF Settled, Owes
    <3> HIDE DEF w, n, b
    <3> QED
      BY <2>1, <2>3, <3>1, <3>2, <3>3 DEF AnswerInv, Idle
  <2> QED
    BY <1>5, <2>2, <2>3, DrainEffect
<1>6. ASSUME Parsing(c), NEW m \in Seq(Channels), Replies(c, Answered(c), m),
             sock'[c].connected = sock[c].connected, hist'[c].batched = B
      PROVE  AnswerInv(c)'
  <2> DEFINE k == Answered(c)
  <2>1. n = loc[c].id
    BY <1>6, <1>c
  <2>2. k \in LocType /\ k.out = Append(o, n + 1) /\ k.batch = b /\ k.id = n + 1 /\ k.pc = "parse"
    BY <1>6, <2>1, ParsedFields
  <2> HIDE DEF k
  <2>3. /\ Answers(wire[c], k.out, k.batch, B, n + 1)
        /\ sock[c].connected => Complete(wire[c], k.out, k.batch, n + 1)
    BY <1>6, <1>d, <2>2
  <2>4. /\ Answers(wire'[c], <<>>, k.batch, B, n + 1)
        /\ sock[c].connected => Complete(wire'[c], <<>>, k.batch, n + 1)
        /\ loc'[c].out = <<>> /\ loc'[c].batch = k.batch /\ loc'[c].id = k.id /\ loc'[c].pc = k.pc
    <3>1. Replies(c, k, m)
      BY <1>6 DEF k
    <3> HIDE DEF B, n
    <3> QED BY <1>6, <2>2, <2>3, <3>1, AnswerReplies
  <2>5. Settled(c)' = n + 1
    BY <2>2, <2>4 DEF Settled, Owes
  <2> HIDE DEF n
  <2> QED
    BY <1>6, <2>2, <2>4, <2>5 DEF AnswerInv, Idle
<1>7. CASE AnswerOnly(c) \/ Publish(c) \/ Multi(c)
  <2>1. /\ Parsing(c) /\ SameHist(c) /\ \E m \in Seq(Channels) : Replies(c, Answered(c), m)
    BY <1>7, <1>a, AnswerOnlyEffect, PublishEffect, MultiEffect
  <2>2. sock'[c] = sock[c] \/ sock'[c] = [sock[c] EXCEPT !.inTransaction = TRUE]
    BY <1>7, AnswerOnlyEffect, PublishEffect, MultiEffect
  <2>3. sock'[c].connected = sock[c].connected /\ hist'[c].batched = B
    BY <1>a, <2>1, <2>2 DEF SockType, SameHist
  <2> QED
    BY <1>6, <2>1, <2>3
<1>8. CASE Queue(c)
  <2>1. /\ Parsing(c) /\ Replies(c, Answered(c), <<>>)
        /\ \E m \in Commands :
              sock'[c] = [sock[c] EXCEPT !.transaction = Append(sock[c].transaction, [id |-> loc[c].id + 1, m |-> m])]
        /\ hist'[c] = [hist[c] EXCEPT !.queued = hist[c].queued \cup {loc[c].id + 1}]
    BY <1>8, QueueEffect
  <2>2. sock'[c].connected = sock[c].connected /\ hist'[c].batched = B
    BY <1>a, <2>1 DEF SockType, HistType
  <2> QED
    BY <1>6, <1>a, <2>1, <2>2
<1>9. CASE Discard(c) \/ (Exec(c) /\ HasKeyModified(c))
  <2>1. /\ Parsing(c) /\ Replies(c, Answered(c), <<>>) /\ sock'[c].connected = sock[c].connected
        /\ hist'[c] = [hist[c] EXCEPT !.dropped = hist[c].dropped \cup Ids(sock[c].transaction)]
    BY <1>9, DropEffect
  <2>2. hist'[c].batched = B
    BY <1>a, <2>1 DEF HistType
  <2> QED
    BY <1>6, <1>a, <2>1, <2>2
<1>10. CASE (Exec(c) /\ ~HasKeyModified(c)) \/ Subscribe(c) \/ Unsubscribe(c)
  <2>1. Parsing(c) /\ UNCHANGED <<wire, hist>>
    BY <1>10, ExecEffect, SubscribeEffect
  <2>2. sock'[c].connected = sock[c].connected
    BY <1>10, <1>a, ExecEffect, SubscribeEffect DEF SockType
  <2>3. /\ loc'[c].id = loc[c].id + 1 /\ loc'[c].batch = b /\ loc'[c].out = o
        /\ loc'[c].pc \in {"commit", "subscribe", "unsubscribe"}
    <3>1. CASE Exec(c) /\ ~HasKeyModified(c)
      BY <2>1, <3>1, ExecEffect, ParsedFields DEF LocType
    <3>2. CASE Subscribe(c) \/ Unsubscribe(c)
      BY <3>2, SubscribeEffect
    <3> QED
      BY <1>10, <3>1, <3>2
  <2>4. Settled(c)' = n
    BY <1>a, <1>c, <2>1, <2>3 DEF Settled, Owes
  <2> HIDE DEF n, b, o
  <2> QED
    BY <1>b, <2>1, <2>2, <2>3, <2>4 DEF AnswerInv, Idle
<1>11. CASE Commit(c)
  <2>1. loc[c].pc = "commit" /\ UNCHANGED <<loc, wire>> /\ sock'[c].connected = sock[c].connected
    BY <1>11, CommitEffect
  <2>2. hist'[c].batched = B
    BY <1>11, <1>a, CommitEffect DEF HistType
  <2> QED
    BY <2>1, <2>2 DEF AnswerInv, Idle, Settled, Owes
<1>12. CASE EndCommit(c) \/ EndSubscription(c)
  <2> DEFINE k == [loc[c] EXCEPT !.out = Append(loc[c].out, loc[c].id), !.pc = "parse"]
  <2>1. /\ k \in LocType /\ Replies(c, k, <<>>) /\ SameHist(c)
        /\ sock'[c].connected = sock[c].connected
        /\ loc[c].pc \in {"commit", "subscribe", "unsubscribe"}
    BY <1>12, EndCommandEffect
  <2>2. n + 1 = loc[c].id
    BY <1>a, <2>1 DEF Settled, Owes
  <2>3. k.id = n + 1 /\ k.batch = b /\ k.pc = "parse" /\ k.out = Append(o, n + 1)
    BY <1>a, <2>2 DEF LocType
  <2> HIDE DEF k
  <2>4. /\ Answers(wire[c], k.out, k.batch, B, n + 1)
        /\ sock[c].connected => Complete(wire[c], k.out, k.batch, n + 1)
    BY <1>b, <2>3, AnswersBuffer
  <2>5. /\ Answers(wire'[c], <<>>, k.batch, B, n + 1)
        /\ sock[c].connected => Complete(wire'[c], <<>>, k.batch, n + 1)
        /\ loc'[c].out = <<>> /\ loc'[c].batch = k.batch /\ loc'[c].id = k.id /\ loc'[c].pc = k.pc
    <3> HIDE DEF B, n
    <3> QED BY <1>a, <2>1, <2>4, AnswerReplies
  <2>6. Settled(c)' = n + 1
    BY <2>3, <2>5 DEF Settled, Owes
  <2> HIDE DEF n
  <2> QED
    BY <2>1, <2>3, <2>5, <2>6 DEF AnswerInv, Idle, SameHist
<1>13. CASE AddSubscriber(c) \/ RemoveSubscriber(c)
  BY <1>13, ListEffect DEF AnswerInv, Idle, Settled, Owes
<1>14. CASE Clean(c)
  <2>1. /\ loc'[c] = [NewLoc EXCEPT !.pc = "closed"] /\ sock'[c] = NewSock /\ hist'[c] = NewHist
        /\ wire'[c] = <<>>
    BY <1>14, CleanEffect
  <2>2. /\ loc'[c].batch = <<>> /\ loc'[c].out = <<>> /\ loc'[c].id = 0 /\ loc'[c].pc = "closed"
        /\ hist'[c].batched = {}
    BY <2>1 DEF NewLoc, NewHist
  <2>3. Settled(c)' = 0
    BY <2>2 DEF Settled, Owes
  <2> QED
    BY <2>1, <2>2, <2>3, AnswersNew DEF AnswerInv
<1> QED
  BY <1>1, <1>2, <1>3, <1>4, <1>5, <1>7, <1>8, <1>9, <1>10, <1>11, <1>12, <1>13, <1>14, StepCases

\* Whatever the batch limits, mode switches, oversized requests and closed sockets
\* do to the pipeline of a connection, the loop comes back to reading with exactly
\* the requests it took answered, the batched ones in order and the others in order.
THEOREM RepliesAreComplete == Spec => []AnsweredOnceInOrder
<1> DEFINE Inv == \A c \in Clients : AnswerInv(c)
<1>1. ASSUME Types, Inv, [Next]_vars PROVE Inv'
  <2>1. CASE UNCHANGED vars
    BY <1>1, <2>1 DEF vars, AnswerInv, Settled, Owes
  <2>2. ASSUME NEW c \in Clients, Accept(c) \/ Depart(c) \/ Receive(c) \/ Step(c), NEW d \in Clients
        PROVE  AnswerInv(d)'
    <3>1. CASE d = c
      BY <1>1, <2>2, <3>1, AnswerOwn
    <3>2. CASE d # c
      BY <1>1, <2>2, <3>2, AnswerOther, OthersUntouched
    <3> QED
      BY <3>1, <3>2
  <2> QED
    BY <1>1, <2>1, <2>2 DEF Next
<1>2. ASSUME Types, Inv PROVE AnsweredOnceInOrder
  <2> SUFFICES ASSUME NEW c \in Clients
               PROVE  /\ loc[c].pc \in {"top", "recv", "wait", "woken"} /\ sock[c].connected =>
                           \A r \in Numbers(c) : Has(wire[c], r) <=> r <= loc[c].id
                      /\ Increasing(wire[c], hist[c].batched)
                      /\ Increasing(wire[c], Numbers(c) \ hist[c].batched)
    BY DEF AnsweredOnceInOrder, Has
  <2>1. AnswerInv(c) /\ loc[c].id \in Nat /\ Numbers(c) \subseteq Nat \ {0}
    BY <1>2, OneClient DEF Numbers
  <2>2. Increasing(wire[c], hist[c].batched) /\ Increasing(wire[c], Nat \ hist[c].batched)
    BY <2>1 DEF AnswerInv, Answers, Ordered
  <2>3. Increasing(wire[c], Numbers(c) \ hist[c].batched)
    BY <2>1, <2>2 DEF Increasing
  <2>4. ASSUME loc[c].pc \in {"top", "recv", "wait", "woken"}, sock[c].connected, NEW r \in Numbers(c)
        PROVE  Has(wire[c], r) <=> r <= loc[c].id
    <3>1. /\ Answers(wire[c], <<>>, <<>>, hist[c].batched, loc[c].id)
          /\ Complete(wire[c], <<>>, <<>>, loc[c].id)
      BY <2>1, <2>4 DEF AnswerInv, Settled, Owes, Idle
    <3>2. Has(wire[c], r) => r <= loc[c].id
      <4>1. \A k \in DOMAIN wire[c] : wire[c][k] \in Nat => wire[c][k] <= loc[c].id
        BY <3>1 DEF Answers
      <4> QED
        BY <2>1, <4>1 DEF Has
    <3>3. ~Has(<<>>, r) /\ r \notin Ids(<<>>)
      BY DEF Has, Ids
    <3>4. r <= loc[c].id => r \in 1 .. loc[c].id
      BY <2>1
    <3> QED
      BY <3>1, <3>2, <3>3, <3>4 DEF Complete
  <2> QED
    BY <2>2, <2>3, <2>4
<1> QED
  BY <1>1, <1>2, AnswerInit, TypesAlways, PTL DEF Spec

-----------------------------------------------------------------------------
(* The shutdown. *)

\* Where a client is on its way to the head of the loop. ("yield": suspended for
\* good, but not in recv().)
Working == {"parse", "exec", "commit", "subscribe", "unsubscribe", "drain", "yield", "top"}

ClosingAll == {"cancel", "close"}

\* The steps of the parse loop, of commands and of batches.
Works(c) ==
  \/ ExecuteBatch(c) \/ Collect(c) \/ AnswerOnly(c) \/ TooLarge(c) \/ Multi(c) \/ Queue(c) \/ Discard(c)
  \/ Exec(c) \/ Commit(c) \/ EndCommit(c) \/ Subscribe(c) \/ AddSubscriber(c) \/ Unsubscribe(c)
  \/ RemoveSubscriber(c) \/ EndSubscription(c) \/ Publish(c) \/ Drain(c)

\* What ShutDownServer() depends on.
SameView(d) ==
  /\ loc'[d].victim = loc[d].victim /\ loc'[d].todo = loc[d].todo
  /\ sock'[d].connected = sock[d].connected /\ hist'[d].late = hist[d].late

\* The client goes on with locals l.
LEMMA WorkStep ==
  ASSUME Types, NEW c \in Clients, NEW l, loc' = [loc EXCEPT ![c] = l],
         l.victim = loc[c].victim, l.todo = loc[c].todo
  PROVE  /\ \A d \in Clients : loc'[d].victim = loc[d].victim /\ loc'[d].todo = loc[d].todo
         /\ \A d \in Clients : d # c => loc'[d].pc = loc[d].pc
         /\ loc'[c].pc = l.pc
BY AllClients

LEMMA WorkLocals ==
  ASSUME Types, NEW c \in Clients, Works(c)
  PROVE  /\ \A d \in Clients : loc'[d].victim = loc[d].victim /\ loc'[d].todo = loc[d].todo
         /\ \A d \in Clients : d # c => loc'[d].pc = loc[d].pc
         /\ loc[c].pc \in Working \ {"top"} /\ loc'[c].pc \in Working
<1> DEFINE Good == /\ \A d \in Clients : loc'[d].victim = loc[d].victim /\ loc'[d].todo = loc[d].todo
                   /\ \A d \in Clients : d # c => loc'[d].pc = loc[d].pc
                   /\ loc[c].pc \in Working \ {"top"} /\ loc'[c].pc \in Working
<1>a. loc[c] \in LocType
  BY OneClient
<1>b. ASSUME NEW l, loc' = [loc EXCEPT ![c] = l], l.victim = loc[c].victim, l.todo = loc[c].todo,
             l.pc \in Working, loc[c].pc \in Working \ {"top"}
      PROVE  Good
  BY <1>b, WorkStep
<1>c. ASSUME Parsing(c)
      PROVE  /\ loc[c].pc \in Working \ {"top"}
             /\ Taken(c) \in LocType /\ Taken(c).victim = loc[c].victim /\ Taken(c).todo = loc[c].todo
             /\ Answered(c) \in LocType /\ Answered(c).victim = loc[c].victim /\ Answered(c).todo = loc[c].todo
             /\ Answered(c).pc = "parse"
  <2>1. loc[c].pc \in Working \ {"top"}
    BY <1>c DEF Parsing, At, Working
  <2>2. /\ Taken(c).victim = loc[c].victim /\ Taken(c).todo = loc[c].todo
        /\ Answered(c).victim = loc[c].victim /\ Answered(c).todo = loc[c].todo
    BY <1>a DEF Taken, Answered, LocType
  <2> QED
    BY <1>c, <2>1, <2>2, ParsedFields
<1>d. ASSUME NEW l \in LocType, loc' = [loc EXCEPT ![c] = [l EXCEPT !.out = <<>>]],
             l.victim = loc[c].victim, l.todo = loc[c].todo, l.pc \in Working, loc[c].pc \in Working \ {"top"}
      PROVE  Good
  <2> DEFINE k == [l EXCEPT !.out = <<>>]
  <2>1. loc' = [loc EXCEPT ![c] = k]
    BY <1>d
  <2>2. k.victim = l.victim /\ k.todo = l.todo /\ k.pc = l.pc
    BY <1>d DEF LocType
  <2> HIDE DEF k, Good
  <2> QED
    BY <1>b, <1>d, <2>1, <2>2
<1>1. CASE AnswerOnly(c) \/ Multi(c) \/ Queue(c) \/ Discard(c) \/ (Exec(c) /\ HasKeyModified(c)) \/ Publish(c)
  <2>1. Parsing(c) /\ loc' = [loc EXCEPT ![c] = [Answered(c) EXCEPT !.out = <<>>]]
    BY <1>1 DEF AnswerOnly, Multi, Queue, Discard, Exec, Publish, Answer, SendResponse
  <2>2. Answered(c).pc \in Working
    BY <1>c, <2>1 DEF Working
  <2> HIDE DEF Good
  <2> QED
    BY <1>c, <1>d, <2>1, <2>2
<1>2. CASE TooLarge(c)
  <2>1. Parsing(c) /\ loc' = [loc EXCEPT ![c] = [Answered(c) EXCEPT !.pc = "drain"]]
    BY <1>2 DEF TooLarge
  <2> DEFINE l == [Answered(c) EXCEPT !.pc = "drain"]
  <2>2. l.victim = loc[c].victim /\ l.todo = loc[c].todo /\ l.pc \in Working
    BY <1>c, <2>1 DEF LocType, Working
  <2> HIDE DEF Good
  <2> QED
    BY <1>b, <1>c, <2>1, <2>2
<1>3. CASE Exec(c) /\ ~HasKeyModified(c)
  <2>1. Parsing(c) /\ loc' = [loc EXCEPT ![c] = [Taken(c) EXCEPT !.pc = "commit"]]
    BY <1>3 DEF Exec
  <2> DEFINE l == [Taken(c) EXCEPT !.pc = "commit"]
  <2>2. l.victim = loc[c].victim /\ l.todo = loc[c].todo /\ l.pc \in Working
    BY <1>c, <2>1 DEF LocType, Working
  <2> HIDE DEF Good
  <2> QED
    BY <1>b, <1>c, <2>1, <2>2
<1>4. CASE Subscribe(c) \/ Unsubscribe(c)
  <2>1. Parsing(c) /\ \E pc \in {"subscribe", "unsubscribe"} : \E ch :
                         loc' = [loc EXCEPT ![c] = [Taken(c) EXCEPT !.pc = pc, !.chans = ch]]
    BY <1>4 DEF Subscribe, Unsubscribe
  <2>a. PICK pc \in {"subscribe", "unsubscribe"} :
          \E ch : loc' = [loc EXCEPT ![c] = [Taken(c) EXCEPT !.pc = pc, !.chans = ch]]
    BY <2>1
  <2> PICK ch :
             loc' = [loc EXCEPT ![c] = [Taken(c) EXCEPT !.pc = pc, !.chans = ch]]
    BY <2>a
  <2> DEFINE l == [Taken(c) EXCEPT !.pc = pc, !.chans = ch]
  <2>2. l.victim = loc[c].victim /\ l.todo = loc[c].todo /\ l.pc \in Working
    BY <1>c, <2>1 DEF LocType, Working
  <2> HIDE DEF Good
  <2> QED
    BY <1>b, <1>c, <2>1, <2>2
<1>5. CASE Collect(c)
  <2>1. Parsing(c)
    BY <1>5 DEF Collect
  <2> PICK m \in Sane(c) :
        LET a == Append(loc[c].batch, [id |-> loc[c].id + 1, m |-> m])
        IN  loc' = [loc EXCEPT ![c] = [Taken(c) EXCEPT !.batch = a, !.back = "parse",
                                         !.pc = IF Len(a) >= BatchMax THEN "exec" ELSE "parse"]]
    BY <1>5 DEF Collect
  <2> DEFINE b == Append(loc[c].batch, [id |-> loc[c].id + 1, m |-> m])
             pc == IF Len(b) >= BatchMax THEN "exec" ELSE "parse"
  <2> DEFINE l == [Taken(c) EXCEPT !.batch = b, !.back = "parse", !.pc = pc]
  <2>2. l.victim = loc[c].victim /\ l.todo = loc[c].todo /\ l.pc \in Working
    <3>1. pc \in Working
      BY DEF Working
    <3> HIDE DEF b, pc
    <3> QED BY <1>c, <2>1, <3>1 DEF LocType
  <2> HIDE DEF Good
  <2> QED
    BY <1>b, <1>c, <2>1, <2>2
<1>6. CASE ExecuteBatch(c)
  <2> DEFINE r == Head(loc[c].batch)
             l == [loc[c] EXCEPT !.batch = Tail(loc[c].batch), !.out = Append(loc[c].out, r.id)]
  <2>1. /\ loc[c].pc = "exec" /\ l \in LocType
    BY <1>6, ExecuteEffect
  <2>2. \/ loc' = [loc EXCEPT ![c] = [l EXCEPT !.pc = IF l.batch # <<>> THEN "exec" ELSE l.back]]
        \/ SendResponse(c, [l EXCEPT !.pc = "yield"], wire)
    BY <1>6 DEF ExecuteBatch
  <2>3. l.victim = loc[c].victim /\ l.todo = loc[c].todo /\ loc[c].pc \in Working \ {"top"}
    BY <1>a, <2>1 DEF LocType, Working
  <2> HIDE DEF l, Good
  <2>4. CASE loc' = [loc EXCEPT ![c] = [l EXCEPT !.pc = IF l.batch # <<>> THEN "exec" ELSE l.back]]
    <3> DEFINE k == [l EXCEPT !.pc = IF l.batch # <<>> THEN "exec" ELSE l.back]
    <3>1. k.victim = l.victim /\ k.todo = l.todo /\ k.pc \in Working
      BY <2>1 DEF LocType, Working
    <3> QED
      BY <1>b, <2>3, <2>4, <3>1
  <2>5. CASE SendResponse(c, [l EXCEPT !.pc = "yield"], wire)
    <3> DEFINE k == [l EXCEPT !.pc = "yield"]
    <3>1. k.victim = l.victim /\ k.todo = l.todo /\ k.pc \in Working /\ k \in LocType
      BY <2>1 DEF LocType, Working, Pcs
    <3> HIDE DEF k
    <3>2. loc' = [loc EXCEPT ![c] = [k EXCEPT !.out = <<>>]]
      BY <2>5 DEF k, SendResponse
    <3> QED
      BY <1>d, <2>3, <3>1, <3>2
  <2> QED
    BY <2>2, <2>4, <2>5
<1>7. CASE Drain(c)
  <2>1. loc[c].pc \in Working \ {"top"}
    BY <1>7, DrainEffect DEF Working
  <2>2. CASE loc' = [loc EXCEPT ![c].pc = "exec", ![c].back = "drain"]
    <3> DEFINE k == [loc[c] EXCEPT !.pc = "exec", !.back = "drain"]
    <3>1. k.victim = loc[c].victim /\ k.todo = loc[c].todo /\ k.pc \in Working
      BY <1>a DEF LocType, Working
    <3>2. loc' = [loc EXCEPT ![c] = k]
      BY <2>2, <1>a, AllClients
    <3> HIDE DEF k, Good
    <3> QED
      BY <1>b, <2>1, <3>1, <3>2
  <2>3. CASE SendResponse(c, [loc[c] EXCEPT !.pc = "top", !.back = "parse"], wire)
    <3> DEFINE k == [loc[c] EXCEPT !.pc = "top", !.back = "parse"]
    <3>1. k.victim = loc[c].victim /\ k.todo = loc[c].todo /\ k.pc \in Working /\ k \in LocType
      BY <1>a DEF LocType, Working, Pcs
    <3>2. loc' = [loc EXCEPT ![c] = [k EXCEPT !.out = <<>>]]
      BY <2>3 DEF SendResponse
    <3> HIDE DEF k, Good
    <3> QED
      BY <1>d, <2>1, <3>1, <3>2
  <2> QED
    BY <1>7, <2>2, <2>3 DEF Drain
<1>8. CASE EndCommit(c) \/ EndSubscription(c)
  <2> DEFINE k == [loc[c] EXCEPT !.out = Append(loc[c].out, loc[c].id), !.pc = "parse"]
  <2>1. k \in LocType /\ loc[c].pc \in Working \ {"top"}
    BY <1>8, EndCommandEffect DEF Working
  <2>2. loc' = [loc EXCEPT ![c] = [k EXCEPT !.out = <<>>]]
    BY <1>8 DEF EndCommit, EndSubscription, Answer, SendResponse
  <2>3. k.victim = loc[c].victim /\ k.todo = loc[c].todo /\ k.pc \in Working
    BY <1>a DEF LocType, Working
  <2> HIDE DEF k, Good
  <2> QED
    BY <1>d, <2>1, <2>2, <2>3
<1>9. CASE Commit(c)
  BY <1>9, CommitEffect DEF Working
<1>10. CASE AddSubscriber(c) \/ RemoveSubscriber(c)
  <2>1. loc[c].pc \in Working \ {"top"}
    BY <1>10, ListEffect DEF Working
  <2> DEFINE k == [loc[c] EXCEPT !.chans = Tail(loc[c].chans)]
  <2>2. k.victim = loc[c].victim /\ k.todo = loc[c].todo /\ k.pc = loc[c].pc
    BY <1>a DEF LocType
  <2>3. loc' = [loc EXCEPT ![c] = k]
    BY <1>10, <1>a DEF AddSubscriber, RemoveSubscriber
  <2> HIDE DEF k, Good
  <2> QED
    BY <1>b, <2>1, <2>2, <2>3
<1> QED
  BY <1>1, <1>2, <1>3, <1>4, <1>5, <1>6, <1>7, <1>8, <1>9, <1>10 DEF Works

LEMMA WorkEffect ==
  ASSUME Types, NEW c \in Clients, Works(c)
  PROVE  /\ \A d \in Clients : SameView(d)
         /\ \A d \in Clients : d # c => loc'[d].pc = loc[d].pc
         /\ loc[c].pc \in Working \ {"top"} /\ loc'[c].pc \in Working
         /\ clients' = clients /\ (shutdown => shutdown')
<1> USE AllClients
<1>0. sock[c] \in SockType /\ hist[c] \in HistType
  BY OneClient
<1>1. \A d \in Clients : sock'[d].connected = sock[d].connected
  <2> DEFINE Good == \A d \in Clients : sock'[d].connected = sock[d].connected
  <2>0. ASSUME NEW k, sock' = [sock EXCEPT ![c] = k], k.connected = sock[c].connected PROVE Good
    BY <2>0
  <2>1. CASE ExecuteBatch(c)
    <3> DEFINE m == Head(loc[c].batch).m
               k == [sock[c] EXCEPT !.watched = WatchedAfter(c, m), !.inMonitor = MonitorAfter(c, m)]
    <3>1. k.connected = sock[c].connected
      BY <1>0 DEF SockType
    <3>2. sock' = [sock EXCEPT ![c] = k]
      BY <2>1 DEF ExecuteBatch
    <3> QED
      BY <2>0, <3>1, <3>2
  <2>2. CASE Commit(c)
    <3> DEFINE m == Head(sock[c].transaction).m
               k == [sock[c] EXCEPT !.transaction = Tail(sock[c].transaction), !.watched = WatchedAfter(c, m),
                                    !.inMonitor = MonitorAfter(c, m)]
    <3>1. k.connected = sock[c].connected
      BY <1>0 DEF SockType
    <3>2. sock' = [sock EXCEPT ![c] = k]
      BY <2>2 DEF Commit
    <3> QED
      BY <2>0, <3>1, <3>2
  <2>3. CASE Collect(c) \/ AnswerOnly(c) \/ TooLarge(c) \/ Unsubscribe(c) \/ Publish(c) \/ Drain(c)
    BY <2>3 DEF Collect, AnswerOnly, TooLarge, Unsubscribe, Publish, Drain
  <2>4. CASE Multi(c)
    BY <1>0, <2>4 DEF Multi, SockType
  <2>5. CASE Queue(c)
    <3> PICK m \in Sane(c) :
          sock' = [sock EXCEPT ![c].transaction = Append(@, [id |-> loc[c].id + 1, m |-> m])]
      BY <2>5 DEF Queue
    <3> DEFINE k == [sock[c] EXCEPT !.transaction = Append(sock[c].transaction, [id |-> loc[c].id + 1, m |-> m])]
    <3>1. k.connected = sock[c].connected
      BY <1>0 DEF SockType
    <3>2. sock' = [sock EXCEPT ![c] = k]
      OBVIOUS
    <3> QED
      BY <2>0, <3>1, <3>2
  <2>6. CASE Discard(c)
    <3> DEFINE k == [sock[c] EXCEPT !.inTransaction = FALSE, !.transaction = <<>>]
    <3>1. k.connected = sock[c].connected
      BY <1>0 DEF SockType
    <3>2. sock' = [sock EXCEPT ![c] = k]
      BY <2>6 DEF Discard
    <3> QED
      BY <2>0, <3>1, <3>2
  <2>7. CASE Exec(c) /\ HasKeyModified(c)
    <3> DEFINE k == [sock[c] EXCEPT !.inTransaction = FALSE, !.transaction = <<>>, !.watched = {}]
    <3>1. k.connected = sock[c].connected
      BY <1>0 DEF SockType
    <3>2. sock' = [sock EXCEPT ![c] = k]
      BY <2>7 DEF Exec
    <3> QED
      BY <2>0, <3>1, <3>2
  <2>8. CASE Exec(c) /\ ~HasKeyModified(c)
    BY <2>8, ExecEffect
  <2>9. CASE EndCommit(c)
    <3> DEFINE k == [sock[c] EXCEPT !.inTransaction = FALSE, !.watched = {}]
    <3>1. k.connected = sock[c].connected
      BY <1>0 DEF SockType
    <3>2. sock' = [sock EXCEPT ![c] = k]
      BY <2>9 DEF EndCommit
    <3> QED
      BY <2>0, <3>1, <3>2
  <2>10. CASE EndSubscription(c)
    <3> DEFINE k == [sock[c] EXCEPT !.inSubScription = (sock[c].subs # {})]
    <3>1. k.connected = sock[c].connected
      BY <1>0 DEF SockType
    <3>2. sock' = [sock EXCEPT ![c] = k]
      BY <2>10 DEF EndSubscription
    <3> QED
      BY <2>0, <3>1, <3>2
  <2>11. CASE Subscribe(c)
    BY <1>0, <2>11 DEF Subscribe, SockType
  <2>12. CASE AddSubscriber(c)
    <3> DEFINE k == [sock[c] EXCEPT !.subs = sock[c].subs \cup {Head(loc[c].chans)}]
    <3>1. k.connected = sock[c].connected
      BY <1>0 DEF SockType
    <3>2. sock' = [sock EXCEPT ![c] = k]
      BY <2>12 DEF AddSubscriber
    <3> QED
      BY <2>0, <3>1, <3>2
  <2>13. CASE RemoveSubscriber(c)
    <3> DEFINE k == [sock[c] EXCEPT !.subs = sock[c].subs \ {Head(loc[c].chans)}]
    <3>1. k.connected = sock[c].connected
      BY <1>0 DEF SockType
    <3>2. sock' = [sock EXCEPT ![c] = k]
      BY <2>13 DEF RemoveSubscriber
    <3> QED
      BY <2>0, <3>1, <3>2
  <2> HIDE DEF Good
  <2> QED
    BY <2>1, <2>2, <2>3, <2>4, <2>5, <2>6, <2>7, <2>8, <2>9, <2>10, <2>11, <2>12, <2>13 DEF Works
<1>2. \A d \in Clients : hist'[d].late = hist[d].late
  <2> DEFINE Good == \A d \in Clients : hist'[d].late = hist[d].late
  <2>0. ASSUME NEW k, hist' = [hist EXCEPT ![c] = k], k.late = hist[c].late PROVE Good
    BY <2>0
  <2>1. CASE ExecuteBatch(c) \/ Commit(c)
    <3> PICK r : hist' = [hist EXCEPT ![c].ran = Append(@, r)]
      BY <2>1 DEF ExecuteBatch, Commit, Execute
    <3> DEFINE k == [hist[c] EXCEPT !.ran = Append(hist[c].ran, r)]
    <3>1. k.late = hist[c].late
      BY <1>0 DEF HistType
    <3>2. hist' = [hist EXCEPT ![c] = k]
      OBVIOUS
    <3> QED
      BY <2>0, <3>1, <3>2
  <2>2. CASE AnswerOnly(c) \/ TooLarge(c) \/ Unsubscribe(c) \/ Publish(c) \/ Drain(c) \/ Multi(c)
    BY <2>2 DEF AnswerOnly, TooLarge, Unsubscribe, Publish, Drain, Multi
  <2>3. CASE EndCommit(c) \/ EndSubscription(c) \/ Subscribe(c) \/ AddSubscriber(c) \/ RemoveSubscriber(c)
    BY <2>3 DEF EndCommit, EndSubscription, Subscribe, AddSubscriber, RemoveSubscriber
  <2>4. CASE Collect(c)
    <3> DEFINE k == [hist[c] EXCEPT !.batched = hist[c].batched \cup {loc[c].id + 1}]
    <3>1. k.late = hist[c].late
      BY <1>0 DEF HistType
    <3>2. hist' = [hist EXCEPT ![c] = k]
      BY <2>4 DEF Collect
    <3> QED
      BY <2>0, <3>1, <3>2
  <2>5. CASE Queue(c)
    <3> DEFINE k == [hist[c] EXCEPT !.queued = hist[c].queued \cup {loc[c].id + 1}]
    <3>1. k.late = hist[c].late
      BY <1>0 DEF HistType
    <3>2. hist' = [hist EXCEPT ![c] = k]
      BY <2>5 DEF Queue
    <3> QED
      BY <2>0, <3>1, <3>2
  <2>6. CASE Discard(c) \/ (Exec(c) /\ HasKeyModified(c))
    <3> DEFINE k == [hist[c] EXCEPT !.dropped = hist[c].dropped \cup Ids(sock[c].transaction)]
    <3>1. k.late = hist[c].late
      BY <1>0 DEF HistType
    <3>2. hist' = [hist EXCEPT ![c] = k]
      BY <2>6 DEF Discard, Exec
    <3> QED
      BY <2>0, <3>1, <3>2
  <2>7. CASE Exec(c) /\ ~HasKeyModified(c)
    BY <2>7, ExecEffect
  <2> HIDE DEF Good
  <2> QED
    BY <2>1, <2>2, <2>3, <2>4, <2>5, <2>6, <2>7 DEF Works
<1>3. clients' = clients /\ (shutdown => shutdown')
  <2>1. CASE ExecuteBatch(c) \/ Commit(c)
    BY <2>1 DEF ExecuteBatch, Commit, Execute
  <2>2. CASE AnswerOnly(c) \/ TooLarge(c) \/ Unsubscribe(c) \/ Publish(c) \/ Drain(c) \/ Multi(c)
    <3>1. UNCHANGED server
      BY <2>2 DEF AnswerOnly, TooLarge, Unsubscribe, Publish, Drain, Multi
    <3>2. clients' = clients /\ shutdown' = shutdown
      BY <3>1 DEF server
    <3> QED
      BY <3>2, Zenon
  <2>3. CASE EndCommit(c) \/ EndSubscription(c) \/ Subscribe(c) \/ AddSubscriber(c) \/ RemoveSubscriber(c)
    <3>1. UNCHANGED server
      BY <2>3 DEF EndCommit, EndSubscription, Subscribe, AddSubscriber, RemoveSubscriber
    <3>2. clients' = clients /\ shutdown' = shutdown
      BY <3>1 DEF server
    <3> QED
      BY <3>2, Zenon
  <2>4. CASE Collect(c) \/ Queue(c) \/ Discard(c) \/ Exec(c)
    <3>1. UNCHANGED server
      BY <2>4 DEF Collect, Queue, Discard, Exec
    <3>2. clients' = clients /\ shutdown' = shutdown
      BY <3>1 DEF server
    <3> QED
      BY <3>2, Zenon
  <2> QED
    BY <2>1, <2>2, <2>3, <2>4 DEF Works
<1> QED
  BY <1>1, <1>2, <1>3, WorkLocals DEF SameView

\* A client that reads, or will, and that ShutDownServer() has still to reach.
Unreached(d) ==
  /\ loc[d].pc \in {"recv", "wait"} /\ sock[d].connected
  /\ \A e \in Clients : loc[e].victim # d
  /\ loc[d].pc = "wait" => ~hist[d].late

\* ShutdownReachesClients with what it rests on: who runs ShutDownServer() has every
\* client it has still to reach on its list, and as long as there is such a client
\* after a SHUTDOWN, somebody is in ShutDownServer() or on its way there.
ShutInv ==
  /\ \A c \in Clients : loc[c].pc \in ClosingAll => shutdown
  /\ \A c \in Clients : ~shutdown /\ loc[c].pc \notin {"new", "begin", "closed"} => c \in clients
  /\ \A c \in Clients : loc[c].pc # "close" => loc[c].victim = NoClient
  /\ \A c \in Clients : loc[c].pc = "wait" /\ ~hist[c].late => sock[c].connected /\ Unreached(c)
  /\ \A d \in Clients : Unreached(d) => d \in clients
  /\ \A d, e \in Clients : Unreached(d) /\ loc[e].pc \in ClosingAll => d \in loc[e].todo
  /\ shutdown /\ (\E d \in Clients : Unreached(d)) => \E e \in Clients : loc[e].pc \in Working \cup ClosingAll

LEMMA ShutInit == Init => ShutInv
<1> SUFFICES ASSUME Init PROVE ShutInv
  OBVIOUS
<1>1. \A c \in Clients : loc[c].pc = "new" /\ loc[c].victim = NoClient
  BY DEF Init, NewLoc
<1> QED
  BY <1>1 DEF ShutInv, Unreached, ClosingAll, Working

\* A step of the parse loop.
LEMMA ShutWorks ==
  ASSUME Types, ShutInv, NEW c \in Clients, Works(c)
  PROVE  ShutInv'
<1>1. /\ \A d \in Clients : SameView(d)
      /\ \A d \in Clients : d # c => loc'[d].pc = loc[d].pc
      /\ loc[c].pc \in Working \ {"top"} /\ loc'[c].pc \in Working
      /\ clients' = clients /\ (shutdown => shutdown')
  BY WorkEffect
<1>2. \A d \in Clients : Unreached(d)' <=> Unreached(d)
  BY <1>1 DEF Unreached, SameView, Working
<1>3. \A d \in Clients : loc'[d].pc \in ClosingAll => loc[d].pc \in ClosingAll
  BY <1>1 DEF ClosingAll, Working
<1> QED
  BY <1>1, <1>2, <1>3 DEF ShutInv, SameView, Working, ClosingAll

LEMMA GotoView ==
  ASSUME Types, NEW c \in Clients, NEW pc, Goto(c, pc)
  PROVE  /\ \A d \in Clients : loc'[d].victim = loc[d].victim /\ loc'[d].todo = loc[d].todo
         /\ \A d \in Clients : d # c => loc'[d].pc = loc[d].pc
         /\ loc'[c].pc = pc
<1> DEFINE l == [loc[c] EXCEPT !.pc = pc]
<1>1. l.victim = loc[c].victim /\ l.todo = loc[c].todo /\ l.pc = pc
  BY OneClient DEF LocType
<1>2. loc' = [loc EXCEPT ![c] = l]
  BY DEF Goto
<1> HIDE DEF l
<1> QED
  BY <1>1, <1>2, WorkStep

\* The client reads, is woken or leaves.
LEMMA ShutReads ==
  ASSUME Types, ShutInv, NEW c \in Clients, Receive(c) \/ Depart(c) \/ Leave(c) \/ Again(c)
  PROVE  ShutInv'
<1>a. loc[c] \in LocType
  BY OneClient
<1> USE AllClients
<1>1. /\ \A d \in Clients : SameView(d)
      /\ \A d \in Clients : d # c => loc'[d].pc = loc[d].pc
      /\ loc[c].pc \in {"recv", "wait", "woken"} /\ loc'[c].pc \in {"parse", "clean", "top"}
      /\ clients' = clients /\ shutdown' = shutdown
  <2>1. CASE Receive(c)
    <3>1. loc[c].pc \in {"recv", "wait", "woken"}
      BY <2>1 DEF Receive, Receiving, At
    <3>2. PICK n \in 1 .. MaxRequests[c] - loc[c].id - loc[c].buf :
                 loc' = [loc EXCEPT ![c].pc = "parse", ![c].buf = @ + n]
      BY <2>1 DEF Receive
    <3>3. /\ \A d \in Clients : loc'[d].victim = loc[d].victim /\ loc'[d].todo = loc[d].todo
          /\ \A d \in Clients : d # c => loc'[d].pc = loc[d].pc
          /\ loc'[c].pc = "parse"
      <4> DEFINE l == [loc[c] EXCEPT !.pc = "parse", !.buf = loc[c].buf + n]
      <4>1. l.victim = loc[c].victim /\ l.todo = loc[c].todo /\ l.pc = "parse"
        BY <1>a DEF LocType
      <4>2. loc' = [loc EXCEPT ![c] = l]
        BY <3>2
      <4> HIDE DEF l
      <4> QED
        BY <4>1, <4>2, WorkStep
    <3> QED
      BY <2>1, <3>1, <3>3 DEF Receive, SameView, server
  <2>2. CASE Depart(c) \/ Leave(c) \/ Again(c)
    <3>1. /\ loc[c].pc \in {"recv", "wait", "woken"} /\ (Goto(c, "clean") \/ Goto(c, "top"))
          /\ UNCHANGED <<server, sock, hist>>
      BY <2>2 DEF Depart, Leave, Again, Receiving, At
    <3>2. /\ \A d \in Clients : loc'[d].victim = loc[d].victim /\ loc'[d].todo = loc[d].todo
          /\ \A d \in Clients : d # c => loc'[d].pc = loc[d].pc
          /\ loc'[c].pc \in {"clean", "top"}
      BY <3>1, GotoView
    <3>3. clients' = clients /\ shutdown' = shutdown
      BY <3>1 DEF server
    <3> QED
      BY <3>1, <3>2, <3>3 DEF SameView
  <2> QED
    BY <2>1, <2>2
<1>2. \A d \in Clients : /\ d # c => (Unreached(d)' <=> Unreached(d))
                         /\ d = c => ~Unreached(d)'
  <2> TAKE d \in Clients
  <2>1. /\ sock'[d].connected = sock[d].connected /\ hist'[d].late = hist[d].late
        /\ \A e \in Clients : loc'[e].victim = loc[e].victim
    BY <1>1 DEF SameView
  <2>2. CASE d # c
    <3>1. loc'[d].pc = loc[d].pc
      BY <1>1, <2>2
    <3> QED
      BY <2>1, <2>2, <3>1 DEF Unreached
  <2>3. CASE d = c
    BY <1>1, <2>3 DEF Unreached
  <2> QED
    BY <2>2, <2>3
<1>3. \A d \in Clients : /\ loc'[d].pc \in ClosingAll <=> loc[d].pc \in ClosingAll
                         /\ loc[d].pc \in Working => loc'[d].pc \in Working
  BY <1>1 DEF ClosingAll, Working
<1>4. \A d \in Clients : d = c => loc'[d].pc \notin {"close", "wait"} /\ loc[d].pc \notin {"new", "begin", "closed", "close"}
  BY <1>1
<1>5. \A d \in Clients : /\ loc'[d].victim = loc[d].victim /\ loc'[d].todo = loc[d].todo
                         /\ sock'[d].connected = sock[d].connected /\ hist'[d].late = hist[d].late
  BY <1>1 DEF SameView
<1>6. /\ \A d \in Clients : loc'[d].pc \in ClosingAll => shutdown'
      /\ \A d \in Clients : ~shutdown' /\ loc'[d].pc \notin {"new", "begin", "closed"} => d \in clients'
      /\ \A d \in Clients : loc'[d].pc # "close" => loc'[d].victim = NoClient
  BY <1>1, <1>3, <1>4, <1>5, ZenonT(60) DEF ShutInv
<1>7. \A d \in Clients : loc'[d].pc = "wait" /\ ~hist'[d].late => sock'[d].connected /\ Unreached(d)'
  BY <1>1, <1>2, <1>4, <1>5 DEF ShutInv
<1>8. /\ \A d \in Clients : Unreached(d)' => d \in clients'
      /\ \A d, e \in Clients : Unreached(d)' /\ loc'[e].pc \in ClosingAll => d \in loc'[e].todo
  BY <1>1, <1>2, <1>3, <1>5 DEF ShutInv
<1>9. shutdown' /\ (\E d \in Clients : Unreached(d)') => \E e \in Clients : loc'[e].pc \in Working \cup ClosingAll
  BY <1>1, <1>2, <1>3 DEF ShutInv
<1> QED
  BY <1>6, <1>7, <1>8, <1>9 DEF ShutInv

\* A connection begins, and its loop.
LEMMA ShutBegins ==
  ASSUME Types, ShutInv, NEW c \in Clients, Accept(c) \/ Begin(c)
  PROVE  ShutInv'
<1> USE AllClients
<1>1. /\ \A d \in Clients : loc'[d].victim = loc[d].victim /\ loc'[d].todo = loc[d].todo
      /\ \A d \in Clients : d # c => loc'[d].pc = loc[d].pc
      /\ \/ loc[c].pc = "new" /\ loc'[c].pc = "begin" /\ clients' = clients
         \/ loc[c].pc = "begin" /\ loc'[c].pc = "top" /\ clients' = clients \cup {c}
  <2>1. CASE Accept(c)
    BY <2>1, GotoView DEF Accept, At, server
  <2>2. CASE Begin(c)
    BY <2>2, GotoView DEF Begin, At
  <2> QED
    BY <2>1, <2>2
<1>2. shutdown' = shutdown /\ UNCHANGED hist
  BY DEF Accept, Begin, server
<1>3. \A d \in Clients : d # c => sock'[d].connected = sock[d].connected
  BY DEF Accept, Begin
<1>4. \A d \in Clients : /\ d # c => (Unreached(d)' <=> Unreached(d))
                         /\ d = c => ~Unreached(d)'
  <2> TAKE d \in Clients
  <2>1. CASE d # c
    <3>1. loc'[d].pc = loc[d].pc /\ sock'[d].connected = sock[d].connected /\ hist'[d].late = hist[d].late
      BY <1>1, <1>2, <1>3, <2>1
    <3> QED
      BY <1>1, <2>1, <3>1, ZenonT(60) DEF Unreached
  <2>2. CASE d = c
    BY <1>1, <2>2 DEF Unreached
  <2> QED
    BY <2>1, <2>2
<1>5. \A d \in Clients : /\ loc'[d].pc \in ClosingAll <=> loc[d].pc \in ClosingAll
                         /\ loc[d].pc \in Working => loc'[d].pc \in Working
  BY <1>1 DEF ClosingAll, Working
<1>6. /\ loc'[c].pc \notin {"close", "wait"} /\ loc[c].pc # "close" /\ clients \subseteq clients'
      /\ loc'[c].pc # "begin" => c \in clients'
  BY <1>1
<1>7. \A d \in Clients : loc'[d].pc = "wait" /\ ~hist'[d].late => sock'[d].connected /\ Unreached(d)'
  BY <1>1, <1>2, <1>3, <1>4, <1>6 DEF ShutInv
<1>8. \A d \in Clients : ~shutdown' /\ loc'[d].pc \notin {"new", "begin", "closed"} => d \in clients'
  BY <1>1, <1>2, <1>6 DEF ShutInv
<1>9. \A d \in Clients : loc'[d].pc # "close" => loc'[d].victim = NoClient
  BY <1>1, <1>6 DEF ShutInv
<1> QED
  BY <1>1, <1>2, <1>4, <1>5, <1>6, <1>7, <1>8, <1>9 DEF ShutInv

\* The head of the loop: to recv(), or into ShutDownServer().
LEMMA ShutTop ==
  ASSUME Types, ShutInv, NEW c \in Clients, Top(c)
  PROVE  ShutInv'
<1> USE AllClients
<1>a. loc[c] \in LocType /\ loc[c].pc = "top"
  BY OneClient DEF Top, At
<1>b. UNCHANGED <<clients, sock, hist>>
  BY DEF Top
<1>1. CASE shutdown \/ stopped
  <2>1. /\ \A d \in Clients : loc'[d].victim = loc[d].victim
        /\ \A d \in Clients : d # c => loc'[d].pc = loc[d].pc /\ loc'[d].todo = loc[d].todo
        /\ loc'[c].pc = "cancel" /\ loc'[c].todo = clients
    <3> DEFINE l == [loc[c] EXCEPT !.pc = "cancel", !.todo = clients]
    <3>1. l.victim = loc[c].victim /\ l.todo = clients /\ l.pc = "cancel"
      BY <1>a DEF LocType
    <3>2. loc' = [loc EXCEPT ![c] = l]
      BY <1>1 DEF Top
    <3> HIDE DEF l
    <3> QED
      BY <3>1, <3>2
  <2>2. shutdown'
    BY <1>1 DEF Top
  <2>3. \A d \in Clients : Unreached(d)' <=> Unreached(d)
    <3> TAKE d \in Clients
    <3>1. CASE d # c
      <4>1. loc'[d].pc = loc[d].pc
        BY <2>1, <3>1
      <4> QED
        BY <1>b, <2>1, <4>1 DEF Unreached
    <3>2. CASE d = c
      BY <1>a, <2>1, <3>2 DEF Unreached
    <3> QED
      BY <3>1, <3>2
  <2>4. c \in Clients /\ loc'[c].pc \in Working \cup ClosingAll
    BY <2>1 DEF ClosingAll
  <2>5. \A d, e \in Clients : Unreached(d)' /\ loc'[e].pc \in ClosingAll => d \in loc'[e].todo
    <3> TAKE d, e \in Clients
    <3>1. CASE e = c
      BY <2>1, <2>3, <3>1 DEF ShutInv
    <3>2. CASE e # c
      BY <2>1, <2>3, <3>2 DEF ShutInv
    <3> QED
      BY <3>1, <3>2
  <2>6. \A d \in Clients : loc'[d].pc = "wait" /\ ~hist'[d].late => sock'[d].connected /\ Unreached(d)'
    BY <1>b, <2>1, <2>3 DEF ShutInv
  <2>7. \A d \in Clients : loc'[d].pc # "close" => loc'[d].victim = NoClient
    BY <1>a, <2>1 DEF ShutInv
  <2>8. \A d \in Clients : Unreached(d)' => d \in clients'
    BY <1>b, <2>3 DEF ShutInv
  <2> QED
    BY <2>2, <2>4, <2>5, <2>6, <2>7, <2>8 DEF ShutInv
<1>2. CASE ~(shutdown \/ stopped)
  <2>1. /\ \A d \in Clients : loc'[d].victim = loc[d].victim /\ loc'[d].todo = loc[d].todo
        /\ \A d \in Clients : d # c => loc'[d].pc = loc[d].pc
        /\ loc'[c].pc = "recv"
    BY <1>2, GotoView DEF Top
  <2>2. ~shutdown /\ ~shutdown'
    BY <1>2 DEF Top
  <2>3. \A d \in Clients : loc[d].pc \notin ClosingAll /\ loc'[d].pc \notin ClosingAll
    BY <2>1, <2>2 DEF ShutInv, ClosingAll
  <2>4. \A d \in Clients : d # c => (Unreached(d)' <=> Unreached(d))
    <3> TAKE d \in Clients
    <3> HAVE d # c
    <3>1. loc'[d].pc = loc[d].pc
      BY <2>1
    <3> QED
      BY <1>b, <2>1, <3>1 DEF Unreached
  <2>5. c \in clients'
    BY <1>a, <1>b, <2>2 DEF ShutInv
  <2>6. \A d \in Clients : loc'[d].pc = "wait" /\ ~hist'[d].late => sock'[d].connected /\ Unreached(d)'
    BY <1>b, <2>1, <2>4 DEF ShutInv
  <2>7. \A d \in Clients : loc'[d].pc # "close" => loc'[d].victim = NoClient
    BY <1>a, <2>1 DEF ShutInv
  <2>8. \A d \in Clients : Unreached(d)' => d \in clients'
    BY <1>b, <2>4, <2>5 DEF ShutInv
  <2>9. \A d \in Clients : ~shutdown' /\ loc'[d].pc \notin {"new", "begin", "closed"} => d \in clients'
    BY <1>b, <2>1, <2>2, <2>5 DEF ShutInv
  <2> QED
    BY <2>2, <2>3, <2>6, <2>7, <2>8, <2>9 DEF ShutInv
<1> QED
  BY <1>1, <1>2

\* The client suspends in recv(): late, if its socket is about to be closed.
LEMMA ShutSuspends ==
  ASSUME Types, ShutInv, NEW c \in Clients, Suspend(c)
  PROVE  ShutInv'
<1> USE AllClients
<1>1. /\ \A d \in Clients : loc'[d].victim = loc[d].victim /\ loc'[d].todo = loc[d].todo
      /\ \A d \in Clients : d # c => loc'[d].pc = loc[d].pc
      /\ loc[c].pc = "recv" /\ loc'[c].pc = "wait" /\ sock[c].connected
  BY GotoView DEF Suspend, At
<1>2. UNCHANGED sock /\ clients' = clients /\ shutdown' = shutdown
  BY DEF Suspend, server
<1>3. /\ \A d \in Clients : d # c => hist'[d].late = hist[d].late
      /\ hist'[c].late <=> \E e \in Clients : loc[e].victim = c
  <2>1. hist[c] \in HistType /\ hist \in [Clients -> HistType]
    BY OneClient
  <2> DEFINE v == \E e \in Clients : loc[e].victim = c
             k == [hist[c] EXCEPT !.late = v]
  <2>2. hist' = [hist EXCEPT ![c] = k]
    BY DEF Suspend
  <2>3. k.late = v
    BY <2>1 DEF HistType
  <2> HIDE DEF k, v
  <2>4. hist'[c].late = v /\ \A d \in Clients : d # c => hist'[d].late = hist[d].late
    BY <2>1, <2>2, <2>3
  <2> QED
    BY <2>4 DEF v
<1>4. \A d \in Clients : Unreached(d)' <=> Unreached(d)
  <2> TAKE d \in Clients
  <2>1. CASE d # c
    <3>1. loc'[d].pc = loc[d].pc /\ hist'[d].late = hist[d].late
      BY <1>1, <1>3, <2>1
    <3>2. (\A e \in Clients : loc'[e].victim # d) <=> (\A e \in Clients : loc[e].victim # d)
      BY <1>1, ZenonT(60)
    <3>3. sock'[d].connected = sock[d].connected
      BY <1>2
    <3> QED
      BY <3>1, <3>2, <3>3 DEF Unreached
  <2>2. CASE d = c
    <3>1. Unreached(c) <=> \A e \in Clients : loc[e].victim # c
      BY <1>1 DEF Unreached
    <3>2. Unreached(c)' <=> \A e \in Clients : loc[e].victim # c
      <4>1. \A e \in Clients : loc'[e].victim = loc[e].victim
        BY <1>1
      <4>2. Unreached(c)' <=> (\A e \in Clients : loc'[e].victim # c) /\ ~hist'[c].late
        BY <1>1, <1>2 DEF Unreached
      <4> QED
        BY <1>3, <4>1, <4>2
    <3> QED
      BY <2>2, <3>1, <3>2
  <2> QED
    BY <2>1, <2>2
<1>5. \A d \in Clients : /\ loc'[d].pc \in ClosingAll <=> loc[d].pc \in ClosingAll
                         /\ loc[d].pc \in Working => loc'[d].pc \in Working
  BY <1>1 DEF ClosingAll, Working
<1>6. \A d \in Clients : loc'[d].pc = "wait" /\ ~hist'[d].late => sock'[d].connected /\ Unreached(d)'
  <2> TAKE d \in Clients
  <2>1. CASE d # c
    BY <1>1, <1>2, <1>3, <1>4, <2>1 DEF ShutInv
  <2>2. CASE d = c
    <3>1. Unreached(c) <=> \A e \in Clients : loc[e].victim # c
      BY <1>1 DEF Unreached
    <3> QED
      BY <1>1, <1>2, <1>3, <1>4, <2>2, <3>1
  <2> QED
    BY <2>1, <2>2
<1>7. \A d \in Clients : loc'[d].pc # "close" => loc'[d].victim = NoClient
  BY <1>1 DEF ShutInv
<1>8. \A d \in Clients : ~shutdown' /\ loc'[d].pc \notin {"new", "begin", "closed"} => d \in clients'
  BY <1>1, <1>2 DEF ShutInv
<1> QED
  BY <1>1, <1>2, <1>4, <1>5, <1>6, <1>7, <1>8 DEF ShutInv

\* ShutDownServer() cancels and closes client after client.
LEMMA ShutCancels ==
  ASSUME Types, ShutInv, NEW c \in Clients, CancelAll(c)
  PROVE  ShutInv'
<1> USE AllClients
<1>a. loc[c] \in LocType /\ loc[c].pc = "cancel" /\ loc[c].victim = NoClient /\ loc[c].todo \subseteq Clients
  BY OneClient DEF CancelAll, At, ShutInv, LocType
<1>b. UNCHANGED <<clients, sock, hist>> /\ shutdown' = shutdown
  BY DEF CancelAll, server
<1> PICK v \in loc[c].todo :
      loc' = [loc EXCEPT ![c].pc = "close", ![c].victim = v, ![c].todo = @ \ {v},
                         ![v].pc = IF At(v, "wait") /\ sock[v].connected THEN "woken"
                                   ELSE IF v = c THEN "close" ELSE @]
  BY DEF CancelAll
<1>c. v \in Clients /\ v # NoClient
  BY <1>a, ClientsAssumption
<1>d. loc[v] \in LocType
  BY <1>c, OneClient
<1>1. /\ loc'[c].pc = "close" /\ loc'[c].victim = v /\ loc'[c].todo = loc[c].todo \ {v}
      /\ \A d \in Clients : d # c => loc'[d].victim = loc[d].victim /\ loc'[d].todo = loc[d].todo
      /\ \A d \in Clients : d # c /\ d # v => loc'[d].pc = loc[d].pc
      /\ v # c => loc'[v].pc = IF loc[v].pc = "wait" /\ sock[v].connected THEN "woken" ELSE loc[v].pc
  <2> DEFINE l == [loc[c] EXCEPT !.pc = "close", !.victim = v, !.todo = loc[c].todo \ {v}]
             pv == IF loc[v].pc = "wait" /\ sock[v].connected THEN "woken" ELSE loc[v].pc
             k == [loc[v] EXCEPT !.pc = pv]
  <2>1. l.pc = "close" /\ l.victim = v /\ l.todo = loc[c].todo \ {v}
    BY <1>a DEF LocType
  <2>2. k.pc = pv /\ k.victim = loc[v].victim /\ k.todo = loc[v].todo
    BY <1>d DEF LocType
  <2>3. CASE v = c
    <3>1. loc'[c] = l /\ \A d \in Clients : d # c => loc'[d] = loc[d]
      BY <1>a, <2>3 DEF At, LocType
    <3> HIDE DEF l, k
    <3> QED
      BY <2>1, <2>3, <3>1
  <2>4. CASE v # c
    <3>1. loc'[c] = l /\ loc'[v] = k /\ \A d \in Clients : d # c /\ d # v => loc'[d] = loc[d]
      BY <1>a, <1>c, <2>4 DEF At, LocType
    <3> HIDE DEF l, k
    <3> QED
      BY <2>1, <2>2, <2>4, <3>1
  <2> QED
    BY <2>3, <2>4
<1>2. \A d \in Clients : Unreached(d)' <=> Unreached(d) /\ d # v
  <2> TAKE d \in Clients
  <2>1. CASE d = v
    BY <1>1, <2>1 DEF Unreached
  <2>2. CASE d = c
    BY <1>1, <1>a, <2>2 DEF Unreached
  <2>3. CASE d # v /\ d # c
    <3>1. (\A e \in Clients : loc'[e].victim # d) <=> (\A e \in Clients : loc[e].victim # d)
      <4>1. \A e \in Clients : loc'[e].victim # d <=> loc[e].victim # d
        <5> TAKE e \in Clients
        <5>1. CASE e = c
          BY <1>1, <1>a, <2>3, <5>1, ClientsAssumption
        <5>2. CASE e # c
          BY <1>1, <5>2
        <5> QED
          BY <5>1, <5>2
      <4> QED
        BY <4>1
    <3>2. loc'[d].pc = loc[d].pc
      BY <1>1, <2>3
    <3> QED
      BY <1>b, <2>3, <3>1, <3>2 DEF Unreached
  <2> QED
    BY <2>1, <2>2, <2>3
<1>3. \A d \in Clients : /\ loc'[d].pc \in ClosingAll <=> loc[d].pc \in ClosingAll
                         /\ loc[d].pc \in Working => loc'[d].pc \in Working
                         /\ loc'[d].pc = "wait" => loc[d].pc = "wait" /\ d # c
                         /\ loc'[d].pc = "close" => loc[d].pc = "close" \/ d = c
                         /\ loc[d].pc = "close" => loc'[d].pc = "close"
                         /\ loc[d].pc \in {"new", "begin", "closed"} => loc'[d].pc = loc[d].pc
  BY <1>1, <1>a DEF ClosingAll, Working
<1>4. \A d \in Clients : loc'[d].pc = "wait" /\ ~hist'[d].late => sock'[d].connected /\ Unreached(d)'
  <2> TAKE d \in Clients
  <2> HAVE loc'[d].pc = "wait" /\ ~hist'[d].late
  <2>1. sock[d].connected /\ Unreached(d) /\ loc[d].pc = "wait" /\ d # c
    BY <1>b, <1>3 DEF ShutInv
  <2>2. d # v
    BY <1>1, <2>1
  <2> QED
    BY <1>b, <1>2, <2>1, <2>2
<1>5. \A d \in Clients : loc'[d].pc # "close" => loc'[d].victim = NoClient
  BY <1>1, <1>3 DEF ShutInv
<1>6. \A d, e \in Clients : Unreached(d)' /\ loc'[e].pc \in ClosingAll => d \in loc'[e].todo
  <2> TAKE d, e \in Clients
  <2> HAVE Unreached(d)' /\ loc'[e].pc \in ClosingAll
  <2>1. Unreached(d) /\ d # v /\ d \in loc[e].todo
    BY <1>2, <1>3 DEF ShutInv
  <2> QED
    BY <1>1, <2>1
<1>7. /\ \A d \in Clients : loc'[d].pc \in ClosingAll => shutdown'
      /\ \A d \in Clients : ~shutdown' /\ loc'[d].pc \notin {"new", "begin", "closed"} => d \in clients'
      /\ \A d \in Clients : Unreached(d)' => d \in clients'
  BY <1>b, <1>2, <1>3 DEF ShutInv
<1>8. loc'[c].pc \in Working \cup ClosingAll
  BY <1>1 DEF ClosingAll
<1> QED
  BY <1>4, <1>5, <1>6, <1>7, <1>8 DEF ShutInv

LEMMA ShutCloses ==
  ASSUME Types, ShutInv, NEW c \in Clients, CloseClient(c)
  PROVE  ShutInv'
<1> USE AllClients
<1> DEFINE v == loc[c].victim
<1>a. loc[c] \in LocType /\ loc[c].pc = "close" /\ v \in Clients
  BY OneClient DEF CloseClient, At, Ready
<1>b. UNCHANGED <<clients, hist>> /\ shutdown' = shutdown
  BY DEF CloseClient, server
<1>c. loc[v] \in LocType /\ sock[v] \in SockType
  BY <1>a, OneClient
<1>d. sock' = [sock EXCEPT ![v].connected = FALSE]
  BY DEF CloseClient
<1> PICK pc \in IF At(v, "wait") /\ sock[v].connected THEN {"wait", "woken"} ELSE {loc[v].pc} :
      loc' = [loc EXCEPT ![v].pc = pc, ![c].pc = "cancel", ![c].victim = NoClient]
  BY DEF CloseClient
<1>1. /\ loc'[c].pc = "cancel" /\ loc'[c].victim = NoClient /\ loc'[c].todo = loc[c].todo
      /\ \A d \in Clients : d # c => loc'[d].victim = loc[d].victim /\ loc'[d].todo = loc[d].todo
      /\ \A d \in Clients : d # c /\ d # v => loc'[d].pc = loc[d].pc
      /\ v # c => loc'[v].pc = loc[v].pc \/ (loc[v].pc = "wait" /\ loc'[v].pc = "woken")
  <2> DEFINE l == [loc[c] EXCEPT !.pc = "cancel", !.victim = NoClient]
             k == [loc[v] EXCEPT !.pc = pc]
  <2>1. l.pc = "cancel" /\ l.victim = NoClient /\ l.todo = loc[c].todo
    BY <1>a DEF LocType
  <2>2. /\ k.pc = pc /\ k.victim = loc[v].victim /\ k.todo = loc[v].todo
        /\ pc = loc[v].pc \/ (loc[v].pc = "wait" /\ pc = "woken")
    BY <1>c DEF LocType, At
  <2>3. CASE v = c
    <3>1. loc'[c] = l /\ \A d \in Clients : d # c => loc'[d] = loc[d]
      BY <1>a, <2>3 DEF LocType
    <3> HIDE DEF l, k, v
    <3> QED
      BY <2>1, <2>3, <3>1
  <2>4. CASE v # c
    <3>1. loc'[c] = l /\ loc'[v] = k /\ \A d \in Clients : d # c /\ d # v => loc'[d] = loc[d]
      BY <1>a, <2>4 DEF LocType
    <3> HIDE DEF l, k, v
    <3> QED
      BY <2>1, <2>2, <2>4, <3>1
  <2> QED
    BY <2>3, <2>4
<1>2. ~sock'[v].connected /\ \A d \in Clients : d # v => sock'[d].connected = sock[d].connected
  BY <1>a, <1>c, <1>d DEF SockType
<1> HIDE DEF v
<1>e. \A d \in Clients : loc[c].victim = d <=> v = d
  BY DEF v
<1>3. \A d \in Clients : Unreached(d)' => Unreached(d) /\ d # v
  <2> TAKE d \in Clients
  <2> HAVE Unreached(d)'
  <2>1. d # v
    BY <1>2 DEF Unreached
  <2>2. d # c
    BY <1>1 DEF Unreached
  <2>3. \A e \in Clients : loc[e].victim # d
    <3> TAKE e \in Clients
    <3>1. CASE e = c
      BY <1>e, <2>1, <3>1
    <3>2. CASE e # c
      <4>1. loc'[e].victim = loc[e].victim /\ loc'[e].victim # d
        BY <1>1, <3>2 DEF Unreached
      <4> QED
        BY <4>1
    <3> QED
      BY <3>1, <3>2
  <2>4. loc'[d].pc = loc[d].pc /\ sock'[d].connected = sock[d].connected
    BY <1>1, <1>2, <2>1, <2>2
  <2> QED
    BY <1>b, <2>1, <2>3, <2>4 DEF Unreached
<1>4. \A d \in Clients : /\ loc'[d].pc \in ClosingAll <=> loc[d].pc \in ClosingAll
                         /\ loc'[d].pc = "wait" => loc[d].pc = "wait" /\ d # c
                         /\ loc[d].pc = "close" => loc'[d].pc = "close" \/ d = c
                         /\ loc[d].pc \in {"new", "begin", "closed"} => loc'[d].pc = loc[d].pc
  BY <1>1, <1>a DEF ClosingAll
<1>5. \A d \in Clients : loc'[d].pc = "wait" /\ ~hist'[d].late => sock'[d].connected /\ Unreached(d)'
  <2> TAKE d \in Clients
  <2> HAVE loc'[d].pc = "wait" /\ ~hist'[d].late
  <2>1. sock[d].connected /\ Unreached(d) /\ loc[d].pc = "wait" /\ d # c
    BY <1>b, <1>4 DEF ShutInv
  <2>2. d # v
    BY <1>e, <2>1 DEF Unreached
  <2>3. loc'[d].pc = loc[d].pc /\ sock'[d].connected = sock[d].connected
    BY <1>1, <1>2, <2>1, <2>2
  <2>4. \A e \in Clients : loc'[e].victim # d
    <3> TAKE e \in Clients
    <3>1. CASE e = c
      BY <1>1, <3>1, ClientsAssumption
    <3>2. CASE e # c
      <4>1. loc'[e].victim = loc[e].victim /\ loc[e].victim # d
        BY <1>1, <2>1, <3>2 DEF Unreached
      <4> QED
        BY <4>1
    <3> QED
      BY <3>1, <3>2
  <2> QED
    BY <1>b, <2>1, <2>3, <2>4 DEF Unreached
<1>6. \A d \in Clients : loc'[d].pc # "close" => loc'[d].victim = NoClient
  <2> TAKE d \in Clients
  <2> HAVE loc'[d].pc # "close"
  <2>1. CASE d = c
    BY <1>1, <2>1
  <2>2. CASE d # c
    <3>1. loc[d].pc # "close" /\ loc'[d].victim = loc[d].victim
      BY <1>1, <1>4, <2>2
    <3> QED
      BY <3>1 DEF ShutInv
  <2> QED
    BY <2>1, <2>2
<1>7. \A d, e \in Clients : Unreached(d)' /\ loc'[e].pc \in ClosingAll => d \in loc'[e].todo
  <2> TAKE d, e \in Clients
  <2> HAVE Unreached(d)' /\ loc'[e].pc \in ClosingAll
  <2>1. d \in loc[e].todo
    BY <1>3, <1>4 DEF ShutInv
  <2>2. loc'[e].todo = loc[e].todo
    BY <1>1
  <2> QED
    BY <2>1, <2>2
<1>8. /\ \A d \in Clients : loc'[d].pc \in ClosingAll => shutdown'
      /\ \A d \in Clients : ~shutdown' /\ loc'[d].pc \notin {"new", "begin", "closed"} => d \in clients'
      /\ \A d \in Clients : Unreached(d)' => d \in clients'
  BY <1>b, <1>3, <1>4 DEF ShutInv
<1>9. loc'[c].pc \in Working \cup ClosingAll
  BY <1>1 DEF ClosingAll
<1> QED
  BY <1>5, <1>6, <1>7, <1>8, <1>9 DEF ShutInv

\* ShutDownServer() returns, having reached everybody; a connection ends.
LEMMA ShutEnds ==
  ASSUME Types, ShutInv, NEW c \in Clients, EndShutDown(c) \/ Clean(c)
  PROVE  ShutInv'
<1> USE AllClients
<1>1. CASE EndShutDown(c)
  <2>1. /\ loc[c].pc = "cancel" /\ loc[c].todo = {} /\ shutdown' = shutdown /\ UNCHANGED <<sock, hist>>
    BY <1>1 DEF EndShutDown, At
  <2>2. /\ \A d \in Clients : loc'[d].victim = loc[d].victim /\ loc'[d].todo = loc[d].todo
        /\ \A d \in Clients : d # c => loc'[d].pc = loc[d].pc
        /\ loc'[c].pc = "clean"
    BY <1>1, GotoView DEF EndShutDown
  <2>3. shutdown /\ \A d \in Clients : ~Unreached(d)
    BY <2>1 DEF ShutInv, ClosingAll
  <2>4. \A d \in Clients : ~Unreached(d)'
    <3> TAKE d \in Clients
    <3>1. CASE d = c
      BY <2>2, <3>1 DEF Unreached
    <3>2. CASE d # c
      <4>1. loc'[d].pc = loc[d].pc
        BY <2>2, <3>2
      <4> QED
        BY <2>1, <2>2, <2>3, <4>1, ZenonT(60) DEF Unreached
    <3> QED
      BY <3>1, <3>2
  <2>5. \A d \in Clients : ~(loc'[d].pc = "wait" /\ ~hist'[d].late)
    BY <2>1, <2>2, <2>3 DEF ShutInv
  <2>6. \A d \in Clients : loc'[d].pc # "close" => loc'[d].victim = NoClient
    BY <2>1, <2>2 DEF ShutInv
  <2>7. shutdown'
    BY <2>1, <2>3, Zenon
  <2> QED
    BY <2>4, <2>5, <2>6, <2>7 DEF ShutInv
<1>2. CASE Clean(c)
  <2>1. /\ loc'[c] = [NewLoc EXCEPT !.pc = "closed"] /\ sock'[c] = NewSock /\ hist'[c] = NewHist
    BY <1>2, CleanEffect
  <2>2. /\ loc'[c].pc = "closed" /\ loc'[c].victim = NoClient
    BY <2>1 DEF NewLoc
  <2>3. /\ loc[c].pc = "clean" /\ clients' = clients /\ shutdown' = shutdown
    BY <1>2 DEF Clean, At, server
  <2>4. \A d \in Clients : d # c => loc'[d] = loc[d] /\ sock'[d] = sock[d] /\ hist'[d] = hist[d]
    BY <1>2 DEF Clean, End
  <2>5. loc[c].victim = NoClient
    BY <2>3 DEF ShutInv
  <2>6. \A e \in Clients : loc'[e].victim = loc[e].victim
    BY <2>2, <2>4, <2>5
  <2>7. \A d \in Clients : Unreached(d)' <=> Unreached(d)
    <3> TAKE d \in Clients
    <3>1. CASE d = c
      BY <2>2, <2>3, <3>1 DEF Unreached
    <3>2. CASE d # c
      BY <2>4, <2>6, <3>2 DEF Unreached
    <3> QED
      BY <3>1, <3>2
  <2>8. \A d \in Clients : /\ loc'[d].pc \in ClosingAll => loc[d].pc \in ClosingAll /\ d # c
                           /\ loc[d].pc \in Working \cup ClosingAll => loc'[d].pc \in Working \cup ClosingAll
    BY <2>2, <2>3, <2>4 DEF ClosingAll, Working
  <2>9. /\ \A d \in Clients : loc'[d].pc = "wait" /\ ~hist'[d].late => sock'[d].connected /\ Unreached(d)'
        /\ \A d \in Clients : loc'[d].pc # "close" => loc'[d].victim = NoClient
        /\ \A d \in Clients : ~shutdown' /\ loc'[d].pc \notin {"new", "begin", "closed"} => d \in clients'
    BY <2>2, <2>3, <2>4, <2>7 DEF ShutInv
  <2>10. \A d, e \in Clients : Unreached(d)' /\ loc'[e].pc \in ClosingAll => d \in loc'[e].todo
    BY <2>4, <2>7, <2>8 DEF ShutInv
  <2> QED
    BY <2>3, <2>7, <2>8, <2>9, <2>10 DEF ShutInv
<1> QED
  BY <1>1, <1>2

\* After SHUTDOWN nobody is left in recv() for want of a wake-up, except who suspended
\* between the cancelAll() and the close() of its socket: however the connections and
\* several runs of ShutDownServer() interleave.
THEOREM ShutdownIsSeen == Spec => []ShutdownReachesClients
<1>1. ASSUME Types, ShutInv, [Next]_vars PROVE ShutInv'
  <2>1. CASE UNCHANGED vars
    BY <1>1, <2>1 DEF vars, server, ShutInv, Unreached
  <2>2. ASSUME NEW c \in Clients, Accept(c) \/ Depart(c) \/ Receive(c) \/ Step(c) PROVE ShutInv'
    <3>1. \/ Works(c) \/ Receive(c) \/ Depart(c) \/ Leave(c) \/ Again(c) \/ Accept(c) \/ Begin(c) \/ Top(c)
          \/ Suspend(c) \/ CancelAll(c) \/ CloseClient(c) \/ EndShutDown(c) \/ Clean(c)
      BY <2>2 DEF Step, Works
    <3> QED
      BY <1>1, <3>1, ShutWorks, ShutReads, ShutBegins, ShutTop, ShutSuspends, ShutCancels, ShutCloses, ShutEnds
  <2> QED
    BY <1>1, <2>1, <2>2 DEF Next
<1>2. ShutInv => ShutdownReachesClients
  BY DEF ShutInv, ShutdownReachesClients, At, Working, ClosingAll
<1> QED
  BY <1>1, <1>2, ShutInit, TypesAlways, PTL DEF Spec
=============================================================================
