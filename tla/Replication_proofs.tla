-------------------------- MODULE Replication_proofs --------------------------
(***************************************************************************)
(* Proofs about Replication: the end of a replication, and that the        *)
(* replica copies the log of its master, for any number of clients,        *)
(* shards, workers, writes, retries and stops.                             *)
(***************************************************************************)
EXTENDS Replication, FiniteSetTheorems, WellFoundedInduction, TLAPS

Ended == thread \in {"off", "gaveup"}

\* Why a stopped replica stays stopped: the flag is set before a handler waits for
\* anybody and cleared only by the start of another replication, and while it is set
\* the connection is closed and the thread, the consumer and the queue only come to
\* their end: what is left of one has a handler that still waits for it. Handlers that
\* do not overtake each other come one at a time.
Places == {"idle", "join", "wait", "clear", "store"}
StopInv ==
  /\ admin \in [Handlers -> Places] /\ stop \in BOOLEAN /\ overtaken \in BOOLEAN
  /\ stop => ~up
  /\ \A h \in Handlers : admin[h] = "join" => stop
  /\ stop /\ ~Ended => \E h \in Handlers : admin[h] = "join"
  /\ stop /\ consumer # "off" => \E h \in Handlers : admin[h] \in {"join", "wait"}
  /\ stop /\ queue # <<>> => \E h \in Handlers : admin[h] \in {"join", "wait", "clear"}
  /\ ~overtaken =>
       /\ isMaster => stop /\ \A h \in Handlers : admin[h] = "idle"
       /\ \A h \in Handlers : admin[h] # "idle" => stop
       /\ \A g, h \in Handlers : admin[g] # "idle" /\ admin[h] # "idle" => g = h

LEMMA StopInit == Init => StopInv
BY DEF Init, StopInv, Ended, Places

LEMMA MasterStop ==
  ASSUME StopInv, MasterStep \/ LinkDown \/ \E c \in Clients : Issue(c) \/ ExecuteWrite(c)
  PROVE  StopInv'
<1>1. UNCHANGED <<thread, consumer, queue, adminVars>> /\ (up' => up)
  <2>1. CASE SendElement \/ SendPart \/ NextShard \/ SendEOF \/ SendFails
    BY <2>1 DEF SendElement, SendPart, NextShard, SendEOF, SendFails, replicaVars
  <2>2. CASE handleSYNC
    BY <2>2, Zenon DEF handleSYNC, replicaVars
  <2>3. CASE LinkDown
    BY <2>3 DEF LinkDown, Close, replicaVars
  <2>4. CASE \E c \in Clients : Issue(c)
    BY <2>4 DEF Issue, replicaVars
  <2>5. CASE \E c \in Clients : ExecuteWrite(c)
    <3>1. UNCHANGED <<log, slave, snap, syncing, up, wire, replicaVars, adminVars>>
      BY <2>5, Zenon DEF ExecuteWrite
    <3> QED
      BY <3>1 DEF replicaVars
  <2> QED
    BY <2>1, <2>2, <2>3, <2>4, <2>5 DEF MasterStep
<1> QED
  BY <1>1 DEF adminVars, StopInv, Ended

LEMMA ThreadStop == ASSUME StopInv, ThreadStep PROVE StopInv'
<1>1. CASE GiveUp \/ Connect
  BY <1>1 DEF GiveUp, Connect, adminVars, StopInv, Ended
<1>2. CASE LoadCommand
  BY <1>2 DEF LoadCommand, adminVars, StopInv, Ended
<1>3. CASE FinishTransfer
  BY <1>3 DEF FinishTransfer, adminVars, StopInv, Ended
<1>4. CASE EndsEarly
  BY <1>4 DEF EndsEarly, adminVars, StopInv, Ended
<1>5. CASE Enqueue
  BY <1>5 DEF Enqueue, adminVars, StopInv, Ended
<1>6. CASE Disconnected
  BY <1>6 DEF Disconnected, Close, adminVars, StopInv, Ended
<1>7. CASE ThreadEnds
  BY <1>7 DEF ThreadEnds, Close, adminVars, StopInv, Ended
<1> QED
  BY <1>1, <1>2, <1>3, <1>4, <1>5, <1>6, <1>7 DEF ThreadStep

LEMMA ConsumerStop == ASSUME StopInv, ConsumerStep PROVE StopInv'
BY DEF ConsumerStep, ConsumerStarts, Consume, ConsumerEnds, adminVars, StopInv, Ended

LEMMA HandlerStop ==
  ASSUME StopInv, NEW h \in Handlers, HandlerStep(h) \/ StopReplication(h) \/ StopAgain(h)
  PROVE  StopInv'
<1> USE DEF StopInv, Ended, Places
<1>1. CASE JoinThread(h)
  BY <1>1 DEF JoinThread, replicaVars
<1>2. CASE SeeConsumerEnd(h)
  BY <1>2 DEF SeeConsumerEnd, replicaVars
<1>3. CASE Stopped(h)
  BY <1>3 DEF Stopped
<1>4. CASE BecomeMaster(h)
  BY <1>4 DEF BecomeMaster, replicaVars
<1>5. CASE StopReplication(h)
  BY <1>5 DEF StopReplication, Close, replicaVars
<1>6. CASE StopAgain(h)
  BY <1>6 DEF StopAgain, replicaVars
<1> QED
  BY <1>1, <1>2, <1>3, <1>4, <1>5, <1>6 DEF HandlerStep

LEMMA StartStop == ASSUME StopInv, handleREPLICAOF \/ handleSLAVEOF \/ RaceForThread PROVE StopInv'
<1>1. CASE RaceForThread
  BY <1>1 DEF RaceForThread, replicaVars, StopInv, Ended
<1>2. CASE handleREPLICAOF
  <2>1. \A h \in Handlers : admin[h] # "join"
    BY <1>2 DEF handleREPLICAOF, At
  <2> QED
    BY <1>2, <2>1 DEF handleREPLICAOF, startReplication, StopInv, Ended
<1> QED
  BY <1>1, <1>2 DEF handleSLAVEOF

LEMMA StopNext == ASSUME StopInv, [Next]_vars PROVE StopInv'
<1>1. CASE UNCHANGED vars
  BY <1>1 DEF vars, replicaVars, adminVars, StopInv, Ended
<1> QED
  BY <1>1, MasterStop, ThreadStop, ConsumerStop, HandlerStop, StartStop DEF Next

LEMMA StopAlways == Spec => []StopInv
<1>1. StopInv /\ [Next]_vars => StopInv'
  BY StopNext
<1> QED
  BY <1>1, StopInit, PTL DEF Spec

\* stopReplication(): once the flags are set and every handler of REPLICAOF NO ONE has
\* returned, also one that overtook another, the replication thread and the consumer
\* have ended and the queue is empty; handlers that did not overtake each other make
\* the server a master only then.
THEOREM StopIsClean == Spec => []NothingAppliedAfterStop
<1>1. StopInv => NothingAppliedAfterStop
  BY DEF StopInv, Ended, NothingAppliedAfterStop, At
<1> QED
  BY <1>1, StopAlways, PTL

\* A server that is a master, and whose handlers did not overtake each other, takes
\* nothing from another one: its lists change by no step of the replication.
MasterKeepsData == isMaster /\ ~overtaken => UNCHANGED copy

\* replicationLoop() and processReplQueue() change the data only between REPLICAOF
\* host port and the return of the REPLICAOF NO ONE that stops it.
THEOREM MasterIsNotWritten == Spec => [][MasterKeepsData]_vars
<1>1. ASSUME StopInv, [Next]_vars PROVE MasterKeepsData
  <2> SUFFICES ASSUME isMaster, ~overtaken PROVE copy' = copy
    BY DEF MasterKeepsData
  <2>1. thread \in {"off", "gaveup"} /\ consumer = "off"
    BY <1>1 DEF StopInv, Ended
  <2>2. CASE MasterStep \/ LinkDown \/ \E c \in Clients : Issue(c) \/ ExecuteWrite(c)
    BY <2>2 DEF MasterStep, SendElement, SendPart, NextShard, SendEOF, SendFails, handleSYNC, LinkDown, Issue,
                ExecuteWrite, replicaVars
  <2>3. CASE ThreadStep
    BY <2>1, <2>3 DEF ThreadStep, GiveUp, Connect, LoadCommand, FinishTransfer, EndsEarly, Enqueue, Disconnected,
                      ThreadEnds
  <2>4. CASE ConsumerStep
    BY <2>1, <2>4 DEF ConsumerStep, ConsumerStarts, Consume, ConsumerEnds
  <2>5. CASE \E h \in Handlers : HandlerStep(h) \/ StopReplication(h) \/ StopAgain(h)
    BY <2>5 DEF HandlerStep, JoinThread, SeeConsumerEnd, Stopped, BecomeMaster, StopReplication, StopAgain, replicaVars
  <2>6. CASE handleREPLICAOF \/ handleSLAVEOF \/ RaceForThread \/ UNCHANGED vars
    BY <2>6 DEF handleREPLICAOF, handleSLAVEOF, RaceForThread, vars, replicaVars
  <2> QED
    BY <1>1, <2>2, <2>3, <2>4, <2>5, <2>6 DEF Next
<1> QED
  BY <1>1, StopAlways, PTL DEF Spec

-----------------------------------------------------------------------------
(* The least element of a set of numbers, for what needs an induction. *)

Less == {ss \in Nat \X Nat : ss[1] < ss[2]}

LEMMA LessWF == IsWellFoundedOn(Less, Nat)
BY NatLessThanWellFounded, Zenon DEF OpToRel, Less

LEMMA LessIs == \A x, y \in Nat : x < y => <<x, y>> \in Less
BY DEF Less

LEMMA Least == ASSUME NEW T, T \subseteq Nat, T # {} PROVE \E x \in T : \A y \in T : x <= y
<1>1. PICK x \in T : \A y \in T : ~(<<y, x>> \in Less)
  BY LessWF, WFMin
<1>2. \A y \in T : ~(y < x)
  BY <1>1, LessIs, Zenon
<1> QED
  BY <1>2

-----------------------------------------------------------------------------
(* Sequences, and FlattenSeq, whose definition is a recursive function. *)

LEMMA PieceIs ==
  ASSUME NEW S, NEW s \in Seq(S), NEW m \in 1 .. Len(s) + 1, NEW n \in m - 1 .. Len(s)
  PROVE  LET q == SubSeq(s, m, n)
         IN q \in Seq(S) /\ Len(q) = n - m + 1 /\ \A i \in 1 .. n - m + 1 : q[i] = s[m + i - 1]
OBVIOUS

LEMMA JoinIs ==
  ASSUME NEW S, NEW a \in Seq(S), NEW b \in Seq(S)
  PROVE  /\ a \o b \in Seq(S) /\ Len(a \o b) = Len(a) + Len(b)
         /\ \A i \in 1 .. Len(a) + Len(b) : (a \o b)[i] = IF i <= Len(a) THEN a[i] ELSE b[i - Len(a)]
OBVIOUS

LEMMA SameSeq ==
  ASSUME NEW S, NEW a \in Seq(S), NEW b \in Seq(S), Len(a) = Len(b), \A i \in 1 .. Len(a) : a[i] = b[i]
  PROVE  a = b
OBVIOUS

LEMMA AppendIs ==
  ASSUME NEW S, NEW b \in Seq(S), NEW a \in Seq(S), NEW x \in S, Len(b) = Len(a) + 1,
         \A i \in 1 .. Len(a) : b[i] = a[i], b[Len(b)] = x
  PROVE  b = Append(a, x)
OBVIOUS

Associates(a, b, c) == (a \o b) \o c = a \o (b \o c)

LEMMA JoinAssoc ==
  ASSUME NEW S, NEW a \in Seq(S), NEW b \in Seq(S), NEW c \in Seq(S) PROVE Associates(a, b, c)
BY DEF Associates

LEMMA JoinEmpty == ASSUME NEW S, NEW a \in Seq(S) PROVE a \o <<>> = a /\ <<>> \o a = a
OBVIOUS

Flat(f, ss, n) == f = [i \in 1 .. n |-> IF i = 1 THEN ss[i] ELSE f[i - 1] \o ss[i]]

LEMMA FlatExists ==
  ASSUME NEW S, NEW ss \in Seq(Seq(S)), NEW m \in 0 .. Len(ss) PROVE \E f : Flat(f, ss, m)
<1> DEFINE T == {n \in 0 .. Len(ss) : ~\E f : Flat(f, ss, n)}
<1> SUFFICES ASSUME T # {} PROVE FALSE
  OBVIOUS
<1>1. T \subseteq Nat
  OBVIOUS
<1>2. PICK n \in T : \A k \in T : n <= k
  BY <1>1, Least, Zenon
<1>3. n \in 0 .. Len(ss) /\ ~\E f : Flat(f, ss, n)
  OBVIOUS
<1>4. n # 0
  <2>1. Flat(<<>>, ss, 0)
    BY DEF Flat
  <2> QED
    BY <1>3, <2>1
<1>5. n - 1 \in 0 .. Len(ss) /\ n - 1 \notin T
  <2>1. n - 1 \in 0 .. Len(ss) /\ ~(n <= n - 1)
    BY <1>3, <1>4
  <2> HIDE DEF T
  <2> QED
    BY <1>2, <2>1
<1>6. PICK f : Flat(f, ss, n - 1)
  BY <1>5
<1> DEFINE g == [i \in 1 .. n |-> IF i = n THEN (IF n = 1 THEN ss[n] ELSE f[n - 1] \o ss[n]) ELSE f[i]]
<1>7. \A i \in 1 .. n : g[i] = IF i = 1 THEN ss[i] ELSE g[i - 1] \o ss[i]
  <2> SUFFICES ASSUME NEW i \in 1 .. n PROVE g[i] = IF i = 1 THEN ss[i] ELSE g[i - 1] \o ss[i]
    OBVIOUS
  <2>1. CASE i = n
    <3>1. n # 1 => n - 1 \in 1 .. n /\ n - 1 # n
      BY <1>3
    <3> QED
      BY <2>1, <3>1
  <2>2. CASE i # n
    <3>1. i \in 1 .. n - 1 /\ (i # 1 => i - 1 \in 1 .. n - 1 /\ i - 1 \in 1 .. n /\ i - 1 # n)
      BY <1>3, <2>2
    <3>2. f[i] = IF i = 1 THEN ss[i] ELSE f[i - 1] \o ss[i]
      BY <1>6, <3>1 DEF Flat
    <3> QED
      BY <2>2, <3>1, <3>2
  <2> QED
    BY <2>1, <2>2
<1>8. g = [i \in 1 .. n |-> IF i = 1 THEN ss[i] ELSE g[i - 1] \o ss[i]]
  <2>1. DOMAIN g = 1 .. n /\ g = [i \in 1 .. n |-> g[i]]
    OBVIOUS
  <2> HIDE DEF g
  <2> QED
    BY <1>7, <2>1
<1> QED
  BY <1>3, <1>8 DEF Flat

FlatSteps(f, ss, n, S) ==
  \A i \in 1 .. n : f[i] \in Seq(S) /\ (i = 1 => f[i] = ss[i]) /\ (i # 1 => f[i] = f[i - 1] \o ss[i])

LEMMA FlatIs ==
  ASSUME NEW S, NEW ss \in Seq(Seq(S)), NEW n \in 1 .. Len(ss), NEW f, Flat(f, ss, n)
  PROVE  FlatSteps(f, ss, n, S)
<1>1. \A i \in 1 .. n : f[i] = IF i = 1 THEN ss[i] ELSE f[i - 1] \o ss[i]
  BY DEF Flat
<1> DEFINE T == {i \in 1 .. n : f[i] \notin Seq(S)}
<1> SUFFICES ASSUME T # {} PROVE FALSE
  BY <1>1 DEF FlatSteps
<1>2. T \subseteq Nat
  OBVIOUS
<1>3. PICK x \in T : \A y \in T : x <= y
  BY <1>2, Least, Zenon
<1>4. x \in 1 .. n /\ f[x] \notin Seq(S) /\ ss[x] \in Seq(S)
  OBVIOUS
<1>5. x # 1
  BY <1>1, <1>4
<1>6. x - 1 \in 1 .. n /\ x - 1 \notin T
  BY <1>3, <1>4, <1>5
<1>7. f[x - 1] \in Seq(S)
  BY <1>6
<1>8. f[x] = f[x - 1] \o ss[x]
  BY <1>1, <1>4, <1>5
<1> QED
  BY <1>4, <1>7, <1>8

LEMMA FlattenIs ==
  ASSUME NEW S, NEW ss \in Seq(Seq(S)), Len(ss) # 0
  PROVE  \E f : Flat(f, ss, Len(ss)) /\ FlattenSeq(ss) = f[Len(ss)]
<1> DEFINE g == CHOOSE f : Flat(f, ss, Len(ss))
<1>1. Flat(g, ss, Len(ss))
  BY FlatExists
<1>2. FlattenSeq(ss) = g[Len(ss)]
  BY DEF FlattenSeq, Flat
<1> QED
  BY <1>1, <1>2

LEMMA FlattenType == ASSUME NEW S, NEW ss \in Seq(Seq(S)) PROVE FlattenSeq(ss) \in Seq(S)
<1>1. CASE Len(ss) = 0
  BY <1>1 DEF FlattenSeq
<1>2. CASE Len(ss) # 0
  <2>1. PICK f : Flat(f, ss, Len(ss)) /\ FlattenSeq(ss) = f[Len(ss)]
    BY <1>2, FlattenIs
  <2>2. Len(ss) \in 1 .. Len(ss)
    BY <1>2
  <2>3. FlatSteps(f, ss, Len(ss), S)
    BY <2>1, <2>2, FlatIs, Zenon
  <2> QED
    BY <2>1, <2>2, <2>3 DEF FlatSteps
<1> QED
  BY <1>1, <1>2

LEMMA FlattenNone == FlattenSeq(<<>>) = <<>>
BY DEF FlattenSeq

LEMMA FlattenAppend ==
  ASSUME NEW S, NEW ss \in Seq(Seq(S)), NEW x \in Seq(S)
  PROVE  FlattenSeq(Append(ss, x)) = FlattenSeq(ss) \o x
<1> DEFINE n == Len(ss)
           tt == Append(ss, x)
<1>1. tt \in Seq(Seq(S)) /\ Len(tt) = n + 1 /\ n \in Nat /\ tt[n + 1] = x /\ \A i \in 1 .. n : tt[i] = ss[i]
  OBVIOUS
<1> HIDE DEF tt
<1>2. PICK g : Flat(g, tt, n + 1) /\ FlattenSeq(tt) = g[n + 1]
  BY <1>1, FlattenIs
<1>3. \A i \in 1 .. n + 1 : g[i] \in Seq(S) /\ (i = 1 => g[i] = tt[i]) /\ (i # 1 => g[i] = g[i - 1] \o tt[i])
  <2> DEFINE k == n + 1
  <2>1. k \in 1 .. Len(tt)
    BY <1>1
  <2>2. tt \in Seq(Seq(S)) /\ Flat(g, tt, k)
    BY <1>1, <1>2
  <2> HIDE DEF k
  <2>3. FlatSteps(g, tt, k, S)
    BY <2>1, <2>2, FlatIs, Zenon
  <2> QED
    BY <2>3 DEF k, FlatSteps
<1>4. CASE n = 0
  <2>1. g[1] = x /\ ss = <<>>
    BY <1>1, <1>3, <1>4
  <2>2. FlattenSeq(ss) = <<>>
    BY <2>1, FlattenNone
  <2> QED
    BY <1>2, <1>4, <2>1, <2>2 DEF tt
<1>5. CASE n # 0
  <2>1. PICK f : Flat(f, ss, n) /\ FlattenSeq(ss) = f[n]
    BY <1>5, FlattenIs
  <2>2. \A i \in 1 .. n : f[i] \in Seq(S) /\ (i = 1 => f[i] = ss[i]) /\ (i # 1 => f[i] = f[i - 1] \o ss[i])
    <3>1. n \in 1 .. Len(ss)
      BY <1>1, <1>5
    <3>2. FlatSteps(f, ss, n, S)
      BY <2>1, <3>1, FlatIs, Zenon
    <3> QED
      BY <3>2 DEF FlatSteps
  <2>3. \A i \in 1 .. n : g[i] = f[i]
    <3> DEFINE T == {i \in 1 .. n : g[i] # f[i]}
    <3> SUFFICES ASSUME T # {} PROVE FALSE
      OBVIOUS
    <3>1. T \subseteq Nat
      OBVIOUS
    <3>2. PICK y \in T : \A z \in T : y <= z
      BY <3>1, Least, Zenon
    <3>3. y \in 1 .. n /\ y \in 1 .. n + 1 /\ g[y] # f[y]
      BY <1>1
    <3>4. y # 1
      BY <1>1, <1>3, <2>2, <3>3
    <3>5. y - 1 \in 1 .. n /\ y - 1 \notin T
      BY <1>1, <3>2, <3>3, <3>4
    <3>6. g[y - 1] = f[y - 1] /\ tt[y] = ss[y]
      BY <1>1, <3>3, <3>5
    <3>7. g[y] = g[y - 1] \o tt[y] /\ f[y] = f[y - 1] \o ss[y]
      BY <1>3, <2>2, <3>3, <3>4
    <3> QED
      BY <3>3, <3>6, <3>7
  <2>4. g[n + 1] = g[(n + 1) - 1] \o tt[n + 1] /\ (n + 1) - 1 = n /\ n \in 1 .. n
    <3>1. n + 1 \in 1 .. n + 1 /\ n + 1 # 1 /\ (n + 1) - 1 = n /\ n \in 1 .. n
      BY <1>1, <1>5
    <3> QED
      BY <1>3, <3>1
  <2> QED
    BY <1>1, <1>2, <2>1, <2>3, <2>4 DEF tt
<1> QED
  BY <1>4, <1>5

LEMMA FlattenJoin ==
  ASSUME NEW S, NEW a \in Seq(Seq(S)), NEW b \in Seq(Seq(S))
  PROVE  FlattenSeq(a \o b) = FlattenSeq(a) \o FlattenSeq(b)
<1> DEFINE B(n) == SubSeq(b, 1, n)
           P(n) == FlattenSeq(a \o B(n)) = FlattenSeq(a) \o FlattenSeq(B(n))
           T == {n \in 0 .. Len(b) : ~P(n)}
<1>0. FlattenSeq(a) \in Seq(S)
  BY FlattenType
<1>1. P(0)
  <2>1. B(0) = <<>> /\ a \o <<>> = a
    OBVIOUS
  <2>2. FlattenSeq(a) \o <<>> = FlattenSeq(a)
    BY <1>0
  <2> QED
    BY <2>1, <2>2, FlattenNone
<1>2. ASSUME NEW n \in 0 .. Len(b), n # 0, P(n - 1) PROVE P(n)
  <2>1. /\ B(n - 1) \in Seq(Seq(S)) /\ b[n] \in Seq(S)
        /\ B(n) = Append(B(n - 1), b[n]) /\ a \o B(n) = Append(a \o B(n - 1), b[n]) /\ a \o B(n - 1) \in Seq(Seq(S))
    <3>1. B(n - 1) \in Seq(Seq(S)) /\ b[n] \in Seq(S) /\ B(n) = Append(B(n - 1), b[n])
      BY <1>2
    <3> HIDE DEF B
    <3> DEFINE c == B(n - 1)
               x == b[n]
    <3>2. c \in Seq(Seq(S)) /\ x \in Seq(S)
      BY <3>1
    <3> HIDE DEF c, x
    <3>3. a \o Append(c, x) = Append(a \o c, x) /\ a \o c \in Seq(Seq(S))
      BY <3>2
    <3> QED
      BY <3>1, <3>3 DEF c, x
  <2> HIDE DEF B
  <2>2. FlattenSeq(B(n)) = FlattenSeq(B(n - 1)) \o b[n] /\ FlattenSeq(a \o B(n)) = FlattenSeq(a \o B(n - 1)) \o b[n]
    BY <2>1, FlattenAppend
  <2>3. FlattenSeq(B(n - 1)) \in Seq(S)
    BY <2>1, FlattenType
  <2>4. (FlattenSeq(a) \o FlattenSeq(B(n - 1))) \o b[n] = FlattenSeq(a) \o (FlattenSeq(B(n - 1)) \o b[n])
    <3> DEFINE u == FlattenSeq(a)
               v == FlattenSeq(B(n - 1))
               w == b[n]
    <3>1. u \in Seq(S) /\ v \in Seq(S) /\ w \in Seq(S)
      BY <1>0, <2>1, <2>3
    <3> HIDE DEF u, v, w
    <3>2. (u \o v) \o w = u \o (v \o w)
      BY <3>1
    <3> QED
      BY <3>2 DEF u, v, w
  <2> QED
    BY <1>2, <2>2, <2>4
<1> HIDE DEF P
<1>3. T = {}
  <2> SUFFICES ASSUME T # {} PROVE FALSE
    OBVIOUS
  <2>1. T \subseteq Nat
    OBVIOUS
  <2>2. PICK n \in T : \A k \in T : n <= k
    BY <2>1, Least, Zenon
  <2>3. n \in 0 .. Len(b) /\ n # 0 /\ ~P(n)
    BY <1>1
  <2>4. n - 1 \in 0 .. Len(b) /\ n - 1 \notin T
    BY <2>2, <2>3
  <2> QED
    BY <1>2, <2>3, <2>4
<1>4. P(Len(b))
  BY <1>3
<1>5. B(Len(b)) = b
  OBVIOUS
<1> QED
  BY <1>4, <1>5 DEF P

LEMMA FlattenOne == ASSUME NEW S, NEW x \in Seq(S) PROVE FlattenSeq(<<x>>) = x
<1>1. <<x>> = Append(<<>>, x) /\ <<>> \in Seq(Seq(S)) /\ <<>> \o x = x
  OBVIOUS
<1> QED
  BY <1>1, FlattenAppend, FlattenNone

-----------------------------------------------------------------------------
(* What commands push, and what the replica holds of the lists: in its copy, in  *)
(* the queue and on the wire, one behind the other.                              *)

Ids == Nat \ {0}
Msgs == [shard : Int, id : Int]

PushOf(s, m) == IF m.shard = s /\ m.id > 0 THEN <<m.id>> ELSE <<>>
Pieces(s, ms) == [i \in 1 .. Len(ms) |-> PushOf(s, ms[i])]

LEMMA PushOfType ==
  ASSUME NEW s, NEW m \in Msgs PROVE PushOf(s, m) \in Seq(Ids) /\ (m.id <= 0 => PushOf(s, m) = <<>>)
<1>1. m.id \in Int
  BY DEF Msgs
<1>2. <<>> \in Seq(Ids)
  OBVIOUS
<1>3. CASE m.shard = s /\ m.id > 0
  <2>1. m.id \in Ids
    BY <1>1, <1>3 DEF Ids
  <2>2. <<m.id>> \in Seq(Ids)
    BY <2>1
  <2> QED
    BY <1>1, <1>3, <2>2 DEF PushOf
<1>4. CASE ~(m.shard = s /\ m.id > 0)
  BY <1>2, <1>4, Zenon DEF PushOf
<1> QED
  BY <1>3, <1>4

LEMMA PiecesIs ==
  ASSUME NEW s, NEW ms \in Seq(Msgs)
  PROVE  Pieces(s, ms) \in Seq(Seq(Ids)) /\ Len(Pieces(s, ms)) = Len(ms)
<1>1. ASSUME NEW i \in 1 .. Len(ms) PROVE PushOf(s, ms[i]) \in Seq(Ids)
  <2>1. ms[i] \in Msgs
    OBVIOUS
  <2> QED
    BY <2>1, PushOfType, Zenon
<1>2. Len(ms) \in Nat
  OBVIOUS
<1> QED
  BY <1>1, <1>2 DEF Pieces

LEMMA PushesAre == ASSUME NEW s, NEW ms PROVE Pushes(s, ms) = FlattenSeq(Pieces(s, ms))
BY DEF Pushes, Pieces, PushOf

LEMMA PushesType == ASSUME NEW s, NEW ms \in Seq(Msgs) PROVE Pushes(s, ms) \in Seq(Ids)
BY PiecesIs, PushesAre, FlattenType

LEMMA PushesNone == ASSUME NEW s PROVE Pushes(s, <<>>) = <<>>
<1>1. Pieces(s, <<>>) = <<>>
  BY DEF Pieces
<1> QED
  BY <1>1, PushesAre, FlattenNone

LEMMA PushesOne == ASSUME NEW s, NEW m \in Msgs PROVE Pushes(s, <<m>>) = PushOf(s, m)
<1>1. Pieces(s, <<m>>) = <<PushOf(s, m)>>
  BY DEF Pieces
<1>2. PushOf(s, m) \in Seq(Ids)
  BY PushOfType
<1> QED
  BY <1>1, <1>2, PushesAre, FlattenOne

PushesSplit(s, a, b) == Pushes(s, a \o b) = Pushes(s, a) \o Pushes(s, b)

LEMMA PushesJoin ==
  ASSUME NEW s, NEW a \in Seq(Msgs), NEW b \in Seq(Msgs) PROVE PushesSplit(s, a, b)
<1> DEFINE p == Pieces(s, a)
           q == Pieces(s, b)
           r == Pieces(s, a \o b)
<1>1. /\ a \o b \in Seq(Msgs) /\ Len(a \o b) = Len(a) + Len(b) /\ Len(a) \in Nat /\ Len(b) \in Nat
      /\ \A i \in 1 .. Len(a) + Len(b) : (a \o b)[i] = IF i <= Len(a) THEN a[i] ELSE b[i - Len(a)]
  BY JoinIs
<1>2. /\ p \in Seq(Seq(Ids)) /\ Len(p) = Len(a) /\ q \in Seq(Seq(Ids)) /\ Len(q) = Len(b)
      /\ r \in Seq(Seq(Ids)) /\ Len(r) = Len(a) + Len(b)
  BY <1>1, PiecesIs
<1>3. \A i \in 1 .. Len(a) + Len(b) : r[i] = IF i <= Len(a) THEN p[i] ELSE q[i - Len(a)]
  <2> SUFFICES ASSUME NEW i \in 1 .. Len(a) + Len(b) PROVE r[i] = IF i <= Len(a) THEN p[i] ELSE q[i - Len(a)]
    OBVIOUS
  <2>1. r[i] = PushOf(s, (a \o b)[i])
    BY <1>1 DEF Pieces
  <2>2. CASE i <= Len(a)
    <3>1. i \in 1 .. Len(a)
      BY <1>1, <2>2
    <3>2. p[i] = PushOf(s, a[i])
      BY <3>1 DEF Pieces
    <3> QED
      BY <1>1, <2>1, <2>2, <3>2
  <2>3. CASE ~(i <= Len(a))
    <3>1. i - Len(a) \in 1 .. Len(b)
      BY <1>1, <2>3
    <3>2. q[i - Len(a)] = PushOf(s, b[i - Len(a)])
      BY <3>1 DEF Pieces
    <3> QED
      BY <1>1, <2>1, <2>3, <3>2
  <2> QED
    BY <2>2, <2>3
<1> HIDE DEF p, q, r
<1>4. r = p \o q
  <2>1. /\ p \o q \in Seq(Seq(Ids)) /\ Len(p \o q) = Len(p) + Len(q)
        /\ \A i \in 1 .. Len(p) + Len(q) : (p \o q)[i] = IF i <= Len(p) THEN p[i] ELSE q[i - Len(p)]
    <3> DEFINE S == Seq(Ids)
    <3>1. p \in Seq(S) /\ q \in Seq(S)
      BY <1>2
    <3> HIDE DEF S
    <3>2. /\ p \o q \in Seq(S) /\ Len(p \o q) = Len(p) + Len(q)
          /\ \A i \in 1 .. Len(p) + Len(q) : (p \o q)[i] = IF i <= Len(p) THEN p[i] ELSE q[i - Len(p)]
      BY <3>1, JoinIs
    <3> QED
      BY <3>2 DEF S
  <2>2. \A i \in 1 .. Len(r) : r[i] = (p \o q)[i]
    BY <1>2, <1>3, <2>1
  <2> DEFINE v == p \o q
  <2>3. v \in Seq(Seq(Ids)) /\ Len(r) = Len(v) /\ \A i \in 1 .. Len(r) : r[i] = v[i]
    BY <1>2, <2>1, <2>2
  <2> HIDE DEF v
  <2>4. r = v
    BY <1>2, <2>3, SameSeq
  <2> QED
    BY <2>4 DEF v
<1>5. FlattenSeq(r) = FlattenSeq(p) \o FlattenSeq(q)
  BY <1>2, <1>4, FlattenJoin
<1> QED
  BY <1>5, PushesAre DEF p, q, r, PushesSplit

Held(c, q, w) == [s \in ShardSet |-> c[s] \o (Pushes(s, q) \o Pushes(s, w))]
Lists == [ShardSet -> Seq(Ids)]

LEMMA HeldType ==
  ASSUME NEW c \in Lists, NEW q \in Seq(Msgs), NEW w \in Seq(Msgs) PROVE Held(c, q, w) \in Lists
<1> SUFFICES ASSUME NEW s \in ShardSet PROVE c[s] \o (Pushes(s, q) \o Pushes(s, w)) \in Seq(Ids)
  BY DEF Held, Lists
<1> DEFINE a == Pushes(s, q)
           b == Pushes(s, w)
           d == a \o b
<1>1. a \in Seq(Ids) /\ b \in Seq(Ids) /\ c[s] \in Seq(Ids)
  BY PushesType DEF Lists
<1> HIDE DEF a, b
<1>2. d \in Seq(Ids)
  BY <1>1, JoinIs
<1> HIDE DEF d
<1>3. c[s] \o d \in Seq(Ids)
  BY <1>1, <1>2, JoinIs
<1> QED
  BY <1>3 DEF a, b, d

\* A command that arrives at the end, and one that moves on.
LEMMA HeldSend ==
  ASSUME NEW c \in Lists, NEW q \in Seq(Msgs), NEW w \in Seq(Msgs), NEW m \in Msgs, NEW s \in ShardSet
  PROVE  Held(c, q, Append(w, m))[s] = Held(c, q, w)[s] \o PushOf(s, m)
<1> DEFINE a == Pushes(s, q)
           b == Pushes(s, w)
           d == PushOf(s, m)
<1>1. a \in Seq(Ids) /\ b \in Seq(Ids) /\ c[s] \in Seq(Ids) /\ d \in Seq(Ids)
  BY PushesType, PushOfType DEF Lists
<1>2. Append(w, m) = w \o <<m>> /\ <<m>> \in Seq(Msgs)
  OBVIOUS
<1>3. Pushes(s, Append(w, m)) = b \o d
  <2>1. PushesSplit(s, w, <<m>>) /\ Pushes(s, <<m>>) = d
    BY <1>2, PushesJoin, PushesOne
  <2> QED
    BY <1>2, <2>1 DEF PushesSplit
<1> HIDE DEF a, b, d
<1>4. c[s] \o (a \o (b \o d)) = (c[s] \o (a \o b)) \o d
  <2>1. a \o b \in Seq(Ids)
    BY <1>1, JoinIs
  <2>2. Associates(c[s], a \o b, d) /\ Associates(a, b, d)
    BY <1>1, <2>1, JoinAssoc, Zenon
  <2> QED
    BY <2>2, Zenon DEF Associates
<1> QED
  BY <1>3, <1>4, Zenon DEF Held, a, b, d

LEMMA HeldEnqueue ==
  ASSUME NEW c \in Lists, NEW q \in Seq(Msgs), NEW m \in Msgs, NEW w \in Seq(Msgs)
  PROVE  Held(c, Append(q, m), w) = Held(c, q, <<m>> \o w)
<1> SUFFICES ASSUME NEW s \in ShardSet
             PROVE  Pushes(s, Append(q, m)) \o Pushes(s, w) = Pushes(s, q) \o Pushes(s, <<m>> \o w)
  BY Zenon DEF Held
<1> DEFINE a == Pushes(s, q)
           b == Pushes(s, <<m>>)
           d == Pushes(s, w)
<1>0. <<m>> \in Seq(Msgs) /\ Append(q, m) = q \o <<m>>
  OBVIOUS
<1>1. a \in Seq(Ids) /\ b \in Seq(Ids) /\ d \in Seq(Ids)
  BY <1>0, PushesType
<1>2. PushesSplit(s, q, <<m>>) /\ PushesSplit(s, <<m>>, w)
  BY <1>0, PushesJoin, Zenon
<1>3. Pushes(s, Append(q, m)) = a \o b /\ Pushes(s, <<m>> \o w) = b \o d
  BY <1>0, <1>2, Zenon DEF PushesSplit
<1> HIDE DEF a, b, d
<1>4. Associates(a, b, d)
  BY <1>1, JoinAssoc, Zenon
<1> QED
  BY <1>3, <1>4, Zenon DEF Associates, a, d

LEMMA HeldSkip ==
  ASSUME NEW c, NEW q, NEW m \in Msgs, NEW w \in Seq(Msgs), m.id <= 0
  PROVE  Held(c, q, <<m>> \o w) = Held(c, q, w)
<1> SUFFICES ASSUME NEW s \in ShardSet PROVE Pushes(s, <<m>> \o w) = Pushes(s, w)
  BY Zenon DEF Held
<1>1. <<m>> \in Seq(Msgs)
  OBVIOUS
<1>2. PushesSplit(s, <<m>>, w)
  BY <1>1, PushesJoin, Zenon
<1>3. Pushes(s, <<m>>) = <<>>
  BY PushesOne, PushOfType
<1>4. <<>> \o Pushes(s, w) = Pushes(s, w)
  BY PushesType, JoinEmpty
<1> QED
  BY <1>2, <1>3, <1>4, Zenon DEF PushesSplit

\* The commands ms are executed: out of the queue, or from the wire while the queue
\* is empty.
LEMMA AppliedType ==
  ASSUME NEW c \in Lists, NEW ms \in Seq(Msgs)
  PROVE  Apply(c, ms) \in Lists
<1> SUFFICES ASSUME NEW s \in ShardSet PROVE c[s] \o Pushes(s, ms) \in Seq(Ids)
  BY DEF Apply, Lists
<1> DEFINE a == Pushes(s, ms)
<1>1. a \in Seq(Ids) /\ c[s] \in Seq(Ids)
  BY PushesType DEF Lists
<1> HIDE DEF a
<1>2. c[s] \o a \in Seq(Ids)
  BY <1>1, JoinIs
<1> QED
  BY <1>2 DEF a

LEMMA HeldConsume ==
  ASSUME NEW c \in Lists, NEW ms \in Seq(Msgs), NEW q \in Seq(Msgs), NEW w \in Seq(Msgs)
  PROVE  Held(Apply(c, ms), q, w) = Held(c, ms \o q, w)
<1> SUFFICES ASSUME NEW s \in ShardSet
             PROVE  (c[s] \o Pushes(s, ms)) \o (Pushes(s, q) \o Pushes(s, w))
                      = c[s] \o (Pushes(s, ms \o q) \o Pushes(s, w))
  BY Zenon DEF Held, Apply
<1> DEFINE a == Pushes(s, ms)
           b == Pushes(s, q)
           d == Pushes(s, w)
           e == c[s]
<1>1. a \in Seq(Ids) /\ b \in Seq(Ids) /\ d \in Seq(Ids) /\ e \in Seq(Ids)
  BY PushesType DEF Lists
<1>2. Pushes(s, ms \o q) = a \o b
  BY PushesJoin, Zenon DEF PushesSplit
<1> HIDE DEF a, b, d, e
<1>3. (e \o a) \o (b \o d) = e \o ((a \o b) \o d)
  <2>1. b \o d \in Seq(Ids)
    BY <1>1, JoinIs
  <2>2. Associates(e, a, b \o d) /\ Associates(a, b, d)
    BY <1>1, <2>1, JoinAssoc, Zenon
  <2> QED
    BY <2>2, Zenon DEF Associates
<1> QED
  BY <1>2, <1>3, Zenon DEF a, b, d, e

LEMMA HeldOnWire ==
  ASSUME NEW c, NEW ms \in Seq(Msgs), NEW w \in Seq(Msgs)
  PROVE  Held(c, ms, w) = Held(c, <<>>, ms \o w)
<1> SUFFICES ASSUME NEW s \in ShardSet
             PROVE  Pushes(s, ms) \o Pushes(s, w) = Pushes(s, <<>>) \o Pushes(s, ms \o w)
  BY Zenon DEF Held
<1>1. PushesSplit(s, ms, w) /\ Pushes(s, <<>>) = <<>>
  BY PushesJoin, PushesNone, Zenon
<1>2. ms \o w \in Seq(Msgs)
  BY JoinIs
<1>3. <<>> \o Pushes(s, ms \o w) = Pushes(s, ms \o w)
  BY <1>2, PushesType, JoinEmpty
<1> QED
  BY <1>1, <1>3, Zenon DEF PushesSplit

LEMMA HeldLoad ==
  ASSUME NEW c \in Lists, NEW ms \in Seq(Msgs), NEW w \in Seq(Msgs)
  PROVE  Held(Apply(c, ms), <<>>, w) = Held(c, <<>>, ms \o w)
<1>1. <<>> \in Seq(Msgs)
  OBVIOUS
<1>2. Held(Apply(c, ms), <<>>, w) = Held(c, ms \o <<>>, w)
  BY <1>1, HeldConsume
<1>3. ms \o <<>> = ms
  BY JoinEmpty
<1> QED
  BY <1>2, <1>3, HeldOnWire

-----------------------------------------------------------------------------
(* Lists that begin others. *)

LEMMA PrefixIs ==
  ASSUME NEW S, NEW a \in Seq(S), NEW b \in Seq(S)
  PROVE  IsPrefix(a, b) <=> Len(a) <= Len(b) /\ \A i \in 1 .. Len(a) : a[i] = b[i]
<1>1. CASE ~(Len(a) <= Len(b))
  BY <1>1 DEF IsPrefix
<1>2. CASE Len(a) <= Len(b)
  <2> DEFINE u == SubSeq(a, 1, Len(a))
             v == SubSeq(b, 1, Len(a))
  <2>1. u \in Seq(S) /\ Len(u) = Len(a) /\ \A i \in 1 .. Len(a) : u[i] = a[i]
    OBVIOUS
  <2>2. v \in Seq(S) /\ Len(v) = Len(a) /\ \A i \in 1 .. Len(a) : v[i] = b[i]
    BY <1>2
  <2>3. IsPrefix(a, b) <=> u = v
    BY <1>2 DEF IsPrefix
  <2> HIDE DEF u, v
  <2>4. u = v <=> \A i \in 1 .. Len(a) : u[i] = v[i]
    BY <2>1, <2>2, SameSeq
  <2> QED
    BY <1>2, <2>1, <2>2, <2>3, <2>4
<1> QED
  BY <1>1, <1>2

LEMMA PrefixTrans ==
  ASSUME NEW S, NEW a \in Seq(S), NEW b \in Seq(S), NEW c \in Seq(S), IsPrefix(a, b), IsPrefix(b, c)
  PROVE  IsPrefix(a, c)
<1>1. Len(a) <= Len(b) /\ (\A i \in 1 .. Len(a) : a[i] = b[i]) /\ Len(b) <= Len(c) /\ \A i \in 1 .. Len(b) : b[i] = c[i]
  BY PrefixIs
<1>2. Len(a) <= Len(c) /\ \A i \in 1 .. Len(a) : a[i] = c[i]
  BY <1>1
<1> QED
  BY <1>2, PrefixIs

LEMMA PrefixSame == ASSUME NEW S, NEW a \in Seq(S) PROVE IsPrefix(a, a)
BY PrefixIs

LEMMA PrefixJoin == ASSUME NEW S, NEW a \in Seq(S), NEW b \in Seq(S) PROVE IsPrefix(a, a \o b)
<1> DEFINE c == a \o b
<1>1. c \in Seq(S) /\ Len(a) <= Len(c) /\ \A i \in 1 .. Len(a) : a[i] = c[i]
  BY JoinIs
<1> HIDE DEF c
<1>2. IsPrefix(a, c)
  BY <1>1, PrefixIs
<1> QED
  BY <1>2 DEF c

LEMMA PrefixEmpty == ASSUME NEW S, NEW a \in Seq(S) PROVE IsPrefix(<<>>, a)
<1>1. <<>> \in Seq(S) /\ Len(<<>>) <= Len(a) /\ \A i \in 1 .. Len(<<>>) : <<>>[i] = a[i]
  OBVIOUS
<1> QED
  BY <1>1, PrefixIs

LEMMA PrefixAppend == ASSUME NEW S, NEW a \in Seq(S), NEW b \in Seq(S), NEW x \in S, IsPrefix(a, b)
                      PROVE  IsPrefix(a, Append(b, x)) /\ IsPrefix(b, Append(b, x))
<1> DEFINE c == Append(b, x)
<1>1. c \in Seq(S) /\ Len(b) <= Len(c) /\ \A i \in 1 .. Len(b) : b[i] = c[i]
  OBVIOUS
<1> HIDE DEF c
<1>2. IsPrefix(b, c)
  BY <1>1, PrefixIs
<1>3. IsPrefix(a, c)
  BY <1>1, <1>2, PrefixTrans
<1> QED
  BY <1>2, <1>3 DEF c

Follow(A, B) == \A s \in ShardSet : IsPrefix(A[s], B[s])

LEMMA FollowTrans ==
  ASSUME NEW A \in Lists, NEW B \in Lists, NEW C \in Lists, Follow(A, B), Follow(B, C) PROVE Follow(A, C)
<1> SUFFICES ASSUME NEW s \in ShardSet PROVE IsPrefix(A[s], C[s])
  BY DEF Follow
<1>1. A[s] \in Seq(Ids) /\ B[s] \in Seq(Ids) /\ C[s] \in Seq(Ids)
  BY DEF Lists
<1> QED
  BY <1>1, PrefixTrans DEF Follow

LEMMA FollowSame == ASSUME NEW A \in Lists PROVE Follow(A, A)
<1>1. \A s \in ShardSet : A[s] \in Seq(Ids)
  BY DEF Lists
<1> QED
  BY <1>1, PrefixSame DEF Follow

\* What is on the wire or in the queue is behind the rest.
LEMMA HeldBegins ==
  ASSUME NEW c \in Lists, NEW q \in Seq(Msgs), NEW w \in Seq(Msgs)
  PROVE  /\ Follow(Held(c, q, <<>>), Held(c, q, w))
         /\ Follow(c, Held(c, q, w))
<1> SUFFICES ASSUME NEW s \in ShardSet
             PROVE  /\ IsPrefix(c[s] \o (Pushes(s, q) \o Pushes(s, <<>>)), c[s] \o (Pushes(s, q) \o Pushes(s, w)))
                    /\ IsPrefix(c[s], c[s] \o (Pushes(s, q) \o Pushes(s, w)))
  BY Zenon DEF Follow, Held
<1> DEFINE a == Pushes(s, q)
           b == Pushes(s, w)
           e == c[s]
           f == a \o b
           g == e \o a
<1>1. a \in Seq(Ids) /\ b \in Seq(Ids) /\ e \in Seq(Ids)
  BY PushesType DEF Lists
<1>2. Pushes(s, <<>>) = <<>>
  BY PushesNone
<1> HIDE DEF a, b, e
<1>3. f \in Seq(Ids) /\ g \in Seq(Ids) /\ a \o <<>> = a
  BY <1>1, JoinIs, JoinEmpty
<1>4. e \o f = g \o b
  <2>1. Associates(e, a, b)
    BY <1>1, JoinAssoc, Zenon
  <2> QED
    BY <2>1 DEF Associates
<1> HIDE DEF f, g
<1>5. IsPrefix(e, e \o f) /\ IsPrefix(g, g \o b)
  BY <1>1, <1>3, PrefixJoin
<1> QED
  BY <1>2, <1>3, <1>4, <1>5 DEF a, b, e, f, g

LEMMA HeldNone == ASSUME NEW c \in Lists PROVE Held(c, <<>>, <<>>) = c
<1>1. c = [s \in ShardSet |-> c[s]]
  BY DEF Lists
<1>2. ASSUME NEW s \in ShardSet PROVE c[s] \o (Pushes(s, <<>>) \o Pushes(s, <<>>)) = c[s]
  <2>1. Pushes(s, <<>>) = <<>> /\ <<>> \o <<>> = <<>>
    BY PushesNone
  <2>2. c[s] \in Seq(Ids)
    BY DEF Lists
  <2> QED
    BY <2>1, <2>2, JoinEmpty
<1> QED
  BY <1>1, <1>2, Zenon DEF Held

Grown(L, s, i) == [L EXCEPT ![s] = Append(@, i)]

LEMMA Grows ==
  ASSUME NEW L \in Lists, NEW s \in ShardSet, NEW i \in Ids
  PROVE  LET M == Grown(L, s, i)
         IN M \in Lists /\ Follow(L, M) /\ M[s] = Append(L[s], i) /\ \A r \in ShardSet \ {s} : M[r] = L[r]
<1> DEFINE M == Grown(L, s, i)
<1>1. \A r \in ShardSet : L[r] \in Seq(Ids)
  BY DEF Lists
<1>2. M[s] = Append(L[s], i) /\ M[s] \in Seq(Ids) /\ \A r \in ShardSet \ {s} : M[r] = L[r]
  BY <1>1 DEF Lists, Grown
<1>3. M \in Lists
  BY <1>1 DEF Lists, Grown
<1> HIDE DEF M
<1>4. ASSUME NEW r \in ShardSet PROVE IsPrefix(L[r], M[r])
  <2>1. CASE r = s
    BY <1>1, <1>2, <2>1, PrefixAppend, PrefixSame
  <2>2. CASE r # s
    BY <1>1, <1>2, <2>2, PrefixSame
  <2> QED
    BY <2>1, <2>2
<1> QED
  BY <1>2, <1>3, <1>4 DEF M, Follow

-----------------------------------------------------------------------------
(* The inductive invariant of the copy. *)

Writes == [shard : ShardSet, id : Ids, sent : BOOLEAN]
Hands == {<<>>} \cup {<<w>> : w \in Writes}
Whole == [shard : Int, id : Nat]
Live == up /\ slave

TypeInv ==
  /\ data \in Lists /\ log \in Lists /\ copy \in Lists
  /\ pending \in [Clients -> Hands]
  /\ wire \in Seq(Msgs) /\ queue \in Seq(Msgs)
  /\ snap = NoSnap \/ snap \in [shard : Ids, at : Ids]
  /\ spoilt \in BOOLEAN

\* An open connection has its thread; a request for the snapshot is the only thing
\* on its way, and the master lists the connection from then on.
ConnInv ==
  /\ up => thread \in {"transfer", "online"}
  /\ ~up => wire = <<>> /\ ~syncing
  /\ syncing => wire = <<>> /\ ~slave /\ ~Snapping
  /\ up /\ ~syncing => slave

\* Writes are numbered in the order of their broadcast.
Rising(q) == \A i, j \in 1 .. Len(q) : i < j => q[i] < q[j]
Numbered(L, k) == \A i \in Ids : i <= k <=> \E s \in ShardSet : i \in Range(L[s])
IdsInv ==
  /\ \A s \in ShardSet : Rising(log[s])
  /\ \E k \in 0 .. MaxWrites : Numbered(log, k)

\* The lists D of the master begin the log L, and what they lack is in the hands P of the
\* clients, one write each.
Lacks(D, L, s) == Len(D[s]) + 1 .. Len(L[s])
MasterOk(D, L, P) ==
  /\ Follow(D, L)
  /\ \A s \in ShardSet : \A j \in Lacks(D, L, s) :
       \E c \in Clients : P[c] # <<>> /\ P[c][1].shard = s /\ P[c][1].id = L[s][j]
  /\ \A c \in Clients : P[c] # <<>> =>
       \E j \in Lacks(D, L, P[c][1].shard) : L[P[c][1].shard][j] = P[c][1].id
  /\ \A c, d \in Clients : P[c] # <<>> /\ P[d] # <<>> /\ P[c][1].id = P[d][1].id => c = d

\* The snapshot n of a connection that stands: the replica has or will have (H) all of
\* the shards behind it and none of those before it, of the shard it is in the
\* elements before the next one; and nobody is about to write there.
SnapOk(D, L, P, n, H) ==
  /\ n = NoSnap => H = L
  /\ n # NoSnap =>
       /\ \A s \in ShardSet : s < n.shard => H[s] = L[s]
       /\ \A s \in ShardSet : s > n.shard => H[s] = <<>>
       /\ n.shard \in ShardSet => n.at <= Len(D[n.shard]) + 1 /\ H[n.shard] = SubSeq(D[n.shard], 1, n.at - 1)
       /\ \A c \in Clients : P[c] # <<>> =>
            P[c][1].shard # n.shard /\ (P[c][1].shard > n.shard => ~P[c][1].sent)

\* Unless something spoilt it.
CopyInv ==
  ~spoilt =>
    /\ MasterOk(data, log, pending)
    /\ ~wedged /\ wire \in Seq(Whole)
    /\ Live /\ thread = "transfer" => queue = <<>>
    /\ Follow(Held(copy, queue, wire), log)
    /\ Live => SnapOk(data, log, pending, snap, Held(copy, queue, wire))

RInv == StopInv /\ TypeInv /\ ConnInv /\ IdsInv /\ CopyInv

LEMMA InitR == Init => RInv
<1> SUFFICES ASSUME Init PROVE RInv
  OBVIOUS
<1>1. /\ data = [s \in ShardSet |-> <<>>] /\ log = data /\ copy = data /\ queue = <<>> /\ wire = <<>>
      /\ pending = [c \in Clients |-> <<>>] /\ snap = NoSnap /\ spoilt = FALSE /\ ~wedged /\ ~up /\ ~syncing
  BY DEF Init
<1>2. <<>> \in Seq(Ids) /\ <<>> \in Seq(Msgs) /\ <<>> \in Seq(Whole)
  OBVIOUS
<1>3. data \in Lists
  BY <1>1, <1>2 DEF Lists
<1>4. TypeInv
  BY <1>1, <1>2, <1>3 DEF TypeInv, Hands
<1>5. ConnInv
  BY <1>1 DEF ConnInv
<1>6. IdsInv
  <2>1. \A s \in ShardSet : log[s] = <<>>
    BY <1>1
  <2>2. \A s \in ShardSet : Range(log[s]) = {}
    BY <2>1 DEF Range
  <2>3. 0 \in 0 .. MaxWrites /\ Numbered(log, 0)
    BY <2>2, ReplicationBounds DEF Numbered, Ids
  <2>4. Rising(<<>>)
    BY DEF Rising
  <2> QED
    BY <2>1, <2>3, <2>4, Zenon DEF IdsInv
<1>7. CopyInv
  <2>1. Held(copy, queue, wire) = log
    BY <1>1, <1>3, HeldNone
  <2>2. Follow(log, log)
    BY <1>1, <1>3, FollowSame
  <2>3. \A s \in ShardSet : Lacks(data, log, s) = {}
    <3>1. \A s \in ShardSet : log[s] = <<>> /\ data[s] = <<>>
      BY <1>1
    <3> QED
      BY <3>1 DEF Lacks
  <2>4. MasterOk(data, log, pending)
    BY <1>1, <2>2, <2>3 DEF MasterOk
  <2> QED
    BY <1>1, <1>2, <2>1, <2>2, <2>4 DEF CopyInv, Live
<1> QED
  BY <1>4, <1>5, <1>6, <1>7, StopInit DEF RInv

-----------------------------------------------------------------------------
(* The master's steps. *)

LEMMA HandIs ==
  ASSUME TypeInv, NEW c \in Clients
  PROVE  /\ pending[c] = <<>> => Range(pending[c]) = {}
         /\ pending[c] # <<>> =>
              pending[c] = <<pending[c][1]>> /\ pending[c][1] \in Writes /\ Range(pending[c]) = {pending[c][1]}
<1>1. pending[c] \in Hands
  BY DEF TypeInv
<1>2. CASE pending[c] = <<>>
  BY <1>2 DEF Range
<1>3. CASE pending[c] # <<>>
  <2>1. PICK w \in Writes : pending[c] = <<w>>
    BY <1>1, <1>3 DEF Hands
  <2>2. pending[c][1] = w /\ Range(pending[c]) = {w}
    BY <2>1 DEF Range
  <2> QED
    BY <2>1, <2>2
<1> QED
  BY <1>2, <1>3

LEMMA IssuedIs == ASSUME NEW k \in 0 .. MaxWrites, Numbered(log, k) PROVE Issued = k
<1>1. {i \in 1 .. MaxWrites : \A s \in ShardSet : i \notin Range(log[s])} = k + 1 .. MaxWrites
  <2>1. \A i \in 1 .. MaxWrites : i \in Ids
    BY ReplicationBounds DEF Ids
  <2>2. \A i \in 1 .. MaxWrites : (\A s \in ShardSet : i \notin Range(log[s])) <=> ~(i <= k)
    BY <2>1, Zenon DEF Numbered
  <2>3. \A i : i \in k + 1 .. MaxWrites <=> i \in 1 .. MaxWrites /\ ~(i <= k)
    BY ReplicationBounds
  <2> QED
    BY <2>2, <2>3, Zenon
<1>2. Cardinality(k + 1 .. MaxWrites) = MaxWrites - k
  <2>1. k + 1 \in Int /\ MaxWrites \in Int /\ k <= MaxWrites
    BY ReplicationBounds
  <2>2. Cardinality(k + 1 .. MaxWrites) = IF k + 1 > MaxWrites THEN 0 ELSE MaxWrites - (k + 1) + 1
    BY <2>1, FS_Interval
  <2> QED
    BY <2>1, <2>2
<1>3. Issued = MaxWrites - (MaxWrites - k)
  BY <1>1, <1>2 DEF Issued
<1> QED
  BY <1>3, ReplicationBounds

LEMMA NextNumber ==
  ASSUME TypeInv, IdsInv, Issued < MaxWrites
  PROVE  /\ Issued \in Nat /\ Issued + 1 \in Ids
         /\ Numbered(log, Issued)
         /\ \A s \in ShardSet : \A j \in 1 .. Len(log[s]) : log[s][j] < Issued + 1
<1>1. PICK k \in 0 .. MaxWrites : Numbered(log, k)
  BY DEF IdsInv
<1>2. Issued = k
  BY <1>1, IssuedIs
<1>3. ASSUME NEW s \in ShardSet, NEW j \in 1 .. Len(log[s]) PROVE log[s][j] < k + 1
  <2>1. log[s] \in Seq(Ids)
    BY DEF TypeInv, Lists
  <2>2. log[s][j] \in Ids /\ log[s][j] \in Range(log[s])
    BY <2>1 DEF Range
  <2>3. log[s][j] <= k
    BY <1>1, <2>2 DEF Numbered
  <2> QED
    BY <2>2, <2>3 DEF Ids
<1> QED
  BY <1>1, <1>2, <1>3 DEF Ids

\* A write is broadcast and in the hands of c.
LEMMA MasterIssues ==
  ASSUME NEW D \in Lists, NEW L \in Lists, NEW P \in [Clients -> Hands], MasterOk(D, L, P),
         NEW c \in Clients, P[c] = <<>>, NEW w \in Writes,
         \A s \in ShardSet : \A j \in 1 .. Len(L[s]) : L[s][j] < w.id
  PROVE  MasterOk(D, Grown(L, w.shard, w.id), [P EXCEPT ![c] = <<w>>])
<1> DEFINE M == Grown(L, w.shard, w.id)
           Q == [P EXCEPT ![c] = <<w>>]
<1>1. w.shard \in ShardSet /\ w.id \in Ids
  BY DEF Writes
<1>2. M \in Lists /\ Follow(L, M) /\ M[w.shard] = Append(L[w.shard], w.id) /\ \A r \in ShardSet \ {w.shard} : M[r] = L[r]
  BY <1>1, Grows
<1>3. Q[c] = <<w>> /\ Q[c] # <<>> /\ Q[c][1] = w /\ \A o \in Clients \ {c} : Q[o] = P[o]
  OBVIOUS
<1> HIDE DEF M, Q
<1>4. \A s \in ShardSet : D[s] \in Seq(Ids) /\ L[s] \in Seq(Ids) /\ M[s] \in Seq(Ids) /\ Len(D[s]) <= Len(L[s])
  <2>1. \A s \in ShardSet : D[s] \in Seq(Ids) /\ L[s] \in Seq(Ids) /\ M[s] \in Seq(Ids)
    BY <1>2 DEF Lists
  <2> QED
    BY <2>1, PrefixIs DEF MasterOk, Follow
<1>5. Len(M[w.shard]) = Len(L[w.shard]) + 1 /\ M[w.shard][Len(L[w.shard]) + 1] = w.id
      /\ \A j \in 1 .. Len(L[w.shard]) : M[w.shard][j] = L[w.shard][j]
  BY <1>1, <1>2, <1>4
<1>6. Follow(D, M)
  BY <1>2, FollowTrans DEF MasterOk
<1>7. \A o \in Clients : P[o] # <<>> => P[o][1] \in Writes
  BY DEF Hands
<1>8. ASSUME NEW s \in ShardSet, NEW j \in Lacks(D, M, s)
      PROVE  \E o \in Clients : Q[o] # <<>> /\ Q[o][1].shard = s /\ Q[o][1].id = M[s][j]
  <2>1. CASE s = w.shard /\ j = Len(L[s]) + 1
    BY <1>3, <1>5, <2>1
  <2>2. CASE ~(s = w.shard /\ j = Len(L[s]) + 1)
    <3>1. j \in Lacks(D, L, s) /\ M[s][j] = L[s][j]
      <4>1. CASE s = w.shard
        BY <1>4, <1>5, <1>8, <2>2, <4>1 DEF Lacks
      <4>2. CASE s # w.shard
        BY <1>2, <1>8, <4>2 DEF Lacks
      <4> QED
        BY <4>1, <4>2
    <3>2. PICK o \in Clients : P[o] # <<>> /\ P[o][1].shard = s /\ P[o][1].id = L[s][j]
      BY <3>1 DEF MasterOk
    <3> QED
      BY <1>3, <3>1, <3>2
  <2> QED
    BY <2>1, <2>2
<1>9. ASSUME NEW o \in Clients, Q[o] # <<>>
      PROVE  \E j \in Lacks(D, M, Q[o][1].shard) : M[Q[o][1].shard][j] = Q[o][1].id
  <2>1. CASE o = c
    <3>1. Len(L[w.shard]) + 1 \in Lacks(D, M, w.shard)
      BY <1>1, <1>4, <1>5 DEF Lacks
    <3> QED
      BY <1>3, <1>5, <2>1, <3>1
  <2>2. CASE o # c
    <3> DEFINE s == P[o][1].shard
    <3>1. Q[o] = P[o] /\ s \in ShardSet
      BY <1>3, <1>7, <1>9, <2>2 DEF Writes
    <3>2. PICK j \in Lacks(D, L, s) : L[s][j] = P[o][1].id
      BY <1>9, <3>1 DEF MasterOk
    <3> HIDE DEF s
    <3>3. j \in Lacks(D, M, s) /\ M[s][j] = L[s][j]
      <4>1. CASE s = w.shard
        BY <1>4, <1>5, <4>1 DEF Lacks
      <4>2. CASE s # w.shard
        BY <1>2, <3>1, <4>2 DEF Lacks
      <4> QED
        BY <4>1, <4>2
    <3> QED
      BY <3>1, <3>2, <3>3 DEF s
  <2> QED
    BY <2>1, <2>2
<1>10. ASSUME NEW o \in Clients, o # c, P[o] # <<>> PROVE P[o][1].id # w.id
  <2> DEFINE s == P[o][1].shard
  <2>1. s \in ShardSet /\ P[o][1].id \in Ids
    BY <1>7, <1>10 DEF Writes
  <2>2. PICK j \in Lacks(D, L, s) : L[s][j] = P[o][1].id
    BY <1>10 DEF MasterOk
  <2>3. j \in 1 .. Len(L[s])
    BY <1>4, <2>1 DEF Lacks
  <2>4. P[o][1].id < w.id
    BY <2>1, <2>2, <2>3
  <2> QED
    BY <1>1, <2>1, <2>4 DEF Ids
<1>11. ASSUME NEW o \in Clients, NEW d \in Clients, Q[o] # <<>>, Q[d] # <<>>, Q[o][1].id = Q[d][1].id PROVE o = d
  BY <1>3, <1>10, <1>11 DEF MasterOk
<1> QED
  BY <1>6, <1>8, <1>9, <1>11, Zenon DEF MasterOk, M, Q

\* The handler of c's write runs, and no earlier write of the shard is in anybody's hands.
LEMMA MasterExecutes ==
  ASSUME NEW D \in Lists, NEW L \in Lists, NEW P \in [Clients -> Hands], MasterOk(D, L, P),
         \A s \in ShardSet : Rising(L[s]), NEW c \in Clients, NEW w \in Writes, P[c] = <<w>>,
         \A o \in Clients \ {c} : P[o] # <<>> => ~(P[o][1].shard = w.shard /\ P[o][1].id < w.id)
  PROVE  MasterOk(Grown(D, w.shard, w.id), L, [P EXCEPT ![c] = <<>>])
<1> DEFINE E == Grown(D, w.shard, w.id)
           Q == [P EXCEPT ![c] = <<>>]
<1>1. w.shard \in ShardSet /\ w.id \in Ids /\ P[c] # <<>> /\ P[c][1] = w
  BY DEF Writes
<1>2. E \in Lists /\ E[w.shard] = Append(D[w.shard], w.id) /\ \A r \in ShardSet \ {w.shard} : E[r] = D[r]
  BY <1>1, Grows
<1>3. Q[c] = <<>> /\ \A o \in Clients \ {c} : Q[o] = P[o]
  OBVIOUS
<1> HIDE DEF E, Q
<1> DEFINE n == Len(D[w.shard])
<1>4. \A s \in ShardSet : D[s] \in Seq(Ids) /\ L[s] \in Seq(Ids) /\ E[s] \in Seq(Ids)
  BY <1>2 DEF Lists
<1>5. \A s \in ShardSet : Len(D[s]) <= Len(L[s]) /\ \A i \in 1 .. Len(D[s]) : D[s][i] = L[s][i]
  BY <1>4, PrefixIs DEF MasterOk, Follow
<1>6. PICK j \in Lacks(D, L, w.shard) : L[w.shard][j] = w.id
  BY <1>1 DEF MasterOk
<1>7. n \in Nat /\ n + 1 \in Lacks(D, L, w.shard) /\ n + 1 \in 1 .. Len(L[w.shard]) /\ j \in 1 .. Len(L[w.shard]) /\ n + 1 <= j
  BY <1>1, <1>4, <1>5 DEF Lacks
<1>8. L[w.shard][n + 1] = w.id
  <2> SUFFICES ASSUME n + 1 # j PROVE FALSE
    BY <1>6
  <2>1. n + 1 < j
    BY <1>7
  <2>2. L[w.shard][n + 1] < w.id
    BY <1>1, <1>6, <1>7, <2>1 DEF Rising
  <2>3. PICK o \in Clients : P[o] # <<>> /\ P[o][1].shard = w.shard /\ P[o][1].id = L[w.shard][n + 1]
    BY <1>1, <1>7 DEF MasterOk
  <2>4. o # c
    BY <1>1, <2>2, <2>3 DEF Ids
  <2> QED
    BY <2>2, <2>3, <2>4
<1>9. Len(E[w.shard]) = n + 1 /\ E[w.shard][n + 1] = w.id /\ \A i \in 1 .. n : E[w.shard][i] = D[w.shard][i]
  BY <1>1, <1>2, <1>4
<1>10. Follow(E, L)
  <2> SUFFICES ASSUME NEW s \in ShardSet PROVE IsPrefix(E[s], L[s])
    BY DEF Follow
  <2>1. CASE s = w.shard
    <3>1. Len(L[w.shard]) \in Nat /\ Len(E[w.shard]) <= Len(L[w.shard])
      BY <1>1, <1>4, <1>7, <1>9
    <3>2. ASSUME NEW i \in 1 .. Len(E[w.shard]) PROVE E[w.shard][i] = L[w.shard][i]
      <4>1. CASE i = n + 1
        BY <1>8, <1>9, <4>1
      <4>2. CASE i # n + 1
        <5>1. i \in 1 .. n
          BY <1>7, <1>9, <4>2
        <5> QED
          BY <1>1, <1>5, <1>9, <5>1
      <4> QED
        BY <4>1, <4>2
    <3>3. Len(E[s]) <= Len(L[s]) /\ \A i \in 1 .. Len(E[s]) : E[s][i] = L[s][i]
      BY <2>1, <3>1, <3>2
    <3> QED
      BY <1>4, <3>3, PrefixIs
  <2>2. CASE s # w.shard
    BY <1>2, <2>2 DEF MasterOk, Follow
  <2> QED
    BY <2>1, <2>2
<1>11. \A s \in ShardSet : Lacks(E, L, s) = IF s = w.shard THEN Lacks(D, L, s) \ {n + 1} ELSE Lacks(D, L, s)
  <2>1. Lacks(E, L, w.shard) = Lacks(D, L, w.shard) \ {n + 1}
    <3>1. Len(L[w.shard]) \in Nat
      BY <1>1, <1>4
    <3> QED
      BY <1>7, <1>9, <3>1 DEF Lacks
  <2>2. \A s \in ShardSet \ {w.shard} : Lacks(E, L, s) = Lacks(D, L, s)
    BY <1>2 DEF Lacks
  <2> QED
    BY <2>1, <2>2
<1>12. ASSUME NEW s \in ShardSet, NEW i \in Lacks(E, L, s)
       PROVE  \E o \in Clients : Q[o] # <<>> /\ Q[o][1].shard = s /\ Q[o][1].id = L[s][i]
  <2>1. i \in Lacks(D, L, s) /\ (s = w.shard => i # n + 1)
    BY <1>11, <1>12
  <2>2. PICK o \in Clients : P[o] # <<>> /\ P[o][1].shard = s /\ P[o][1].id = L[s][i]
    BY <2>1 DEF MasterOk
  <2>3. o # c
    <3> SUFFICES ASSUME o = c PROVE FALSE
      OBVIOUS
    <3>1. s = w.shard /\ L[s][i] = w.id
      BY <1>1, <2>2
    <3>2. i \in 1 .. Len(L[s]) /\ (i < n + 1 \/ n + 1 < i)
      BY <1>4, <1>5, <1>7, <2>1, <3>1 DEF Lacks
    <3>3. L[s][i] < L[s][n + 1] \/ L[s][n + 1] < L[s][i]
      BY <1>1, <1>7, <3>1, <3>2 DEF Rising
    <3> QED
      BY <1>1, <1>8, <3>1, <3>3 DEF Ids
  <2> QED
    BY <1>3, <2>2, <2>3
<1>13. ASSUME NEW o \in Clients, Q[o] # <<>>
       PROVE  \E i \in Lacks(E, L, Q[o][1].shard) : L[Q[o][1].shard][i] = Q[o][1].id
  <2> DEFINE s == P[o][1].shard
  <2>1. o # c /\ Q[o] = P[o] /\ s \in ShardSet
    <3>1. o # c /\ Q[o] = P[o]
      BY <1>3, <1>13
    <3>2. P[o][1] \in Writes
      BY <1>13, <3>1 DEF Hands
    <3> QED
      BY <3>1, <3>2 DEF Writes
  <2>2. PICK i \in Lacks(D, L, s) : L[s][i] = P[o][1].id
    BY <1>13, <2>1 DEF MasterOk
  <2>3. P[o][1].id # w.id
    BY <1>1, <1>13, <2>1 DEF MasterOk
  <2>4. ~(s = w.shard /\ i = n + 1)
    BY <1>8, <2>2, <2>3
  <2>5. i \in Lacks(E, L, s)
    BY <1>11, <2>1, <2>2, <2>4
  <2> QED
    BY <2>1, <2>2, <2>5
<1>14. ASSUME NEW o \in Clients, NEW d \in Clients, Q[o] # <<>>, Q[d] # <<>>, Q[o][1].id = Q[d][1].id PROVE o = d
  BY <1>3, <1>14 DEF MasterOk
<1> QED
  BY <1>10, <1>12, <1>13, <1>14, Zenon DEF MasterOk, E, Q

LEMMA JoinOne == ASSUME NEW S, NEW a \in Seq(S), NEW x \in S PROVE a \o <<x>> = Append(a, x)
OBVIOUS

LEMMA HeldPush ==
  ASSUME NEW c \in Lists, NEW q \in Seq(Msgs), NEW w \in Seq(Msgs), NEW s \in ShardSet, NEW i \in Ids
  PROVE  Held(c, q, Append(w, Write(s, i))) = Grown(Held(c, q, w), s, i)
<1> DEFINE m == Write(s, i)
           v == Append(w, m)
           H == Held(c, q, w)
           G == Held(c, q, v)
           M == Grown(H, s, i)
<1>1. m \in Msgs /\ v \in Seq(Msgs) /\ m.shard = s /\ m.id = i /\ m.id > 0
  <2>1. m \in Msgs /\ m.shard = s /\ m.id = i /\ m.id > 0
    BY DEF Write, Msgs, ShardSet, Ids
  <2> HIDE DEF m
  <2> QED
    BY <2>1
<1>2. H \in Lists /\ G \in Lists
  BY <1>1, HeldType
<1>3. \A r \in ShardSet : G[r] = H[r] \o PushOf(r, m)
  BY <1>1, HeldSend
<1> HIDE DEF v, H, G, M, m
<1>4. M \in Lists /\ M[s] = Append(H[s], i) /\ \A r \in ShardSet \ {s} : M[r] = H[r]
  BY <1>2, Grows DEF M
<1>5. ASSUME NEW r \in ShardSet PROVE G[r] = M[r]
  <2>1. H[r] \in Seq(Ids)
    BY <1>2 DEF Lists
  <2>2. CASE r = s
    <3>1. PushOf(r, m) = <<i>>
      BY <1>1, <2>2 DEF PushOf
    <3>2. H[r] \o <<i>> = Append(H[r], i)
      BY <2>1, JoinOne
    <3> QED
      BY <1>3, <1>4, <2>2, <3>1, <3>2, Zenon
  <2>3. CASE r # s
    <3>1. PushOf(r, m) = <<>>
      BY <1>1, <2>3 DEF PushOf
    <3>2. H[r] \o <<>> = H[r]
      BY <2>1, JoinEmpty
    <3>3. r \in ShardSet \ {s}
      BY <2>3
    <3> QED
      BY <1>3, <1>4, <3>1, <3>2, <3>3, Zenon
  <2> QED
    BY <2>2, <2>3
<1>6. G = M
  BY <1>2, <1>4, <1>5 DEF Lists
<1> QED
  BY <1>6 DEF v, G, M, H, m

LEMMA SnapSends ==
  ASSUME NEW D \in Lists, NEW L \in Lists, NEW P \in [Clients -> Hands], NEW H \in Lists,
         NEW n, n = NoSnap \/ n \in [shard : Ids, at : Ids], SnapOk(D, L, P, n, H),
         NEW c \in Clients, NEW w \in Writes, n = NoSnap \/ n.shard > w.shard
  PROVE  SnapOk(D, Grown(L, w.shard, w.id), [P EXCEPT ![c] = <<w>>], n, Grown(H, w.shard, w.id))
<1> DEFINE M == Grown(L, w.shard, w.id)
           G == Grown(H, w.shard, w.id)
           Q == [P EXCEPT ![c] = <<w>>]
<1>1. w.shard \in ShardSet /\ w.id \in Ids /\ ShardSet \subseteq Nat
  BY DEF Writes, ShardSet
<1>2. /\ M \in Lists /\ M[w.shard] = Append(L[w.shard], w.id) /\ \A r \in ShardSet \ {w.shard} : M[r] = L[r]
      /\ G \in Lists /\ G[w.shard] = Append(H[w.shard], w.id) /\ \A r \in ShardSet \ {w.shard} : G[r] = H[r]
  <2>1. M \in Lists /\ M[w.shard] = Append(L[w.shard], w.id) /\ \A r \in ShardSet \ {w.shard} : M[r] = L[r]
    BY <1>1, Grows
  <2>2. G \in Lists /\ G[w.shard] = Append(H[w.shard], w.id) /\ \A r \in ShardSet \ {w.shard} : G[r] = H[r]
    BY <1>1, Grows
  <2> QED
    BY <2>1, <2>2
<1>3. Q[c] = <<w>> /\ Q[c] # <<>> /\ Q[c][1] = w /\ \A o \in Clients \ {c} : Q[o] = P[o]
  OBVIOUS
<1>4. n = NoSnap => G = M
  BY DEF SnapOk
<1> HIDE DEF M, G, Q
<1>5. ASSUME n # NoSnap
      PROVE  /\ \A s \in ShardSet : s < n.shard => G[s] = M[s]
             /\ \A s \in ShardSet : s > n.shard => G[s] = <<>>
             /\ n.shard \in ShardSet => n.at <= Len(D[n.shard]) + 1 /\ G[n.shard] = SubSeq(D[n.shard], 1, n.at - 1)
             /\ \A o \in Clients : Q[o] # <<>> =>
                  Q[o][1].shard # n.shard /\ (Q[o][1].shard > n.shard => ~Q[o][1].sent)
  <2>1. n.shard \in Nat /\ n.shard > w.shard
    BY <1>5 DEF Ids
  <2>2. \A s \in ShardSet : s < n.shard => H[s] = L[s]
    BY <1>5 DEF SnapOk
  <2>3. \A s \in ShardSet : s > n.shard => H[s] = <<>>
    BY <1>5 DEF SnapOk
  <2>4. n.shard \in ShardSet => n.at <= Len(D[n.shard]) + 1 /\ H[n.shard] = SubSeq(D[n.shard], 1, n.at - 1)
    BY <1>5 DEF SnapOk
  <2>5. \A o \in Clients : P[o] # <<>> =>
          P[o][1].shard # n.shard /\ (P[o][1].shard > n.shard => ~P[o][1].sent)
    BY <1>5 DEF SnapOk
  <2>6. \A s \in ShardSet : s < n.shard => G[s] = M[s]
    BY <1>1, <1>2, <2>2
  <2>7. \A s \in ShardSet : s >= n.shard => s # w.shard
    BY <1>1, <2>1
  <2>8. \A s \in ShardSet : s > n.shard => G[s] = <<>>
    BY <1>1, <1>2, <2>1, <2>3, <2>7
  <2>9. n.shard \in ShardSet => n.at <= Len(D[n.shard]) + 1 /\ G[n.shard] = SubSeq(D[n.shard], 1, n.at - 1)
    BY <1>1, <1>2, <2>1, <2>4
  <2>10. \A o \in Clients : Q[o] # <<>> =>
           Q[o][1].shard # n.shard /\ (Q[o][1].shard > n.shard => ~Q[o][1].sent)
    <3> DEFINE a == w.shard
               b == n.shard
    <3>0. a \in Nat /\ b \in Nat /\ b > a
      BY <1>1, <2>1
    <3> HIDE DEF a, b
    <3>1. a # b /\ ~(a > b)
      BY <3>0
    <3> USE DEF a, b
    <3> QED
      BY <1>3, <2>5, <3>1, Zenon
  <2> QED
    BY <2>6, <2>8, <2>9, <2>10
<1> QED
  BY <1>4, <1>5, Zenon DEF SnapOk, M, G, Q

LEMMA IssueKeeps == ASSUME RInv, NEW c \in Clients, Issue(c) PROVE TypeInv' /\ ConnInv' /\ IdsInv' /\ CopyInv'
<1>0. TypeInv /\ ConnInv /\ IdsInv /\ CopyInv
  BY DEF RInv
<1> DEFINE i == Issued + 1
<1>1. /\ pending[c] = <<>> /\ Issued < MaxWrites
      /\ UNCHANGED <<data, snap, syncing, up, copy, thread, wedged, queue>>
  BY DEF Issue, replicaVars
<1>2. PICK s \in ShardSet :
        /\ log' = Grown(log, s, i)
        /\ pending' = [pending EXCEPT ![c] = <<[shard |-> s, id |-> i, sent |-> slave /\ up]>>]
        /\ broadcastToSlaves(s, Write(s, i))
  BY DEF Issue, Grown
<1>3. /\ Issued \in Nat /\ i \in Ids
      /\ Numbered(log, Issued)
      /\ \A r \in ShardSet : \A j \in 1 .. Len(log[r]) : log[r][j] < i
  BY <1>0, <1>1, NextNumber
<1> DEFINE w == [shard |-> s, id |-> i, sent |-> slave /\ up]
<1>4. w \in Writes /\ w.shard = s /\ w.id = i /\ pending' = [pending EXCEPT ![c] = <<w>>]
  BY <1>2, <1>3 DEF Writes
<1>5. Write(s, i) \in Msgs /\ Write(s, i) \in Whole /\ Half \in Msgs
  BY <1>3 DEF Write, Half, Msgs, Whole, Ids, ShardSet
<1> DEFINE m == Write(s, i)
<1>6. \/ (~slave \/ ~up) /\ UNCHANGED <<wire, spoilt>> /\ (slave' => ~up)
      \/ slave /\ up /\ wire' = Append(wire, m) /\ (~spoilt' => ~spoilt /\ Sent(s)) /\ spoilt' \in BOOLEAN /\ UNCHANGED slave
      \/ slave /\ up /\ wire' \in {wire, Append(wire, Half)} /\ spoilt' = TRUE /\ UNCHANGED slave
  BY <1>0, <1>2 DEF broadcastToSlaves, TypeInv
<1>7. /\ data \in Lists /\ log \in Lists /\ copy \in Lists /\ pending \in [Clients -> Hands]
      /\ wire \in Seq(Msgs) /\ queue \in Seq(Msgs) /\ (snap = NoSnap \/ snap \in [shard : Ids, at : Ids])
  BY <1>0 DEF TypeInv
<1>8. log' \in Lists /\ Follow(log, log') /\ log'[s] = Append(log[s], i) /\ \A r \in ShardSet \ {s} : log'[r] = log[r]
  BY <1>2, <1>3, <1>7, Grows
<1> HIDE DEF w, m, i
<1>9. TypeInv'
  <2>1. pending' \in [Clients -> Hands]
    BY <1>4, <1>7 DEF Hands
  <2>2. wire' \in Seq(Msgs) /\ spoilt' \in BOOLEAN
    <3>1. m \in Msgs /\ spoilt \in BOOLEAN
      BY <1>0, <1>5 DEF TypeInv, m
    <3>2. Append(wire, m) \in Seq(Msgs) /\ Append(wire, Half) \in Seq(Msgs)
      BY <1>5, <1>7, <3>1
    <3> QED
      BY <1>6, <1>7, <3>1, <3>2
  <2>3. data' \in Lists /\ copy' \in Lists /\ queue' \in Seq(Msgs) /\ snap' = snap
    BY <1>1, <1>7
  <2> QED
    BY <1>7, <1>8, <2>1, <2>2, <2>3, Zenon DEF TypeInv
<1>10. ConnInv'
  <2>1. up' = up /\ syncing' = syncing /\ thread' = thread /\ Snapping' = Snapping
    BY <1>1 DEF Snapping
  <2>2. (wire' = wire /\ (slave' => ~up) /\ (~slave \/ ~up)) \/ (slave /\ up /\ slave' = slave)
    BY <1>6, Zenon
  <2>3. up' => thread' \in {"transfer", "online"}
    BY <1>0, <2>1, Zenon DEF ConnInv
  <2>4. (~up => wire = <<>> /\ ~syncing) /\ (syncing => wire = <<>> /\ ~slave /\ ~Snapping) /\ (up /\ ~syncing => slave)
    BY <1>0, Zenon DEF ConnInv
  <2>5. ~up' => wire' = <<>> /\ ~syncing'
    BY <2>1, <2>2, <2>4, Zenon
  <2>6. syncing' => wire' = <<>> /\ ~slave' /\ ~Snapping'
    BY <2>1, <2>2, <2>4, Zenon
  <2>7. up' /\ ~syncing' => slave'
    BY <2>1, <2>2, <2>4, Zenon
  <2> QED
    BY <2>3, <2>5, <2>6, <2>7, Zenon DEF ConnInv
<1>11. IdsInv'
  <2>1. ASSUME NEW r \in ShardSet PROVE Rising(log'[r])
    <3>1. Rising(log[r]) /\ log[r] \in Seq(Ids)
      BY <1>0, <1>7 DEF IdsInv, Lists
    <3>2. CASE r = s
      <4>1. log'[r] = Append(log[r], i) /\ \A j \in 1 .. Len(log[r]) : log[r][j] < i
        BY <1>3, <1>8, <3>2
      <4>2. Len(log'[r]) = Len(log[r]) + 1 /\ log'[r][Len(log[r]) + 1] = i /\ \A j \in 1 .. Len(log[r]) : log'[r][j] = log[r][j]
        BY <1>3, <3>1, <4>1
      <4> QED
        BY <3>1, <4>1, <4>2 DEF Rising
    <3>3. CASE r # s
      BY <1>8, <3>1, <3>3
    <3> QED
      BY <3>2, <3>3
  <2>2. Range(log'[s]) = Range(log[s]) \cup {i}
    <3>1. log[s] \in Seq(Ids)
      BY <1>7 DEF Lists
    <3>2. /\ DOMAIN log'[s] = 1 .. Len(log[s]) + 1 /\ log'[s][Len(log[s]) + 1] = i /\ DOMAIN log[s] = 1 .. Len(log[s])
          /\ Len(log[s]) \in Nat /\ \A j \in 1 .. Len(log[s]) : log'[s][j] = log[s][j]
      <4> DEFINE d == log[s]
                 e == Append(d, i)
      <4>1. d \in Seq(Ids) /\ log'[s] = e
        BY <1>8, <3>1
      <4> HIDE DEF d
      <4>2. DOMAIN e = 1 .. Len(d) + 1 /\ e[Len(d) + 1] = i /\ DOMAIN d = 1 .. Len(d) /\ Len(d) \in Nat
        BY <1>3, <4>1
      <4>3. \A j \in 1 .. Len(d) : e[j] = d[j]
        BY <1>3, <4>1
      <4> HIDE DEF e
      <4> QED
        BY <4>1, <4>2, <4>3 DEF d
    <3> DEFINE d == log[s]
               e == log'[s]
               n == Len(log[s])
    <3>3. /\ n \in Nat /\ DOMAIN d = 1 .. n /\ DOMAIN e = 1 .. n + 1 /\ e[n + 1] = i
          /\ \A j \in 1 .. n : e[j] = d[j]
      BY <3>2, Zenon
    <3> HIDE DEF d, e, n
    <3>4. n + 1 \in 1 .. n + 1 /\ 1 .. n + 1 = (1 .. n) \cup {n + 1}
      BY <3>3
    <3>5. \A y : (\E j \in DOMAIN e : e[j] = y) <=> y = i \/ \E j \in DOMAIN d : d[j] = y
      BY <3>3, <3>4, Zenon
    <3>6. \A q, y : y \in Range(q) <=> \E j \in DOMAIN q : q[j] = y
      BY Zenon DEF Range
    <3>7. Range(e) = Range(d) \cup {i}
      BY <3>5, <3>6, Zenon
    <3> QED
      BY <3>7 DEF d, e
  <2>3. Numbered(log', Issued + 1)
    <3> SUFFICES ASSUME NEW j \in Ids PROVE j <= Issued + 1 <=> \E r \in ShardSet : j \in Range(log'[r])
      BY DEF Numbered
    <3>1. j <= Issued <=> \E r \in ShardSet : j \in Range(log[r])
      BY <1>3 DEF Numbered
    <3>2. j <= Issued + 1 <=> j <= Issued \/ j = i
      BY <1>3 DEF i, Ids
    <3>3. (\E r \in ShardSet : j \in Range(log'[r])) <=> j = i \/ \E r \in ShardSet : j \in Range(log[r])
      BY <1>8, <2>2
    <3> QED
      BY <3>1, <3>2, <3>3
  <2>4. Issued + 1 \in 0 .. MaxWrites
    BY <1>1, <1>3, ReplicationBounds
  <2> QED
    BY <2>1, <2>3, <2>4 DEF IdsInv
<1>12. CopyInv'
  <2> SUFFICES ASSUME ~spoilt'
               PROVE  /\ MasterOk(data', log', pending')
                      /\ ~wedged' /\ wire' \in Seq(Whole)
                      /\ (Live /\ thread = "transfer" => queue = <<>>)'
                      /\ Follow(Held(copy, queue, wire)', log')
                      /\ Live' => SnapOk(data', log', pending', snap', Held(copy, queue, wire)')
    BY DEF CopyInv
  <2>1. ~spoilt
    BY <1>6
  <2>2. /\ MasterOk(data, log, pending) /\ ~wedged /\ wire \in Seq(Whole)
        /\ (Live /\ thread = "transfer" => queue = <<>>)
        /\ Follow(Held(copy, queue, wire), log)
        /\ Live => SnapOk(data, log, pending, snap, Held(copy, queue, wire))
    BY <1>0, <2>1 DEF CopyInv
  <2>3. MasterOk(data', log', pending')
    <3>1. MasterOk(data, Grown(log, w.shard, w.id), [pending EXCEPT ![c] = <<w>>])
      BY <1>1, <1>3, <1>4, <1>7, <2>2, MasterIssues
    <3> QED
      BY <1>1, <1>2, <1>4, <3>1
  <2>4. ~wedged' /\ wire' \in Seq(Whole)
    BY <1>1, <1>5, <1>6, <2>2 DEF m
  <2>5. (Live /\ thread = "transfer" => queue = <<>>)'
    BY <1>1, <1>6, <2>2 DEF Live
  <2> DEFINE H == Held(copy, queue, wire)
  <2>6. H \in Lists
    BY <1>7, HeldType
  <2>7. CASE ~Live'
    <3>1. wire' = wire
      BY <1>1, <1>6, <2>7 DEF Live
    <3>2. Held(copy, queue, wire)' = H
      BY <1>1, <3>1
    <3>3. Follow(H, log')
      BY <1>7, <1>8, <2>2, <2>6, FollowTrans
    <3> QED
      BY <2>3, <2>4, <2>5, <2>7, <3>2, <3>3
  <2>8. CASE Live'
    <3>1. Live /\ wire' = Append(wire, m) /\ Sent(s)
      BY <1>1, <1>6, <2>8 DEF Live
    <3>2. Held(copy, queue, wire)' = Grown(H, s, i)
      <4>1. Held(copy, queue, wire)' = Held(copy, queue, Append(wire, Write(s, i)))
        BY <1>1, <3>1 DEF m
      <4> QED
        BY <1>3, <1>7, <4>1, HeldPush
    <3>3. SnapOk(data, log, pending, snap, H)
      BY <2>2, <3>1
    <3>4. snap = NoSnap \/ snap.shard > w.shard
      BY <1>4, <3>1 DEF Sent
    <3> HIDE DEF H
    <3>5. SnapOk(data', log', pending', snap', Grown(H, s, i))
      <4>1. SnapOk(data, Grown(log, w.shard, w.id), [pending EXCEPT ![c] = <<w>>], snap, Grown(H, w.shard, w.id))
        BY <1>4, <1>7, <2>6, <3>3, <3>4, SnapSends
      <4> QED
        BY <1>1, <1>2, <1>4, <4>1
    <3>6. H[s] = log[s]
      <4>1. snap # NoSnap => s < snap.shard
        BY <1>4, <1>7, <3>4 DEF Ids, ShardSet
      <4> QED
        BY <3>3, <4>1 DEF SnapOk
    <3>7. Follow(Grown(H, s, i), log')
      <4> DEFINE G == Grown(H, s, i)
      <4>1. G \in Lists /\ G[s] = Append(H[s], i) /\ \A r \in ShardSet \ {s} : G[r] = H[r]
        BY <1>3, <2>6, Grows
      <4> HIDE DEF G
      <4>2. G[s] = log'[s] /\ G[s] \in Seq(Ids)
        BY <1>8, <3>6, <4>1 DEF Lists
      <4>3. IsPrefix(G[s], log'[s])
        BY <4>2, PrefixSame
      <4>4. \A r \in ShardSet \ {s} : IsPrefix(G[r], log'[r])
        BY <1>8, <2>2, <4>1 DEF Follow, H
      <4> QED
        BY <4>3, <4>4 DEF Follow, G
    <3> QED
      BY <2>3, <2>4, <2>5, <3>2, <3>5, <3>7
  <2> QED
    BY <2>7, <2>8
<1> QED
  BY <1>9, <1>10, <1>11, <1>12

LEMMA SnapExecutes ==
  ASSUME NEW D \in Lists, NEW L, NEW P \in [Clients -> Hands], NEW H, NEW n, SnapOk(D, L, P, n, H),
         NEW c \in Clients, NEW w \in Writes, n.shard # w.shard
  PROVE  SnapOk(Grown(D, w.shard, w.id), L, [P EXCEPT ![c] = <<>>], n, H)
<1> DEFINE E == Grown(D, w.shard, w.id)
           Q == [P EXCEPT ![c] = <<>>]
<1>1. w.shard \in ShardSet /\ w.id \in Ids
  BY DEF Writes
<1>2. \A r \in ShardSet \ {w.shard} : E[r] = D[r]
  BY <1>1, Grows
<1>3. Q[c] = <<>> /\ \A o \in Clients \ {c} : Q[o] = P[o]
  OBVIOUS
<1> HIDE DEF E, Q
<1>4. n.shard \in ShardSet => E[n.shard] = D[n.shard]
  BY <1>2
<1>5. \A o \in Clients : Q[o] # <<>> => Q[o] = P[o]
  BY <1>3
<1>6. SnapOk(E, L, Q, n, H)
  BY <1>4, <1>5, Zenon DEF SnapOk
<1> QED
  BY <1>6 DEF E, Q

LEMMA ExecuteKeeps ==
  ASSUME RInv, NEW c \in Clients, ExecuteWrite(c) PROVE TypeInv' /\ ConnInv' /\ IdsInv' /\ CopyInv'
<1>0. TypeInv /\ ConnInv /\ IdsInv /\ CopyInv
  BY DEF RInv
<1> DEFINE w == pending[c][1]
<1>1. /\ pending[c] # <<>> /\ snap.shard # w.shard
      /\ data' = Grown(data, w.shard, w.id) /\ pending' = [pending EXCEPT ![c] = <<>>]
      /\ spoilt' = (spoilt \/ \E o \in Clients \ {c} : \E v \in Range(pending[o]) : v.shard = w.shard /\ v.id < w.id)
      /\ UNCHANGED <<log, slave, snap, syncing, up, wire, copy, thread, wedged, queue>>
  BY Zenon DEF ExecuteWrite, replicaVars, Grown
<1>2. pending[c] = <<w>> /\ w \in Writes /\ \A o \in Clients : pending[o] # <<>> => pending[o][1] \in Range(pending[o])
  BY <1>0, <1>1, HandIs
<1>3. w.shard \in ShardSet /\ w.id \in Ids
  BY <1>2 DEF Writes
<1> HIDE DEF w
<1>4. data \in Lists /\ log \in Lists /\ pending \in [Clients -> Hands]
  BY <1>0 DEF TypeInv
<1>5. TypeInv'
  <2>1. data' \in Lists
    BY <1>1, <1>3, <1>4, Grows
  <2>2. pending' \in [Clients -> Hands]
    BY <1>1, <1>4 DEF Hands
  <2>3. spoilt' \in BOOLEAN
    BY <1>0, <1>1, Zenon DEF TypeInv
  <2> QED
    BY <1>0, <1>1, <2>1, <2>2, <2>3 DEF TypeInv
<1>6. ConnInv' /\ IdsInv'
  BY <1>0, <1>1 DEF ConnInv, IdsInv, Snapping
<1>7. CopyInv'
  <2> SUFFICES ASSUME ~spoilt' PROVE CopyInv'
    BY DEF CopyInv
  <2>1. ~spoilt /\ \A o \in Clients \ {c} : pending[o] # <<>> => ~(pending[o][1].shard = w.shard /\ pending[o][1].id < w.id)
    BY <1>1, <1>2, Zenon
  <2>2. MasterOk(data', log', pending')
    <3>1. MasterOk(Grown(data, w.shard, w.id), log, [pending EXCEPT ![c] = <<>>])
      BY <1>0, <1>2, <1>4, <2>1, MasterExecutes DEF CopyInv, IdsInv
    <3> QED
      BY <1>1, <3>1
  <2> DEFINE H == Held(copy, queue, wire)
  <2>3. Live => SnapOk(data', log', pending', snap', H)
    <3> SUFFICES ASSUME Live PROVE SnapOk(data', log', pending', snap', H)
      OBVIOUS
    <3>1. SnapOk(data, log, pending, snap, H)
      BY <1>0, <2>1 DEF CopyInv
    <3> HIDE DEF H
    <3>2. SnapOk(Grown(data, w.shard, w.id), log, [pending EXCEPT ![c] = <<>>], snap, H)
      BY <1>1, <1>2, <1>4, <3>1, SnapExecutes
    <3> QED
      BY <1>1, <3>2
  <2> QED
    BY <1>0, <1>1, <2>1, <2>2, <2>3 DEF CopyInv, Live
<1> QED
  BY <1>5, <1>6, <1>7

LEMMA MasterSame ==
  ASSUME NEW D, NEW L, NEW P, NEW Q, MasterOk(D, L, P),
         \A c \in Clients : (P[c] = <<>> <=> Q[c] = <<>>) /\ (P[c] # <<>> => P[c][1].shard = Q[c][1].shard /\ P[c][1].id = Q[c][1].id)
  PROVE  MasterOk(D, L, Q)
<1>1. Follow(D, L)
  BY DEF MasterOk
<1>2. \A s \in ShardSet : \A j \in Lacks(D, L, s) :
        \E c \in Clients : Q[c] # <<>> /\ Q[c][1].shard = s /\ Q[c][1].id = L[s][j]
  <2> SUFFICES ASSUME NEW s \in ShardSet, NEW j \in Lacks(D, L, s)
               PROVE  \E c \in Clients : Q[c] # <<>> /\ Q[c][1].shard = s /\ Q[c][1].id = L[s][j]
    OBVIOUS
  <2>1. PICK c \in Clients : P[c] # <<>> /\ P[c][1].shard = s /\ P[c][1].id = L[s][j]
    BY DEF MasterOk
  <2> QED
    BY <2>1
<1>3. ASSUME NEW c \in Clients, Q[c] # <<>> PROVE \E j \in Lacks(D, L, Q[c][1].shard) : L[Q[c][1].shard][j] = Q[c][1].id
  <2>1. \E j \in Lacks(D, L, P[c][1].shard) : L[P[c][1].shard][j] = P[c][1].id
    BY <1>3 DEF MasterOk
  <2>2. P[c][1].shard = Q[c][1].shard /\ P[c][1].id = Q[c][1].id
    BY <1>3
  <2> QED
    BY <2>1, <2>2
<1>4. \A c, d \in Clients : Q[c] # <<>> /\ Q[d] # <<>> /\ Q[c][1].id = Q[d][1].id => c = d
  BY DEF MasterOk
<1> QED
  BY <1>1, <1>2, <1>3, <1>4, Zenon DEF MasterOk

LEMMA SyncKeeps == ASSUME RInv, handleSYNC PROVE TypeInv' /\ ConnInv' /\ IdsInv' /\ CopyInv'
<1>0. TypeInv /\ ConnInv /\ IdsInv /\ CopyInv
  BY DEF RInv
<1> DEFINE Q == [c \in Clients |-> [i \in DOMAIN pending[c] |-> [pending[c][i] EXCEPT !.sent = FALSE]]]
<1>1. /\ syncing /\ up /\ ~syncing' /\ slave' /\ snap' = [shard |-> 1, at |-> 1] /\ pending' = Q
      /\ spoilt' = (\/ spoilt \/ queue # <<>> \/ \E s \in ShardSet : copy[s] # <<>>
                    \/ \E c \in Clients : \E w \in Range(pending[c]) : w.shard = 1)
      /\ UNCHANGED <<data, log, up, wire, copy, thread, wedged, queue>>
  BY Zenon DEF handleSYNC, replicaVars
<1>2. ASSUME NEW c \in Clients
      PROVE  /\ pending[c] = <<>> => Q[c] = <<>>
             /\ pending[c] # <<>> => Q[c] = <<[pending[c][1] EXCEPT !.sent = FALSE]>> /\ Q[c] # <<>>
  <2>1. CASE pending[c] = <<>>
    BY <2>1
  <2>2. CASE pending[c] # <<>>
    <3>1. pending[c] = <<pending[c][1]>>
      BY <1>0, <2>2, HandIs
    <3>2. DOMAIN pending[c] = 1 .. 1
      BY <3>1
    <3>3. Q[c] = [i \in 1 .. 1 |-> [pending[c][i] EXCEPT !.sent = FALSE]]
      BY <3>2
    <3> DEFINE v == [pending[c][1] EXCEPT !.sent = FALSE]
    <3>4. Q[c] = [i \in 1 .. 1 |-> v]
      <4>1. \A i \in 1 .. 1 : i = 1
        OBVIOUS
      <4>2. \A i \in 1 .. 1 : [pending[c][i] EXCEPT !.sent = FALSE] = v
        BY <4>1, Zenon
      <4> QED
        BY <3>3, <4>2, Zenon
    <3> HIDE DEF v, Q
    <3>5. Q[c] = <<v>> /\ Q[c] # <<>>
      BY <3>4
    <3> QED
      BY <2>2, <3>5 DEF v
  <2> QED
    BY <2>1, <2>2
<1> HIDE DEF Q
<1>3. ASSUME NEW c \in Clients, pending[c] # <<>>
      PROVE  /\ Q[c] # <<>> /\ Q[c] = <<Q[c][1]>> /\ Q[c][1] \in Writes
             /\ Q[c][1].shard = pending[c][1].shard /\ Q[c][1].id = pending[c][1].id /\ ~Q[c][1].sent
  <2>1. pending[c][1] \in Writes /\ Q[c] = <<[pending[c][1] EXCEPT !.sent = FALSE]>> /\ Q[c] # <<>>
    BY <1>0, <1>2, <1>3, HandIs
  <2> DEFINE v == [pending[c][1] EXCEPT !.sent = FALSE]
  <2>2. v \in Writes /\ v.shard = pending[c][1].shard /\ v.id = pending[c][1].id /\ v.sent = FALSE
    BY <2>1 DEF Writes
  <2> HIDE DEF v
  <2>3. Q[c] = <<v>>
    BY <2>1 DEF v
  <2>4. Q[c][1] = v
    BY <2>3
  <2> QED
    BY <2>1, <2>2, <2>3, <2>4
<1>4. TypeInv'
  <2>1. Q \in [Clients -> Hands]
    <3>1. \A c \in Clients : Q[c] \in Hands
      BY <1>2, <1>3 DEF Hands
    <3> QED
      BY <3>1 DEF Q
  <2>2. spoilt' \in BOOLEAN
    BY <1>0, <1>1, Zenon DEF TypeInv
  <2>3. snap' \in [shard : Ids, at : Ids]
    BY <1>1 DEF Ids
  <2> QED
    BY <1>0, <1>1, <2>1, <2>2, <2>3 DEF TypeInv
<1>5. ConnInv' /\ IdsInv'
  BY <1>0, <1>1 DEF ConnInv, IdsInv
<1>6. CopyInv'
  <2> SUFFICES ASSUME ~spoilt' PROVE CopyInv'
    BY DEF CopyInv
  <2>1. /\ ~spoilt /\ queue = <<>> /\ wire = <<>> /\ \A s \in ShardSet : copy[s] = <<>>
        /\ \A c \in Clients : \A v \in Range(pending[c]) : v.shard # 1
    BY <1>0, <1>1, Zenon DEF ConnInv
  <2> DEFINE H == Held(copy, queue, wire)
  <2>2. H = copy
    BY <1>0, <2>1, HeldNone DEF TypeInv
  <2> HIDE DEF H
  <2>3. MasterOk(data, log, Q)
    <3>1. MasterOk(data, log, pending)
      BY <1>0, <2>1 DEF CopyInv
    <3> QED
      BY <1>2, <1>3, <3>1, MasterSame
  <2>4. SnapOk(data, log, Q, [shard |-> 1, at |-> 1], H)
    <3> DEFINE n == [shard |-> 1, at |-> 1]
    <3>1. n # NoSnap /\ n.shard = 1 /\ n.at = 1
      BY DEF NoSnap
    <3> HIDE DEF n
    <3>2. \A s \in ShardSet : ~(s < 1) /\ H[s] = <<>> /\ Len(data[s]) \in Nat
      BY <1>0, <2>1, <2>2 DEF ShardSet, TypeInv, Lists
    <3>3. 1 \in ShardSet => 1 <= Len(data[1]) + 1 /\ H[1] = SubSeq(data[1], 1, 1 - 1)
      <4> SUFFICES ASSUME 1 \in ShardSet PROVE 1 <= Len(data[1]) + 1 /\ H[1] = SubSeq(data[1], 1, 1 - 1)
        OBVIOUS
      <4>1. data[1] \in Seq(Ids)
        BY <1>0 DEF TypeInv, Lists
      <4>2. SubSeq(data[1], 1, 1 - 1) = <<>>
        BY <4>1
      <4>3. 1 <= Len(data[1]) + 1
        BY <4>1
      <4> QED
        BY <3>2, <4>2, <4>3, Zenon
    <3>4. ASSUME NEW c \in Clients, Q[c] # <<>> PROVE Q[c][1].shard # 1 /\ ~Q[c][1].sent
      <4>1. pending[c] # <<>>
        BY <1>2, <3>4
      <4>2. pending[c][1] \in Range(pending[c])
        BY <1>0, <4>1, HandIs
      <4> QED
        BY <1>3, <2>1, <4>1, <4>2
    <3>5. SnapOk(data, log, Q, n, H)
      BY <3>1, <3>2, <3>3, <3>4, Zenon DEF SnapOk
    <3> QED
      BY <3>5 DEF n
  <2> QED
    BY <1>0, <1>1, <2>1, <2>3, <2>4 DEF CopyInv, H
<1> QED
  BY <1>4, <1>5, <1>6

\* The next element of the shard is on the wire.
LEMMA SendElementKeeps == ASSUME RInv, SendElement PROVE TypeInv' /\ ConnInv' /\ IdsInv' /\ CopyInv'
<1>0. TypeInv /\ ConnInv /\ IdsInv /\ CopyInv
  BY DEF RInv
<1> DEFINE s == snap.shard
           a == snap.at
           x == data[s][a]
           H == Held(copy, queue, wire)
<1>1. /\ snap # NoSnap /\ up /\ s <= Shards /\ a <= Len(data[s])
      /\ wire' = Append(wire, Write(s, x)) /\ snap' = [snap EXCEPT !.at = @ + 1]
      /\ UNCHANGED <<data, log, pending, slave, syncing, up, copy, thread, wedged, queue, spoilt>>
  BY DEF SendElement, Snapping, replicaVars
<1>2. /\ data \in Lists /\ log \in Lists /\ copy \in Lists /\ wire \in Seq(Msgs) /\ queue \in Seq(Msgs)
      /\ snap \in [shard : Ids, at : Ids]
  BY <1>0, <1>1 DEF TypeInv
<1>3. s \in ShardSet /\ a \in Ids /\ s \in Ids
  BY <1>1, <1>2, ReplicationBounds DEF Ids, ShardSet
<1>4. data[s] \in Seq(Ids) /\ a \in 1 .. Len(data[s]) /\ x \in Ids
  <2>1. data[s] \in Seq(Ids)
    BY <1>2, <1>3 DEF Lists
  <2>2. a \in 1 .. Len(data[s])
    BY <1>1, <1>3, <2>1 DEF Ids
  <2> QED
    BY <2>1, <2>2
<1>5. snap' \in [shard : Ids, at : Ids] /\ snap' # NoSnap /\ snap'.shard = s /\ snap'.at = a + 1
  BY <1>1, <1>2 DEF NoSnap, Ids
<1> HIDE DEF x
<1>6. Write(s, x) \in Msgs /\ Write(s, x) \in Whole
  BY <1>3, <1>4 DEF Write, Msgs, Whole, Ids
<1>7. Live
  BY <1>0, <1>1 DEF ConnInv, Live, Snapping
<1>8. TypeInv'
  BY <1>0, <1>1, <1>5, <1>6 DEF TypeInv
<1>9. ConnInv' /\ IdsInv'
  BY <1>0, <1>1 DEF ConnInv, IdsInv, Snapping
<1>10. CopyInv'
  <2> SUFFICES ASSUME ~spoilt' PROVE CopyInv'
    BY DEF CopyInv
  <2>1. /\ MasterOk(data, log, pending) /\ ~wedged /\ wire \in Seq(Whole)
        /\ (Live /\ thread = "transfer" => queue = <<>>) /\ Follow(H, log)
        /\ SnapOk(data, log, pending, snap, H)
    BY <1>0, <1>1, <1>7 DEF CopyInv
  <2> DEFINE G == Grown(H, s, x)
  <2>2. Held(copy, queue, wire)' = G
    <3>1. Held(copy, queue, wire)' = Held(copy, queue, Append(wire, Write(s, x)))
      BY <1>1
    <3> QED
      BY <1>2, <1>3, <1>4, <3>1, HeldPush
  <2>3. H \in Lists
    BY <1>2, HeldType
  <2>4. G \in Lists /\ G[s] = Append(H[s], x) /\ \A r \in ShardSet \ {s} : G[r] = H[r]
    BY <1>3, <1>4, <2>3, Grows
  <2> HIDE DEF G, H
  <2>5. H[s] = SubSeq(data[s], 1, a - 1)
    BY <1>1, <1>3, <2>1 DEF SnapOk
  <2>6. G[s] = SubSeq(data[s], 1, (a + 1) - 1)
    <3> DEFINE d == data[s]
    <3>1. d \in Seq(Ids) /\ a \in 1 .. Len(d) /\ x = d[a]
      BY <1>4 DEF x
    <3> HIDE DEF d, a
    <3>2. SubSeq(d, 1, (a + 1) - 1) = Append(SubSeq(d, 1, a - 1), d[a])
      BY <3>1
    <3> QED
      BY <2>4, <2>5, <3>1, <3>2 DEF d, a
  <2>7. Follow(G, log)
    <3>1. IsPrefix(G[s], log[s])
      <4> DEFINE d == data[s]
                 g == SubSeq(d, 1, (a + 1) - 1)
      <4>1. d \in Seq(Ids) /\ a \in 1 .. Len(d) /\ log[s] \in Seq(Ids) /\ IsPrefix(d, log[s])
        BY <1>2, <1>3, <1>4, <2>1 DEF Lists, MasterOk, Follow
      <4> HIDE DEF d
      <4>2. g \in Seq(Ids) /\ Len(g) <= Len(d) /\ \A i \in 1 .. Len(g) : g[i] = d[i]
        BY <4>1
      <4> HIDE DEF g
      <4>3. IsPrefix(g, d)
        BY <4>1, <4>2, PrefixIs
      <4>4. IsPrefix(g, log[s])
        BY <4>1, <4>2, <4>3, PrefixTrans
      <4> QED
        BY <2>6, <4>4 DEF g, d
    <3>2. \A r \in ShardSet \ {s} : IsPrefix(G[r], log[r])
      BY <2>1, <2>4 DEF Follow
    <3> QED
      BY <3>1, <3>2 DEF Follow
  <2>8. SnapOk(data, log, pending, snap', G)
    <3>1. \A r \in ShardSet : r < s => G[r] = log[r]
      <4>1. \A r \in ShardSet : r < s => H[r] = log[r] /\ r # s
        BY <1>1, <1>3, <2>1 DEF SnapOk, Ids, ShardSet
      <4> QED
        BY <2>4, <4>1
    <3>2. \A r \in ShardSet : r > s => G[r] = <<>>
      <4>1. \A r \in ShardSet : r > s => H[r] = <<>> /\ r # s
        BY <1>1, <1>3, <2>1 DEF SnapOk, Ids, ShardSet
      <4> QED
        BY <2>4, <4>1
    <3>3. a + 1 <= Len(data[s]) + 1
      BY <1>4
    <3>4. \A c \in Clients : pending[c] # <<>> =>
            pending[c][1].shard # s /\ (pending[c][1].shard > s => ~pending[c][1].sent)
      BY <1>1, <2>1 DEF SnapOk
    <3> QED
      BY <1>5, <2>6, <3>1, <3>2, <3>3, <3>4 DEF SnapOk
  <2>9. wire' \in Seq(Whole)
    BY <1>1, <1>6, <2>1
  <2> QED
    BY <1>1, <1>7, <2>1, <2>2, <2>7, <2>8, <2>9 DEF CopyInv, Live
<1> QED
  BY <1>8, <1>9, <1>10

\* The snapshot leaves a shard that nobody is about to write.
LEMMA NextShardKeeps == ASSUME RInv, NextShard PROVE TypeInv' /\ ConnInv' /\ IdsInv' /\ CopyInv'
<1>0. TypeInv /\ ConnInv /\ IdsInv /\ CopyInv
  BY DEF RInv
<1> DEFINE s == snap.shard
           H == Held(copy, queue, wire)
<1>1. /\ snap # NoSnap /\ s <= Shards /\ snap.at > Len(data[s])
      /\ snap' = [shard |-> s + 1, at |-> 1]
      /\ spoilt' = (spoilt \/ (s < Shards /\ Unsent(s + 1)))
      /\ UNCHANGED <<data, log, pending, slave, syncing, up, wire, copy, thread, wedged, queue>>
  BY Zenon DEF NextShard, Snapping, replicaVars
<1>2. data \in Lists /\ log \in Lists /\ snap \in [shard : Ids, at : Ids] /\ pending \in [Clients -> Hands]
  BY <1>0, <1>1 DEF TypeInv
<1>3. s \in ShardSet /\ s \in Ids /\ snap.at \in Ids
  BY <1>1, <1>2, ReplicationBounds DEF Ids, ShardSet
<1>4. snap' \in [shard : Ids, at : Ids] /\ snap' # NoSnap /\ snap'.shard = s + 1 /\ snap'.at = 1
  BY <1>1, <1>3 DEF NoSnap, Ids
<1>5. TypeInv'
  <2>1. spoilt' \in BOOLEAN
    BY <1>0, <1>1, Zenon DEF TypeInv
  <2> QED
    BY <1>0, <1>1, <1>4, <2>1 DEF TypeInv
<1>6. ConnInv' /\ IdsInv'
  BY <1>0, <1>1 DEF ConnInv, IdsInv, Snapping
<1>7. CopyInv'
  <2> SUFFICES ASSUME ~spoilt' PROVE CopyInv'
    BY DEF CopyInv
  <2>1. ~spoilt /\ ~(s < Shards /\ Unsent(s + 1))
    BY <1>1, Zenon
  <2>2. ASSUME Live PROVE SnapOk(data, log, pending, snap', H)
    <3>1. SnapOk(data, log, pending, snap, H) /\ MasterOk(data, log, pending)
      BY <1>0, <2>1, <2>2 DEF CopyInv
    <3> HIDE DEF H
    <3>2. \A c \in Clients : pending[c] # <<>> =>
            pending[c][1] \in Writes /\ pending[c][1] \in Range(pending[c])
      BY <1>0, HandIs
    <3>3. \A c \in Clients : pending[c] # <<>> =>
            pending[c][1].shard # s /\ (pending[c][1].shard > s => ~pending[c][1].sent)
      BY <1>1, <3>1 DEF SnapOk
    <3>4. H[s] = log[s]
      <4>1. Lacks(data, log, s) = {}
        <5> SUFFICES ASSUME NEW j \in Lacks(data, log, s) PROVE FALSE
          OBVIOUS
        <5>1. PICK c \in Clients : pending[c] # <<>> /\ pending[c][1].shard = s
          BY <1>3, <3>1 DEF MasterOk
        <5> QED
          BY <3>3, <5>1
      <4> DEFINE d == data[s]
                 g == log[s]
      <4>2. d \in Seq(Ids) /\ g \in Seq(Ids) /\ IsPrefix(d, g)
        BY <1>2, <1>3, <3>1 DEF Lists, MasterOk, Follow
      <4>3. Len(d) <= Len(g) /\ \A i \in 1 .. Len(d) : d[i] = g[i]
        BY <4>2, PrefixIs
      <4>4. ~(Len(d) + 1 <= Len(g))
        <5> SUFFICES ASSUME Len(d) + 1 <= Len(g) PROVE FALSE
          OBVIOUS
        <5>1. Len(d) + 1 \in Lacks(data, log, s)
          BY <4>2 DEF Lacks
        <5> QED
          BY <4>1, <5>1
      <4>5. snap.at <= Len(d) + 1 /\ H[s] = SubSeq(d, 1, snap.at - 1)
        BY <1>1, <1>3, <3>1 DEF SnapOk
      <4>6. snap.at - 1 = Len(d)
        BY <1>1, <1>3, <4>2, <4>5 DEF Ids
      <4> HIDE DEF d, g
      <4>7. SubSeq(d, 1, Len(d)) = d /\ d = g
        BY <4>2, <4>3, <4>4
      <4> QED
        BY <4>5, <4>6, <4>7 DEF d, g
    <3>5. \A r \in ShardSet : r < s + 1 => H[r] = log[r]
      <4>1. \A r \in ShardSet : r < s + 1 => r < s \/ r = s
        BY <1>3 DEF ShardSet, Ids
      <4> QED
        BY <1>1, <3>1, <3>4, <4>1 DEF SnapOk
    <3>6. \A r \in ShardSet : r >= s + 1 => H[r] = <<>>
      <4>1. \A r \in ShardSet : r >= s + 1 => r > s
        BY <1>3 DEF ShardSet, Ids
      <4> QED
        BY <1>1, <3>1, <4>1 DEF SnapOk
    <3>7. s + 1 \in ShardSet => 1 <= Len(data[s + 1]) + 1 /\ H[s + 1] = SubSeq(data[s + 1], 1, 1 - 1)
      <4> SUFFICES ASSUME s + 1 \in ShardSet
                   PROVE  1 <= Len(data[s + 1]) + 1 /\ H[s + 1] = SubSeq(data[s + 1], 1, 1 - 1)
        OBVIOUS
      <4> DEFINE d == data[s + 1]
      <4>1. d \in Seq(Ids)
        BY <1>2 DEF Lists
      <4> HIDE DEF d
      <4>2. SubSeq(d, 1, 1 - 1) = <<>> /\ 1 <= Len(d) + 1
        BY <4>1
      <4>3. H[s + 1] = <<>>
        BY <1>3, <3>6 DEF Ids
      <4> QED
        BY <4>2, <4>3 DEF d
    <3>8. ASSUME NEW c \in Clients, pending[c] # <<>>
          PROVE  pending[c][1].shard # s + 1 /\ (pending[c][1].shard > s + 1 => ~pending[c][1].sent)
      <4> DEFINE v == pending[c][1]
      <4>1. v \in Writes /\ v \in Range(pending[c]) /\ (v.shard > s => ~v.sent) /\ v.shard \in 1 .. Shards
        BY <3>2, <3>3, <3>8 DEF Writes, ShardSet
      <4> HIDE DEF v
      <4>2. v.shard # s + 1
        <5> SUFFICES ASSUME v.shard = s + 1 PROVE FALSE
          OBVIOUS
        <5>1. s < Shards /\ v.shard > s
          BY <1>3, <4>1, ReplicationBounds DEF Ids
        <5>2. Unsent(s + 1)
          BY <4>1, <5>1 DEF Unsent
        <5> QED
          BY <2>1, <5>1, <5>2
      <4>3. v.shard > s + 1 => v.shard > s
        BY <1>3, <4>1, ReplicationBounds DEF Ids
      <4> QED
        BY <4>1, <4>2, <4>3 DEF v
    <3>9. \A r \in ShardSet : r > s + 1 => H[r] = <<>>
      BY <1>3, <3>6 DEF ShardSet, Ids
    <3> HIDE DEF s
    <3> QED
      BY <1>4, <3>5, <3>7, <3>8, <3>9, Zenon DEF SnapOk
  <2> QED
    BY <1>0, <1>1, <2>1, <2>2 DEF CopyInv, Live
<1> QED
  BY <1>5, <1>6, <1>7

LEMMA SendEOFKeeps == ASSUME RInv, SendEOF PROVE TypeInv' /\ ConnInv' /\ IdsInv' /\ CopyInv'
<1>0. TypeInv /\ ConnInv /\ IdsInv /\ CopyInv
  BY DEF RInv
<1> DEFINE H == Held(copy, queue, wire)
           G == Held(copy, queue, Append(wire, EOF))
<1>1. /\ snap # NoSnap /\ up /\ snap.shard > Shards /\ wire' = Append(wire, EOF) /\ snap' = NoSnap
      /\ UNCHANGED <<data, log, pending, slave, syncing, up, copy, thread, wedged, queue, spoilt>>
  BY DEF SendEOF, Snapping, replicaVars
<1>2. /\ log \in Lists /\ copy \in Lists /\ wire \in Seq(Msgs) /\ queue \in Seq(Msgs)
      /\ snap \in [shard : Ids, at : Ids]
  BY <1>0, <1>1 DEF TypeInv
<1>3. EOF \in Msgs /\ EOF \in Whole /\ EOF.id <= 0
  BY DEF EOF, Msgs, Whole
<1>4. Append(wire, EOF) \in Seq(Msgs)
  BY <1>2, <1>3
<1>5. TypeInv'
  BY <1>0, <1>1, <1>4 DEF TypeInv
<1>6. ConnInv' /\ IdsInv'
  BY <1>0, <1>1 DEF ConnInv, IdsInv, Snapping
<1>7. H \in Lists /\ G \in Lists
  BY <1>2, <1>4, HeldType
<1>8. ASSUME NEW s \in ShardSet PROVE G[s] = H[s]
  <2>1. G[s] = H[s] \o PushOf(s, EOF) /\ PushOf(s, EOF) = <<>>
    BY <1>2, <1>3, HeldSend, PushOfType
  <2> HIDE DEF H, G
  <2>2. H[s] \in Seq(Ids)
    BY <1>7 DEF Lists
  <2> QED
    BY <2>1, <2>2, JoinEmpty
<1> HIDE DEF H, G
<1>9. G = H
  BY <1>7, <1>8 DEF Lists
<1>10. CopyInv'
  <2> SUFFICES ASSUME ~spoilt' PROVE CopyInv'
    BY DEF CopyInv
  <2>1. /\ MasterOk(data, log, pending) /\ ~wedged /\ wire \in Seq(Whole)
        /\ (Live /\ thread = "transfer" => queue = <<>>) /\ Follow(H, log)
        /\ Live => SnapOk(data, log, pending, snap, H)
    BY <1>0, <1>1 DEF CopyInv, H
  <2>2. Live
    BY <1>0, <1>1 DEF ConnInv, Live, Snapping
  <2>3. \A s \in ShardSet : s < snap.shard
    BY <1>1, <1>2, ReplicationBounds DEF ShardSet, Ids
  <2>4. \A s \in ShardSet : H[s] = log[s]
    BY <1>1, <2>1, <2>2, <2>3, Zenon DEF SnapOk
  <2>5. H = log
    BY <1>2, <1>7, <2>4 DEF Lists
  <2>6. SnapOk(data, log, pending, NoSnap, H)
    BY <2>5 DEF SnapOk
  <2>7. Append(wire, EOF) \in Seq(Whole)
    BY <1>3, <2>1
  <2>8. Held(copy, queue, wire)' = H
    BY <1>1, <1>9 DEF G
  <2> QED
    BY <1>1, <2>1, <2>2, <2>6, <2>7, <2>8 DEF CopyInv, Live
<1> QED
  BY <1>5, <1>6, <1>10

\* A part of a chunk spoils the copy.
LEMMA SendPartKeeps == ASSUME RInv, SendPart PROVE TypeInv' /\ ConnInv' /\ IdsInv' /\ CopyInv'
<1>0. TypeInv /\ ConnInv /\ IdsInv
  BY DEF RInv
<1>1. /\ snap # NoSnap /\ up /\ wire' = Append(wire, Half) /\ spoilt' = TRUE
      /\ snap' \in {[snap EXCEPT !.at = @ + 1], NoSnap}
      /\ UNCHANGED <<data, log, pending, slave, syncing, up, copy, thread, wedged, queue>>
  BY DEF SendPart, Snapping, replicaVars
<1>2. wire \in Seq(Msgs) /\ snap \in [shard : Ids, at : Ids] /\ Half \in Msgs
  BY <1>0, <1>1 DEF TypeInv, Half, Msgs
<1>3. wire' \in Seq(Msgs)
  BY <1>1, <1>2
<1>4. snap' = NoSnap \/ snap' \in [shard : Ids, at : Ids]
  BY <1>1, <1>2 DEF Ids
<1>5. TypeInv'
  BY <1>0, <1>1, <1>3, <1>4 DEF TypeInv
<1>6. ConnInv' /\ IdsInv'
  BY <1>0, <1>1 DEF ConnInv, IdsInv, Snapping
<1> QED
  BY <1>1, <1>5, <1>6 DEF CopyInv

-----------------------------------------------------------------------------
(* The other steps leave the master's lists alone, and what the replica holds too    *)
(* or, when they close the connection or end the replication, all but its end.      *)

LEMMA SameHeld ==
  ASSUME TypeInv, CopyInv, UNCHANGED <<data, log, pending, snap>>, Live' => Live,
         ~spoilt' => /\ ~spoilt /\ ~wedged' /\ wire' \in Seq(Whole)
                     /\ (Live /\ thread = "transfer" => queue = <<>>)'
                     /\ Held(copy', queue', wire') = Held(copy, queue, wire)
  PROVE  CopyInv'
<1> SUFFICES ASSUME ~spoilt' PROVE CopyInv'
  BY DEF CopyInv
<1> QED
  BY DEF CopyInv

LEMMA LessHeld ==
  ASSUME TypeInv, TypeInv', CopyInv, UNCHANGED <<data, log, pending>>, ~Live',
         ~spoilt' => /\ ~spoilt /\ ~wedged' /\ wire' \in Seq(Whole)
                     /\ Follow(Held(copy', queue', wire'), Held(copy, queue, wire))
  PROVE  CopyInv'
<1> SUFFICES ASSUME ~spoilt' PROVE CopyInv'
  BY DEF CopyInv
<1> DEFINE H == Held(copy, queue, wire)
           G == Held(copy', queue', wire')
<1>1. log \in Lists /\ H \in Lists /\ G \in Lists
  BY HeldType DEF TypeInv
<1>2. Follow(G, H) /\ Follow(H, log)
  BY DEF CopyInv
<1> HIDE DEF H, G
<1>3. Follow(G, log)
  BY <1>1, <1>2, FollowTrans
<1> QED
  BY <1>3 DEF CopyInv, G

LEMMA CloseKeeps ==
  ASSUME TypeInv, ConnInv, IdsInv, CopyInv, Close, UNCHANGED <<masterVars, copy, wedged, queue, spoilt>>
  PROVE  TypeInv' /\ ConnInv' /\ IdsInv' /\ CopyInv'
<1>1. ~up' /\ wire' = <<>> /\ ~syncing' /\ UNCHANGED <<data, log, pending, slave, snap, copy, wedged, queue, spoilt>>
  BY DEF Close, masterVars
<1>2. <<>> \in Seq(Msgs) /\ <<>> \in Seq(Whole)
  OBVIOUS
<1>3. TypeInv'
  BY <1>1, <1>2 DEF TypeInv
<1>4. ConnInv' /\ IdsInv'
  BY <1>1 DEF ConnInv, IdsInv
<1>5. Follow(Held(copy', queue', wire'), Held(copy, queue, wire))
  BY <1>1, HeldBegins DEF TypeInv
<1>6. ~spoilt' => ~spoilt /\ ~wedged' /\ wire' \in Seq(Whole)
  BY <1>1, <1>2 DEF CopyInv
<1>7. CopyInv'
  BY <1>1, <1>3, <1>5, <1>6, LessHeld DEF Live
<1> QED
  BY <1>3, <1>4, <1>7

\* Nothing of the copy moves while there is no connection.
LEMMA IdleKeeps ==
  ASSUME TypeInv, ConnInv, IdsInv, CopyInv, UNCHANGED <<data, log, pending, copy, queue, spoilt>>,
         wire = <<>>, wire' = <<>>, snap' \in {snap, NoSnap}, ~Live', ~wedged => ~wedged'
  PROVE  TypeInv' /\ IdsInv' /\ CopyInv'
<1>1. <<>> \in Seq(Msgs) /\ <<>> \in Seq(Whole)
  OBVIOUS
<1>2. TypeInv'
  BY <1>1 DEF TypeInv
<1>3. IdsInv'
  BY DEF IdsInv
<1> DEFINE H == Held(copy, queue, wire)
<1>4. H \in Lists
  BY HeldType DEF TypeInv
<1>5. Held(copy', queue', wire') = H
  OBVIOUS
<1> HIDE DEF H
<1>6. Follow(H, H)
  BY <1>4, FollowSame
<1>7. ~spoilt' => ~spoilt /\ ~wedged' /\ wire' \in Seq(Whole)
  BY <1>1 DEF CopyInv
<1>8. CopyInv'
  BY <1>2, <1>5, <1>6, <1>7, LessHeld DEF H
<1> QED
  BY <1>2, <1>3, <1>8

LEMMA HeadAndTail ==
  ASSUME NEW S, NEW w \in Seq(S), w # <<>>
  PROVE  Head(w) \in S /\ Tail(w) \in Seq(S) /\ w = <<Head(w)>> \o Tail(w) /\ <<Head(w)>> \in Seq(S)
OBVIOUS

LEMMA LoadKeeps == ASSUME RInv, LoadCommand PROVE TypeInv' /\ ConnInv' /\ IdsInv' /\ CopyInv'
<1>0. TypeInv /\ ConnInv /\ IdsInv /\ CopyInv
  BY DEF RInv
<1>1. /\ thread = "transfer" /\ wire # <<>> /\ wire' = Tail(wire)
      /\ copy' = (IF wedged THEN copy ELSE Apply(copy, <<Head(wire)>>))
      /\ wedged' \in {wedged, wedged \/ Head(wire) = Half}
      /\ UNCHANGED <<data, log, pending, slave, snap, syncing, up, thread, queue, spoilt>>
  BY DEF LoadCommand, masterVars
<1>2. copy \in Lists /\ wire \in Seq(Msgs) /\ queue \in Seq(Msgs)
  BY <1>0 DEF TypeInv
<1>3. Head(wire) \in Msgs /\ Tail(wire) \in Seq(Msgs) /\ wire = <<Head(wire)>> \o Tail(wire) /\ <<Head(wire)>> \in Seq(Msgs)
  BY <1>1, <1>2, HeadAndTail
<1>4. Apply(copy, <<Head(wire)>>) \in Lists
  BY <1>2, <1>3, AppliedType
<1>5. TypeInv'
  BY <1>0, <1>1, <1>3, <1>4 DEF TypeInv
<1>6. ConnInv' /\ IdsInv' /\ Live
  BY <1>0, <1>1 DEF ConnInv, IdsInv, Snapping, Live
<1>7. ASSUME ~spoilt'
      PROVE  /\ ~spoilt /\ ~wedged' /\ wire' \in Seq(Whole)
             /\ (Live /\ thread = "transfer" => queue = <<>>)'
             /\ Held(copy', queue', wire') = Held(copy, queue, wire)
  <2>1. ~spoilt /\ ~wedged /\ wire \in Seq(Whole) /\ queue = <<>>
    BY <1>0, <1>1, <1>6, <1>7 DEF CopyInv
  <2>2. Head(wire) \in Whole /\ Tail(wire) \in Seq(Whole)
    BY <1>1, <2>1, HeadAndTail
  <2>3. Head(wire) # Half
    BY <2>2 DEF Whole, Half
  <2>4. Held(Apply(copy, <<Head(wire)>>), <<>>, Tail(wire)) = Held(copy, <<>>, <<Head(wire)>> \o Tail(wire))
    BY <1>2, <1>3, HeldLoad
  <2>5. Held(copy', queue', wire') = Held(Apply(copy, <<Head(wire)>>), <<>>, Tail(wire))
    BY <1>1, <2>1
  <2>6. Held(copy', queue', wire') = Held(copy, queue, wire)
    BY <1>3, <2>1, <2>4, <2>5, Zenon
  <2> QED
    BY <1>1, <2>1, <2>2, <2>3, <2>6
<1>8. CopyInv'
  BY <1>0, <1>1, <1>6, <1>7, SameHeld
<1> QED
  BY <1>5, <1>6, <1>8

LEMMA FinishKeeps == ASSUME RInv, FinishTransfer PROVE TypeInv' /\ ConnInv' /\ IdsInv' /\ CopyInv'
<1>0. TypeInv /\ ConnInv /\ IdsInv /\ CopyInv
  BY DEF RInv
<1>1. /\ thread = "transfer" /\ wire # <<>> /\ Head(wire) = EOF
      /\ UNCHANGED <<data, log, pending, slave, snap, syncing, up, queue>>
  BY DEF FinishTransfer, masterVars
<1>2. \/ wire' = Tail(wire) /\ UNCHANGED <<copy, thread, wedged, spoilt>>
      \/ \E n \in 0 .. (Len(wire) - 1) : \E torn \in BOOLEAN :
           /\ torn => n + 2 <= Len(wire)
           /\ wire' = SubSeq(wire, IF torn THEN n + 3 ELSE n + 2, Len(wire))
           /\ copy' = IF wedged THEN copy ELSE Apply(copy, SubSeq(wire, 2, n + 1))
           /\ thread' = "online"
           /\ wedged' \in IF torn THEN BOOLEAN ELSE {FALSE}
           /\ spoilt' = (spoilt \/ torn)
  BY DEF FinishTransfer
<1>3. copy \in Lists /\ wire \in Seq(Msgs) /\ queue \in Seq(Msgs) /\ spoilt \in BOOLEAN
  BY <1>0 DEF TypeInv
<1>4. Head(wire) \in Msgs /\ Tail(wire) \in Seq(Msgs) /\ wire = <<Head(wire)>> \o Tail(wire) /\ <<Head(wire)>> \in Seq(Msgs)
  BY <1>1, <1>3, HeadAndTail
<1>5. Live /\ up /\ ~syncing /\ slave
  BY <1>0, <1>1 DEF ConnInv, Live
<1>6. Head(wire).id <= 0
  BY <1>1 DEF EOF
<1>7. Held(copy, queue, wire) = Held(copy, queue, Tail(wire))
  BY <1>4, <1>6, HeldSkip
<1>8. CASE wire' = Tail(wire) /\ UNCHANGED <<copy, thread, wedged, spoilt>>
  <2>1. TypeInv'
    BY <1>0, <1>1, <1>4, <1>8 DEF TypeInv
  <2>2. ConnInv' /\ IdsInv'
    BY <1>0, <1>1, <1>5, <1>8 DEF ConnInv, IdsInv
  <2>3. ASSUME ~spoilt'
        PROVE  /\ ~spoilt /\ ~wedged' /\ wire' \in Seq(Whole)
               /\ (Live /\ thread = "transfer" => queue = <<>>)'
               /\ Held(copy', queue', wire') = Held(copy, queue, wire)
    <3>1. ~spoilt /\ ~wedged /\ wire \in Seq(Whole) /\ queue = <<>>
      BY <1>0, <1>1, <1>5, <1>8, <2>3 DEF CopyInv
    <3>2. Tail(wire) \in Seq(Whole)
      BY <1>1, <3>1, HeadAndTail
    <3> QED
      BY <1>1, <1>7, <1>8, <3>1, <3>2
  <2>4. CopyInv'
    BY <1>0, <1>1, <1>5, <2>3, SameHeld
  <2> QED
    BY <2>1, <2>2, <2>4
<1>9. ASSUME NEW n \in 0 .. (Len(wire) - 1), NEW torn \in BOOLEAN, torn => n + 2 <= Len(wire),
             wire' = SubSeq(wire, IF torn THEN n + 3 ELSE n + 2, Len(wire)),
             copy' = IF wedged THEN copy ELSE Apply(copy, SubSeq(wire, 2, n + 1)),
             thread' = "online", wedged' \in IF torn THEN BOOLEAN ELSE {FALSE}, spoilt' = (spoilt \/ torn)
      PROVE  TypeInv' /\ ConnInv' /\ IdsInv' /\ CopyInv'
  <2> DEFINE A == SubSeq(wire, 2, n + 1)
             B == SubSeq(wire, n + 2, Len(wire))
  <2>1. A \in Seq(Msgs) /\ B \in Seq(Msgs) /\ SubSeq(wire, n + 3, Len(wire)) \in Seq(Msgs)
    BY <1>3
  <2>2. Apply(copy, A) \in Lists
    BY <1>3, <2>1, AppliedType
  <2>3. TypeInv'
    <3>1. wire' \in Seq(Msgs)
      BY <1>9, <2>1
    <3>2. copy' \in Lists
      BY <1>3, <1>9, <2>2
    <3>3. spoilt' \in BOOLEAN
      BY <1>9
    <3> QED
      BY <1>0, <1>1, <3>1, <3>2, <3>3 DEF TypeInv
  <2>4. ConnInv' /\ IdsInv'
    BY <1>0, <1>1, <1>5, <1>9 DEF ConnInv, IdsInv
  <2>5. ASSUME ~spoilt'
        PROVE  /\ ~spoilt /\ ~wedged' /\ wire' \in Seq(Whole)
               /\ (Live /\ thread = "transfer" => queue = <<>>)'
               /\ Held(copy', queue', wire') = Held(copy, queue, wire)
    <3>1. ~spoilt /\ ~torn
      BY <1>9, <2>5
    <3>2. ~wedged /\ wire \in Seq(Whole) /\ queue = <<>>
      BY <1>0, <1>1, <1>5, <3>1 DEF CopyInv
    <3>3. wire' = B /\ copy' = Apply(copy, A) /\ ~wedged' /\ queue' = <<>>
      BY <1>1, <1>9, <3>1, <3>2
    <3>4. B \in Seq(Whole)
      BY <3>2
    <3>5. Tail(wire) = A \o B
      <4> DEFINE v == Tail(wire)
      <4>1. /\ v \in Seq(Msgs) /\ Len(v) = Len(wire) - 1 /\ Len(A) = n /\ Len(B) = Len(wire) - 1 - n /\ n \in Nat
            /\ Len(wire) \in Nat
            /\ \A i \in 1 .. Len(wire) - 1 : v[i] = wire[i + 1]
            /\ \A i \in 1 .. n : A[i] = wire[i + 1]
            /\ \A i \in 1 .. Len(wire) - 1 - n : B[i] = wire[n + 1 + i]
        BY <1>1, <1>3
      <4> HIDE DEF v, A, B
      <4> DEFINE u == A \o B
      <4>2. u \in Seq(Msgs) /\ Len(u) = Len(A) + Len(B) /\ \A i \in 1 .. Len(A) + Len(B) : u[i] = IF i <= Len(A) THEN A[i] ELSE B[i - Len(A)]
        BY <2>1, JoinIs
      <4> HIDE DEF u
      <4>3. Len(v) = Len(u) /\ \A i \in 1 .. Len(v) : v[i] = u[i]
        BY <4>1, <4>2
      <4>4. v = u
        BY <4>1, <4>2, <4>3, SameSeq
      <4> QED
        BY <4>4 DEF u, v
    <3> HIDE DEF A, B
    <3>6. Held(Apply(copy, A), <<>>, B) = Held(copy, <<>>, A \o B)
      BY <1>3, <2>1, HeldLoad
    <3>7. Held(copy', queue', wire') = Held(Apply(copy, A), <<>>, B)
      BY <3>3
    <3>8. Held(copy', queue', wire') = Held(copy, queue, wire)
      BY <1>7, <3>2, <3>5, <3>6, <3>7, Zenon
    <3> QED
      BY <3>1, <3>3, <3>4, <3>8
  <2>6. CopyInv'
    BY <1>0, <1>1, <1>5, <2>5, SameHeld
  <2> QED
    BY <2>3, <2>4, <2>6
<1> QED
  BY <1>2, <1>8, <1>9

\* The transfer ends within the snapshot: what was on the wire is executed or still
\* there, in its order.
LEMMA EarlyKeeps == ASSUME RInv, EndsEarly PROVE TypeInv' /\ ConnInv' /\ IdsInv' /\ CopyInv'
<1>0. TypeInv /\ ConnInv /\ IdsInv /\ CopyInv
  BY DEF RInv
<1>1. /\ thread = "transfer" /\ wire # <<>> /\ thread' = "online"
      /\ UNCHANGED <<data, log, pending, slave, snap, syncing, up, queue>>
  BY DEF EndsEarly, masterVars
<1>2. PICK n \in 0 .. (Len(wire) - 1) : \E torn, elsewhere \in BOOLEAN :
        /\ wire' = SubSeq(wire, IF torn THEN n + 3 ELSE n + 2, Len(wire))
        /\ copy' = IF wedged THEN copy ELSE Apply(copy, SubSeq(wire, 1, n + 1))
        /\ wedged' \in IF torn THEN BOOLEAN ELSE {FALSE}
        /\ spoilt' = (spoilt \/ torn \/ elsewhere)
  BY DEF EndsEarly
<1>3. PICK torn \in BOOLEAN, elsewhere \in BOOLEAN :
        /\ wire' = SubSeq(wire, IF torn THEN n + 3 ELSE n + 2, Len(wire))
        /\ copy' = IF wedged THEN copy ELSE Apply(copy, SubSeq(wire, 1, n + 1))
        /\ wedged' \in IF torn THEN BOOLEAN ELSE {FALSE}
        /\ spoilt' = (spoilt \/ torn \/ elsewhere)
  BY <1>2
<1>4. copy \in Lists /\ wire \in Seq(Msgs) /\ queue \in Seq(Msgs) /\ spoilt \in BOOLEAN
  BY <1>0 DEF TypeInv
<1>5. Live /\ up /\ ~syncing /\ slave
  BY <1>0, <1>1 DEF ConnInv, Live
<1> DEFINE A == SubSeq(wire, 1, n + 1)
           B == SubSeq(wire, n + 2, Len(wire))
<1>6. A \in Seq(Msgs) /\ B \in Seq(Msgs) /\ SubSeq(wire, n + 3, Len(wire)) \in Seq(Msgs)
  BY <1>4
<1>7. Apply(copy, A) \in Lists
  BY <1>4, <1>6, AppliedType
<1>8. TypeInv'
  <2>1. wire' \in Seq(Msgs)
    BY <1>3, <1>6
  <2>2. copy' \in Lists
    BY <1>3, <1>4, <1>7
  <2>3. spoilt' \in BOOLEAN
    BY <1>3
  <2> QED
    BY <1>0, <1>1, <2>1, <2>2, <2>3 DEF TypeInv
<1>9. ConnInv' /\ IdsInv'
  BY <1>0, <1>1, <1>5 DEF ConnInv, IdsInv
<1>10. ASSUME ~spoilt'
       PROVE  /\ ~spoilt /\ ~wedged' /\ wire' \in Seq(Whole)
              /\ (Live /\ thread = "transfer" => queue = <<>>)'
              /\ Held(copy', queue', wire') = Held(copy, queue, wire)
  <2>1. ~spoilt /\ ~torn
    BY <1>3, <1>10
  <2>2. ~wedged /\ wire \in Seq(Whole) /\ queue = <<>>
    BY <1>0, <1>1, <1>5, <2>1 DEF CopyInv
  <2>3. wire' = B /\ copy' = Apply(copy, A) /\ ~wedged' /\ queue' = <<>>
    BY <1>1, <1>3, <2>1, <2>2
  <2>4. B \in Seq(Whole)
    BY <2>2
  <2>5. wire = A \o B
    <3> DEFINE k == n + 1
               l == Len(wire)
    <3>1. /\ Len(A) = k /\ Len(B) = l - k /\ k \in Nat /\ l \in Nat /\ k <= l
          /\ \A i \in 1 .. k : A[i] = wire[i]
          /\ \A i \in 1 .. l - k : B[i] = wire[k + i]
      BY <1>1, <1>4
    <3> HIDE DEF A, B, k
    <3> DEFINE u == A \o B
    <3>2. u \in Seq(Msgs) /\ Len(u) = Len(A) + Len(B) /\ \A i \in 1 .. Len(A) + Len(B) : u[i] = IF i <= Len(A) THEN A[i] ELSE B[i - Len(A)]
      BY <1>6, JoinIs
    <3> HIDE DEF u
    <3>3. l = Len(u) /\ \A i \in 1 .. l : wire[i] = u[i]
      <4> HIDE DEF l
      <4>1. l = Len(u)
        BY <3>1, <3>2
      <4>2. ASSUME NEW i \in 1 .. l PROVE wire[i] = u[i]
        <5>1. CASE i <= k
          BY <3>1, <3>2, <5>1
        <5>2. CASE i > k
          <6>1. i - k \in 1 .. l - k /\ k + (i - k) = i
            BY <3>1, <5>2
          <6>2. B[i - k] = wire[i]
            BY <3>1, <6>1
          <6> QED
            BY <3>1, <3>2, <5>2, <6>2
        <5> QED
          BY <3>1, <5>1, <5>2
      <4> QED
        BY <4>1, <4>2
    <3>4. wire = u
      BY <1>4, <3>2, <3>3, SameSeq
    <3> QED
      BY <3>4 DEF u
  <2> HIDE DEF A, B
  <2>6. Held(Apply(copy, A), <<>>, B) = Held(copy, <<>>, A \o B)
    BY <1>4, <1>6, HeldLoad
  <2>7. Held(copy', queue', wire') = Held(Apply(copy, A), <<>>, B)
    BY <2>3
  <2>8. Held(copy', queue', wire') = Held(copy, queue, wire)
    BY <2>2, <2>5, <2>6, <2>7, Zenon
  <2> QED
    BY <1>1, <2>1, <2>3, <2>4, <2>8
<1>11. CopyInv'
  BY <1>0, <1>1, <1>5, <1>10, SameHeld
<1> QED
  BY <1>8, <1>9, <1>11

LEMMA EnqueueKeeps == ASSUME RInv, Enqueue PROVE TypeInv' /\ ConnInv' /\ IdsInv' /\ CopyInv'
<1>0. TypeInv /\ ConnInv /\ IdsInv /\ CopyInv
  BY DEF RInv
<1> DEFINE h == Head(wire)
<1>1. /\ thread = "online" /\ wire # <<>> /\ wire' = Tail(wire)
      /\ queue' = (IF wedged \/ h.id <= 0 THEN queue ELSE Append(queue, h))
      /\ wedged' \in {wedged, wedged \/ h = Half}
      /\ UNCHANGED <<data, log, pending, slave, snap, syncing, up, copy, thread, spoilt>>
  BY DEF Enqueue, masterVars
<1>2. copy \in Lists /\ wire \in Seq(Msgs) /\ queue \in Seq(Msgs)
  BY <1>0 DEF TypeInv
<1>3. h \in Msgs /\ Tail(wire) \in Seq(Msgs) /\ wire = <<h>> \o Tail(wire)
  BY <1>1, <1>2, HeadAndTail
<1>4. ~spoilt => h # Half /\ Tail(wire) \in Seq(Whole) /\ ~wedged
  <2> SUFFICES ASSUME ~spoilt PROVE h # Half /\ Tail(wire) \in Seq(Whole) /\ ~wedged
    OBVIOUS
  <2>1. wire \in Seq(Whole) /\ ~wedged
    BY <1>0 DEF CopyInv
  <2>2. h \in Whole /\ Tail(wire) \in Seq(Whole)
    BY <1>1, <2>1, HeadAndTail
  <2> HIDE DEF h
  <2> QED
    BY <2>1, <2>2 DEF Whole, Half
<1> HIDE DEF h
<1>5. TypeInv'
  <2>1. queue' \in Seq(Msgs)
    BY <1>1, <1>2, <1>3
  <2> QED
    BY <1>0, <1>1, <1>3, <2>1 DEF TypeInv
<1>6. ConnInv' /\ IdsInv'
  BY <1>0, <1>1 DEF ConnInv, IdsInv, Snapping
<1>7. ASSUME ~spoilt'
      PROVE  /\ ~spoilt /\ ~wedged' /\ wire' \in Seq(Whole)
             /\ (Live /\ thread = "transfer" => queue = <<>>)'
             /\ Held(copy', queue', wire') = Held(copy, queue, wire)
  <2>1. ~spoilt /\ ~wedged /\ ~wedged' /\ wire' \in Seq(Whole)
    BY <1>1, <1>4, <1>7
  <2>2. CASE h.id <= 0
    <3>1. Held(copy, queue, <<h>> \o Tail(wire)) = Held(copy, queue, Tail(wire))
      BY <1>3, <2>2, HeldSkip
    <3> QED
      BY <1>1, <1>3, <2>1, <2>2, <3>1
  <2>3. CASE ~(h.id <= 0)
    <3>1. Held(copy, Append(queue, h), Tail(wire)) = Held(copy, queue, <<h>> \o Tail(wire))
      BY <1>2, <1>3, HeldEnqueue
    <3> QED
      BY <1>1, <1>3, <2>1, <2>3, <3>1
  <2> QED
    BY <2>2, <2>3
<1>8. Live' => Live
  BY <1>1 DEF Live
<1>9. CopyInv'
  BY <1>0, <1>1, <1>7, <1>8, SameHeld
<1> QED
  BY <1>5, <1>6, <1>9

LEMMA ConnectKeeps == ASSUME RInv, GiveUp \/ Connect PROVE TypeInv' /\ ConnInv' /\ IdsInv' /\ CopyInv'
<1>0. TypeInv /\ ConnInv /\ IdsInv /\ CopyInv
  BY DEF RInv
<1>1. CASE GiveUp
  <2>1. /\ thread = "loop"
        /\ UNCHANGED <<data, log, pending, slave, snap, syncing, up, wire, copy, wedged, queue, spoilt>>
    BY <1>1 DEF GiveUp, masterVars
  <2>2. ~up /\ wire = <<>>
    BY <1>0, <2>1 DEF ConnInv
  <2>3. ConnInv'
    BY <1>0, <2>1, <2>2 DEF ConnInv
  <2> QED
    BY <1>0, <2>1, <2>2, <2>3, IdleKeeps DEF Live
<1>2. CASE Connect
  <2>1. /\ thread = "loop" /\ ~Snapping /\ UNCHANGED <<data, log, pending, snap, copy, queue, spoilt>>
        /\ \/ up' = TRUE /\ syncing' = TRUE /\ wire' = <<>> /\ slave' = FALSE /\ thread' = "transfer" /\ wedged' = FALSE
           \/ UNCHANGED <<up, syncing, wire, slave, thread, wedged>>
    BY <1>2 DEF Connect
  <2>2. ~up /\ wire = <<>> /\ ~syncing
    BY <1>0, <2>1 DEF ConnInv
  <2>3. ConnInv'
    BY <1>0, <2>1, <2>2 DEF ConnInv, Snapping
  <2>4. ~Live' /\ wire' = <<>> /\ (~wedged => ~wedged')
    BY <2>1, <2>2 DEF Live
  <2> QED
    BY <1>0, <2>1, <2>2, <2>3, <2>4, IdleKeeps
<1> QED
  BY <1>1, <1>2

LEMMA ClosesKeep ==
  ASSUME RInv, Disconnected \/ ThreadEnds \/ LinkDown \/ \E h \in Handlers : StopReplication(h)
  PROVE  TypeInv' /\ ConnInv' /\ IdsInv' /\ CopyInv'
<1>1. Close /\ UNCHANGED <<masterVars, copy, wedged, queue, spoilt>>
  BY DEF Disconnected, ThreadEnds, LinkDown, StopReplication, replicaVars
<1> QED
  BY <1>1, CloseKeeps DEF RInv

LEMMA ConsumeKeeps == ASSUME RInv, Consume PROVE TypeInv' /\ ConnInv' /\ IdsInv' /\ CopyInv'
<1>0. TypeInv /\ ConnInv /\ IdsInv /\ CopyInv
  BY DEF RInv
<1> DEFINE h == Head(queue)
<1>1. /\ queue # <<>> /\ queue' = Tail(queue) /\ copy' = Apply(copy, <<h>>)
      /\ UNCHANGED <<data, log, pending, slave, snap, syncing, up, wire, thread, wedged, spoilt>>
  BY DEF Consume, masterVars
<1>2. copy \in Lists /\ wire \in Seq(Msgs) /\ queue \in Seq(Msgs)
  BY <1>0 DEF TypeInv
<1>3. h \in Msgs /\ Tail(queue) \in Seq(Msgs) /\ queue = <<h>> \o Tail(queue) /\ <<h>> \in Seq(Msgs)
  BY <1>1, <1>2, HeadAndTail
<1> HIDE DEF h
<1>4. Apply(copy, <<h>>) \in Lists
  BY <1>2, <1>3, AppliedType
<1>5. TypeInv'
  BY <1>0, <1>1, <1>3, <1>4 DEF TypeInv
<1>6. ConnInv' /\ IdsInv'
  BY <1>0, <1>1 DEF ConnInv, IdsInv, Snapping
<1>7. Held(Apply(copy, <<h>>), Tail(queue), wire) = Held(copy, <<h>> \o Tail(queue), wire)
  BY <1>2, <1>3, HeldConsume, Zenon
<1>8. Held(copy', queue', wire') = Held(copy, queue, wire)
  BY <1>1, <1>3, <1>7
<1>9. ~spoilt' => /\ ~spoilt /\ ~wedged' /\ wire' \in Seq(Whole)
                  /\ (Live /\ thread = "transfer" => queue = <<>>)'
  BY <1>0, <1>1 DEF CopyInv, Live
<1>10. CopyInv'
  BY <1>0, <1>1, <1>8, <1>9, SameHeld DEF Live
<1> QED
  BY <1>5, <1>6, <1>10

LEMMA StoppedKeeps ==
  ASSUME RInv, NEW h \in Handlers, Stopped(h) PROVE TypeInv' /\ ConnInv' /\ IdsInv' /\ CopyInv'
<1>0. TypeInv /\ ConnInv /\ IdsInv /\ CopyInv /\ StopInv
  BY DEF RInv
<1>1. /\ queue' = <<>> /\ spoilt' = (spoilt \/ (~stop /\ queue # <<>>))
      /\ UNCHANGED <<data, log, pending, slave, snap, syncing, up, wire, copy, thread, wedged>>
  BY DEF Stopped, masterVars
<1>2. <<>> \in Seq(Msgs) /\ <<>> \in Seq(Whole)
  OBVIOUS
<1>3. TypeInv'
  BY <1>0, <1>1, <1>2 DEF TypeInv
<1>4. ConnInv' /\ IdsInv'
  BY <1>0, <1>1 DEF ConnInv, IdsInv, Snapping
<1>5. CASE stop
  <2>1. ~up /\ wire = <<>>
    BY <1>0, <1>5 DEF StopInv, ConnInv
  <2>2. Follow(Held(copy', queue', wire'), Held(copy, queue, wire))
    <3>1. Held(copy', queue', wire') = copy
      BY <1>0, <1>1, <2>1, HeldNone DEF TypeInv
    <3>2. Follow(copy, Held(copy, queue, wire))
      BY <1>0, HeldBegins DEF TypeInv
    <3> QED
      BY <3>1, <3>2
  <2> QED
    BY <1>0, <1>1, <1>2, <1>3, <1>4, <2>1, <2>2, LessHeld DEF Live, CopyInv
<1>6. CASE queue = <<>>
  <2>1. ~spoilt' => /\ ~spoilt /\ ~wedged' /\ wire' \in Seq(Whole)
                    /\ (Live /\ thread = "transfer" => queue = <<>>)'
                    /\ Held(copy', queue', wire') = Held(copy, queue, wire)
    BY <1>0, <1>1, <1>6 DEF CopyInv, Live
  <2> QED
    BY <1>0, <1>1, <1>3, <1>4, <2>1, SameHeld DEF Live
<1>7. CASE ~stop /\ queue # <<>>
  BY <1>1, <1>3, <1>4, <1>7 DEF CopyInv
<1> QED
  BY <1>5, <1>6, <1>7

\* What leaves the master, the connection and the copy alone.
Quiet == UNCHANGED <<data, log, pending, slave, snap, syncing, up, wire, copy, thread, wedged, queue, spoilt>>

LEMMA QuietSteps ==
  ASSUME \/ ConsumerStarts \/ ConsumerEnds \/ RaceForThread \/ UNCHANGED vars \/ (handleREPLICAOF /\ ~stop)
         \/ \E h \in Handlers : JoinThread(h) \/ SeeConsumerEnd(h) \/ BecomeMaster(h) \/ StopAgain(h)
  PROVE  Quiet
BY DEF ConsumerStarts, ConsumerEnds, RaceForThread, handleREPLICAOF, startReplication, JoinThread, SeeConsumerEnd,
       BecomeMaster, StopAgain, vars, masterVars, replicaVars, Quiet

LEMMA QuietKeeps == ASSUME RInv, Quiet PROVE TypeInv' /\ ConnInv' /\ IdsInv' /\ CopyInv'
<1>0. TypeInv /\ ConnInv /\ IdsInv /\ CopyInv
  BY DEF RInv
<1>1. UNCHANGED <<data, log, pending, slave, snap, syncing, up, wire, copy, thread, wedged, queue, spoilt>>
  BY DEF Quiet
<1>2. TypeInv' /\ ConnInv' /\ IdsInv'
  BY <1>0, <1>1 DEF TypeInv, ConnInv, IdsInv, Snapping
<1>3. ~spoilt' => /\ ~spoilt /\ ~wedged' /\ wire' \in Seq(Whole)
                  /\ (Live /\ thread = "transfer" => queue = <<>>)'
                  /\ Held(copy', queue', wire') = Held(copy, queue, wire)
  BY <1>0, <1>1 DEF CopyInv, Live
<1>4. CopyInv'
  BY <1>0, <1>1, <1>3, SameHeld DEF Live
<1> QED
  BY <1>2, <1>4

LEMMA OthersKeep ==
  ASSUME RInv, SendFails \/ (handleREPLICAOF /\ stop)
  PROVE  TypeInv' /\ ConnInv' /\ IdsInv' /\ CopyInv'
<1>0. TypeInv /\ ConnInv /\ IdsInv /\ CopyInv /\ StopInv
  BY DEF RInv
<1>1. CASE SendFails
  <2>1. /\ ~up /\ snap' = NoSnap /\ ~slave'
        /\ UNCHANGED <<data, log, pending, syncing, up, wire, copy, thread, wedged, queue, spoilt>>
    BY <1>1 DEF SendFails, replicaVars
  <2>2. wire = <<>> /\ ~syncing
    BY <1>0, <2>1 DEF ConnInv
  <2>3. ConnInv'
    BY <1>0, <2>1, <2>2 DEF ConnInv
  <2> QED
    BY <1>0, <2>1, <2>2, <2>3, IdleKeeps DEF Live
<1>2. CASE handleREPLICAOF /\ stop
  <2>1. /\ stop /\ thread' = "loop"
        /\ UNCHANGED <<data, log, pending, slave, snap, syncing, up, wire, copy, wedged, queue, spoilt>>
    BY <1>2 DEF handleREPLICAOF, startReplication, masterVars
  <2>2. ~up /\ wire = <<>>
    BY <1>0, <2>1 DEF StopInv, ConnInv
  <2>3. ConnInv'
    BY <1>0, <2>1, <2>2 DEF ConnInv
  <2> QED
    BY <1>0, <2>1, <2>2, <2>3, IdleKeeps DEF Live
<1> QED
  BY <1>1, <1>2

LEMMA RInvNext == ASSUME RInv, [Next]_vars PROVE RInv'
<1>1. StopInv'
  BY StopNext DEF RInv
<1>2. TypeInv' /\ ConnInv' /\ IdsInv' /\ CopyInv'
  <2>1. CASE \E c \in Clients : Issue(c) \/ ExecuteWrite(c)
    BY <2>1, IssueKeeps, ExecuteKeeps
  <2>2. CASE MasterStep
    BY <2>2, SendElementKeeps, SendPartKeeps, NextShardKeeps, SendEOFKeeps, OthersKeep, SyncKeeps DEF MasterStep
  <2>3. CASE ThreadStep
    BY <2>3, ConnectKeeps, LoadKeeps, FinishKeeps, EarlyKeeps, EnqueueKeeps, ClosesKeep DEF ThreadStep
  <2>4. CASE ConsumerStep
    BY <2>4, QuietSteps, QuietKeeps, ConsumeKeeps DEF ConsumerStep
  <2>5. CASE LinkDown \/ \E h \in Handlers : StopReplication(h)
    BY <2>5, ClosesKeep
  <2>6. CASE \E h \in Handlers : HandlerStep(h) \/ StopAgain(h)
    BY <2>6, QuietSteps, QuietKeeps, StoppedKeeps DEF HandlerStep
  <2>7. CASE handleREPLICAOF \/ handleSLAVEOF \/ RaceForThread \/ UNCHANGED vars
    BY <2>7, OthersKeep, QuietSteps, QuietKeeps DEF handleSLAVEOF
  <2> QED
    BY <2>1, <2>2, <2>3, <2>4, <2>5, <2>6, <2>7 DEF Next
<1> QED
  BY <1>1, <1>2 DEF RInv

\* The inductive invariant: the copy with what is in the queue and on the wire behind
\* it, list by list, against the log, at every point of snapshot, hand-over and
\* broadcast (generateRDB, loadRDBFromMemory, processReplQueue, broadcastToSlaves).
THEOREM CopyInvariant == Spec => []RInv
<1>1. RInv /\ [Next]_vars => RInv'
  BY RInvNext
<1> QED
  BY <1>1, InitR, PTL DEF Spec

-----------------------------------------------------------------------------
(* The refinement. *)

LEMMA CopyFollows == ASSUME RInv', ~spoilt' PROVE Follow(copy', log')
<1> DEFINE H == Held(copy', queue', wire')
<1>1. copy' \in Lists /\ log' \in Lists /\ H \in Lists
  BY HeldType DEF RInv, TypeInv
<1>2. Follow(copy', H) /\ Follow(H, log')
  BY HeldBegins DEF RInv, TypeInv, CopyInv
<1> HIDE DEF H
<1> QED
  BY <1>1, <1>2, FollowTrans

LEMMA AppliesMore ==
  ASSUME NEW c \in Lists, NEW ms \in Seq(Msgs) PROVE Follow(c, Apply(c, ms))
<1> SUFFICES ASSUME NEW s \in ShardSet PROVE IsPrefix(c[s], Apply(c, ms)[s])
  BY DEF Follow
<1>1. c[s] \in Seq(Ids) /\ Pushes(s, ms) \in Seq(Ids)
  BY PushesType DEF Lists
<1>2. Apply(c, ms)[s] = c[s] \o Pushes(s, ms)
  BY DEF Apply
<1> QED
  BY <1>1, <1>2, PrefixJoin

\* Who writes to the log and to the copy.
LEMMA LogSteps ==
  ASSUME RInv, [Next]_vars, log' # log
  PROVE  UNCHANGED copy /\ \E s \in ShardSet : \E i \in Ids : log' = Grown(log, s, i)
<1>1. \E c \in Clients : Issue(c)
  <2>1. ASSUME MasterStep PROVE log' = log
    BY <2>1, Zenon DEF MasterStep, SendElement, SendPart, NextShard, SendEOF, SendFails, handleSYNC
  <2>2. ASSUME ThreadStep PROVE log' = log
    BY <2>2 DEF ThreadStep, GiveUp, Connect, LoadCommand, FinishTransfer, EndsEarly, Enqueue, Disconnected, ThreadEnds, masterVars
  <2>3. ASSUME ConsumerStep \/ \E h \in Handlers : HandlerStep(h) \/ StopReplication(h) \/ StopAgain(h) PROVE log' = log
    BY <2>3 DEF ConsumerStep, ConsumerStarts, Consume, ConsumerEnds, HandlerStep, JoinThread, SeeConsumerEnd, Stopped, BecomeMaster,
                    StopReplication, StopAgain, masterVars
  <2>4. ASSUME LinkDown \/ handleREPLICAOF \/ handleSLAVEOF \/ RaceForThread \/ UNCHANGED vars PROVE log' = log
    BY <2>4 DEF LinkDown, handleREPLICAOF, handleSLAVEOF, RaceForThread, vars, masterVars
  <2>5. ASSUME NEW c \in Clients, ExecuteWrite(c) PROVE log' = log
    BY <2>5, Zenon DEF ExecuteWrite
  <2> QED
    BY <2>1, <2>2, <2>3, <2>4, <2>5 DEF Next
<1>2. PICK c \in Clients : Issue(c)
  BY <1>1
<1>3. TypeInv /\ IdsInv /\ Issued < MaxWrites
  BY <1>2 DEF RInv, Issue
<1>4. Issued + 1 \in Ids
  BY <1>3, NextNumber
<1>5. PICK s \in ShardSet : log' = Grown(log, s, Issued + 1)
  BY <1>2 DEF Issue, Grown
<1>6. UNCHANGED copy
  BY <1>2 DEF Issue, replicaVars
<1> QED
  BY <1>4, <1>5, <1>6

LEMMA CopySteps ==
  ASSUME RInv, [Next]_vars, copy' # copy
  PROVE  Follow(copy, copy')
<1>0. copy \in Lists /\ wire \in Seq(Msgs) /\ queue \in Seq(Msgs)
  BY DEF RInv, TypeInv
<1>1. LoadCommand \/ FinishTransfer \/ EndsEarly \/ Consume
  <2>1. ASSUME MasterStep PROVE copy' = copy
    BY <2>1, Zenon DEF MasterStep, SendElement, SendPart, NextShard, SendEOF, SendFails, handleSYNC, replicaVars
  <2>2. ASSUME GiveUp \/ Connect \/ Enqueue \/ Disconnected \/ ThreadEnds PROVE copy' = copy
    BY <2>2 DEF GiveUp, Connect, Enqueue, Disconnected, ThreadEnds
  <2>3. ASSUME ConsumerStarts \/ ConsumerEnds \/ \E h \in Handlers : HandlerStep(h) \/ StopReplication(h) \/ StopAgain(h)
        PROVE  copy' = copy
    BY <2>3 DEF ConsumerStarts, ConsumerEnds, HandlerStep, JoinThread, SeeConsumerEnd, Stopped, BecomeMaster,
                    StopReplication, StopAgain, replicaVars
  <2>4. ASSUME LinkDown \/ handleREPLICAOF \/ handleSLAVEOF \/ RaceForThread \/ UNCHANGED vars PROVE copy' = copy
    BY <2>4 DEF LinkDown, handleREPLICAOF, handleSLAVEOF, RaceForThread, vars, replicaVars
  <2>5. ASSUME NEW c \in Clients, Issue(c) \/ ExecuteWrite(c) PROVE copy' = copy
    BY <2>5, Zenon DEF Issue, ExecuteWrite, replicaVars
  <2> QED
    BY <2>1, <2>2, <2>3, <2>4, <2>5 DEF Next, ThreadStep, ConsumerStep
<1>2. \E ms \in Seq(Msgs) : copy' = Apply(copy, ms)
  <2>1. CASE LoadCommand
    <3>1. <<Head(wire)>> \in Seq(Msgs) /\ copy' = Apply(copy, <<Head(wire)>>)
      BY <1>0, <2>1, HeadAndTail DEF LoadCommand
    <3> QED
      BY <3>1
  <2>2. CASE FinishTransfer
    <3>1. PICK n \in 0 .. (Len(wire) - 1) : copy' = Apply(copy, SubSeq(wire, 2, n + 1))
      BY <2>2 DEF FinishTransfer
    <3>2. SubSeq(wire, 2, n + 1) \in Seq(Msgs)
      BY <1>0
    <3> QED
      BY <3>1, <3>2
  <2>3. CASE Consume
    <3>1. <<Head(queue)>> \in Seq(Msgs) /\ copy' = Apply(copy, <<Head(queue)>>)
      BY <1>0, <2>3, HeadAndTail DEF Consume
    <3> QED
      BY <3>1
  <2>4. CASE EndsEarly
    <3>1. PICK n \in 0 .. (Len(wire) - 1) : copy' = Apply(copy, SubSeq(wire, 1, n + 1))
      BY <2>4 DEF EndsEarly
    <3>2. SubSeq(wire, 1, n + 1) \in Seq(Msgs)
      BY <1>0
    <3> QED
      BY <3>1, <3>2
  <2> QED
    BY <1>1, <2>1, <2>2, <2>3, <2>4
<1> QED
  BY <1>0, <1>2, AppliesMore

\* Once something is spoilt it stays so.
LEMMA SpoiltStays == ASSUME RInv, [Next]_vars, spoilt PROVE spoilt' = TRUE
<1>0. spoilt \in BOOLEAN /\ spoilt = TRUE
  BY DEF RInv, TypeInv
<1>1. RInv'
  BY RInvNext
<1>2. spoilt' \in BOOLEAN
  BY <1>1 DEF RInv, TypeInv
<1>3. spoilt'
  <2>1. ASSUME MasterStep PROVE spoilt'
    BY <2>1, Zenon DEF MasterStep, SendElement, SendPart, NextShard, SendEOF, SendFails, handleSYNC
  <2>2. ASSUME ThreadStep PROVE spoilt'
    BY <1>0, <2>2 DEF ThreadStep, GiveUp, Connect, LoadCommand, FinishTransfer, EndsEarly, Enqueue, Disconnected, ThreadEnds
  <2>3. ASSUME ConsumerStep \/ \E h \in Handlers : HandlerStep(h) \/ StopReplication(h) \/ StopAgain(h) PROVE spoilt'
    BY <2>3 DEF ConsumerStep, ConsumerStarts, Consume, ConsumerEnds, HandlerStep, JoinThread, SeeConsumerEnd, Stopped, BecomeMaster,
                    StopReplication, StopAgain
  <2>4. ASSUME LinkDown \/ handleREPLICAOF \/ handleSLAVEOF \/ RaceForThread \/ UNCHANGED vars PROVE spoilt'
    BY <2>4 DEF LinkDown, handleREPLICAOF, handleSLAVEOF, RaceForThread, vars
  <2>5. ASSUME NEW c \in Clients, ExecuteWrite(c) PROVE spoilt'
    BY <2>5, Zenon DEF ExecuteWrite
  <2>6. ASSUME NEW c \in Clients, Issue(c) PROVE spoilt'
    BY <1>0, <2>6 DEF Issue, broadcastToSlaves
  <2> QED
    BY <2>1, <2>2, <2>3, <2>4, <2>5, <2>6 DEF Next
<1> QED
  BY <1>2, <1>3

LEMMA FollowIs == ASSUME NEW A, NEW B PROVE Copying!Follows(A, B) <=> Follow(A, B)
BY DEF Copying!Follows, Copying!IsPrefix, Follow, IsPrefix

LEMMA InitCopies == Init => Copying!Init
BY DEF Init, Copying!Init

LEMMA StepCopies == ASSUME RInv, [Next]_vars PROVE [Copying!Next]_<<log, copy, spoilt>>
<1>0. /\ log \in Lists /\ copy \in Lists /\ spoilt \in BOOLEAN
      /\ log' \in Lists /\ copy' \in Lists /\ spoilt' \in BOOLEAN
      /\ (~spoilt' => Follow(copy', log'))
  <2>1. RInv'
    BY RInvNext
  <2>2. spoilt' \in BOOLEAN
    BY <2>1 DEF RInv, TypeInv
  <2>3. ~spoilt' => Follow(copy', log')
    BY <2>1, CopyFollows
  <2> QED
    BY <2>1, <2>2, <2>3 DEF RInv, TypeInv
<1>1. \A s \in ShardSet : IsPrefix(log[s], log'[s])
  <2>1. CASE log' = log
    BY <1>0, <2>1, FollowSame DEF Follow
  <2>2. CASE log' # log
    <3>1. PICK s \in ShardSet : \E i \in Ids : log' = Grown(log, s, i)
      BY <2>2, LogSteps
    <3> QED
      BY <1>0, <3>1, Grows DEF Follow
  <2> QED
    BY <2>1, <2>2
<1>2. CASE spoilt'
  <2>1. Copying!Spoil
    BY <1>0, <1>1, <1>2 DEF Copying!Spoil, Copying!IsPrefix, IsPrefix
  <2> QED
    BY <2>1 DEF Copying!Next
<1>3. CASE ~spoilt'
  <2>1. ~spoilt /\ spoilt' = spoilt
    BY <1>0, <1>3, SpoiltStays
  <2>2. CASE log' # log
    <3>1. UNCHANGED copy
      BY <2>2, LogSteps
    <3>2. PICK s \in ShardSet, i \in Ids : log' = Grown(log, s, i)
      BY <2>2, LogSteps
    <3>3. log'[s] = Append(log[s], i) /\ log[s] \in Seq(Ids)
      BY <1>0, <3>2, Grows DEF Lists
    <3>4. i \in Range(log'[s])
      <4>1. Len(log[s]) + 1 \in DOMAIN log'[s] /\ log'[s][Len(log[s]) + 1] = i
        BY <3>3
      <4> QED
        BY <4>1 DEF Range
    <3>5. Copying!Issue
      BY <2>1, <3>1, <3>2, <3>4 DEF Copying!Issue, Copying!Range, Range, Grown
    <3> QED
      BY <3>5 DEF Copying!Next
  <2>3. CASE log' = log /\ copy' # copy
    <3>1. Follow(copy, copy') /\ Follow(copy', log)
      BY <1>0, <1>3, <2>3, CopySteps
    <3>2. Copying!Catch
      BY <2>1, <2>3, <3>1, FollowIs DEF Copying!Catch
    <3> QED
      BY <3>2 DEF Copying!Next
  <2> QED
    BY <2>1, <2>2, <2>3
<1> QED
  BY <1>2, <1>3

\* Replication implements the copying of a log: snapshot, the hand-over from the
\* loading thread to the queue and the broadcasts together give the replica, list by
\* list, what the master issued up to some point, until one of the named events
\* spoils it.
THEOREM CopyIsImplemented == Spec => ImplementsLogCopy
<1>1. RInv /\ [Next]_vars => [Copying!Next]_<<log, copy, spoilt>>
  BY StepCopies
<1> QED
  BY <1>1, CopyInvariant, InitCopies, PTL DEF Spec, ImplementsLogCopy, Copying!Spec
=============================================================================
