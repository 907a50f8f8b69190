--------------------------- MODULE Scheduler_proofs ---------------------------
(***************************************************************************)
(* Proofs about Scheduler, for any number of workers, coroutines,          *)
(* callbacks, clients and suspensions.                                     *)
(***************************************************************************)
EXTENDS Scheduler, SequenceTheorems, TLAPS

-----------------------------------------------------------------------------
(* Sequences: what the three queue operations do. *)

\* Appending keeps the old positions and adds the last one.
LEMMA AppendFacts ==
  ASSUME NEW S, NEW s \in Seq(S), NEW x \in S
  PROVE  /\ Append(s, x) \in Seq(S)
         /\ Len(Append(s, x)) = Len(s) + 1
         /\ \A i \in 1 .. Len(s) : Append(s, x)[i] = s[i]
         /\ Append(s, x)[Len(s) + 1] = x
BY AppendProperties

\* r is s with position k left out.
Without(s, k, r) ==
  \E pos \in [1 .. Len(r) -> (1 .. Len(s)) \ {k}] :
    /\ \A i \in 1 .. Len(r) : r[i] = s[pos[i]]
    /\ \A i1, i2 \in 1 .. Len(r) : pos[i1] = pos[i2] => i1 = i2
    /\ \A m \in (1 .. Len(s)) \ {k} : \E i \in 1 .. Len(r) : pos[i] = m

\* Popping the front (run() on its own and on the global queue).
LEMMA PopFrontFacts ==
  ASSUME NEW S, NEW s \in Seq(S), s # <<>>
  PROVE  /\ Tail(s) \in Seq(S)
         /\ Head(s) = s[1] /\ s[1] \in S
         /\ 1 \in 1 .. Len(s) /\ Without(s, 1, Tail(s))
<1> DEFINE n == Len(s)
           m == Len(Tail(s))
           pos == [i \in 1 .. m |-> i + 1]
<1>1. /\ Tail(s) \in Seq(S) /\ n \in Nat \ {0} /\ m = n - 1
      /\ Head(s) = s[1] /\ s[1] \in S
      /\ \A i \in 1 .. m : Tail(s)[i] = s[i + 1]
  BY HeadTailProperties, EmptySeq, ElementOfSeq, LenProperties
<1> HIDE DEF n, m
<1>2. pos \in [1 .. m -> (1 .. n) \ {1}] /\ 1 \in 1 .. n
  BY <1>1
<1>3. \A i \in 1 .. m : Tail(s)[i] = s[pos[i]]
  BY <1>1
<1>4. \A i1, i2 \in 1 .. m : pos[i1] = pos[i2] => i1 = i2
  OBVIOUS
<1>5. ASSUME NEW l \in (1 .. n) \ {1} PROVE \E i \in 1 .. m : pos[i] = l
  <2>1. l - 1 \in 1 .. m /\ pos[l - 1] = l
    BY <1>1
  <2> QED
    BY <2>1
<1> HIDE DEF pos
<1> QED
  BY <1>1, <1>2, <1>3, <1>4, <1>5 DEF Without, n, m

\* Popping the back (stealTask()).
LEMMA PopBackFacts ==
  ASSUME NEW S, NEW s \in Seq(S), s # <<>>
  PROVE  /\ SubSeq(s, 1, Len(s) - 1) \in Seq(S)
         /\ s[Len(s)] \in S
         /\ Len(s) \in 1 .. Len(s) /\ Without(s, Len(s), SubSeq(s, 1, Len(s) - 1))
<1>1. Len(s) \in Nat \ {0}
  BY EmptySeq, LenProperties
<1>2. \A i \in 1 .. Len(s) : s[i] \in S
  BY ElementOfSeq
<1>3. \A i \in 1 .. Len(s) - 1 : s[i] \in S
  BY <1>1, <1>2
<1>4. /\ SubSeq(s, 1, Len(s) - 1) \in Seq(S)
      /\ Len(SubSeq(s, 1, Len(s) - 1)) = IF 1 <= Len(s) - 1 THEN Len(s) - 1 - 1 + 1 ELSE 0
      /\ \A i \in 1 .. Len(s) - 1 - 1 + 1 : SubSeq(s, 1, Len(s) - 1)[i] = s[1 + i - 1]
  BY <1>1, <1>3, SubSeqProperties
<1> DEFINE front == SubSeq(s, 1, Len(s) - 1)
           n == Len(s)
           pos == [i \in 1 .. Len(front) |-> i]
<1> HIDE DEF front, n, pos
<1>5. n \in Nat \ {0}
  BY <1>1 DEF n
<1>6. Len(front) = IF 1 <= n - 1 THEN n - 1 - 1 + 1 ELSE 0
  BY <1>4 DEF front, n
<1>7. \A i \in 1 .. n - 1 - 1 + 1 : front[i] = s[1 + i - 1]
  BY <1>4 DEF front, n
<1>8. Len(front) = n - 1
  BY <1>5, <1>6
<1>9. \A i \in 1 .. n - 1 : front[i] = s[i]
  BY <1>5, <1>7
<1>10. s[n] \in S /\ n \in 1 .. n
  BY <1>2, <1>5 DEF n
<1>11. pos \in [1 .. Len(front) -> (1 .. n) \ {n}]
  BY <1>5, <1>8 DEF pos
<1>12. /\ \A i \in 1 .. Len(front) : front[i] = s[pos[i]]
       /\ \A i1, i2 \in 1 .. Len(front) : pos[i1] = pos[i2] => i1 = i2
  BY <1>8, <1>9 DEF pos
<1>13. \A m \in (1 .. n) \ {n} : m \in 1 .. Len(front) /\ pos[m] = m
  BY <1>5, <1>8 DEF pos
<1> QED
  BY <1>4, <1>10, <1>11, <1>12, <1>13 DEF Without, front, n

-----------------------------------------------------------------------------
(***************************************************************************)
(* The inductive invariant. A resume of a coroutine is a token that is in  *)
(* one place at a time: a queue position, a waker, a submitting thread, or *)
(* a worker that popped it. While it exists the frame is suspended.        *)
(***************************************************************************)

Active == {"popped", "exec", "final", "moved", "cleared"}

\* Nobody but a queue holds the token of t.
OnlyQueued(t) ==
  /\ t \notin parked
  /\ \A s \in Submitters : sub[s] # t
  /\ \A w \in Workers : wpc[w] = "popped" => wjob[w] # t

\* The positions of queue q.
Idx(q) == 1 .. Len(queue[q])

\* A resume of t is in some queue.
Queued(t) == \E q \in Queues : \E i \in Idx(q) : queue[q][i] = t

InvQueue == \A t \in Tasks : Queued(t) => frame[t] = "suspended" /\ OnlyQueued(t)

\* A member of S is in one position of one queue.
UniqueIn(S) ==
  \A p, q \in Queues : \A i \in Idx(p) : \A j \in Idx(q) :
    queue[p][i] \in S /\ queue[p][i] = queue[q][j] => p = q /\ i = j

InvUnique == UniqueIn(Tasks)

InvParked ==
  \A t \in parked :
    /\ frame[t] = "suspended"
    /\ \A s \in Submitters : sub[s] # t
    /\ \A w \in Workers : wpc[w] = "popped" => wjob[w] # t

InvSub ==
  \A s \in Submitters : sub[s] # NoJob =>
    /\ frame[sub[s]] = "suspended"
    /\ \A r \in Submitters : sub[r] = sub[s] => r = s
    /\ \A w \in Workers : wpc[w] = "popped" => wjob[w] # sub[s]

InvWorker ==
  \A w \in Workers :
    /\ wpc[w] \notin Active \cup {"ran"} => wjob[w] = NoJob
    /\ wpc[w] \in Active => wjob[w] # NoJob
    /\ wpc[w] \in {"final", "moved", "cleared"} => wjob[w] \in Tasks
    /\ wjob[w] \in Tasks =>
         /\ wpc[w] = "popped" => frame[wjob[w]] = "suspended"
         /\ wpc[w] = "exec" => frame[wjob[w]] = "running"
         /\ wpc[w] \in {"final", "moved"} => frame[wjob[w]] = "final" /\ wjob[w] \in finalizing
         /\ wpc[w] = "final" => wjob[w] \notin completed /\ wjob[w] \in accepted
         /\ wpc[w] \in {"moved", "cleared"} => wjob[w] \in completed
         /\ wpc[w] = "cleared" => frame[wjob[w]] \in {"final", "destroyed"}

InvHolder ==
  \A v, w \in Workers :
    wjob[v] \in Tasks /\ wjob[v] = wjob[w] /\ wpc[v] \in Active /\ wpc[w] \in Active => v = w

InvOwner ==
  /\ runningTasks = (accepted \cap Tasks) \ completed
  /\ \A t \in Tasks :
       /\ frame[t] = "none" => t \notin accepted /\ t \notin completed
       /\ frame[t] \in {"suspended", "running"} => t \in accepted /\ t \notin completed
       /\ t \in accepted /\ frame[t] = "destroyed" => t \in completed
       /\ frame[t] = "done" => t \in completed

InvFinished ==
  /\ \A t \in finishedTasks : t \in completed /\ frame[t] \in {"final", "done", "destroyed"}
  /\ \A t \in adoomed :
       t \in completed /\ t \notin finalizing /\ frame[t] \in {"final", "done", "destroyed"}
  /\ \A w \in Workers : \A t \in doomed[w] :
       t \in completed /\ t \notin finalizing /\ frame[t] \in {"final", "done", "destroyed"}

InvWait ==
  /\ due \subseteq accepted
  /\ leaving => due \cap Tasks \subseteq completed
  /\ apc = "returned" => leaving
  /\ apc \in {"idle", "scan", "running", "tasks"} => ~leaving

IndInv ==
  /\ TypeOK
  /\ InvQueue /\ InvUnique /\ InvParked /\ InvSub
  /\ InvWorker /\ InvHolder /\ InvOwner /\ InvFinished /\ InvWait

-----------------------------------------------------------------------------
(* Queue steps. *)

\* Pushing a job whose token is in no queue keeps the queues free of
\* duplicates, and adds nothing but that job.
LEMMA PushStep ==
  ASSUME TypeOK, NEW S, UniqueIn(S), NEW q \in Queues, NEW j \in Jobs, Push(q, j),
         j \in S => ~Queued(j)
  PROVE  /\ queue' \in [Queues -> Seq(Jobs)] /\ pending' \in [Queues -> Int]
         /\ UniqueIn(S)'
         /\ \A x \in Jobs : Queued(x)' <=> Queued(x) \/ (~stopping /\ x = j)
<1>1. CASE stopping
  BY <1>1 DEF Push, queueVars, TypeOK, UniqueIn, Queued, Idx
<1>2. CASE ~stopping
  <2> DEFINE long == Append(queue[q], j)
             n == Len(queue[q])
  <2>1. queue[q] \in Seq(Jobs) /\ n \in Nat
    BY LenProperties DEF TypeOK
  <2>2. /\ long \in Seq(Jobs) /\ Len(long) = n + 1
        /\ (\A i \in 1 .. n : long[i] = queue[q][i]) /\ long[n + 1] = j
    BY <2>1, AppendFacts
  <2>3. queue' = [queue EXCEPT ![q] = long] /\ pending' = [pending EXCEPT ![q] = @ + 1]
    BY <1>2 DEF Push
  <2>4. Idx(q) = 1 .. n
    BY DEF Idx
  <2> HIDE DEF long, n
  <2>5. queue' \in [Queues -> Seq(Jobs)] /\ pending' \in [Queues -> Int]
    BY <2>2, <2>3 DEF TypeOK
  <2>6. queue'[q] = long /\ \A p \in Queues : p # q => queue'[p] = queue[p]
    BY <2>3 DEF TypeOK
  <2>7. Idx(q)' = 1 .. n + 1
    BY <2>2, <2>6 DEF Idx
  <2>8. \A p \in Queues : p # q => Idx(p)' = Idx(p)
    BY <2>6 DEF Idx
  <2>9. \A i \in 1 .. n + 1 : i = n + 1 \/ i \in 1 .. n
    BY <2>1
  <2>10. \A i \in Idx(q)' : (i = n + 1 /\ queue'[q][i] = j) \/ (i \in Idx(q) /\ queue'[q][i] = queue[q][i])
    BY <2>2, <2>4, <2>6, <2>7, <2>9
  <2>11. \A p \in Queues : \A i \in Idx(p)' :
           \/ p = q /\ i = n + 1 /\ queue'[p][i] = j
           \/ i \in Idx(p) /\ queue'[p][i] = queue[p][i]
    BY <2>6, <2>8, <2>10
  <2>12. \A x \in Jobs : Queued(x)' => x = j \/ Queued(x)
    BY <2>11 DEF Queued
  <2>14. \A p \in Queues : \A i \in Idx(p) : i \in Idx(p)' /\ queue'[p][i] = queue[p][i]
    BY <2>1, <2>2, <2>4, <2>6, <2>7, <2>8
  <2>15. \A x \in Jobs : Queued(x) => Queued(x)'
    BY <2>14 DEF Queued
  <2>16. n + 1 \in Idx(q)' /\ queue'[q][n + 1] = j
    BY <2>1, <2>2, <2>6, <2>7
  <2>17. Queued(j)'
    BY <2>16 DEF Queued
  <2>13. UniqueIn(S)'
    BY <2>11 DEF UniqueIn, Queued
  <2> QED
    BY <1>2, <2>5, <2>12, <2>13, <2>15, <2>17
<1> QED
  BY <1>1, <1>2

\* Removing one position from a queue keeps the queues free of duplicates, and
\* the coroutine that was there is in no queue afterwards.
LEMMA RemoveStep ==
  ASSUME TypeOK, NEW S, UniqueIn(S), NEW q \in Queues, NEW rest \in Seq(Jobs), NEW k \in Idx(q),
         Without(queue[q], k, rest), queue' = [queue EXCEPT ![q] = rest]
  PROVE  /\ UniqueIn(S)'
         /\ \A x \in S : Queued(x)' => Queued(x) /\ x # queue[q][k]
         /\ \A x \in Jobs : x # queue[q][k] => (Queued(x)' <=> Queued(x))
<1> DEFINE R == 1 .. Len(rest)
<1>1. PICK pos \in [R -> (1 .. Len(queue[q])) \ {k}] :
        /\ \A i \in R : rest[i] = queue[q][pos[i]]
        /\ \A i1, i2 \in R : pos[i1] = pos[i2] => i1 = i2
        /\ \A m \in (1 .. Len(queue[q])) \ {k} : \E i \in R : pos[i] = m
  BY DEF Without
<1>2. queue'[q] = rest /\ \A p \in Queues : p # q => queue'[p] = queue[p]
  BY DEF TypeOK
<1>3. Idx(q)' = R /\ \A p \in Queues : p # q => Idx(p)' = Idx(p)
  BY <1>2 DEF Idx
<1>4. \A i \in R : pos[i] \in Idx(q) /\ pos[i] # k
  BY <1>1 DEF Idx
<1> HIDE DEF R
<1>5. \A p \in Queues : \A i \in Idx(p)' :
        \E m \in Idx(p) : /\ queue'[p][i] = queue[p][m]
                          /\ (p = q => m = pos[i] /\ m # k) /\ (p # q => m = i)
  BY <1>1, <1>2, <1>3, <1>4
<1>6. UniqueIn(S)'
  <2> SUFFICES ASSUME NEW p1 \in Queues, NEW p2 \in Queues, NEW i1 \in Idx(p1)',
                      NEW i2 \in Idx(p2)', queue'[p1][i1] \in S,
                      queue'[p1][i1] = queue'[p2][i2]
               PROVE  p1 = p2 /\ i1 = i2
    BY DEF UniqueIn
  <2>1. PICK m1 \in Idx(p1) : /\ queue'[p1][i1] = queue[p1][m1]
                              /\ (p1 = q => m1 = pos[i1]) /\ (p1 # q => m1 = i1)
    BY <1>5
  <2>2. PICK m2 \in Idx(p2) : /\ queue'[p2][i2] = queue[p2][m2]
                              /\ (p2 = q => m2 = pos[i2]) /\ (p2 # q => m2 = i2)
    BY <1>5
  <2>3. p1 = p2 /\ m1 = m2
    BY <2>1, <2>2 DEF UniqueIn
  <2> QED
    BY <1>1, <1>3, <2>1, <2>2, <2>3
<1>7. ASSUME NEW x \in S, Queued(x)'
      PROVE  Queued(x) /\ x # queue[q][k]
  <2>1. PICK p \in Queues : \E i \in Idx(p)' : queue'[p][i] = x
    BY <1>7 DEF Queued
  <2>2. PICK m \in Idx(p) : queue[p][m] = x /\ (p = q => m # k)
    BY <1>5, <2>1
  <2> QED
    BY <2>2 DEF Queued, UniqueIn
<1>8. \A p \in Queues : \A m \in Idx(p) :
        (p = q /\ m = k) \/ \E i \in Idx(p)' : queue'[p][i] = queue[p][m]
  <2>1. ASSUME NEW m \in Idx(q), m # k PROVE \E i \in Idx(q)' : queue'[q][i] = queue[q][m]
    <3>1. PICK i \in R : pos[i] = m
      BY <1>1, <2>1 DEF Idx
    <3> QED
      BY <1>1, <1>2, <1>3, <3>1
  <2> QED
    BY <1>2, <1>3, <2>1
<1>9. ASSUME NEW x \in Jobs, x # queue[q][k] PROVE Queued(x)' <=> Queued(x)
  BY <1>5, <1>8, <1>9 DEF Queued
<1> QED
  BY <1>6, <1>7, <1>9

\* A worker takes the job at position k of queue q.
LEMMA TakeStep ==
  ASSUME IndInv, NEW w \in Workers, NEW q \in Queues, NEW rest \in Seq(Jobs), NEW k \in Idx(q),
         queue[q][k] \in Jobs, Without(queue[q], k, rest),
         wpc[w] \in {"local", "global", "steal"},
         Take(w, q, queue[q][k], rest),
         UNCHANGED <<stopping, running, taskVars, coVars, doomed, sub, stopper, waitVars, histVars>>
  PROVE  IndInv'
<1> DEFINE j == queue[q][k]
<1> USE DEF IndInv, Take, taskVars, coVars, waitVars, histVars
<1>a. /\ wjob'[w] = j /\ wpc'[w] = "popped"
      /\ \A v \in Workers : v # w => wjob'[v] = wjob[v] /\ wpc'[v] = wpc[v]
  BY DEF TypeOK
<1>b. InvUnique' /\ \A x \in Tasks : Queued(x)' => Queued(x) /\ x # j
  BY RemoveStep DEF InvUnique
<1>c. j \in Tasks => frame[j] = "suspended" /\ OnlyQueued(j)
  BY DEF InvQueue, Queued
<1> HIDE DEF j
<1>1. TypeOK'
  BY DEF TypeOK, WorkerPcs
<1>2. InvQueue'
  <2>1. \A t \in Tasks : t # j /\ OnlyQueued(t) => OnlyQueued(t)'
    BY <1>a DEF OnlyQueued
  <2> QED
    BY <1>b, <2>1 DEF InvQueue
<1>4. InvParked'
  BY <1>a, <1>c DEF InvParked, OnlyQueued, TypeOK
<1>5. InvSub'
  BY <1>a, <1>c, JobsAssumption DEF InvSub, OnlyQueued, TypeOK
<1>6. InvWorker'
  <2>1. j # NoJob
    BY JobsAssumption DEF j
  <2> QED
    BY <1>a, <1>c, <2>1 DEF InvWorker, Active, TypeOK
<1>7. InvHolder'
  <2> SUFFICES ASSUME NEW u \in Workers, NEW v \in Workers, wjob'[u] \in Tasks,
                      wjob'[u] = wjob'[v], wpc'[u] \in Active, wpc'[v] \in Active
               PROVE  u = v
    BY DEF InvHolder
  <2>1. \A x \in Workers : x # w /\ wpc[x] \in Active /\ j \in Tasks => wjob[x] # j
    BY <1>c DEF InvWorker, Active, OnlyQueued
  <2> QED
    BY <1>a, <2>1 DEF InvHolder
<1>8. InvOwner'
  BY DEF InvOwner
<1>9. InvFinished'
  BY DEF InvFinished
<1>10. InvWait'
  BY DEF InvWait
<1> QED
  BY <1>1, <1>2, <1>b, <1>4, <1>5, <1>6, <1>7, <1>8, <1>9, <1>10

\* run() takes the front of its own or of the global queue.
LEMMA TakeFront ==
  ASSUME IndInv, NEW w \in Workers, NEW q \in Queues, queue[q] \in Seq(Jobs), queue[q] # <<>>,
         wpc[w] \in {"local", "global"},
         Take(w, q, Head(queue[q]), Tail(queue[q])),
         UNCHANGED <<stopping, running, taskVars, coVars, doomed, sub, stopper, waitVars, histVars>>
  PROVE  IndInv'
<1>1. /\ Tail(queue[q]) \in Seq(Jobs) /\ Head(queue[q]) = queue[q][1] /\ queue[q][1] \in Jobs
      /\ Without(queue[q], 1, Tail(queue[q])) /\ 1 \in Idx(q)
  BY PopFrontFacts DEF Idx
<1> QED
  BY <1>1, TakeStep

\* stealTask() takes the back of another worker's queue.
LEMMA TakeBack ==
  ASSUME IndInv, NEW w \in Workers, NEW q \in Queues, queue[q] \in Seq(Jobs), queue[q] # <<>>,
         wpc[w] = "steal",
         Take(w, q, queue[q][Len(queue[q])], SubSeq(queue[q], 1, Len(queue[q]) - 1)),
         UNCHANGED <<stopping, running, taskVars, coVars, doomed, sub, stopper, waitVars, histVars>>
  PROVE  IndInv'
<1> DEFINE n == Len(queue[q])
           rest == SubSeq(queue[q], 1, Len(queue[q]) - 1)
<1>1. /\ rest \in Seq(Jobs) /\ queue[q][n] \in Jobs
      /\ Without(queue[q], n, rest) /\ n \in Idx(q)
  BY PopBackFacts DEF Idx
<1>2. Take(w, q, queue[q][n], rest)
  OBVIOUS
<1> HIDE DEF n, rest
<1> QED
  BY <1>1, <1>2, TakeStep

-----------------------------------------------------------------------------
(* One lemma per action: it preserves the invariant. *)

\* A step that only moves workers that hold no job.
LEMMA QuietStep ==
  ASSUME IndInv, wpc' \in [Workers -> WorkerPcs],
         \A w \in Workers : \/ wpc'[w] = wpc[w]
                            \/ /\ wpc[w] \notin Active \cup {"ran"}
                               /\ wpc'[w] \notin Active \cup {"ran"},
         UNCHANGED <<stopping, queueVars, running, taskVars, coVars, wjob, doomed, sub, stopper,
                     waitVars, histVars>>
  PROVE  IndInv'
<1> USE DEF IndInv, queueVars, taskVars, coVars, waitVars, histVars
<1>1. TypeOK'
  BY DEF TypeOK
<1>2. \A w \in Workers : wpc'[w] = "popped" => wpc[w] = "popped"
  BY DEF Active
<1>3. InvQueue'
  BY <1>2 DEF InvQueue, Queued, Idx, OnlyQueued
<1>4. InvParked' /\ InvSub'
  BY <1>2 DEF InvParked, InvSub
<1>5. InvWorker'
  BY DEF InvWorker, Active
<1>6. InvHolder'
  BY DEF InvHolder
<1>7. InvUnique' /\ InvOwner' /\ InvFinished' /\ InvWait'
  BY DEF InvUnique, UniqueIn, Idx, InvOwner, InvFinished, InvWait
<1> QED
  BY <1>1, <1>3, <1>4, <1>5, <1>6, <1>7

\* start() changes nothing but where the workers are.
LEMMA StepStart ==
  ASSUME IndInv, Start
  PROVE  IndInv'
BY QuietStep DEF Start, IndInv, TypeOK, WorkerPcs, Active

\* schedule(Task<T>), registration: the coroutine is new, nothing held its frame before.
LEMMA StepRegisterTask ==
  ASSUME IndInv, NEW s \in Submitters, NEW t \in Tasks, RegisterTask(s, t)
  PROVE  IndInv'
<1> USE DEF IndInv, RegisterTask, CanSubmit, queueVars, taskVars, coVars, workerVars, waitVars, histVars
<1>a. frame' \in [Tasks -> Frames]
  BY ZenonT(60) DEF TypeOK, Frames
<1>b. runningTasks' \subseteq Tasks /\ accepted' \subseteq Jobs
  BY DEF TypeOK, Jobs
<1>c. sub' \in [Submitters -> Tasks \cup {NoJob}]
  BY DEF TypeOK
<1>d. \A x \in Tasks : x # t => frame'[x] = frame[x]
  BY DEF TypeOK
<1>1. TypeOK'
  BY <1>a, <1>b, <1>c DEF TypeOK
<1>2. InvQueue'
  <2>1. \A x \in Tasks : Queued(x)' <=> Queued(x)
    BY DEF Queued, Idx
  <2> QED
    BY <2>1, JobsAssumption DEF InvQueue, OnlyQueued, InvWorker, Active, TypeOK
<1>3. InvParked'
  BY JobsAssumption DEF InvParked, TypeOK
<1>4. InvSub'
  BY JobsAssumption DEF InvSub, TypeOK, InvWorker, Active
<1>5. InvWorker'
  BY JobsAssumption DEF InvWorker, Active, TypeOK
<1>6. InvOwner'
  <2>1. CASE stopping
    BY <2>1, <1>d DEF InvOwner, TypeOK
  <2>2. CASE ~stopping
    <3>1. frame'[t] = "suspended"
      BY <2>2 DEF TypeOK
    <3>2. t \notin completed
      BY DEF InvOwner, InvFinished
    <3> QED
      BY <2>2, <3>1, <3>2, <1>d DEF InvOwner
  <2> QED
    BY <2>1, <2>2
<1>7. InvFinished'
  BY JobsAssumption DEF InvFinished, InvOwner, TypeOK
<1>8. InvWait'
  BY JobsAssumption DEF InvWait, InvOwner, TypeOK
<1>9. InvUnique' /\ InvHolder'
  BY DEF InvUnique, UniqueIn, Idx, InvHolder
<1> QED
  BY <1>1, <1>2, <1>3, <1>4, <1>5, <1>6, <1>7, <1>8, <1>9 DEF IndInv

\* schedule(Task<T>), push: the token goes from the submitting thread to a queue.
LEMMA StepEnqueueTask ==
  ASSUME IndInv, NEW s \in Submitters, NEW q \in Queues, EnqueueTask(s, q)
  PROVE  IndInv'
<1> USE DEF IndInv, EnqueueTask, queueVars, taskVars, coVars, workerVars, waitVars, histVars
<1>j. PICK j \in Tasks : sub[s] = j
  BY DEF TypeOK
<1>f. sub'[s] = NoJob
  BY DEF TypeOK
<1>g. Push(q, j)
  BY <1>j
<1>a. j \in Jobs /\ (j \in Tasks => ~Queued(j))
  BY <1>j DEF Jobs, InvQueue, OnlyQueued
<1>b. /\ queue' \in [Queues -> Seq(Jobs)] /\ pending' \in [Queues -> Int]
      /\ InvUnique'
      /\ \A x \in Tasks : Queued(x)' => x = j \/ Queued(x)
  BY <1>a, <1>g, PushStep DEF InvUnique, Jobs
<1>c. frame' = frame /\ wpc' = wpc /\ wjob' = wjob /\ parked' \subseteq parked
  OBVIOUS
<1>d. \A r \in Submitters : sub'[r] = sub[r] \/ sub'[r] = NoJob
  BY DEF TypeOK
<1>e. NoJob \notin Tasks
  BY JobsAssumption DEF Jobs
<1>1. TypeOK'
  BY <1>b, JobsAssumption DEF TypeOK, Jobs
<1>2. InvQueue'
  <2>1. \A x \in Tasks : OnlyQueued(x) => OnlyQueued(x)'
    BY <1>c, <1>d, <1>e DEF OnlyQueued
  <2>2. j \in Tasks => frame[j] = "suspended" /\ OnlyQueued(j)'
    BY <1>j, <1>f, <1>c, <1>d, <1>e, JobsAssumption DEF OnlyQueued, InvParked, InvSub, TypeOK
  <2> QED
    BY <1>b, <1>c, <2>1, <2>2 DEF InvQueue
<1>3. InvUnique'
  BY <1>b
<1>4. InvParked'
  BY <1>c, <1>d, <1>e DEF InvParked, TypeOK
<1>5. InvSub'
  BY JobsAssumption DEF InvSub, TypeOK
<1>6. InvWorker' /\ InvHolder' /\ InvOwner' /\ InvFinished' /\ InvWait'
  BY DEF InvWorker, InvHolder, InvOwner, InvFinished, InvWait
<1> QED
  BY <1>1, <1>2, <1>3, <1>4, <1>5, <1>6 DEF IndInv

\* schedule(std::function): a callback in a queue holds no frame.
LEMMA StepSubmitCallback ==
  ASSUME IndInv, NEW s \in Submitters, NEW c \in Callbacks, NEW q \in Queues, SubmitCallback(s, c, q)
  PROVE  IndInv'
<1> USE DEF IndInv, SubmitCallback, queueVars, taskVars, coVars, workerVars, waitVars, histVars
<1>a. c \in Jobs /\ (c \in Tasks => ~Queued(c))
  BY JobsAssumption DEF TypeOK, Jobs, InvQueue, OnlyQueued, InvOwner
<1>b. /\ queue' \in [Queues -> Seq(Jobs)] /\ pending' \in [Queues -> Int]
      /\ InvUnique'
      /\ \A x \in Tasks : Queued(x)' => x = c \/ Queued(x)
  BY <1>a, PushStep DEF InvUnique, Jobs
<1>c. frame' = frame /\ wpc' = wpc /\ wjob' = wjob /\ parked' \subseteq parked
  OBVIOUS
<1>d. \A r \in Submitters : sub'[r] = sub[r] \/ sub'[r] = NoJob
  BY DEF TypeOK
<1>e. NoJob \notin Tasks
  BY JobsAssumption DEF Jobs
<1>1. TypeOK'
  BY <1>b, JobsAssumption DEF TypeOK, Jobs
<1>2. InvQueue'
  <2>1. \A x \in Tasks : OnlyQueued(x) => OnlyQueued(x)'
    BY <1>c, <1>d, <1>e DEF OnlyQueued
  <2>2. c \in Tasks => frame[c] = "suspended" /\ OnlyQueued(c)'
    BY <1>a, <1>c, <1>d, <1>e, JobsAssumption DEF OnlyQueued, InvParked, InvSub, TypeOK
  <2> QED
    BY <1>b, <1>c, <2>1, <2>2 DEF InvQueue
<1>3. InvUnique'
  BY <1>b
<1>4. InvWorker'
  BY JobsAssumption DEF InvWorker, Active, TypeOK
<1>5. InvOwner'
  BY JobsAssumption DEF InvOwner, InvWorker, Active, TypeOK
<1>6. InvWait'
  BY JobsAssumption DEF InvWait, InvOwner, TypeOK
<1>7. InvParked' /\ InvSub' /\ InvHolder' /\ InvFinished'
  BY DEF InvParked, InvSub, InvHolder, InvFinished
<1> QED
  BY <1>1, <1>2, <1>3, <1>4, <1>5, <1>6, <1>7 DEF IndInv

\* schedule(handle): the token goes from the waker to a queue, or is dropped.
LEMMA StepWake ==
  ASSUME IndInv, NEW t \in Tasks, NEW q \in Queues, Wake(t, q)
  PROVE  IndInv'
<1> USE DEF IndInv, Wake, queueVars, taskVars, coVars, workerVars, waitVars, histVars
<1>a. t \in Jobs /\ (t \in Tasks => ~Queued(t))
  BY JobsAssumption DEF TypeOK, Jobs, InvQueue, OnlyQueued, InvOwner
<1>b. /\ queue' \in [Queues -> Seq(Jobs)] /\ pending' \in [Queues -> Int]
      /\ InvUnique'
      /\ \A x \in Tasks : Queued(x)' => x = t \/ Queued(x)
  BY <1>a, PushStep DEF InvUnique, Jobs
<1>c. frame' = frame /\ wpc' = wpc /\ wjob' = wjob /\ parked' \subseteq parked
  OBVIOUS
<1>d. \A r \in Submitters : sub'[r] = sub[r] \/ sub'[r] = NoJob
  BY DEF TypeOK
<1>e. NoJob \notin Tasks
  BY JobsAssumption DEF Jobs
<1>1. TypeOK'
  BY <1>b, JobsAssumption DEF TypeOK, Jobs
<1>2. InvQueue'
  <2>1. \A x \in Tasks : OnlyQueued(x) => OnlyQueued(x)'
    BY <1>c, <1>d, <1>e DEF OnlyQueued
  <2>2. t \in Tasks => frame[t] = "suspended" /\ OnlyQueued(t)'
    BY <1>a, <1>c, <1>d, <1>e, JobsAssumption DEF OnlyQueued, InvParked, InvSub, TypeOK
  <2> QED
    BY <1>b, <1>c, <2>1, <2>2 DEF InvQueue
<1>3. InvUnique'
  BY <1>b
<1>4. InvParked'
  BY <1>c, <1>d, <1>e DEF InvParked, TypeOK
<1>5. InvSub' /\ InvWorker' /\ InvHolder' /\ InvOwner' /\ InvFinished' /\ InvWait'
  BY DEF InvSub, InvWorker, InvHolder, InvOwner, InvFinished, InvWait
<1> QED
  BY <1>1, <1>2, <1>3, <1>4, <1>5 DEF IndInv

\* run(): a pop from the worker's own queue, or a look at the next source.
LEMMA StepPopLocal ==
  ASSUME IndInv, NEW w \in Workers, PopLocal(w)
  PROVE  IndInv'
<1>1. CASE queue[w] # <<>>
  <2>1. w \in Queues /\ queue[w] \in Seq(Jobs)
    BY DEF IndInv, TypeOK, Queues, Workers
  <2> QED
    BY <1>1, <2>1, TakeFront DEF PopLocal, PopFront
<1>2. CASE queue[w] = <<>>
  BY <1>2, QuietStep DEF PopLocal, PopFront, queueVars, IndInv, TypeOK, WorkerPcs, Active
<1> QED
  BY <1>1, <1>2

\* run(): a pop from the global queue, or a look at the next source.
LEMMA StepPopGlobal ==
  ASSUME IndInv, NEW w \in Workers, PopGlobal(w)
  PROVE  IndInv'
<1>1. CASE queue[Global] # <<>>
  <2>1. Global \in Queues /\ queue[Global] \in Seq(Jobs)
    BY DEF IndInv, TypeOK, Queues, Workers
  <2> QED
    BY <1>1, <2>1, TakeFront DEF PopGlobal, PopFront
<1>2. CASE queue[Global] = <<>>
  BY <1>2, QuietStep DEF PopGlobal, PopFront, queueVars, IndInv, TypeOK, WorkerPcs, Active
<1> QED
  BY <1>1, <1>2

\* stealTask(): a theft from the back of another queue.
LEMMA StepStealTask ==
  ASSUME IndInv, NEW w \in Workers, NEW v \in Workers, StealTask(w, v)
  PROVE  IndInv'
<1>1. v \in Queues /\ queue[v] \in Seq(Jobs)
  BY DEF IndInv, TypeOK, Queues, Workers
<1> QED
  BY <1>1, TakeBack DEF StealTask

\* stealTask() came back empty-handed.
LEMMA StepStealFails ==
  ASSUME IndInv, NEW w \in Workers, StealFails(w)
  PROVE  IndInv'
BY QuietStep DEF StealFails, IndInv, TypeOK, WorkerPcs, Active

\* run(): the popped handle is resumed, which turns its token into the running frame.
LEMMA StepBeginJob ==
  ASSUME IndInv, NEW w \in Workers, BeginJob(w)
  PROVE  IndInv'
<1> USE DEF IndInv, BeginJob, queueVars, taskVars, coVars, workerVars, waitVars, histVars
<1>a. running' \in Int
  BY DEF TypeOK
<1>b. frame' \in [Tasks -> Frames] /\ wpc' \in [Workers -> WorkerPcs]
  BY DEF TypeOK, Frames, WorkerPcs
<1>c. \A t \in Tasks : frame'[t] = frame[t] \/ (frame[t] = "suspended" /\ frame'[t] = "running")
  BY DEF TypeOK
<1>1. TypeOK'
  BY <1>a, <1>b DEF TypeOK
<1>2. InvQueue'
  <2>1. \A x \in Tasks : Queued(x)' <=> Queued(x)
    BY DEF Queued, Idx
  <2> QED
    BY <2>1, JobsAssumption DEF InvQueue, OnlyQueued, InvWorker, Active, TypeOK
<1>3. InvParked'
  BY JobsAssumption DEF InvParked, TypeOK
<1>4. InvSub'
  BY JobsAssumption DEF InvSub, TypeOK
<1>5. InvWorker'
  BY JobsAssumption DEF InvWorker, Active, InvHolder, TypeOK
<1>6. InvHolder'
  BY JobsAssumption DEF InvHolder, InvWorker, Active, TypeOK
<1>7. InvOwner'
  BY JobsAssumption DEF InvOwner, InvWorker, Active, TypeOK
<1>8. InvFinished'
  BY <1>c DEF InvFinished, TypeOK
<1>9. InvUnique' /\ InvWait'
  BY DEF InvUnique, UniqueIn, Idx, InvWait
<1> QED
  BY <1>1, <1>2, <1>3, <1>4, <1>5, <1>6, <1>7, <1>8, <1>9 DEF IndInv

\* run(): a plain function returned; no coroutine is concerned.
LEMMA StepCallbackReturns ==
  ASSUME IndInv, NEW w \in Workers, CallbackReturns(w)
  PROVE  IndInv'
<1> USE DEF IndInv, CallbackReturns, queueVars, taskVars, coVars, workerVars, waitVars, histVars
<1>1. TypeOK'
  BY JobsAssumption DEF TypeOK, Frames, WorkerPcs, WaiterPcs, Jobs, Queues, Global, Workers, Submitters
<1>2. InvQueue'
  <2>1. \A x \in Tasks : Queued(x)' <=> Queued(x)
    BY DEF Queued, Idx
  <2> QED
    BY <2>1, JobsAssumption DEF InvQueue, OnlyQueued, InvWorker, Active, TypeOK
<1>3. InvParked'
  BY JobsAssumption DEF InvParked, TypeOK
<1>4. InvSub'
  BY JobsAssumption DEF InvSub, TypeOK
<1>5. InvWorker'
  BY JobsAssumption DEF InvWorker, Active, TypeOK
<1>6. InvHolder'
  BY JobsAssumption DEF InvHolder, InvWorker, Active, TypeOK
<1>7. InvOwner'
  BY JobsAssumption DEF InvOwner, InvWorker, Active, TypeOK
<1>8. InvFinished'
  BY JobsAssumption DEF InvFinished, InvOwner, TypeOK
<1>9. InvWait'
  BY JobsAssumption DEF InvWait, InvOwner, TypeOK
<1>10. InvUnique'
  BY DEF InvUnique, UniqueIn, Idx
<1> QED
  BY <1>1, <1>2, <1>3, <1>4, <1>5, <1>6, <1>7, <1>8, <1>9, <1>10 DEF IndInv

\* A running coroutine suspends: the token is created again, with the waker.
LEMMA StepCoAwait ==
  ASSUME IndInv, NEW w \in Workers, CoAwait(w)
  PROVE  IndInv'
<1> USE DEF IndInv, CoAwait, queueVars, taskVars, coVars, workerVars, waitVars, histVars
<1>1. TypeOK'
  BY JobsAssumption, BoundAssumption DEF TypeOK, Frames, WorkerPcs
<1>2. InvQueue'
  <2>1. \A x \in Tasks : Queued(x)' <=> Queued(x)
    BY DEF Queued, Idx
  <2> QED
    BY <2>1, JobsAssumption DEF InvQueue, OnlyQueued, InvWorker, Active, TypeOK
<1>3. InvParked'
  BY JobsAssumption DEF InvParked, TypeOK, InvWorker, Active, InvSub
<1>4. InvSub'
  BY JobsAssumption DEF InvSub, TypeOK
<1>5. InvWorker'
  BY JobsAssumption DEF InvWorker, Active, TypeOK, InvHolder
<1>6. InvHolder'
  BY JobsAssumption DEF InvHolder, InvWorker, Active, TypeOK
<1>7. InvOwner'
  BY JobsAssumption DEF InvOwner, InvWorker, Active, TypeOK
<1>8. InvFinished'
  BY JobsAssumption DEF InvFinished, InvOwner, TypeOK, InvWorker, Active
<1>9. InvUnique' /\ InvWait'
  BY DEF InvUnique, UniqueIn, Idx, InvWait
<1> QED
  BY <1>1, <1>2, <1>3, <1>4, <1>5, <1>6, <1>7, <1>8, <1>9 DEF IndInv

\* final_suspend() begins: the frame leaves the set of frames that may be resumed.
LEMMA StepCoReturn ==
  ASSUME IndInv, NEW w \in Workers, CoReturn(w)
  PROVE  IndInv'
<1> USE DEF IndInv, CoReturn, queueVars, taskVars, coVars, workerVars, waitVars, histVars
<1>1. TypeOK'
  BY JobsAssumption DEF TypeOK, Frames, WorkerPcs, WaiterPcs, Jobs, Queues, Global, Workers, Submitters
<1>2. InvQueue'
  <2>1. \A x \in Tasks : Queued(x)' <=> Queued(x)
    BY DEF Queued, Idx
  <2> QED
    BY <2>1, JobsAssumption DEF InvQueue, OnlyQueued, InvWorker, Active, TypeOK
<1>3. InvParked'
  BY JobsAssumption DEF InvParked, TypeOK, InvWorker, Active
<1>4. InvSub'
  BY JobsAssumption DEF InvSub, TypeOK, InvWorker, Active
<1>5. InvWorker'
  BY JobsAssumption DEF InvWorker, Active, TypeOK, InvHolder, InvOwner
<1>6. InvHolder'
  BY JobsAssumption DEF InvHolder, InvWorker, Active, TypeOK
<1>7. InvOwner'
  BY JobsAssumption DEF InvOwner, InvWorker, Active, TypeOK
<1>8. InvFinished'
  BY JobsAssumption DEF InvFinished, InvOwner, TypeOK, InvWorker, Active
<1>9. InvUnique' /\ InvWait'
  BY DEF InvUnique, UniqueIn, Idx, InvWait
<1> QED
  BY <1>1, <1>2, <1>3, <1>4, <1>5, <1>6, <1>7, <1>8, <1>9 DEF IndInv

\* on_complete: the owner changes from m_runningTasks to m_finishedTasks.
LEMMA StepOnComplete ==
  ASSUME IndInv, NEW w \in Workers, OnComplete(w)
  PROVE  IndInv'
<1> USE DEF IndInv, OnComplete, queueVars, taskVars, coVars, workerVars, waitVars, histVars
<1>1. TypeOK'
  BY JobsAssumption DEF TypeOK, Frames, WorkerPcs, WaiterPcs, Jobs, Queues, Global, Workers, Submitters, InvWorker, Active
<1>2. InvQueue'
  <2>1. \A x \in Tasks : Queued(x)' <=> Queued(x)
    BY DEF Queued, Idx
  <2> QED
    BY <2>1, JobsAssumption DEF InvQueue, OnlyQueued, InvWorker, Active, TypeOK
<1>3. InvParked'
  BY JobsAssumption DEF InvParked, TypeOK
<1>4. InvSub'
  BY JobsAssumption DEF InvSub, TypeOK
<1>5. InvWorker'
  BY JobsAssumption DEF InvWorker, Active, TypeOK, InvHolder
<1>6. InvHolder'
  BY JobsAssumption DEF InvHolder, InvWorker, Active, TypeOK
<1>7. InvOwner'
  BY JobsAssumption DEF InvOwner, InvWorker, Active, TypeOK
<1>8. InvFinished'
  BY JobsAssumption DEF InvFinished, InvOwner, TypeOK, InvWorker, Active
<1>9. InvWait'
  BY JobsAssumption DEF InvWait, InvOwner, TypeOK
<1>10. InvUnique'
  BY DEF InvUnique, UniqueIn, Idx
<1> QED
  BY <1>1, <1>2, <1>3, <1>4, <1>5, <1>6, <1>7, <1>8, <1>9, <1>10 DEF IndInv

\* final_suspend() clears finalizing: from here on the frame may be reclaimed.
LEMMA StepClearFinalizing ==
  ASSUME IndInv, NEW w \in Workers, ClearFinalizing(w)
  PROVE  IndInv'
<1> USE DEF IndInv, ClearFinalizing, queueVars, taskVars, coVars, workerVars, waitVars, histVars
<1>1. TypeOK'
  BY JobsAssumption DEF TypeOK, Frames, WorkerPcs, WaiterPcs, Jobs, Queues, Global, Workers, Submitters
<1>2. InvQueue'
  <2>1. \A x \in Tasks : Queued(x)' <=> Queued(x)
    BY DEF Queued, Idx
  <2> QED
    BY <2>1, JobsAssumption DEF InvQueue, OnlyQueued, InvWorker, Active, TypeOK
<1>3. InvParked'
  BY JobsAssumption DEF InvParked, TypeOK
<1>4. InvSub'
  BY JobsAssumption DEF InvSub, TypeOK
<1>5. InvWorker'
  BY JobsAssumption DEF InvWorker, Active, TypeOK, InvHolder
<1>6. InvHolder'
  BY JobsAssumption DEF InvHolder, InvWorker, Active, TypeOK
<1>7. InvFinished'
  BY JobsAssumption DEF InvFinished, InvOwner, TypeOK
<1>8. InvUnique' /\ InvOwner' /\ InvWait'
  BY DEF InvUnique, UniqueIn, Idx, InvOwner, InvWait
<1> QED
  BY <1>1, <1>2, <1>3, <1>4, <1>5, <1>6, <1>7, <1>8 DEF IndInv

\* final_suspend() is left, with or without the frame.
LEMMA StepLeaveFinalSuspend ==
  ASSUME IndInv, NEW w \in Workers, LeaveFinalSuspend(w)
  PROVE  IndInv'
<1> USE DEF IndInv, LeaveFinalSuspend, queueVars, taskVars, coVars, workerVars, waitVars, histVars
<1>1. TypeOK'
  BY JobsAssumption DEF TypeOK, Frames, WorkerPcs, WaiterPcs, Jobs, Queues, Global, Workers, Submitters
<1>2. InvQueue'
  <2>1. \A x \in Tasks : Queued(x)' <=> Queued(x)
    BY DEF Queued, Idx
  <2> QED
    BY <2>1, JobsAssumption DEF InvQueue, OnlyQueued, InvWorker, Active, TypeOK
<1>3. InvParked'
  BY JobsAssumption DEF InvParked, TypeOK
<1>4. InvSub'
  BY JobsAssumption DEF InvSub, TypeOK
<1>5. InvWorker'
  BY JobsAssumption DEF InvWorker, Active, TypeOK, InvHolder
<1>6. InvHolder'
  BY JobsAssumption DEF InvHolder, InvWorker, Active, TypeOK
<1>7. InvOwner'
  BY JobsAssumption DEF InvOwner, InvWorker, Active, TypeOK
<1>8. InvFinished'
  BY JobsAssumption DEF InvFinished, InvOwner, TypeOK
<1>9. InvUnique' /\ InvWait'
  BY DEF InvUnique, UniqueIn, Idx, InvWait
<1> QED
  BY <1>1, <1>2, <1>3, <1>4, <1>5, <1>6, <1>7, <1>8, <1>9 DEF IndInv

\* run(): the end of one turn of the loop.
LEMMA StepEndJob ==
  ASSUME IndInv, NEW w \in Workers, EndJob(w)
  PROVE  IndInv'
<1> USE DEF IndInv, EndJob, queueVars, taskVars, coVars, workerVars, waitVars, histVars
<1>1. TypeOK'
  BY JobsAssumption DEF TypeOK, Frames, WorkerPcs, WaiterPcs, Jobs, Queues, Global, Workers, Submitters
<1>2. InvQueue'
  <2>1. \A x \in Tasks : Queued(x)' <=> Queued(x)
    BY DEF Queued, Idx
  <2> QED
    BY <2>1, JobsAssumption DEF InvQueue, OnlyQueued, InvWorker, Active, TypeOK
<1>3. InvParked'
  BY JobsAssumption DEF InvParked, TypeOK
<1>4. InvSub'
  BY JobsAssumption DEF InvSub, TypeOK
<1>5. InvWorker'
  BY JobsAssumption DEF InvWorker, Active, TypeOK
<1>6. InvHolder'
  BY JobsAssumption DEF InvHolder, InvWorker, Active, TypeOK
<1>7. InvUnique' /\ InvOwner' /\ InvFinished' /\ InvWait'
  BY DEF InvUnique, UniqueIn, Idx, InvOwner, InvFinished, InvWait
<1> QED
  BY <1>1, <1>2, <1>3, <1>4, <1>5, <1>6, <1>7 DEF IndInv

\* drainFinished() of a worker takes only completed frames that are not finalizing.
LEMMA StepDrainFinished ==
  ASSUME IndInv, NEW w \in Workers, DrainFinished(w)
  PROVE  IndInv'
<1> USE DEF IndInv, DrainFinished, Drainable, queueVars, taskVars, coVars, workerVars, waitVars, histVars
<1>1. TypeOK'
  BY JobsAssumption DEF TypeOK, Frames, WorkerPcs, WaiterPcs, Jobs, Queues, Global, Workers, Submitters
<1>2. InvQueue'
  <2>1. \A x \in Tasks : Queued(x)' <=> Queued(x)
    BY DEF Queued, Idx
  <2> QED
    BY <2>1, JobsAssumption DEF InvQueue, OnlyQueued, InvWorker, Active, TypeOK
<1>3. InvParked'
  BY JobsAssumption DEF InvParked, TypeOK
<1>4. InvSub'
  BY JobsAssumption DEF InvSub, TypeOK
<1>5. InvWorker'
  BY JobsAssumption DEF InvWorker, Active, TypeOK
<1>6. InvHolder'
  BY JobsAssumption DEF InvHolder, InvWorker, Active, TypeOK
<1>7. InvFinished'
  BY JobsAssumption DEF InvFinished, InvOwner, TypeOK
<1>8. InvUnique' /\ InvOwner' /\ InvWait'
  BY DEF InvUnique, UniqueIn, Idx, InvOwner, InvWait
<1> QED
  BY <1>1, <1>2, <1>3, <1>4, <1>5, <1>6, <1>7, <1>8 DEF IndInv

\* A worker destroys what it drained: none of it is suspended, running or finalizing.
LEMMA StepDestroyFinished ==
  ASSUME IndInv, NEW w \in Workers, DestroyFinished(w)
  PROVE  IndInv'
<1> USE DEF IndInv, DestroyFinished, Destroy, queueVars, taskVars, coVars, workerVars, waitVars, histVars
<1>a. \A t \in Tasks : frame[t] = "suspended" => frame'[t] = "suspended"
  BY DEF InvFinished, TypeOK
<1>1. TypeOK'
  BY JobsAssumption DEF TypeOK, Frames, WorkerPcs, WaiterPcs, Jobs, Queues, Global, Workers, Submitters
<1>2. InvQueue'
  BY <1>a DEF InvQueue, Queued, Idx, OnlyQueued
<1>3. InvParked'
  BY <1>a DEF InvParked, TypeOK
<1>4. InvSub'
  BY JobsAssumption DEF InvSub, TypeOK, InvFinished
<1>5. InvWorker'
  BY JobsAssumption DEF InvWorker, Active, TypeOK, InvFinished
<1>6. InvHolder'
  BY JobsAssumption DEF InvHolder, InvWorker, Active, TypeOK
<1>7. InvOwner'
  BY JobsAssumption DEF InvOwner, InvFinished, TypeOK, Frames
<1>8. InvFinished'
  BY JobsAssumption DEF InvFinished, InvOwner, TypeOK
<1>9. InvUnique' /\ InvWait'
  BY DEF InvUnique, UniqueIn, Idx, InvWait
<1> QED
  BY <1>1, <1>2, <1>3, <1>4, <1>5, <1>6, <1>7, <1>8, <1>9 DEF IndInv

\* run(): the stop test before the waits.
LEMMA StepCheckBeforeWait ==
  ASSUME IndInv, NEW w \in Workers, CheckBeforeWait(w)
  PROVE  IndInv'
BY QuietStep DEF CheckBeforeWait, CheckStop, IndInv, TypeOK, WorkerPcs, Active

\* run(): the stop test after the waits.
LEMMA StepCheckAfterWait ==
  ASSUME IndInv, NEW w \in Workers, CheckAfterWait(w)
  PROVE  IndInv'
BY QuietStep DEF CheckAfterWait, CheckStop, IndInv, TypeOK, WorkerPcs, Active

\* wait_all() is entered.
LEMMA StepWaitAll ==
  ASSUME IndInv, WaitAll
  PROVE  IndInv'
<1> USE DEF IndInv, WaitAll, queueVars, taskVars, coVars, workerVars, waitVars, histVars
<1>1. TypeOK'
  BY JobsAssumption DEF TypeOK, Frames, WorkerPcs, WaiterPcs, Jobs, Queues, Global, Workers, Submitters
<1>2. InvWait'
  BY JobsAssumption DEF InvWait, InvOwner, TypeOK
<1>3. InvQueue' /\ InvUnique' /\ InvParked' /\ InvSub' /\ InvWorker' /\ InvHolder' /\ InvOwner' /\ InvFinished'
  BY DEF InvQueue, Queued, Idx, OnlyQueued, InvUnique, UniqueIn, InvParked, InvSub, InvWorker, InvHolder, InvOwner, InvFinished
<1> QED
  BY <1>1, <1>2, <1>3 DEF IndInv

\* wait_all() adds one pending counter.
LEMMA StepScanPending ==
  ASSUME IndInv, ScanPending
  PROVE  IndInv'
<1> USE DEF IndInv, ScanPending, queueVars, taskVars, coVars, workerVars, waitVars, histVars
<1>a. Queues = 0 .. N
  BY ThreadsAssumption DEF Queues, Global, Workers
<1>b. scan' \in Queues
  <2>1. scan \in 0 .. N
    BY <1>a DEF TypeOK
  <2>2. (scan < N /\ scan' = scan + 1) \/ scan' = scan
    OBVIOUS
  <2> HIDE DEF IndInv, ScanPending
  <2>3. scan' \in 0 .. N
    BY <2>1, <2>2, ThreadsAssumption
  <2> QED
    BY <1>a, <2>3
<1>c. total' \in Int
  BY DEF TypeOK
<1>1. TypeOK'
  BY <1>b, <1>c DEF TypeOK, WaiterPcs
<1>2. InvWait'
  BY JobsAssumption DEF InvWait, InvOwner, TypeOK
<1>3. InvQueue' /\ InvUnique' /\ InvParked' /\ InvSub' /\ InvWorker' /\ InvHolder' /\ InvOwner' /\ InvFinished'
  BY DEF InvQueue, Queued, Idx, OnlyQueued, InvUnique, UniqueIn, InvParked, InvSub, InvWorker, InvHolder, InvOwner, InvFinished
<1> QED
  BY <1>1, <1>2, <1>3 DEF IndInv

\* wait_all() tests the sum and m_running.
LEMMA StepTestRunning ==
  ASSUME IndInv, TestRunning
  PROVE  IndInv'
<1> USE DEF IndInv, TestRunning, queueVars, taskVars, coVars, workerVars, waitVars, histVars
<1>1. TypeOK'
  BY JobsAssumption DEF TypeOK, Frames, WorkerPcs, WaiterPcs, Jobs, Queues, Global, Workers, Submitters
<1>2. InvWait'
  BY JobsAssumption DEF InvWait, InvOwner, TypeOK
<1>3. InvQueue' /\ InvUnique' /\ InvParked' /\ InvSub' /\ InvWorker' /\ InvHolder' /\ InvOwner' /\ InvFinished'
  BY DEF InvQueue, Queued, Idx, OnlyQueued, InvUnique, UniqueIn, InvParked, InvSub, InvWorker, InvHolder, InvOwner, InvFinished
<1> QED
  BY <1>1, <1>2, <1>3 DEF IndInv

\* wait_all() decides to leave: with m_runningTasks empty, every accepted coroutine has completed.
LEMMA StepTestTasks ==
  ASSUME IndInv, TestTasks
  PROVE  IndInv'
<1> USE DEF IndInv, TestTasks, queueVars, taskVars, coVars, workerVars, waitVars, histVars
<1>1. TypeOK'
  BY JobsAssumption DEF TypeOK, Frames, WorkerPcs, WaiterPcs, Jobs, Queues, Global, Workers, Submitters
<1>2. InvWait'
  BY JobsAssumption DEF InvWait, InvOwner, TypeOK
<1>3. InvQueue' /\ InvUnique' /\ InvParked' /\ InvSub' /\ InvWorker' /\ InvHolder' /\ InvOwner' /\ InvFinished'
  BY DEF InvQueue, Queued, Idx, OnlyQueued, InvUnique, UniqueIn, InvParked, InvSub, InvWorker, InvHolder, InvOwner, InvFinished
<1> QED
  BY <1>1, <1>2, <1>3 DEF IndInv

\* clearFinishedTasks() takes only completed frames that are not finalizing.
LEMMA StepWaiterDrain ==
  ASSUME IndInv, WaiterDrain
  PROVE  IndInv'
<1> USE DEF IndInv, WaiterDrain, Drainable, queueVars, taskVars, coVars, workerVars, waitVars, histVars
<1>1. TypeOK'
  BY JobsAssumption DEF TypeOK, Frames, WorkerPcs, WaiterPcs, Jobs, Queues, Global, Workers, Submitters
<1>2. InvFinished'
  BY JobsAssumption DEF InvFinished, InvOwner, TypeOK
<1>3. InvWait'
  BY JobsAssumption DEF InvWait, InvOwner, TypeOK
<1>4. InvQueue' /\ InvUnique' /\ InvParked' /\ InvSub' /\ InvWorker' /\ InvHolder' /\ InvOwner'
  BY DEF InvQueue, Queued, Idx, OnlyQueued, InvUnique, UniqueIn, InvParked, InvSub, InvWorker, InvHolder, InvOwner
<1> QED
  BY <1>1, <1>2, <1>3, <1>4 DEF IndInv

\* wait_all() destroys what it drained: none of it is suspended, running or finalizing.
LEMMA StepWaiterDestroy ==
  ASSUME IndInv, WaiterDestroy
  PROVE  IndInv'
<1> USE DEF IndInv, WaiterDestroy, Destroy, queueVars, taskVars, coVars, workerVars, waitVars, histVars
<1>a. \A t \in Tasks : frame[t] = "suspended" => frame'[t] = "suspended"
  BY DEF InvFinished, TypeOK
<1>1. TypeOK'
  BY JobsAssumption DEF TypeOK, Frames, WorkerPcs, WaiterPcs, Jobs, Queues, Global, Workers, Submitters
<1>2. InvQueue'
  BY <1>a DEF InvQueue, Queued, Idx, OnlyQueued
<1>3. InvParked'
  BY <1>a DEF InvParked, TypeOK
<1>4. InvSub'
  BY JobsAssumption DEF InvSub, TypeOK, InvFinished
<1>5. InvWorker'
  BY JobsAssumption DEF InvWorker, Active, TypeOK, InvFinished
<1>6. InvOwner'
  BY JobsAssumption DEF InvOwner, InvFinished, TypeOK, Frames
<1>7. InvFinished'
  BY JobsAssumption DEF InvFinished, InvOwner, TypeOK
<1>8. InvWait'
  BY JobsAssumption DEF InvWait, InvOwner, TypeOK
<1>9. InvUnique' /\ InvHolder'
  BY DEF InvUnique, UniqueIn, Idx, InvHolder
<1> QED
  BY <1>1, <1>2, <1>3, <1>4, <1>5, <1>6, <1>7, <1>8, <1>9 DEF IndInv

\* stop() raises m_stopping.
LEMMA StepStopBegin ==
  ASSUME IndInv, StopBegin
  PROVE  IndInv'
<1> USE DEF IndInv, StopBegin, queueVars, taskVars, coVars, workerVars, waitVars, histVars
<1>1. TypeOK'
  BY JobsAssumption DEF TypeOK, Frames, WorkerPcs, WaiterPcs, Jobs, Queues, Global, Workers, Submitters
<1>2. InvQueue' /\ InvUnique' /\ InvParked' /\ InvSub' /\ InvWorker' /\ InvHolder' /\ InvOwner' /\ InvFinished' /\ InvWait'
  BY DEF InvQueue, Queued, Idx, OnlyQueued, InvUnique, UniqueIn, InvParked, InvSub, InvWorker, InvHolder, InvOwner, InvFinished, InvWait
<1> QED
  BY <1>1, <1>2 DEF IndInv

\* stop() has joined the workers.
LEMMA StepStopJoin ==
  ASSUME IndInv, StopJoin
  PROVE  IndInv'
<1> USE DEF IndInv, StopJoin, queueVars, taskVars, coVars, workerVars, waitVars, histVars
<1>1. TypeOK'
  BY JobsAssumption DEF TypeOK, Frames, WorkerPcs, WaiterPcs, Jobs, Queues, Global, Workers, Submitters
<1>2. InvQueue' /\ InvUnique' /\ InvParked' /\ InvSub' /\ InvWorker' /\ InvHolder' /\ InvOwner' /\ InvFinished' /\ InvWait'
  BY DEF InvQueue, Queued, Idx, OnlyQueued, InvUnique, UniqueIn, InvParked, InvSub, InvWorker, InvHolder, InvOwner, InvFinished, InvWait
<1> QED
  BY <1>1, <1>2 DEF IndInv

-----------------------------------------------------------------------------
(* The invariant holds initially and is preserved. *)

\* The constructor establishes the invariant.
LEMMA InitInv == Init => IndInv
<1> SUFFICES ASSUME Init PROVE IndInv
  OBVIOUS
<1> USE DEF Init
<1>1. \A q \in Queues : queue[q] \in Seq(Jobs) /\ Idx(q) = {}
  BY EmptySeq DEF Idx
<1>2. queue \in [Queues -> Seq(Jobs)]
  BY <1>1
<1>3. scan \in Queues /\ suspends \in [Tasks -> 0 .. MaxSuspends]
  BY BoundAssumption DEF Queues, Global
<1>4. TypeOK
  BY <1>2, <1>3 DEF TypeOK, Frames, WorkerPcs, WaiterPcs
<1>5. InvQueue /\ InvUnique
  BY <1>1 DEF InvQueue, InvUnique, UniqueIn, Queued
<1>6. InvParked /\ InvSub
  BY DEF InvParked, InvSub
<1>7. InvWorker /\ InvHolder
  BY JobsAssumption DEF InvWorker, InvHolder, Active, Jobs
<1>8. InvOwner /\ InvFinished /\ InvWait
  BY DEF InvOwner, InvFinished, InvWait
<1> QED
  BY <1>4, <1>5, <1>6, <1>7, <1>8 DEF IndInv

\* Every step of every thread preserves the invariant.
LEMMA NextInv == IndInv /\ [Next]_vars => IndInv'
<1> SUFFICES ASSUME IndInv, [Next]_vars PROVE IndInv'
  OBVIOUS
<1>1. CASE Start
  BY <1>1, StepStart
<1>2. CASE Submit
  BY <1>2, StepRegisterTask, StepSubmitCallback DEF Submit
<1>3. ASSUME NEW s \in Submitters, FinishSubmit(s) PROVE IndInv'
  BY <1>3, StepEnqueueTask DEF FinishSubmit
<1>4. ASSUME NEW t \in Tasks, NEW q \in Queues, Wake(t, q) PROVE IndInv'
  BY <1>4, StepWake
<1>5. ASSUME NEW w \in Workers, WorkerStep(w) PROVE IndInv'
  BY <1>5, StepPopLocal, StepPopGlobal, StepStealTask, StepStealFails, StepBeginJob,
     StepCallbackReturns, StepCoAwait, StepCoReturn, StepOnComplete, StepClearFinalizing,
     StepLeaveFinalSuspend, StepEndJob, StepDrainFinished, StepDestroyFinished,
     StepCheckBeforeWait, StepCheckAfterWait DEF WorkerStep
<1>6. CASE WaitAll \/ WaiterStep
  BY <1>6, StepWaitAll, StepScanPending, StepTestRunning, StepTestTasks, StepWaiterDrain,
     StepWaiterDestroy DEF WaiterStep
<1>7. CASE StopBegin \/ StopJoin
  BY <1>7, StepStopBegin, StepStopJoin
<1>8. CASE UNCHANGED vars
  <2> USE <1>8 DEF vars, queueVars, taskVars, coVars, workerVars, waitVars, histVars
  <2>1. TypeOK'
    BY DEF IndInv, TypeOK
  <2>2. InvQueue' /\ InvUnique'
    BY DEF IndInv, InvQueue, InvUnique, UniqueIn, Queued, Idx, OnlyQueued
  <2>3. InvParked' /\ InvSub'
    BY DEF IndInv, InvParked, InvSub
  <2>4. InvWorker' /\ InvHolder'
    BY DEF IndInv, InvWorker, InvHolder
  <2>5. InvOwner' /\ InvFinished' /\ InvWait'
    BY DEF IndInv, InvOwner, InvFinished, InvWait
  <2> QED
    BY <2>1, <2>2, <2>3, <2>4, <2>5 DEF IndInv
<1> QED
  BY <1>1, <1>2, <1>3, <1>4, <1>5, <1>6, <1>7, <1>8 DEF Next

\* The invariant in every reachable state.
LEMMA AlwaysInv == Spec => []IndInv
BY InitInv, NextInv, PTL DEF Spec

-----------------------------------------------------------------------------
(* The theorems. *)

\* Every variable of the scheduler keeps its type.
THEOREM TypeCorrect == Spec => []TypeOK
<1>1. IndInv => TypeOK
  BY DEF IndInv
<1> QED
  BY <1>1, AlwaysInv, PTL

\* schedule(), run(), stealTask(), drainFinished() and final_suspend(): a
\* handle that some thread or queue will resume always belongs to a suspended
\* coroutine, and no frame is destroyed while a worker runs or finalizes it.
THEOREM ResumeIsSafe == Spec => []NoDanglingResume
<1>1. IndInv => NoDanglingResume
  <2> SUFFICES ASSUME IndInv, NEW t \in Tasks
               PROVE  /\ (\E q \in Queues : \E i \in 1 .. Len(queue[q]) : queue[q][i] = t)
                           => frame[t] = "suspended"
                      /\ t \in parked => frame[t] = "suspended"
                      /\ (\E s \in Submitters : sub[s] = t) => frame[t] = "suspended"
                      /\ \A w \in Workers :
                           /\ Resuming(w, t) => frame[t] = "suspended"
                           /\ Executing(w, t) => frame[t] = "running"
                           /\ Finalizing(w, t) => frame[t] = "final"
    BY DEF NoDanglingResume
  <2>1. (\E q \in Queues : \E i \in 1 .. Len(queue[q]) : queue[q][i] = t) => frame[t] = "suspended"
    BY DEF IndInv, InvQueue, Queued, Idx
  <2>2. t \in parked => frame[t] = "suspended"
    BY DEF IndInv, InvParked
  <2>3. (\E s \in Submitters : sub[s] = t) => frame[t] = "suspended"
    BY JobsAssumption DEF IndInv, InvSub, Jobs
  <2>4. \A w \in Workers :
          /\ Resuming(w, t) => frame[t] = "suspended"
          /\ Executing(w, t) => frame[t] = "running"
          /\ Finalizing(w, t) => frame[t] = "final"
    BY DEF IndInv, InvWorker, Resuming, Executing, Finalizing
  <2> QED
    BY <2>1, <2>2, <2>3, <2>4
<1> QED
  BY <1>1, AlwaysInv, PTL

\* Work stealing and wake-ups never duplicate the resume of a coroutine: it is
\* in one queue position, with one waker or in the hand of one worker.
THEOREM ResumedOnce == Spec => []OneResumer
<1>1. IndInv => OneResumer
  <2> SUFFICES ASSUME IndInv, NEW t \in Tasks
               PROVE  /\ \A p, q \in Queues :
                           \A i \in 1 .. Len(queue[p]), j \in 1 .. Len(queue[q]) :
                             queue[p][i] = t /\ queue[q][j] = t => p = q /\ i = j
                      /\ \A v, w \in Workers :
                           wjob[v] = t /\ wjob[w] = t /\ wpc[v] # "ran" /\ wpc[w] # "ran" => v = w
                      /\ \A q \in Queues : \A i \in 1 .. Len(queue[q]) :
                           queue[q][i] = t =>
                             /\ t \notin parked
                             /\ \A w \in Workers : wjob[w] = t => wpc[w] = "ran"
                      /\ t \in parked => \A w \in Workers : wjob[w] = t => wpc[w] = "ran"
    BY DEF OneResumer
  <2>1. \A p, q \in Queues : \A i \in 1 .. Len(queue[p]), j \in 1 .. Len(queue[q]) :
          queue[p][i] = t /\ queue[q][j] = t => p = q /\ i = j
    BY DEF IndInv, InvUnique, UniqueIn, Idx
  <2>2. \A w \in Workers : wjob[w] = t /\ wpc[w] # "ran" => wpc[w] \in Active
    BY JobsAssumption DEF IndInv, InvWorker, Jobs
  <2>3. \A v, w \in Workers :
          wjob[v] = t /\ wjob[w] = t /\ wpc[v] # "ran" /\ wpc[w] # "ran" => v = w
    BY <2>2 DEF IndInv, InvHolder
  <2>4. ASSUME frame[t] = "suspended", \A w \in Workers : wpc[w] = "popped" => wjob[w] # t
        PROVE  \A w \in Workers : wjob[w] = t => wpc[w] = "ran"
    BY <2>2, <2>4 DEF IndInv, InvWorker, Active
  <2>5. t \in parked => \A w \in Workers : wjob[w] = t => wpc[w] = "ran"
    BY <2>4 DEF IndInv, InvParked
  <2>6. Queued(t) => t \notin parked /\ \A w \in Workers : wjob[w] = t => wpc[w] = "ran"
    BY <2>4 DEF IndInv, InvQueue, OnlyQueued
  <2>7. \A q \in Queues : \A i \in 1 .. Len(queue[q]) : queue[q][i] = t => Queued(t)
    BY DEF Queued, Idx
  <2> QED
    BY <2>1, <2>3, <2>5, <2>6, <2>7
<1> QED
  BY <1>1, AlwaysInv, PTL

\* m_runningTasks owns an accepted coroutine until its on_complete has run, and
\* its frame is not destroyed before that, stop() or not.
THEOREM OwnershipHolds == Spec => []OwnedUntilComplete
<1>1. IndInv => OwnedUntilComplete
  BY DEF IndInv, InvOwner, OwnedUntilComplete, TypeOK
<1> QED
  BY <1>1, AlwaysInv, PTL

\* Every resume is safe: the three results above together.
THEOREM EveryResumeIsSafe == Spec => []ResumesAreSafe
<1>1. NoDanglingResume /\ OneResumer /\ OwnedUntilComplete => ResumesAreSafe
  BY DEF ResumesAreSafe
<1> QED
  BY <1>1, ResumeIsSafe, ResumedOnce, OwnershipHolds, PTL

\* wait_all() never returns before the coroutines submitted ahead of the call
\* have completed.
THEOREM WaitAllIsSafe == Spec => []WaitAllWaitsForTasks
<1>1. IndInv => WaitAllWaitsForTasks
  BY DEF IndInv, InvWait, WaitAllWaitsForTasks
<1> QED
  BY <1>1, AlwaysInv, PTL

-----------------------------------------------------------------------------
(***************************************************************************)
(* The scheduler implements JobPool. The invariant above follows the       *)
(* coroutines; callbacks have no frame, so the places they are in and what *)
(* has happened to them are tied together here.                            *)
(***************************************************************************)

\* Worker w is about to call, or inside, a callback.
Calling(w) == wjob[w] \in Callbacks /\ wpc[w] \in {"popped", "exec"}

InvCallback ==
  /\ completed \subseteq accepted
  /\ UniqueIn(Callbacks)
  /\ \A c \in Callbacks : Queued(c) =>
       /\ c \in accepted /\ c \notin completed
       /\ \A w \in Workers : Calling(w) => wjob[w] # c
  /\ \A w \in Workers : Calling(w) =>
       /\ wjob[w] \in accepted /\ wjob[w] \notin completed
       /\ \A v \in Workers : Calling(v) /\ wjob[v] = wjob[w] => v = w

LEMMA CallbackInit == Init => InvCallback
<1> SUFFICES ASSUME Init PROVE InvCallback
  OBVIOUS
<1>1. \A q \in Queues : Idx(q) = {}
  BY EmptySeq DEF Init, Idx
<1> QED
  BY <1>1, JobsAssumption DEF Init, InvCallback, UniqueIn, Queued, Calling, Jobs

\* Steps that move no callback.
LEMMA QuietCallback ==
  ASSUME InvCallback, UNCHANGED queue, accepted \subseteq accepted', completed' \subseteq accepted',
         \A c \in Callbacks : c \in completed' => c \in completed,
         \A w \in Workers : Calling(w)' => Calling(w) /\ wjob'[w] = wjob[w]
  PROVE  InvCallback'
<1>1. UniqueIn(Callbacks)' /\ \A x \in Callbacks : Queued(x)' <=> Queued(x)
  BY DEF InvCallback, UniqueIn, Queued, Idx
<1>2. \A w \in Workers : Calling(w) => wjob[w] \in Callbacks
  BY DEF Calling
<1> QED
  BY <1>1, <1>2 DEF InvCallback

\* A job is pushed: a resume, or a callback that is submitted now.
LEMMA PushCallback ==
  ASSUME TypeOK, InvCallback, NEW q \in Queues, NEW j \in Jobs, Push(q, j),
         j \in Callbacks => j \notin accepted /\ j \in accepted',
         accepted \subseteq accepted', UNCHANGED <<wjob, wpc, completed>>
  PROVE  InvCallback'
<1>1. j \in Callbacks => ~Queued(j) /\ j \notin completed
  BY DEF InvCallback
<1>2. UniqueIn(Callbacks)' /\ \A x \in Jobs : Queued(x)' <=> Queued(x) \/ (~stopping /\ x = j)
  BY <1>1, PushStep DEF InvCallback
<1>3. \A w \in Workers : Calling(w)' <=> Calling(w)
  BY DEF Calling
<1> QED
  BY <1>1, <1>2, <1>3 DEF InvCallback, Jobs

\* A job is taken out of a queue: its token goes from the queue to the worker.
LEMMA TakeCallback ==
  ASSUME TypeOK, InvCallback, NEW w \in Workers, NEW q \in Queues, NEW rest \in Seq(Jobs),
         NEW k \in Idx(q), queue[q][k] \in Jobs, Without(queue[q], k, rest),
         Take(w, q, queue[q][k], rest), UNCHANGED <<accepted, completed>>
  PROVE  InvCallback'
<1> DEFINE j == queue[q][k]
<1>1. /\ wjob'[w] = j /\ wpc'[w] = "popped"
      /\ \A v \in Workers : v # w => wjob'[v] = wjob[v] /\ wpc'[v] = wpc[v]
  BY DEF TypeOK, Take
<1>2. /\ UniqueIn(Callbacks)'
      /\ \A x \in Callbacks : Queued(x)' => Queued(x) /\ x # j
  BY RemoveStep DEF InvCallback, Take
<1>3. Queued(j)
  BY DEF Queued
<1> HIDE DEF j
<1>4. \A v \in Workers : v # w => (Calling(v)' <=> Calling(v))
  BY <1>1 DEF Calling
<1>5. Calling(w)' <=> j \in Callbacks
  BY <1>1 DEF Calling
<1> QED
  BY <1>1, <1>2, <1>3, <1>4, <1>5 DEF InvCallback

-----------------------------------------------------------------------------
(* Where a job is, and what the pool calls it. *)

\* A job is in one kind of place at a time, and while it is in one it is
\* accepted and not completed.
LEMMA Places ==
  ASSUME IndInv, InvCallback, NEW j \in Jobs
  PROVE  /\ Runs(j) => j \notin parked /\ ~Handed(j)
         /\ j \in parked => ~Handed(j)
         /\ Runs(j) \/ j \in parked \/ Handed(j) => j \in accepted /\ j \notin completed
<1>1. Handed(j) <=> Queued(j) \/ (\E s \in Submitters : sub[s] = j)
                              \/ (\E w \in Workers : wjob[w] = j /\ wpc[w] = "popped")
  BY DEF Handed, Queued, Idx
<1>2. CASE j \in Tasks
  <2>1. Handed(j) => frame[j] = "suspended" /\ j \notin parked
    BY <1>1, <1>2, JobsAssumption DEF IndInv, InvQueue, OnlyQueued, InvSub, InvParked, InvWorker, Jobs
  <2>2. j \in parked => frame[j] = "suspended"
    BY DEF IndInv, InvParked
  <2>3. Runs(j) => frame[j] \in {"running", "final"} /\ j \in accepted /\ j \notin completed
    BY <1>2 DEF IndInv, InvWorker, InvOwner, Runs
  <2>4. frame[j] = "suspended" => j \in accepted /\ j \notin completed
    BY <1>2 DEF IndInv, InvOwner
  <2> QED
    BY <2>1, <2>2, <2>3, <2>4
<1>3. CASE j \in Callbacks
  <2>1. j \notin parked /\ \A s \in Submitters : sub[s] # j
    BY <1>3, JobsAssumption DEF IndInv, TypeOK, Jobs
  <2>2. Runs(j) <=> \E w \in Workers : Calling(w) /\ wjob[w] = j /\ wpc[w] = "exec"
    BY <1>3, JobsAssumption DEF Runs, Calling, IndInv, InvWorker
  <2>3. (\E w \in Workers : wjob[w] = j /\ wpc[w] = "popped") =>
           \E w \in Workers : Calling(w) /\ wjob[w] = j /\ wpc[w] = "popped"
    BY <1>3 DEF Calling
  <2> QED
    BY <1>1, <1>3, <2>1, <2>2, <2>3 DEF InvCallback
<1> QED
  BY <1>2, <1>3 DEF Jobs

\* A job in the same places is in the same state.
LEMMA SameStatus ==
  ASSUME NEW j \in Jobs, Runs(j)' <=> Runs(j), Handed(j)' <=> Handed(j), j \in parked' <=> j \in parked,
         j \in accepted' <=> j \in accepted, j \in completed' <=> j \in completed
  PROVE  Status(j)' = Status(j)
BY DEF Status

\* One job moves.
LEMMA PoolMove ==
  ASSUME NEW j \in Jobs, NEW b, Status(j)' = b, \A x \in Jobs : x # j => Status(x)' = Status(x),
         UNCHANGED stopping
  PROVE  Pool!Move(j, Status(j), b)
BY DEF Pool!Move

\* No job moves.
LEMMA PoolStutter ==
  ASSUME \A x \in Jobs : Status(x)' = Status(x), UNCHANGED stopping
  PROVE  UNCHANGED <<[j \in Jobs |-> Status(j)], stopping>>
OBVIOUS

-----------------------------------------------------------------------------
(* Every step of the scheduler is a step of the pool, or none. *)

PoolStep == Pool!Next \/ UNCHANGED <<[j \in Jobs |-> Status(j)], stopping>>

\* The pool sees worker w at a job.
AtJob == {"popped", "exec", "final"}

\* Steps in which no job changes its place.
LEMMA QuietRefines ==
  ASSUME IndInv, InvCallback,
         UNCHANGED <<queue, sub, parked, accepted, completed, stopping>>,
         \A w \in Workers :
           \/ wjob'[w] = wjob[w] /\ wpc'[w] = wpc[w]
           \/ wjob'[w] = wjob[w] /\ wjob[w] \in Tasks /\ wpc[w] = "exec" /\ wpc'[w] = "final"
           \/ wpc[w] \notin AtJob /\ wpc'[w] \notin AtJob
  PROVE  InvCallback' /\ PoolStep
<1>1. \A w \in Workers : Calling(w)' => Calling(w) /\ wjob'[w] = wjob[w]
  BY DEF Calling, AtJob
<1>2. InvCallback'
  BY <1>1, QuietCallback DEF InvCallback
<1>3. \A j \in Jobs : (Runs(j)' <=> Runs(j)) /\ (Handed(j)' <=> Handed(j))
  BY DEF Runs, Handed, AtJob
<1>4. \A j \in Jobs : Status(j)' = Status(j)
  BY <1>3, SameStatus
<1> QED
  BY <1>2, <1>4, PoolStutter DEF PoolStep

\* schedule(Task<T>): a new job is accepted, or refused and stays new.
LEMMA RegisterRefines ==
  ASSUME IndInv, InvCallback, NEW s \in Submitters, NEW t \in Tasks, RegisterTask(s, t)
  PROVE  InvCallback' /\ PoolStep
<1> USE DEF queueVars, coVars, workerVars, histVars
<1>1. t \in Jobs /\ t \notin accepted /\ t \notin completed
  BY DEF RegisterTask, IndInv, InvOwner, Jobs
<1>2. InvCallback'
  <2>1. accepted \subseteq accepted' /\ completed' \subseteq accepted'
    BY DEF RegisterTask, InvCallback
  <2> QED
    BY <2>1, QuietCallback DEF RegisterTask, Calling
<1>3. \A x \in Jobs : Runs(x)' <=> Runs(x)
  BY DEF RegisterTask, Runs
<1>4. CASE stopping
  <2>1. \A x \in Jobs : Handed(x)' <=> Handed(x)
    BY <1>4 DEF RegisterTask, Handed
  <2>2. \A x \in Jobs : Status(x)' = Status(x)
    BY <1>3, <1>4, <2>1, SameStatus DEF RegisterTask
  <2> QED
    BY <1>2, <2>2, PoolStutter DEF PoolStep, RegisterTask
<1>5. CASE ~stopping
  <2>1. sub[s] = NoJob /\ sub'[s] = t /\ \A r \in Submitters : r # s => sub'[r] = sub[r]
    BY <1>5 DEF RegisterTask, CanSubmit, IndInv, TypeOK
  <2>2. \A x \in Jobs : Handed(x)' <=> Handed(x) \/ x = t
    BY <2>1, JobsAssumption DEF RegisterTask, Handed
  <2>3. Status(t) = "new" /\ Status(t)' = "ready"
    BY <1>1, <1>3, <2>2, Places DEF Status, RegisterTask
  <2>4. \A x \in Jobs : x # t => Status(x)' = Status(x)
    BY <1>3, <1>5, <2>2, SameStatus DEF RegisterTask
  <2>5. Pool!Accept(t)
    BY <1>1, <1>5, <2>3, <2>4, PoolMove DEF Pool!Accept, RegisterTask
  <2> QED
    BY <1>1, <1>2, <2>5 DEF PoolStep, Pool!Next
<1> QED
  BY <1>4, <1>5

\* The push of schedule(Task<T>): the job stays ready, or stop() drops it.
LEMMA EnqueueRefines ==
  ASSUME IndInv, InvCallback, NEW s \in Submitters, NEW q \in Queues, EnqueueTask(s, q)
  PROVE  InvCallback' /\ PoolStep
<1> USE DEF queueVars, coVars, workerVars, histVars
<1>1. PICK t \in Tasks : sub[s] = t
  BY DEF EnqueueTask, IndInv, TypeOK
<1>2. t \in Jobs /\ t \notin Callbacks /\ Handed(t) /\ Push(q, t)
  BY <1>1, JobsAssumption DEF Jobs, Handed, EnqueueTask
<1>3. InvCallback'
  BY <1>2, PushCallback DEF EnqueueTask, IndInv
<1>4. \A x \in Jobs : Queued(x)' <=> Queued(x) \/ (~stopping /\ x = t)
  BY <1>2, PushStep DEF IndInv, InvUnique, InvQueue, OnlyQueued, EnqueueTask, InvCallback
<1>5. sub'[s] = NoJob /\ \A r \in Submitters : r # s => sub'[r] = sub[r] /\ sub[r] # t
  BY <1>1, JobsAssumption DEF EnqueueTask, IndInv, TypeOK, InvSub, Jobs
<1>6. ~Queued(t) /\ \A w \in Workers : wpc[w] = "popped" => wjob[w] # t
  BY <1>1, JobsAssumption DEF IndInv, InvSub, InvQueue, OnlyQueued, Jobs
<1>7. \A x \in Jobs : Handed(x)' <=> IF x = t THEN ~stopping ELSE Handed(x)
  BY <1>1, <1>4, <1>5, <1>6, JobsAssumption DEF Handed, Queued, Idx, EnqueueTask
<1>8. \A x \in Jobs : Runs(x)' <=> Runs(x)
  BY DEF EnqueueTask, Runs
<1>9. \A x \in Jobs : x # t => Status(x)' = Status(x)
  BY <1>7, <1>8, SameStatus DEF EnqueueTask
<1>10. CASE ~stopping
  <2>1. \A x \in Jobs : Status(x)' = Status(x)
    BY <1>2, <1>7, <1>8, <1>9, <1>10, SameStatus DEF EnqueueTask
  <2> QED
    BY <1>3, <2>1, PoolStutter DEF PoolStep, EnqueueTask
<1>11. CASE stopping
  <2>1. Status(t) = "ready" /\ Status(t)' = "dropped"
    BY <1>2, <1>7, <1>8, <1>11, Places DEF Status, EnqueueTask
  <2>2. Pool!Drop(t)
    BY <1>2, <1>9, <1>11, <2>1, PoolMove DEF Pool!Drop, EnqueueTask
  <2> QED
    BY <1>2, <1>3, <2>2 DEF PoolStep, Pool!Next
<1> QED
  BY <1>10, <1>11

\* schedule(std::function): a new job is accepted.
LEMMA SubmitRefines ==
  ASSUME IndInv, InvCallback, NEW s \in Submitters, NEW c \in Callbacks, NEW q \in Queues,
         SubmitCallback(s, c, q)
  PROVE  InvCallback' /\ PoolStep
<1> USE DEF queueVars, coVars, workerVars, histVars
<1>1. c \in Jobs /\ c \notin accepted /\ c \notin completed /\ ~stopping
  BY DEF SubmitCallback, Jobs, InvCallback
<1>2. InvCallback'
  BY <1>1, PushCallback DEF SubmitCallback, IndInv
<1>3. \A x \in Jobs : Queued(x)' <=> Queued(x) \/ x = c
  BY <1>1, PushStep DEF IndInv, InvCallback, SubmitCallback
<1>4. \A x \in Jobs : (Handed(x)' <=> Handed(x) \/ x = c) /\ (Runs(x)' <=> Runs(x))
  BY <1>3 DEF Handed, Queued, Idx, Runs, SubmitCallback
<1>5. Status(c) = "new" /\ Status(c)' = "ready"
  BY <1>1, <1>4, Places DEF Status, SubmitCallback
<1>6. \A x \in Jobs : x # c => Status(x)' = Status(x)
  BY <1>4, SameStatus DEF SubmitCallback
<1>7. Pool!Accept(c)
  BY <1>1, <1>5, <1>6, PoolMove DEF Pool!Accept, SubmitCallback
<1> QED
  BY <1>1, <1>2, <1>7 DEF PoolStep, Pool!Next

\* schedule(handle): a waiting job is ready again, or stop() drops it.
LEMMA WakeRefines ==
  ASSUME IndInv, InvCallback, NEW t \in Tasks, NEW q \in Queues, Wake(t, q)
  PROVE  InvCallback' /\ PoolStep
<1> USE DEF queueVars, coVars, workerVars, histVars
<1>1. t \in Jobs /\ t \notin Callbacks /\ t \in parked /\ t \notin parked' /\ Push(q, t)
  BY JobsAssumption DEF Jobs, Wake
<1>2. InvCallback'
  BY <1>1, PushCallback DEF Wake, IndInv
<1>3. \A x \in Jobs : Queued(x)' <=> Queued(x) \/ (~stopping /\ x = t)
  BY <1>1, PushStep DEF IndInv, InvUnique, InvQueue, OnlyQueued, InvCallback, Wake
<1>4. \A x \in Jobs : /\ Handed(x)' <=> Handed(x) \/ (~stopping /\ x = t)
                      /\ Runs(x)' <=> Runs(x)
                      /\ x # t => (x \in parked' <=> x \in parked)
  BY <1>3 DEF Handed, Queued, Idx, Runs, Wake
<1>5. Status(t) = "waiting" /\ Status(t)' = IF stopping THEN "dropped" ELSE "ready"
  BY <1>1, <1>4, Places DEF Status, Wake
<1>6. \A x \in Jobs : x # t => Status(x)' = Status(x)
  BY <1>4, SameStatus DEF Wake
<1>7. Pool!Drop(t) \/ Pool!Wake(t)
  BY <1>1, <1>5, <1>6, PoolMove DEF Pool!Drop, Pool!Wake, Wake
<1> QED
  BY <1>1, <1>2, <1>7 DEF PoolStep, Pool!Next

\* run() and stealTask(): a job that is taken out of a queue stays ready.
LEMMA TakeRefines ==
  ASSUME IndInv, InvCallback, NEW w \in Workers, NEW q \in Queues, NEW rest \in Seq(Jobs),
         NEW k \in Idx(q), queue[q][k] \in Jobs, Without(queue[q], k, rest),
         wpc[w] \notin AtJob, Take(w, q, queue[q][k], rest),
         UNCHANGED <<stopping, sub, parked, accepted, completed>>
  PROVE  InvCallback' /\ PoolStep
<1>1. InvCallback'
  BY TakeCallback DEF IndInv
<1> DEFINE j == queue[q][k]
<1>2. /\ wjob'[w] = j /\ wpc'[w] = "popped"
      /\ \A v \in Workers : v # w => wjob'[v] = wjob[v] /\ wpc'[v] = wpc[v]
  BY DEF IndInv, TypeOK, Take
<1>3. \A x \in Jobs : x # j => (Queued(x)' <=> Queued(x))
  BY RemoveStep DEF IndInv, InvUnique, Take
<1>4. Queued(j)
  BY DEF Queued
<1> HIDE DEF j
<1>5. ASSUME NEW x \in Jobs PROVE (Handed(x)' <=> Handed(x)) /\ (Runs(x)' <=> Runs(x))
  <2>1. Runs(x)' <=> Runs(x)
    BY <1>2 DEF Runs, AtJob
  <2>2. Handed(x) <=> Queued(x) \/ (\E s \in Submitters : sub[s] = x)
                                \/ (\E v \in Workers : wjob[v] = x /\ wpc[v] = "popped")
    BY DEF Handed, Queued, Idx
  <2>3. Handed(x)' <=> Queued(x)' \/ (\E s \in Submitters : sub[s] = x)
                                  \/ (\E v \in Workers : wjob'[v] = x /\ wpc'[v] = "popped")
    BY DEF Handed, Queued, Idx
  <2> QED
    BY <1>2, <1>3, <1>4, <2>1, <2>2, <2>3 DEF AtJob
<1>6. \A x \in Jobs : Status(x)' = Status(x)
  BY <1>5, SameStatus
<1> QED
  BY <1>1, <1>6, PoolStutter DEF PoolStep

LEMMA PopRefines ==
  ASSUME IndInv, InvCallback, NEW w \in Workers, NEW q \in Queues, NEW next,
         wpc[w] \notin AtJob, next \notin AtJob, PopFront(w, q, next)
  PROVE  InvCallback' /\ PoolStep
<1> USE DEF queueVars, coVars, histVars
<1>1. CASE queue[q] # <<>>
  <2>1. queue[q] \in Seq(Jobs)
    BY DEF IndInv, TypeOK
  <2>2. /\ Tail(queue[q]) \in Seq(Jobs) /\ Head(queue[q]) = queue[q][1] /\ queue[q][1] \in Jobs
        /\ Without(queue[q], 1, Tail(queue[q])) /\ 1 \in Idx(q)
    BY <1>1, <2>1, PopFrontFacts DEF Idx
  <2> QED
    BY <1>1, <2>2, TakeRefines DEF PopFront
<1>2. CASE queue[q] = <<>>
  <2>1. \A v \in Workers : \/ wjob'[v] = wjob[v] /\ wpc'[v] = wpc[v]
                           \/ wpc[v] \notin AtJob /\ wpc'[v] \notin AtJob
    BY <1>2 DEF PopFront, IndInv, TypeOK
  <2> QED
    BY <1>2, <2>1, QuietRefines DEF PopFront
<1> QED
  BY <1>1, <1>2

LEMMA StealRefines ==
  ASSUME IndInv, InvCallback, NEW w \in Workers, NEW v \in Workers, StealTask(w, v)
  PROVE  InvCallback' /\ PoolStep
<1> USE DEF coVars, histVars
<1>1. v \in Queues /\ queue[v] \in Seq(Jobs) /\ wpc[w] \notin AtJob
  BY DEF IndInv, TypeOK, Queues, StealTask, AtJob
<1> DEFINE n == Len(queue[v])
           rest == SubSeq(queue[v], 1, Len(queue[v]) - 1)
<1>2. /\ rest \in Seq(Jobs) /\ queue[v][n] \in Jobs
      /\ Without(queue[v], n, rest) /\ n \in Idx(v)
  BY <1>1, PopBackFacts DEF Idx, StealTask
<1>3. Take(w, v, queue[v][n], rest)
  BY DEF StealTask
<1> HIDE DEF n, rest
<1> QED
  BY <1>1, <1>2, <1>3, TakeRefines DEF StealTask

\* What worker w alone changes.
LEMMA WorkerPlaces ==
  ASSUME NEW w \in Workers, UNCHANGED <<queue, sub>>,
         \A v \in Workers : v # w => wjob'[v] = wjob[v] /\ wpc'[v] = wpc[v]
  PROVE  \A x \in Jobs :
           /\ wjob[w] # x /\ wjob'[w] # x => (Runs(x)' <=> Runs(x)) /\ (Handed(x)' <=> Handed(x))
           /\ wjob'[w] = x /\ wpc'[w] \in {"exec", "final"} => Runs(x)'
BY DEF Runs, Handed

\* ++m_running and the call: a ready job runs.
LEMMA BeginRefines ==
  ASSUME IndInv, InvCallback, NEW w \in Workers, BeginJob(w)
  PROVE  InvCallback' /\ PoolStep
<1> USE DEF queueVars, coVars, histVars
<1>1. wpc[w] = "popped" /\ wjob[w] \in Jobs /\ (wjob[w] \in Tasks => frame[wjob[w]] = "suspended")
  BY JobsAssumption DEF BeginJob, IndInv, TypeOK, InvWorker, Active
<1>2. /\ wpc'[w] = "exec" /\ wjob' = wjob
      /\ \A v \in Workers : v # w => wpc'[v] = wpc[v]
  BY <1>1 DEF BeginJob, IndInv, TypeOK
<1> DEFINE j == wjob[w]
<1>3. InvCallback'
  <2>1. \A v \in Workers : Calling(v)' => Calling(v) /\ wjob'[v] = wjob[v]
    BY <1>1, <1>2 DEF Calling
  <2> QED
    BY <2>1, QuietCallback DEF BeginJob, InvCallback
<1>4. Handed(j) /\ ~Runs(j) /\ j \notin parked
  <2>1. Handed(j)
    BY <1>1 DEF Handed
  <2> QED
    BY <1>1, <2>1, Places
<1>5. Status(j) = "ready" /\ Status(j)' = "running"
  BY <1>1, <1>2, <1>4 DEF Status, Runs
<1>6. \A x \in Jobs : x # j => Status(x)' = Status(x)
  BY <1>2, WorkerPlaces, SameStatus DEF BeginJob
<1>7. Pool!Begin(j)
  BY <1>1, <1>5, <1>6, PoolMove DEF Pool!Begin, BeginJob
<1> QED
  BY <1>1, <1>3, <1>7 DEF PoolStep, Pool!Next

\* A worker that leaves its job: nobody else has it.
LEMMA SoleRunner ==
  ASSUME IndInv, InvCallback, NEW w \in Workers, wpc[w] \in {"exec", "final"},
         UNCHANGED <<queue, sub, wjob>>, wpc'[w] \notin AtJob,
         \A v \in Workers : v # w => wpc'[v] = wpc[v]
  PROVE  /\ wjob[w] \in Jobs /\ Runs(wjob[w]) /\ ~Runs(wjob[w])' /\ ~Handed(wjob[w])'
         /\ \A x \in Jobs : x # wjob[w] => (Runs(x)' <=> Runs(x)) /\ (Handed(x)' <=> Handed(x))
<1>1. wjob[w] \in Jobs
  BY JobsAssumption DEF IndInv, InvWorker, Active, TypeOK
<1>2. Runs(wjob[w])
  BY DEF Runs
<1>3. \A v \in Workers : wjob[v] = wjob[w] /\ wpc[v] \in {"exec", "final"} => v = w
  <2>1. CASE wjob[w] \in Tasks
    BY <2>1 DEF IndInv, InvHolder, Active
  <2>2. CASE wjob[w] \in Callbacks
    <3>1. \A v \in Workers : wjob[v] \in Callbacks /\ wpc[v] \in {"exec", "final"} => Calling(v)
      BY JobsAssumption DEF IndInv, InvWorker, Calling
    <3> QED
      BY <2>2, <3>1 DEF InvCallback
  <2> QED
    BY <1>1, <2>1, <2>2 DEF Jobs
<1>4. ~Handed(wjob[w])
  BY <1>1, <1>2, Places
<1>5. ~Runs(wjob[w])'
  BY <1>3 DEF Runs, AtJob
<1>6. ~Handed(wjob[w])'
  BY <1>4 DEF Handed, AtJob
<1>7. \A x \in Jobs : x # wjob[w] => (Runs(x)' <=> Runs(x)) /\ (Handed(x)' <=> Handed(x))
  BY WorkerPlaces
<1> QED
  BY <1>1, <1>2, <1>5, <1>6, <1>7

\* The callback returns: the job is done.
LEMMA ReturnRefines ==
  ASSUME IndInv, InvCallback, NEW w \in Workers, CallbackReturns(w)
  PROVE  InvCallback' /\ PoolStep
<1> USE DEF queueVars, coVars, histVars
<1>1. /\ wpc[w] = "exec" /\ wpc'[w] = "ran" /\ wjob' = wjob /\ wjob[w] \in Callbacks
      /\ \A v \in Workers : v # w => wpc'[v] = wpc[v]
  BY DEF CallbackReturns, IndInv, TypeOK
<1> DEFINE j == wjob[w]
<1>2. /\ j \in Jobs /\ Runs(j) /\ ~Runs(j)' /\ ~Handed(j)'
      /\ \A x \in Jobs : x # j => (Runs(x)' <=> Runs(x)) /\ (Handed(x)' <=> Handed(x))
  BY <1>1, SoleRunner DEF CallbackReturns, AtJob
<1>3. j \in completed' /\ j \notin parked /\ \A x \in Jobs : x # j => (x \in completed' <=> x \in completed)
  BY <1>1, JobsAssumption DEF CallbackReturns, IndInv, TypeOK
<1>4. InvCallback'
  <2>1. UniqueIn(Callbacks)' /\ \A x \in Callbacks : Queued(x)' <=> Queued(x)
    BY DEF CallbackReturns, InvCallback, UniqueIn, Queued, Idx
  <2>2. Calling(w) /\ ~Calling(w)' /\ \A v \in Workers : v # w => (Calling(v)' <=> Calling(v))
    BY <1>1 DEF Calling
  <2> QED
    BY <1>1, <2>1, <2>2 DEF InvCallback, CallbackReturns
<1>5. Status(j) = "running" /\ Status(j)' = "done"
  BY <1>2, <1>3 DEF Status, CallbackReturns
<1>6. \A x \in Jobs : x # j => Status(x)' = Status(x)
  BY <1>2, <1>3, SameStatus DEF CallbackReturns
<1>7. Pool!Finish(j)
  BY <1>2, <1>5, <1>6, PoolMove DEF Pool!Finish, CallbackReturns
<1> QED
  BY <1>2, <1>4, <1>7 DEF PoolStep, Pool!Next

\* The coroutine suspends: the job waits.
LEMMA AwaitRefines ==
  ASSUME IndInv, InvCallback, NEW w \in Workers, CoAwait(w)
  PROVE  InvCallback' /\ PoolStep
<1> USE DEF queueVars, coVars, histVars
<1>1. /\ wpc[w] = "exec" /\ wpc'[w] = "ran" /\ wjob' = wjob /\ wjob[w] \in Tasks
      /\ \A v \in Workers : v # w => wpc'[v] = wpc[v]
  BY DEF CoAwait, IndInv, TypeOK
<1> DEFINE j == wjob[w]
<1>2. /\ j \in Jobs /\ Runs(j) /\ ~Runs(j)' /\ ~Handed(j)'
      /\ \A x \in Jobs : x # j => (Runs(x)' <=> Runs(x)) /\ (Handed(x)' <=> Handed(x))
  BY <1>1, SoleRunner DEF CoAwait, AtJob
<1>3. j \in parked' /\ \A x \in Jobs : x # j => (x \in parked' <=> x \in parked)
  BY DEF CoAwait
<1>4. InvCallback'
  <2>1. \A v \in Workers : Calling(v)' => Calling(v) /\ wjob'[v] = wjob[v]
    BY <1>1 DEF Calling
  <2> QED
    BY <2>1, QuietCallback DEF CoAwait, InvCallback
<1>5. Status(j) = "running" /\ Status(j)' = "waiting"
  BY <1>1, <1>2, <1>3 DEF Status
<1>6. \A x \in Jobs : x # j => Status(x)' = Status(x)
  BY <1>2, <1>3, SameStatus DEF CoAwait
<1>7. Pool!Wait(j)
  BY <1>2, <1>5, <1>6, PoolMove DEF Pool!Wait, CoAwait
<1> QED
  BY <1>2, <1>4, <1>7 DEF PoolStep, Pool!Next

\* The on_complete callback: the job is done.
LEMMA CompleteRefines ==
  ASSUME IndInv, InvCallback, NEW w \in Workers, OnComplete(w)
  PROVE  InvCallback' /\ PoolStep
<1> USE DEF queueVars, coVars, histVars
<1>1. /\ wpc[w] = "final" /\ wpc'[w] = "moved" /\ wjob' = wjob /\ wjob[w] \in Tasks /\ wjob[w] \in accepted
      /\ \A v \in Workers : v # w => wpc'[v] = wpc[v]
  BY DEF OnComplete, IndInv, TypeOK, InvWorker
<1> DEFINE j == wjob[w]
<1>2. /\ j \in Jobs /\ Runs(j) /\ ~Runs(j)' /\ ~Handed(j)'
      /\ \A x \in Jobs : x # j => (Runs(x)' <=> Runs(x)) /\ (Handed(x)' <=> Handed(x))
  BY <1>1, SoleRunner DEF OnComplete, AtJob
<1>3. j \in completed' /\ j \notin parked /\ \A x \in Jobs : x # j => (x \in completed' <=> x \in completed)
  BY <1>2, Places DEF OnComplete
<1>4. InvCallback'
  <2>1. \A v \in Workers : Calling(v)' => Calling(v) /\ wjob'[v] = wjob[v]
    BY <1>1 DEF Calling
  <2>2. completed' \subseteq accepted' /\ \A c \in Callbacks : c \in completed' => c \in completed
    BY <1>1, JobsAssumption DEF OnComplete, InvCallback
  <2> QED
    BY <2>1, <2>2, QuietCallback DEF OnComplete
<1>5. Status(j) = "running" /\ Status(j)' = "done"
  BY <1>2, <1>3 DEF Status, OnComplete
<1>6. \A x \in Jobs : x # j => Status(x)' = Status(x)
  BY <1>2, <1>3, SameStatus DEF OnComplete
<1>7. Pool!Finish(j)
  BY <1>2, <1>5, <1>6, PoolMove DEF Pool!Finish, OnComplete
<1> QED
  BY <1>2, <1>4, <1>7 DEF PoolStep, Pool!Next

\* Every step of a worker is a step of the pool.
LEMMA WorkerRefines ==
  ASSUME IndInv, InvCallback, NEW w \in Workers, WorkerStep(w)
  PROVE  InvCallback' /\ PoolStep
<1> USE DEF queueVars, taskVars, coVars, histVars
<1>1. CASE PopLocal(w) \/ PopGlobal(w)
  <2>1. w \in Queues /\ Global \in Queues
    BY DEF Queues
  <2> QED
    BY <1>1, <2>1, PopRefines DEF PopLocal, PopGlobal, AtJob
<1>2. CASE \E v \in Workers : StealTask(w, v)
  BY <1>2, StealRefines
<1>3. CASE BeginJob(w) \/ CallbackReturns(w) \/ CoAwait(w) \/ OnComplete(w)
  BY <1>3, BeginRefines, ReturnRefines, AwaitRefines, CompleteRefines
<1>4. CASE CoReturn(w)
  <2>1. \A v \in Workers :
          /\ wjob'[v] = wjob[v]
          /\ wpc'[v] = wpc[v] \/ (wjob[v] \in Tasks /\ wpc[v] = "exec" /\ wpc'[v] = "final")
    BY <1>4 DEF CoReturn, IndInv, TypeOK
  <2> QED
    BY <1>4, <2>1, QuietRefines DEF CoReturn
<1>5. CASE \/ StealFails(w) \/ ClearFinalizing(w) \/ LeaveFinalSuspend(w) \/ EndJob(w)
           \/ DrainFinished(w) \/ DestroyFinished(w) \/ CheckBeforeWait(w) \/ CheckAfterWait(w)
  <2>1. /\ wpc[w] \notin AtJob /\ wpc'[w] \notin AtJob
        /\ \A v \in Workers : v # w => wjob'[v] = wjob[v] /\ wpc'[v] = wpc[v]
    BY <1>5 DEF StealFails, ClearFinalizing, LeaveFinalSuspend, EndJob, DrainFinished, DestroyFinished,
                CheckBeforeWait, CheckAfterWait, CheckStop, IndInv, TypeOK, AtJob
  <2>2. UNCHANGED <<queue, sub, parked, accepted, completed, stopping>>
    BY <1>5 DEF StealFails, ClearFinalizing, LeaveFinalSuspend, EndJob, DrainFinished, DestroyFinished,
                CheckBeforeWait, CheckAfterWait, CheckStop
  <2> QED
    BY <2>1, <2>2, QuietRefines
<1> QED
  BY <1>1, <1>2, <1>3, <1>4, <1>5 DEF WorkerStep

LEMMA NextRefines ==
  ASSUME IndInv, InvCallback, [Next]_vars
  PROVE  InvCallback' /\ PoolStep
<1> USE DEF queueVars, coVars, workerVars, histVars
<1>1. CASE Start
  <2>1. \A w \in Workers : wpc[w] \notin AtJob /\ wpc'[w] \notin AtJob
    BY <1>1 DEF Start, AtJob
  <2> QED
    BY <1>1, <2>1, QuietRefines DEF Start
<1>2. CASE Submit
  BY <1>2, RegisterRefines, SubmitRefines DEF Submit
<1>3. ASSUME NEW s \in Submitters, FinishSubmit(s) PROVE InvCallback' /\ PoolStep
  BY <1>3, EnqueueRefines DEF FinishSubmit
<1>4. ASSUME NEW t \in Tasks, NEW q \in Queues, Wake(t, q) PROVE InvCallback' /\ PoolStep
  BY <1>4, WakeRefines
<1>5. ASSUME NEW w \in Workers, WorkerStep(w) PROVE InvCallback' /\ PoolStep
  BY <1>5, WorkerRefines
<1>6. CASE WaitAll \/ WaiterStep \/ StopJoin \/ UNCHANGED vars
  <2>1. UNCHANGED <<queue, sub, parked, accepted, completed, stopping, wjob, wpc>>
    BY <1>6 DEF WaitAll, WaiterStep, ScanPending, TestRunning, TestTasks, WaiterDrain, WaiterDestroy,
                StopJoin, vars
  <2> QED
    BY <2>1, QuietRefines
<1>7. CASE StopBegin
  <2>1. InvCallback'
    BY <1>7, QuietCallback DEF StopBegin, InvCallback, Calling
  <2>2. \A x \in Jobs : Status(x)' = Status(x)
    BY <1>7, SameStatus DEF StopBegin, Runs, Handed
  <2>3. Pool!Close
    BY <1>7, <2>2 DEF StopBegin, Pool!Close
  <2> QED
    BY <2>1, <2>3 DEF PoolStep, Pool!Next
<1> QED
  BY <1>1, <1>2, <1>3, <1>4, <1>5, <1>6, <1>7 DEF Next

\* The scheduler implements the abstract pool: for any number of workers,
\* coroutines, callbacks, clients and suspensions, every interleaving of
\* schedule(), run(), stealTask(), the wakers, wait_all() and stop() takes a job
\* only along the transitions of JobPool.
THEOREM PoolIsImplemented == Spec => ImplementsJobPool
<1>1. Init => Pool!Init
  <2> SUFFICES ASSUME Init PROVE Pool!Init
    OBVIOUS
  <2>1. \A q \in Queues : 1 .. Len(queue[q]) = {}
    BY EmptySeq DEF Init
  <2>2. ASSUME NEW j \in Jobs PROVE Status(j) = "new"
    BY <2>1, JobsAssumption DEF Init, Status, Runs, Handed
  <2> QED
    BY <2>2 DEF Init, Pool!Init
<1>2. IndInv /\ InvCallback /\ [Next]_vars =>
        InvCallback' /\ [Pool!Next]_<<[j \in Jobs |-> Status(j)], stopping>>
  BY NextRefines DEF PoolStep
<1> QED
  BY <1>1, <1>2, CallbackInit, AlwaysInv, PTL DEF Spec, ImplementsJobPool, Pool!Spec

=============================================================================
