---------------------------- MODULE AsyncIo_proofs ----------------------------
(***************************************************************************)
(* Proofs about AsyncIo.  What one co_await may rely on holds for any      *)
(* number of coroutines and operations on the descriptor; that no wake-up  *)
(* is lost holds when the descriptor has one coroutine that does not go    *)
(* from operations with a timeout back to operations without one.          *)
(***************************************************************************)
EXTENDS AsyncIo, TLAPS

-----------------------------------------------------------------------------
(* Operations. *)

LEMMA OpFacts ==
  ASSUME NEW o \in Ops
  PROVE  Co(o) \in Coroutines /\ o[2] \in 1 .. K /\ o = <<Co(o), o[2]>>
BY DEF Ops, Co

LEMMA CurrentOp ==
  ASSUME TypeOK, NEW c \in Coroutines
  PROVE  Op(c) \in Ops /\ Co(Op(c)) = c /\ Op(c)[2] = cur[c]
BY DEF TypeOK, Ops, Op, Co

\* The operation its coroutine is at.
Current(o) == cur[Co(o)] = o[2]

\* A coroutine is at one operation.
LEMMA OneCurrent ==
  ASSUME TypeOK, NEW o \in Ops, NEW c \in Coroutines
  PROVE  Co(o) = c /\ Current(o) <=> o = Op(c)
BY OpFacts, CurrentOp DEF Current, Op

-----------------------------------------------------------------------------
(* The inductive invariant: the life of one operation. *)

\* Nobody can trigger or time out an operation before it is registered.
Untouched(o) ==
  /\ spc[o] \in {"none", "add"} => reg # o /\ reported # o /\ eventJob[o] = "none"
  /\ spc[o] # "left" => timer[o] = "none"
  /\ timer[o] # "fired" => timerJob[o] = "none"
  /\ spc[o] = "add" => armed[o] /\ eventAdded[o]

\* A coroutine reaches its operations in order.
InOrder(o) ==
  /\ spc[o] # "none" => o[2] <= cur[Co(o)]
  /\ Current(o) /\ cpc[Co(o)] = "start" => spc[o] = "none"

Suspended(o) == armed[o] => Current(o) /\ cpc[Co(o)] = "suspended"

\* What is registered still waits, and the timeout has not gone past its delEvent().
Registered(o) ==
  reg = o => /\ armed[o] /\ eventJob[o] = "none"
             /\ timerJob[o] # "resume"
             /\ eventAdded[o] \/ timerJob[o] = "delete"

\* A timeout marks the operation before it resumes it, and wakes it in the end.
Timeout(o) ==
  /\ timer[o] # "none" => o \in Timed
  /\ timerJob[o] \in {"marked", "delete", "resume", "done"} => isTimeout[o]
  /\ o \in Timed /\ armed[o] /\ spc[o] = "left" =>
       \/ timer[o] \in {"set", "collected"}
       \/ timerJob[o] \in {"queued", "marked", "delete", "resume"}

OpInv(o) == Untouched(o) /\ InOrder(o) /\ Suspended(o) /\ Registered(o) /\ Timeout(o)

\* m_pendingEventCounts
Counted == count = IF reg = NoOp THEN 0 ELSE 1

IndInv == TypeOK /\ Counted /\ \A o \in Ops : OpInv(o)

USE OpsAssumption

LEMMA InitInd == Init => IndInv
<1> SUFFICES ASSUME Init PROVE IndInv
  OBVIOUS
<1>1. TypeOK
  <2>1. /\ data \in BOOLEAN /\ undefined \in BOOLEAN /\ reported = NoOp /\ reg = NoOp
        /\ cancelled \subseteq Ops /\ early \subseteq Ops
    BY Zenon DEF Init
  <2> QED
    BY <2>1 DEF Init, TypeOK, CoPcs, TimerStates, TimerJobs
<1>2. Counted
  BY DEF Init, Counted
<1>3. ASSUME NEW o \in Ops PROVE OpInv(o)
  <2>1. /\ reg # o /\ reported # o /\ spc[o] = "none" /\ timer[o] = "none" /\ timerJob[o] = "none"
        /\ eventJob[o] = "none" /\ ~armed[o]
    BY DEF Init
  <2> QED
    BY <2>1 DEF OpInv, Untouched, InOrder, Suspended, Registered, Timeout
<1> QED
  BY <1>1, <1>2, <1>3 DEF IndInv

\* Steps that change nothing an operation's invariant depends on.
LEMMA ArriveInd == ASSUME IndInv, Arrive PROVE IndInv'
<1>1. TypeOK'
  BY DEF IndInv, TypeOK, Arrive, epollVars
<1>2. Counted'
  BY DEF IndInv, Counted, Arrive
<1>3. \A o \in Ops : OpInv(o)'
  BY DEF IndInv, Arrive, epollVars, OpInv, Untouched, InOrder, Suspended, Registered, Timeout, Current
<1> QED
  BY <1>1, <1>2, <1>3 DEF IndInv

\* A step of coroutine c: nothing of it is armed while it runs, and the
\* operation it goes on to has not been reached before.
LEMMA CoroutineInd ==
  ASSUME IndInv, NEW c \in Coroutines, CoroutineStep(c)
  PROVE  IndInv'
<1> USE DEF IndInv, epollVars
<1>1. Op(c) \in Ops /\ Co(Op(c)) = c /\ Op(c)[2] = cur[c] /\ cur[c] \in 1 .. K
  BY CurrentOp DEF TypeOK
<1>2. TypeOK'
  <2>1. CASE AwaitReady(c) /\ data
    <3>1. cur' \in [Coroutines -> 1 .. K]
      BY <1>1, <2>1 DEF TypeOK, AwaitReady, Advance
    <3> QED
      BY <1>1, <2>1, <3>1 DEF TypeOK, AwaitReady, Advance, CoPcs
  <2>2. CASE AwaitReady(c) /\ ~data
    BY <1>1, <2>2 DEF TypeOK, AwaitReady, CoPcs
  <2>3. CASE ResumeCancelTimer(c)
    BY <1>1, <2>3 DEF TypeOK, ResumeCancelTimer, CancelTimer, CoPcs, TimerStates
  <2>4. CASE ResumeExchange(c)
    BY <1>1, <2>4 DEF TypeOK, ResumeExchange, CoPcs
  <2>5. CASE ResumeDelete(c)
    BY <1>1, <2>5 DEF TypeOK, ResumeDelete, DelEvent, CoPcs, Counted
  <2>6. CASE ResumeRetry(c)
    BY <1>1, <2>6 DEF TypeOK, ResumeRetry, CoPcs
  <2>7. CASE DestroyAwaiter(c)
    BY <1>1, <2>7 DEF TypeOK, DestroyAwaiter, CancelTimer, Advance, CoPcs, TimerStates
  <2> QED
    BY <2>1, <2>2, <2>3, <2>4, <2>5, <2>6, <2>7 DEF CoroutineStep
<1>3. Counted'
  BY DEF TypeOK, Counted, CoroutineStep, AwaitReady, ResumeCancelTimer, ResumeExchange,
         ResumeDelete, DelEvent, ResumeRetry, DestroyAwaiter
<1>4. ASSUME NEW o \in Ops PROVE OpInv(o)'
  <2>1. OpInv(o) /\ OpInv(Op(c)) /\ Co(o) \in Coroutines /\ o[2] \in 1 .. K
    BY <1>1, OpFacts
  <2>2. Co(o) = c /\ Current(o) <=> o = Op(c)
    BY OneCurrent
  <2> USE <1>1, <2>1, <2>2 DEF TypeOK, OpInv, Untouched, InOrder, Suspended, Registered,
                               Timeout, Current
  <2>3. CASE AwaitReady(c)
    BY <2>3 DEF AwaitReady, Advance
  <2>4. CASE ResumeCancelTimer(c)
    BY <2>4 DEF ResumeCancelTimer, CancelTimer
  <2>5. CASE ResumeExchange(c)
    BY <2>5 DEF ResumeExchange
  <2>6. CASE ResumeDelete(c)
    BY <2>6 DEF ResumeDelete, DelEvent
  <2>7. CASE ResumeRetry(c)
    BY <2>7 DEF ResumeRetry
  <2>8. CASE DestroyAwaiter(c)
    BY <2>8 DEF DestroyAwaiter, CancelTimer, Advance
  <2> QED
    BY <2>3, <2>4, <2>5, <2>6, <2>7, <2>8 DEF CoroutineStep
<1> QED
  BY <1>2, <1>3, <1>4

\* The other threads at operation p: await_suspend(), the event callback and
\* the timeout, from its expiry to try_resume().
LEMMA OperationInd ==
  ASSUME IndInv, NEW p \in Ops, OperationStep(p)
  PROVE  IndInv'
<1> USE DEF IndInv, epollVars
<1>1. Co(p) \in Coroutines /\ p[2] \in 1 .. K /\ OpInv(p)
  BY OpFacts
<1>2. TypeOK'
  <2>1. CASE AddEvent(p) /\ reg = NoOp
    BY <1>1, <2>1 DEF TypeOK, AddEvent, Counted
  <2>2. CASE AddEvent(p) /\ reg # NoOp
    BY <1>1, <2>2 DEF TypeOK, AddEvent, CoPcs
  <2>3. CASE AddTimer(p)
    BY <1>1, <2>3 DEF TypeOK, AddTimer, TimerStates
  <2>11. CASE AddTimerLate(p)
    <3>1. undefined' \in BOOLEAN
      BY <2>11, Zenon DEF TypeOK, AddTimerLate
    <3>2. timer' \in [Ops -> TimerStates]
      BY <2>11 DEF TypeOK, AddTimerLate, TimerStates
    <3> QED
      BY <1>1, <2>11, <3>1, <3>2 DEF TypeOK, AddTimerLate
  <2>4. CASE RunEventJob(p)
    BY <1>1, <2>4 DEF TypeOK, RunEventJob, TryResume, CoPcs
  <2>5. CASE CollectTimer(p)
    BY <1>1, <2>5 DEF TypeOK, CollectTimer, TimerStates
  <2>6. CASE ScheduleTimer(p)
    BY <1>1, <2>6 DEF TypeOK, ScheduleTimer, TimerStates, TimerJobs
  <2>7. CASE TimeoutMark(p)
    BY <1>1, <2>7 DEF TypeOK, TimeoutMark, TimerJobs
  <2>8. CASE TimeoutExchange(p)
    BY <1>1, <2>8 DEF TypeOK, TimeoutExchange, TimerJobs
  <2>9. CASE TimeoutDelete(p)
    BY <1>1, <2>9 DEF TypeOK, TimeoutDelete, DelEvent, TimerJobs, Counted
  <2>10. CASE TimeoutResume(p)
    BY <1>1, <2>10 DEF TypeOK, TimeoutResume, TryResume, CoPcs, TimerJobs
  <2> QED
    BY <2>1, <2>2, <2>3, <2>4, <2>5, <2>6, <2>7, <2>8, <2>9, <2>10, <2>11
       DEF OperationStep, TimerStep
<1>3. Counted'
  BY DEF TypeOK, Counted, OperationStep, TimerStep, AddEvent, AddTimer, AddTimerLate, RunEventJob,
         CollectTimer, ScheduleTimer, TimeoutMark, TimeoutExchange, TimeoutDelete, DelEvent,
         TimeoutResume
<1>4. ASSUME NEW o \in Ops PROVE OpInv(o)'
  <2>1. OpInv(o) /\ Co(o) \in Coroutines /\ o[2] \in 1 .. K
    BY OpFacts
  <2>2. Co(o) = Co(p) /\ o[2] = p[2] <=> o = p
    BY OpFacts
  <2> USE <1>1, <2>1, <2>2 DEF TypeOK, OpInv, Untouched, InOrder, Suspended, Registered,
                               Timeout, Current
  <2>3. CASE AddEvent(p)
    BY <2>3 DEF AddEvent
  <2>4. CASE AddTimer(p)
    BY <2>4 DEF AddTimer
  <2>12. CASE AddTimerLate(p)
    BY <2>12 DEF AddTimerLate, AwaiterAlive
  <2>5. CASE RunEventJob(p)
    BY <2>5 DEF RunEventJob, TryResume
  <2>6. CASE CollectTimer(p)
    BY <2>6 DEF CollectTimer
  <2>7. CASE ScheduleTimer(p)
    BY <2>7 DEF ScheduleTimer
  <2>8. CASE TimeoutMark(p)
    BY <2>8 DEF TimeoutMark
  <2>9. CASE TimeoutExchange(p)
    BY <2>9 DEF TimeoutExchange
  <2>10. CASE TimeoutDelete(p)
    BY <2>10 DEF TimeoutDelete, DelEvent
  <2>11. CASE TimeoutResume(p)
    BY <2>11 DEF TimeoutResume, TryResume
  <2> QED
    BY <2>3, <2>4, <2>5, <2>6, <2>7, <2>8, <2>9, <2>10, <2>11, <2>12 DEF OperationStep, TimerStep
<1> QED
  BY <1>2, <1>3, <1>4

\* The registration is taken: idle() for an entry of events[], cancelEvent() for any.
LEMMA TriggerInd ==
  ASSUME IndInv, Trigger, cancelled' \subseteq Ops, early' \subseteq Ops,
         reported' \in {reported, NoOp},
         UNCHANGED <<data, cur, cpc, spc, armed, eventAdded, isTimeout, timer, timerRef,
                     timerJob, result, undefined>>
  PROVE  IndInv'
<1> USE DEF IndInv
<1>1. reg \in Ops /\ OpInv(reg)
  BY DEF TypeOK, Trigger
<1>2. TypeOK'
  BY <1>1 DEF TypeOK, Trigger, Counted
<1>3. Counted'
  BY <1>1 DEF TypeOK, Trigger, Counted
<1>4. ASSUME NEW o \in Ops PROVE OpInv(o)'
  <2>1. OpInv(o)
    OBVIOUS
  <2> QED
    BY <1>1, <2>1 DEF TypeOK, Trigger, OpInv, Untouched, InOrder, Suspended, Registered,
                      Timeout, Current
<1> QED
  BY <1>2, <1>3, <1>4

\* epoll_wait fills the entry, or idle() passes over it.
LEMMA EntryInd ==
  ASSUME IndInv, reported' \in {reg, NoOp},
         UNCHANGED <<data, reg, count, cur, cpc, spc, armed, eventAdded, isTimeout, timer,
                     timerRef, eventJob, timerJob, result, cancelled, early, undefined>>
  PROVE  IndInv'
<1> USE DEF IndInv
<1>1. TypeOK' /\ Counted'
  BY DEF TypeOK, Counted
<1>2. ASSUME NEW o \in Ops PROVE OpInv(o)'
  <2>1. OpInv(o)
    OBVIOUS
  <2> QED
    BY <2>1 DEF TypeOK, OpInv, Untouched, InOrder, Suspended, Registered, Timeout, Current
<1> QED
  BY <1>1, <1>2

LEMMA EpollInd == ASSUME IndInv, ReportEvent \/ EpollEvent PROVE IndInv'
<1>1. CASE ReportEvent
  BY <1>1, EntryInd DEF ReportEvent
<1>2. CASE EpollEvent /\ Trigger
  <2>1. early' \subseteq Ops /\ cancelled' \subseteq Ops
    BY <1>2 DEF EpollEvent, Trigger, IndInv, TypeOK
  <2> QED
    BY <1>2, <2>1, TriggerInd DEF EpollEvent
<1>3. CASE EpollEvent /\ ~Trigger
  BY <1>3, EntryInd DEF EpollEvent
<1> QED
  BY <1>1, <1>2, <1>3

LEMMA CancelEventInd == ASSUME IndInv, CancelEvent PROVE IndInv'
<1>1. cancelled' \subseteq Ops /\ early' \subseteq Ops
  BY DEF CancelEvent, Trigger, IndInv, TypeOK, epollVars
<1> QED
  BY <1>1, TriggerInd DEF CancelEvent, epollVars

LEMMA StutterInd == ASSUME IndInv, UNCHANGED vars PROVE IndInv'
<1> USE DEF IndInv, vars
<1>1. TypeOK' /\ Counted'
  BY DEF TypeOK, Counted
<1>2. ASSUME NEW o \in Ops PROVE OpInv(o)'
  <2>1. OpInv(o)
    OBVIOUS
  <2> QED
    BY <2>1 DEF OpInv, Untouched, InOrder, Suspended, Registered, Timeout, Current
<1> QED
  BY <1>1, <1>2

LEMMA NextInd == ASSUME IndInv, [Next]_vars PROVE IndInv'
<1>1. CASE Arrive
  BY <1>1, ArriveInd
<1>2. CASE ReportEvent \/ EpollEvent
  BY <1>2, EpollInd
<1>3. CASE CancelEvent
  BY <1>3, CancelEventInd
<1>4. ASSUME NEW c \in Coroutines, CoroutineStep(c) PROVE IndInv'
  BY <1>4, CoroutineInd
<1>5. ASSUME NEW p \in Ops, OperationStep(p) PROVE IndInv'
  BY <1>5, OperationInd
<1>6. CASE Finished \/ UNCHANGED vars
  BY <1>6, StutterInd DEF Finished
<1> QED
  BY <1>1, <1>2, <1>3, <1>4, <1>5, <1>6 DEF Next

LEMMA Inductive == Spec => []IndInv
BY InitInd, NextInd, PTL DEF Spec

-----------------------------------------------------------------------------
(* Theorems for any coroutines, operations and timeouts. *)

\* The variables keep their types; m_pendingEventCounts never goes below zero
\* nor above one for one event, whoever of await_resume(), the timeout
\* callback, idle() and cancelEvent() removes the registration.
THEOREM TypeCorrect == Spec => []TypeOK
<1>1. IndInv => TypeOK
  BY DEF IndInv
<1> QED
  BY <1>1, Inductive, PTL

\* resume_ticket.h: m_armed.exchange(false) is won at most once per operation,
\* and only while the coroutine is suspended in this very co_await.
THEOREM OnlySuspendedResumed == Spec => []ArmedMeansSuspended
<1>1. IndInv => ArmedMeansSuspended
  BY DEF IndInv, OpInv, Suspended, Current, ArmedMeansSuspended
<1> QED
  BY <1>1, Inductive, PTL

\* ResumeTicket::try_resume() makes a coroutine go on only out of its suspension
\* in co_await: a step after which it resumes found it suspended.
ResumedWhileSuspended ==
  \A c \in Coroutines :
    cpc'[c] = "resume" => cpc[c] \in {"suspended", "resume"}

\* No event callback, timeout callback or failing addEvent() resumes a
\* coroutine that runs, or that has finished with its operation.
THEOREM ResumesAreSingle == Spec => [][ResumedWhileSuspended]_vars
<1>1. ASSUME IndInv, [Next]_vars PROVE [ResumedWhileSuspended]_vars
  <2>1. ASSUME NEW c \in Coroutines, CoroutineStep(c) PROVE ResumedWhileSuspended
    BY <1>1, <2>1 DEF IndInv, TypeOK, CoPcs, CoroutineStep, AwaitReady, ResumeCancelTimer,
       ResumeExchange, ResumeDelete, ResumeRetry, DestroyAwaiter, Advance, ResumedWhileSuspended
  <2>2. ASSUME NEW p \in Ops,
               AddEvent(p) \/ RunEventJob(p) \/ TimeoutResume(p)
        PROVE  ResumedWhileSuspended
    <3>1. OpInv(p) /\ Co(p) \in Coroutines
      BY <1>1, OpFacts DEF IndInv
    <3> QED
      BY <1>1, <2>2, <3>1 DEF IndInv, TypeOK, AddEvent, RunEventJob, TimeoutResume, TryResume,
         OpInv, Untouched, Suspended, ResumedWhileSuspended
  <2>3. CASE UNCHANGED cpc
    BY <2>3 DEF ResumedWhileSuspended
  <2> QED
    BY <1>1, <2>1, <2>2, <2>3 DEF Next, vars, OperationStep, Arrive, ReportEvent, EpollEvent,
       CancelEvent, AddTimer, AddTimerLate, TimerStep,
       CollectTimer, ScheduleTimer, TimeoutMark, TimeoutExchange, TimeoutDelete, Finished
<1> QED
  BY <1>1, Inductive, PTL DEF Spec

\* An operation with a timeout can be woken as soon as await_suspend has
\* returned, however many coroutines share the descriptor and delete each
\* other's registration; and m_pendingEventCounts is exact.
TimedCanBeWoken ==
  /\ \A o \in Timed : armed[o] /\ spc[o] = "left" => CanBeWoken(o)
  /\ count = IF reg = NoOp THEN 0 ELSE 1

\* A registration that another coroutine deletes (asyncio.h, delEvent in the timeout
\* callback and in await_resume) costs an operation with a timeout no wake-up.
THEOREM TimedIsWoken == Spec => []TimedCanBeWoken
<1>1. IndInv => TimedCanBeWoken
  BY DEF IndInv, OpInv, Timeout, Counted, CanBeWoken, TimedCanBeWoken
<1> QED
  BY <1>1, Inductive, PTL

-----------------------------------------------------------------------------
(***************************************************************************)
(* A descriptor with one coroutine. delEvent() removes whatever is         *)
(* registered, so a timeout callback that comes late can take the          *)
(* registration of the coroutine's next operation, which nobody wakes      *)
(* unless it has a timeout of its own. The second hypothesis rules exactly *)
(* that out; without it NoLostWakeup is false.                             *)
(***************************************************************************)

Alone == \A c, d \in Coroutines : c = d

TimedFromThenOn ==
  \A c \in Coroutines : \A j, k \in 1 .. K : j < k /\ <<c, j>> \in Timed => <<c, k>> \in Timed

AtIo(o) == Current(o) /\ cpc[Co(o)] \in {"suspended", "resume", "disarm", "delete", "retry"}

Woken(o) == Current(o) /\ cpc[Co(o)] \in {"resume", "disarm", "delete", "retry"}

\* A coroutine is woken by its event or by its timeout, and the event means
\* that there is data, which nobody else takes, or a cancellation, or that the
\* entry of events[] was for an earlier operation.
WokenInv(o) ==
  /\ reported = o /\ reg = o => data
  /\ AtIo(o) /\ eventJob[o] # "none" => data \/ o \in cancelled \cup early
  /\ Woken(o) => eventJob[o] # "none" \/ isTimeout[o]
  /\ result[o] = "again" => o \in cancelled \cup early

\* Without a timeout, the registration or the event callback must be there.
UntimedInv(o) ==
  armed[o] /\ spc[o] \in {"timer", "left"} /\ o \notin Timed => reg = o \/ eventJob[o] = "queued"

AloneInv == \A o \in Ops : WokenInv(o) /\ UntimedInv(o)

LEMMA AloneInit == Init => AloneInv
<1> SUFFICES ASSUME Init, NEW o \in Ops PROVE WokenInv(o) /\ UntimedInv(o)
  BY DEF AloneInv
<1>1. Co(o) \in Coroutines
  BY OpFacts
<1> QED
  BY <1>1 DEF Init, WokenInv, UntimedInv, Woken, AtIo

\* One coroutine: two operations that are both current are the same.
LEMMA SameCurrent ==
  ASSUME Alone, NEW o \in Ops, NEW p \in Ops
  PROVE  Co(o) = Co(p) /\ (o[2] = p[2] <=> o = p) /\ (Current(o) /\ Current(p) => o = p)
<1>1. Co(o) = Co(p)
  BY OpFacts DEF Alone
<1> QED
  BY <1>1, OpFacts DEF Current

LEMMA CoroutineAlone ==
  ASSUME Alone, IndInv, AloneInv, NEW c \in Coroutines, CoroutineStep(c)
  PROVE  AloneInv'
<1>1. Op(c) \in Ops /\ Co(Op(c)) = c /\ Op(c)[2] = cur[c] /\ cur[c] \in 1 .. K
  BY CurrentOp DEF IndInv, TypeOK
<1> SUFFICES ASSUME NEW o \in Ops PROVE WokenInv(o)' /\ UntimedInv(o)'
  BY DEF AloneInv
<1>2. OpInv(o) /\ OpInv(Op(c)) /\ WokenInv(o) /\ UntimedInv(o) /\ Co(o) = c /\ o[2] \in 1 .. K
  BY <1>1, SameCurrent, OpFacts DEF IndInv, AloneInv
<1>3. Current(o) <=> o = Op(c)
  BY <1>2, OneCurrent DEF IndInv
<1> USE <1>1, <1>2, <1>3 DEF IndInv, TypeOK, WokenInv, UntimedInv, AtIo, Woken, OpInv,
                             Untouched, InOrder, Suspended, Registered, Current, epollVars
<1>4. CASE AwaitReady(c)
  BY <1>4 DEF AwaitReady, Advance
<1>5. CASE ResumeCancelTimer(c)
  BY <1>5 DEF ResumeCancelTimer
<1>6. CASE ResumeExchange(c)
  BY <1>6 DEF ResumeExchange
<1>7. CASE ResumeDelete(c)
  BY <1>7 DEF ResumeDelete, DelEvent
<1>8. CASE ResumeRetry(c)
  BY <1>8 DEF ResumeRetry
<1>9. CASE DestroyAwaiter(c)
  BY <1>9 DEF DestroyAwaiter, Advance
<1> QED
  BY <1>4, <1>5, <1>6, <1>7, <1>8, <1>9 DEF CoroutineStep

LEMMA OperationAlone ==
  ASSUME Alone, TimedFromThenOn, IndInv, AloneInv, NEW p \in Ops, OperationStep(p)
  PROVE  AloneInv'
<1> SUFFICES ASSUME NEW o \in Ops PROVE WokenInv(o)' /\ UntimedInv(o)'
  BY DEF AloneInv
<1>1. /\ OpInv(o) /\ OpInv(p) /\ WokenInv(o) /\ UntimedInv(o) /\ Co(o) = Co(p)
      /\ Co(p) \in Coroutines /\ o[2] \in 1 .. K /\ p[2] \in 1 .. K
      /\ o[2] = p[2] <=> o = p
  BY SameCurrent, OpFacts DEF IndInv, AloneInv
\* The descriptor has no registration when its one coroutine adds one.
<1>2. spc[p] = "add" => reg = NoOp
  <2>1. SUFFICES ASSUME spc[p] = "add", reg \in Ops PROVE FALSE
    BY DEF IndInv, TypeOK
  <2>2. OpInv(reg)
    BY <2>1 DEF IndInv
  <2>3. armed[p] /\ reg # p /\ armed[reg]
    BY <1>1, <2>1, <2>2 DEF OpInv, Untouched, Registered
  <2> QED
    BY <1>1, <2>1, <2>2, <2>3, SameCurrent DEF OpInv, Suspended
\* A late timeout finds an operation that has a timeout of its own.
<1>3. timerJob[p] = "delete" /\ armed[o] => o \in Timed
  <2>1. SUFFICES ASSUME timerJob[p] = "delete", armed[o], o # p PROVE o \in Timed
    BY <1>1 DEF OpInv, Untouched, Timeout
  <2>2. p \in Timed /\ p[2] <= o[2]
    BY <1>1, <2>1 DEF OpInv, Untouched, Timeout, InOrder, Suspended, Current
  <2>3. p[2] < o[2] /\ o = <<Co(p), o[2]>> /\ p = <<Co(p), p[2]>>
    BY <1>1, <2>1, <2>2, OpFacts
  <2> QED
    BY <1>1, <2>2, <2>3 DEF TimedFromThenOn
<1> USE <1>1, <1>2 DEF IndInv, TypeOK, WokenInv, UntimedInv, AtIo, Woken, OpInv, Untouched,
                       Suspended, Timeout, Current, epollVars
<1>4. CASE AddEvent(p)
  BY <1>4 DEF AddEvent
<1>5. CASE AddTimer(p)
  BY <1>5 DEF AddTimer
<1>13. CASE AddTimerLate(p)
  BY <1>13 DEF AddTimerLate, AwaiterAlive
<1>6. CASE RunEventJob(p)
  BY <1>6 DEF RunEventJob, TryResume
<1>7. CASE CollectTimer(p)
  BY <1>7 DEF CollectTimer
<1>8. CASE ScheduleTimer(p)
  BY <1>8 DEF ScheduleTimer
<1>9. CASE TimeoutMark(p)
  BY <1>9 DEF TimeoutMark
<1>10. CASE TimeoutExchange(p)
  BY <1>10 DEF TimeoutExchange
<1>11. CASE TimeoutDelete(p)
  BY <1>3, <1>11 DEF TimeoutDelete, DelEvent
<1>12. CASE TimeoutResume(p)
  BY <1>12 DEF TimeoutResume, TryResume
<1> QED
  BY <1>4, <1>5, <1>6, <1>7, <1>8, <1>9, <1>10, <1>11, <1>12, <1>13
     DEF OperationStep, TimerStep

LEMMA TriggerAlone ==
  ASSUME IndInv, AloneInv, Arrive \/ ReportEvent \/ EpollEvent \/ CancelEvent PROVE AloneInv'
<1> SUFFICES ASSUME NEW o \in Ops PROVE WokenInv(o)' /\ UntimedInv(o)'
  BY DEF AloneInv
<1>1. WokenInv(o) /\ UntimedInv(o)
  BY DEF AloneInv
<1> USE <1>1 DEF IndInv, TypeOK, WokenInv, UntimedInv, AtIo, Woken, Current, epollVars
<1>2. CASE Arrive
  BY <1>2 DEF Arrive
<1>3. CASE EpollEvent
  BY <1>3 DEF EpollEvent, Trigger
<1>4. CASE CancelEvent
  BY <1>4 DEF CancelEvent, Trigger
<1>5. CASE ReportEvent
  BY <1>5 DEF ReportEvent
<1> QED
  BY <1>2, <1>3, <1>4, <1>5

\* With one coroutine at the descriptor that keeps using timeouts once it has
\* used one, every suspended operation can be woken and every bare EAGAIN is
\* the answer to a cancellation or to an entry of events[] that was filled for an
\* earlier operation, for any number of operations.
THEOREM NoWakeupIsLost ==
  ASSUME Alone, TimedFromThenOn
  PROVE  Spec => []NoLostWakeup
<1>1. ASSUME IndInv, AloneInv, [Next]_vars PROVE AloneInv'
  <2>1. CASE UNCHANGED vars
    BY <1>1, <2>1 DEF vars, AloneInv, WokenInv, UntimedInv, AtIo, Woken, Current
  <2> QED
    BY <1>1, <2>1, TriggerAlone, CoroutineAlone, OperationAlone DEF Next, Finished
<1>2. IndInv /\ AloneInv => NoLostWakeup
  <2> SUFFICES ASSUME IndInv, AloneInv PROVE NoLostWakeup
    OBVIOUS
  <2>1. ASSUME NEW o \in Ops, armed[o], spc[o] = "left" PROVE CanBeWoken(o)
    BY <2>1 DEF IndInv, OpInv, Timeout, AloneInv, UntimedInv, CanBeWoken
  <2> QED
    BY <2>1 DEF IndInv, Counted, AloneInv, WokenInv, NoLostWakeup
<1> QED
  BY <1>1, <1>2, AloneInit, Inductive, PTL DEF Spec
=============================================================================
