------------------------------- MODULE AsyncIo -------------------------------
(***************************************************************************)
(* Awaiting I/O: the AsyncIo awaiter (asyncio.h) with its ResumeTicket     *)
(* (resume_ticket.{h,cpp}), the registration of one event of one file      *)
(* descriptor in the IOManager (io_manager.cpp: addEvent, delEvent,        *)
(* cancelEvent, triggerContext, idle) and the timeout timer (timer.cpp).   *)
(*                                                                         *)
(* Each coroutine performs operations 1..K, one after the other, all on    *)
(* the same descriptor and event. Operation <<c, k>> has its own awaiter,  *)
(* ticket, AsyncIoState and timer. The threads are the one that runs       *)
(* await_suspend, the epoll thread, and the workers that run the event and *)
(* the timer callbacks and, through try_resume, the coroutine.             *)
(***************************************************************************)
EXTENDS Integers

CONSTANTS
  Coroutines,  \* coroutines that use the descriptor
  K,           \* bound: operations per coroutine
  Timed,       \* the operations with a timeout (RecvT, SendT, ...)
  MayCancel,   \* whether cancelEvent()/cancelAll() is called
  NoOp

Ops == Coroutines \X (1 .. K)

ASSUME OpsAssumption ==
  K \in Nat \ {0} /\ Timed \subseteq Ops /\ NoOp \notin Ops /\ MayCancel \in BOOLEAN

VARIABLES
  data,        \* the descriptor is ready: the system call would succeed
  reg,         \* the operation registered in the FdContext (m_events, ticket)
  count,       \* m_pendingEventCounts
  cur,         \* the operation each coroutine is at
  cpc,         \* where each coroutine is in it
  spc,         \* the thread inside await_suspend of each operation
  armed,       \* ResumeTicket::m_armed
  eventAdded, isTimeout,  \* AsyncIoState
  timer,       \* each operation's timer in the TimerManager
  timerRef,    \* the awaiter's `timer` member is set
  eventJob,    \* the scheduled event callback of each operation
  timerJob,    \* the timeout callback of each operation and its progress
  reported,    \* the entry of events[] that epoll_wait has filled, not yet handled
  result,      \* what co_await returned
  cancelled,   \* history: operations whose registration cancelEvent removed
  early,       \* history: operations triggered by an entry older than they are
  undefined    \* a destroyed awaiter was used: nothing can be said any more

vars == <<data, reg, count, cur, cpc, spc, armed, eventAdded, isTimeout, timer, timerRef,
          eventJob, timerJob, reported, result, cancelled, early, undefined>>
epollVars == <<reported, early, undefined>>

Op(c) == <<c, cur[c]>>
Co(o) == o[1]

CoPcs == {"start", "suspended", "resume", "disarm", "delete", "retry", "destroy", "done"}
TimerStates == {"none", "set", "collected", "cancelled", "fired"}
TimerJobs == {"none", "queued", "marked", "delete", "resume", "done"}

Init ==
  /\ data \in BOOLEAN
  /\ reg = NoOp /\ count = 0
  /\ cur = [c \in Coroutines |-> 1]
  /\ cpc = [c \in Coroutines |-> "start"]
  /\ spc = [o \in Ops |-> "none"]
  /\ armed = [o \in Ops |-> FALSE]
  /\ eventAdded = [o \in Ops |-> FALSE]
  /\ isTimeout = [o \in Ops |-> FALSE]
  /\ timer = [o \in Ops |-> "none"]
  /\ timerRef = [o \in Ops |-> FALSE]
  /\ eventJob = [o \in Ops |-> "none"]
  /\ timerJob = [o \in Ops |-> "none"]
  /\ result = [o \in Ops |-> "none"]
  /\ reported = NoOp
  /\ cancelled = {} /\ early = {} /\ undefined = FALSE

\* The peer makes the descriptor ready.
Arrive ==
  /\ ~data
  /\ data' = TRUE
  /\ UNCHANGED <<reg, count, cur, cpc, spc, armed, eventAdded, isTimeout, timer,
                 timerRef, eventJob, timerJob, result, cancelled,
                 epollVars>>

-----------------------------------------------------------------------------
(* The awaiting side. *)

\* Coroutine c leaves its operation: the next one starts, if there is one.
Advance(c) ==
  /\ cur' = [cur EXCEPT ![c] = IF @ < K THEN @ + 1 ELSE @]
  /\ cpc' = [cpc EXCEPT ![c] = IF cur[c] < K THEN "start" ELSE "done"]

\* await_ready(): the system call succeeds at once, or EAGAIN leads into
\* await_suspend(), which arms the ticket and sets event_added.
AwaitReady(c) ==
  /\ cpc[c] = "start"
  /\ IF data
     THEN /\ data' = FALSE
          /\ result' = [result EXCEPT ![Op(c)] = "ok"]
          /\ Advance(c)
          /\ UNCHANGED <<spc, armed, eventAdded>>
     ELSE /\ cpc' = [cpc EXCEPT ![c] = "suspended"]
          /\ spc' = [spc EXCEPT ![Op(c)] = "add"]
          /\ armed' = [armed EXCEPT ![Op(c)] = TRUE]
          /\ eventAdded' = [eventAdded EXCEPT ![Op(c)] = TRUE]
          /\ UNCHANGED <<data, result, cur>>
  /\ UNCHANGED <<reg, count, isTimeout, timer, timerRef, eventJob, timerJob,
                 cancelled, epollVars>>

\* addEvent(fd, event, ticket) fails when the event is registered already; the
\* awaiter then disarms the ticket and returns h, with event_added still set.
AddEvent(o) ==
  /\ spc[o] = "add"
  /\ IF reg = NoOp
     THEN /\ reg' = o
          /\ count' = count + 1
          /\ spc' = [spc EXCEPT ![o] = "timer"]
          /\ UNCHANGED <<armed, cpc>>
     ELSE /\ armed' = [armed EXCEPT ![o] = FALSE]
          /\ spc' = [spc EXCEPT ![o] = "left"]
          /\ cpc' = [cpc EXCEPT ![Co(o)] = "resume"]
          /\ UNCHANGED <<reg, count>>
  /\ UNCHANGED <<data, cur, eventAdded, isTimeout, timer, timerRef, eventJob,
                 timerJob, result, cancelled, epollVars>>

\* The awaiter of o still exists: its coroutine has not gone past it.
AwaiterAlive(o) == cur[Co(o)] = o[2] /\ cpc[Co(o)] \notin {"start", "done"}

\* Mutant of AddTimer: the timeout is never armed.
AddTimerForgotten(o) ==
  /\ spc[o] = "timer" /\ AwaiterAlive(o)
  /\ spc' = [spc EXCEPT ![o] = "left"]
  /\ UNCHANGED <<data, reg, count, cur, cpc, armed, eventAdded, isTimeout, timer,
                 timerRef, eventJob, timerJob, result, cancelled, epollVars>>

\* `if (has_timer) timer = iom->addTimer(...)`, after the event was registered.
AddTimer(o) ==
  /\ spc[o] = "timer" /\ AwaiterAlive(o)
  /\ spc' = [spc EXCEPT ![o] = "left"]
  /\ timer' = [timer EXCEPT ![o] = IF o \in Timed THEN "set" ELSE @]
  /\ timerRef' = [timerRef EXCEPT ![o] = o \in Timed]
  /\ UNCHANGED <<data, reg, count, cur, cpc, armed, eventAdded, isTimeout,
                 eventJob, timerJob, result, cancelled, epollVars>>

\* The same statement when another worker has resumed the coroutine and destroyed
\* the awaiter meanwhile: has_timer, state, resumeTicket and timer are of a dead
\* object. Its bytes may still be those of o, may read as no timeout, or may be
\* anything, such as the awaiter of the next operation in the same place.
AddTimerLate(o) ==
  /\ spc[o] = "timer" /\ ~AwaiterAlive(o)
  /\ spc' = [spc EXCEPT ![o] = "left"]
  /\ \/ o \in Timed /\ timer' = [timer EXCEPT ![o] = "set"] /\ UNCHANGED undefined
     \/ UNCHANGED <<timer, undefined>>
     \/ undefined' = TRUE /\ UNCHANGED timer
  /\ UNCHANGED <<data, reg, count, cur, cpc, armed, eventAdded, isTimeout, timerRef,
                 eventJob, timerJob, result, cancelled, reported, early>>

\* Timer::cancel(): takes the timer out of the set, or, if processExpired() has
\* collected it, empties the callback before it is copied.
CancelTimer(o) ==
  timer' = [timer EXCEPT ![o] =
              IF timerRef[o] /\ @ \in {"set", "collected"} THEN "cancelled" ELSE @]

\* delEvent(fd, event): removes whatever is registered for the event.
DelEvent ==
  /\ reg' = NoOp
  /\ count' = IF reg = NoOp THEN count ELSE count - 1

\* await_resume(), statement by statement: cancel the timer,
ResumeCancelTimer(c) ==
  /\ cpc[c] = "resume"
  /\ CancelTimer(Op(c))
  /\ timerRef' = [timerRef EXCEPT ![Op(c)] = FALSE]
  /\ cpc' = [cpc EXCEPT ![c] = "disarm"]
  /\ UNCHANGED <<data, reg, count, cur, spc, armed, eventAdded, isTimeout, eventJob,
                 timerJob, result, cancelled, epollVars>>

\* event_added.exchange(false),
ResumeExchange(c) ==
  /\ cpc[c] = "disarm"
  /\ eventAdded' = [eventAdded EXCEPT ![Op(c)] = FALSE]
  /\ cpc' = [cpc EXCEPT ![c] = IF eventAdded[Op(c)] THEN "delete" ELSE "retry"]
  /\ UNCHANGED <<data, reg, count, cur, spc, armed, isTimeout, timer, timerRef,
                 eventJob, timerJob, result, cancelled, epollVars>>

\* delEvent for the one that got TRUE,
ResumeDelete(c) ==
  /\ cpc[c] = "delete"
  /\ DelEvent
  /\ cpc' = [cpc EXCEPT ![c] = "retry"]
  /\ UNCHANGED <<data, cur, spc, armed, eventAdded, isTimeout, timer, timerRef,
                 eventJob, timerJob, result, cancelled, epollVars>>

\* ETIMEDOUT, or the system call again.
ResumeRetry(c) ==
  /\ cpc[c] = "retry"
  /\ result' = [result EXCEPT ![Op(c)] =
                  IF isTimeout[Op(c)] THEN "timeout" ELSE IF data THEN "ok" ELSE "again"]
  /\ data' = (data /\ isTimeout[Op(c)])
  /\ cpc' = [cpc EXCEPT ![c] = "destroy"]
  /\ UNCHANGED <<reg, count, cur, spc, armed, eventAdded, isTimeout, timer, timerRef,
                 eventJob, timerJob, cancelled, epollVars>>

\* ~AsyncIo(): disarms the ticket and cancels the timer; event_added is FALSE
\* by now. The coroutine goes on.
DestroyAwaiter(c) ==
  /\ cpc[c] = "destroy"
  /\ armed' = [armed EXCEPT ![Op(c)] = FALSE]
  /\ CancelTimer(Op(c))
  /\ timerRef' = [timerRef EXCEPT ![Op(c)] = FALSE]
  /\ Advance(c)
  /\ UNCHANGED <<data, reg, count, spc, eventAdded, isTimeout, eventJob, timerJob,
                 result, cancelled, epollVars>>

-----------------------------------------------------------------------------
(* The resuming side. *)

\* epoll_wait returns with the descriptor in events[]; the same thread then runs
\* processExpired() and comes to the entry after it.
ReportEvent ==
  /\ data /\ reg # NoOp /\ reported = NoOp
  /\ \A o \in Ops : timer[o] # "collected"
  /\ reported' = reg
  /\ UNCHANGED <<data, reg, count, cur, cpc, spc, armed, eventAdded, isTimeout, timer, timerRef, eventJob, timerJob, result, cancelled, early, undefined>>

\* The registration is taken out and the ticket's callback scheduled: idle() for
\* an entry of events[], cancelEvent()/cancelAll() for any.
Trigger ==
  /\ reg # NoOp
  /\ reg' = NoOp
  /\ count' = count - 1
  /\ eventJob' = [eventJob EXCEPT ![reg] = "queued"]

\* idle() handles the entry: it looks at m_events only, so what it triggers is
\* the registration of this moment, or nothing.
EpollEvent ==
  /\ reported # NoOp
  /\ \A o \in Ops : timer[o] # "collected"
  /\ reported' = NoOp
  /\ \/ /\ Trigger
        /\ early' = early \cup ({reg} \ {reported})
     \/ /\ reg = NoOp
        /\ UNCHANGED <<reg, count, eventJob, early>>
  /\ UNCHANGED <<data, cur, cpc, spc, armed, eventAdded, isTimeout, timer,
                 timerRef, timerJob, result, cancelled, undefined>>

CancelEvent ==
  /\ MayCancel
  /\ Trigger
  /\ cancelled' = cancelled \cup {reg}
  /\ UNCHANGED <<data, cur, cpc, spc, armed, eventAdded, isTimeout, timer, timerRef,
                 timerJob, result, epollVars>>

\* Mutant of TryResume: m_armed is loaded, not exchanged.
TryResumeKeepsArmed(o) ==
  /\ cpc' = [cpc EXCEPT ![Co(o)] = IF armed[o] THEN "resume" ELSE @]
  /\ UNCHANGED armed

\* try_resume(ticket)
TryResume(o) ==
  /\ armed' = [armed EXCEPT ![o] = FALSE]
  /\ cpc' = [cpc EXCEPT ![Co(o)] = IF armed[o] THEN "resume" ELSE @]

RunEventJob(o) ==
  /\ eventJob[o] = "queued"
  /\ eventJob' = [eventJob EXCEPT ![o] = "done"]
  /\ TryResume(o)
  /\ UNCHANGED <<data, reg, count, cur, spc, eventAdded, isTimeout, timer, timerRef,
                 timerJob, result, cancelled, epollVars>>

\* processExpired(): the expired timer leaves the set,
CollectTimer(o) ==
  /\ timer[o] = "set"
  /\ timer' = [timer EXCEPT ![o] = "collected"]
  /\ UNCHANGED <<data, reg, count, cur, cpc, spc, armed, eventAdded, isTimeout,
                 timerRef, eventJob, timerJob, result, cancelled,
                 epollVars>>

\* and its callback, unless cancel() emptied it, is scheduled.
ScheduleTimer(o) ==
  /\ timer[o] = "collected"
  /\ timer' = [timer EXCEPT ![o] = "fired"]
  /\ timerJob' = [timerJob EXCEPT ![o] = "queued"]
  /\ UNCHANGED <<data, reg, count, cur, cpc, spc, armed, eventAdded, isTimeout,
                 timerRef, eventJob, result, cancelled, epollVars>>

\* The timeout callback: is_timeout, then event_added.exchange(false),
TimeoutMark(o) ==
  /\ timerJob[o] = "queued"
  /\ isTimeout' = [isTimeout EXCEPT ![o] = TRUE]
  /\ timerJob' = [timerJob EXCEPT ![o] = "marked"]
  /\ UNCHANGED <<data, reg, count, cur, cpc, spc, armed, eventAdded, timer, timerRef,
                 eventJob, result, cancelled, epollVars>>

TimeoutExchange(o) ==
  /\ timerJob[o] = "marked"
  /\ eventAdded' = [eventAdded EXCEPT ![o] = FALSE]
  /\ timerJob' = [timerJob EXCEPT ![o] = IF eventAdded[o] THEN "delete" ELSE "resume"]
  /\ UNCHANGED <<data, reg, count, cur, cpc, spc, armed, isTimeout, timer, timerRef,
                 eventJob, result, cancelled, epollVars>>

\* Mutant of TimeoutDelete: the callback returns without try_resume.
TimeoutDeleteReturns(o) ==
  /\ timerJob[o] = "delete"
  /\ DelEvent
  /\ timerJob' = [timerJob EXCEPT ![o] = "done"]
  /\ UNCHANGED <<data, cur, cpc, spc, armed, eventAdded, isTimeout, timer, timerRef,
                 eventJob, result, cancelled, epollVars>>

\* delEvent(fd, event),
TimeoutDelete(o) ==
  /\ timerJob[o] = "delete"
  /\ DelEvent
  /\ timerJob' = [timerJob EXCEPT ![o] = "resume"]
  /\ UNCHANGED <<data, cur, cpc, spc, armed, eventAdded, isTimeout, timer, timerRef,
                 eventJob, result, cancelled, epollVars>>

\* try_resume(ticket).
TimeoutResume(o) ==
  /\ timerJob[o] = "resume"
  /\ timerJob' = [timerJob EXCEPT ![o] = "done"]
  /\ TryResume(o)
  /\ UNCHANGED <<data, reg, count, cur, spc, eventAdded, isTimeout, timer, timerRef,
                 eventJob, result, cancelled, epollVars>>

-----------------------------------------------------------------------------

CoroutineStep(c) ==
  \/ AwaitReady(c)
  \/ ResumeCancelTimer(c) \/ ResumeExchange(c) \/ ResumeDelete(c) \/ ResumeRetry(c)
  \/ DestroyAwaiter(c)

TimerStep(o) ==
  \/ CollectTimer(o) \/ ScheduleTimer(o)
  \/ TimeoutMark(o) \/ TimeoutExchange(o) \/ TimeoutDelete(o) \/ TimeoutResume(o)

OperationStep(o) == AddEvent(o) \/ AddTimer(o) \/ AddTimerLate(o) \/ RunEventJob(o) \/ TimerStep(o)

\* All coroutines have finished and nothing they started is left, or the
\* behaviour is undefined.
Finished ==
  /\ \/ undefined
     \/ /\ \A c \in Coroutines : cpc[c] = "done"
        /\ \A o \in Ops : eventJob[o] # "queued" /\ timer[o] \notin {"set", "collected"}
                          /\ timerJob[o] \in {"none", "done"} /\ spc[o] \in {"none", "left"}
        /\ reported = NoOp
  /\ UNCHANGED vars

Next ==
  \/ /\ ~undefined
     /\ \/ Arrive \/ ReportEvent \/ EpollEvent \/ CancelEvent
        \/ \E c \in Coroutines : CoroutineStep(c)
        \/ \E o \in Ops : OperationStep(o)
  \/ Finished

\* Threads make progress, timers expire, and the epoll thread reports a ready
\* descriptor, as long as there is a behaviour to speak of. Nothing is assumed of the peer.
Fairness ==
  /\ WF_vars(~undefined /\ ReportEvent) /\ WF_vars(~undefined /\ EpollEvent)
  /\ \A c \in Coroutines : WF_vars(~undefined /\ CoroutineStep(c))
  /\ \A o \in Ops : /\ WF_vars(~undefined /\ AddEvent(o))
                    /\ WF_vars(~undefined /\ (AddTimer(o) \/ AddTimerLate(o)))
                    /\ WF_vars(~undefined /\ RunEventJob(o)) /\ WF_vars(~undefined /\ TimerStep(o))

Spec == Init /\ [][Next]_vars /\ Fairness

-----------------------------------------------------------------------------
(* Properties. *)

TypeOK ==
  /\ data \in BOOLEAN
  /\ reg \in Ops \cup {NoOp} /\ count \in 0 .. 1
  /\ cur \in [Coroutines -> 1 .. K] /\ cpc \in [Coroutines -> CoPcs]
  /\ spc \in [Ops -> {"none", "add", "timer", "left"}]
  /\ armed \in [Ops -> BOOLEAN]
  /\ eventAdded \in [Ops -> BOOLEAN] /\ isTimeout \in [Ops -> BOOLEAN]
  /\ timer \in [Ops -> TimerStates] /\ timerRef \in [Ops -> BOOLEAN]
  /\ eventJob \in [Ops -> {"none", "queued", "done"}]
  /\ timerJob \in [Ops -> TimerJobs]
  /\ result \in [Ops -> {"none", "ok", "again", "timeout"}]
  /\ reported \in Ops \cup {NoOp}
  /\ cancelled \subseteq Ops /\ early \subseteq Ops /\ undefined \in BOOLEAN

\* README_CoHandle.md, section 5: whoever wins m_armed.exchange(false) finds
\* the coroutine still suspended in this very co_await. So the event, the
\* timeout and the cancellation of one operation resume it once between them,
\* and a late one never resumes a coroutine that has moved on.
ArmedMeansSuspended ==
  \A o \in Ops : armed[o] => cur[Co(o)] = o[2] /\ cpc[Co(o)] = "suspended"

\* A suspended operation can always be woken: it is registered, or a callback
\* that will resume it is on its way, or its timer runs. m_pendingEventCounts,
\* which stop() and wait_all() wait on, is exact. And a coroutine that has the
\* descriptor to itself sees a bare EAGAIN, which its callers must retry, in two
\* cases only: the operation was cancelled, or an entry of events[] made for its
\* predecessor triggered it.
CanBeWoken(o) ==
  \/ reg = o \/ eventJob[o] = "queued"
  \/ timer[o] \in {"set", "collected"}
  \/ timerJob[o] \in {"queued", "marked", "delete", "resume"}

NoLostWakeup ==
  /\ \A o \in Ops : armed[o] /\ spc[o] = "left" => CanBeWoken(o)
  /\ count = IF reg = NoOp THEN 0 ELSE 1
  /\ \A o \in Ops : result[o] = "again" => o \in cancelled \cup early

\* An operation with a timeout always returns, whatever the peer does, as long
\* as the behaviour is defined.
TimedOperationReturns == \A o \in Timed : armed[o] ~> result[o] # "none" \/ undefined

\* test_asyncio.cpp: a read that is suspended is resumed when data arrives.
ResumedWhenReady == \A o \in Ops : armed[o] /\ data ~> ~armed[o] \/ undefined
=============================================================================
