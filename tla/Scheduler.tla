------------------------------ MODULE Scheduler ------------------------------
(***************************************************************************)
(* The M:N work-stealing scheduler of src/src/core/scheduler.{h,cpp},      *)
(* together with the part of the coroutine type Task<T> (task.h) whose     *)
(* frames it owns.                                                         *)
(*                                                                         *)
(* Processes: the worker threads 1..N (Scheduler::run), external threads   *)
(* that call schedule(), one thread that calls wait_all() and one that     *)
(* calls stop(), and the wakers (epoll thread, timers, Done() callers)     *)
(* that put a suspended coroutine back into a queue.                       *)
(*                                                                         *)
(* A job is what a queue entry runs: the resume of a top-level coroutine   *)
(* (a member of Tasks) or a plain std::function (a member of Callbacks).   *)
(***************************************************************************)
EXTENDS Integers, Sequences

CONSTANTS
  N,            \* m_threadCount
  Tasks,        \* top-level coroutines handed to schedule(Task<T>)
  Callbacks,    \* functions handed to schedule(std::function<void()>)
  Clients,      \* threads outside the pool that call schedule()
  NoJob,        \* an empty FuncAndId
  MaxSuspends,  \* bound: how often one coroutine suspends in a co_await
  MayStop,      \* whether stop() is called in this instance
  MayWaitAll    \* whether wait_all() is called in this instance

Workers == 1 .. N
Global  == 0                     \* m_queue; w > 0 stands for m_threadQueues[w]
Queues  == {Global} \cup Workers
Jobs    == Tasks \cup Callbacks
Submitters == Clients \cup Workers

ASSUME ThreadsAssumption == N \in Nat \ {0}
ASSUME BoundAssumption   == MaxSuspends \in Nat /\ {MayStop, MayWaitAll} \subseteq BOOLEAN
ASSUME JobsAssumption    == Tasks \cap Callbacks = {} /\ NoJob \notin Jobs
ASSUME ClientsAssumption == Clients \cap Workers = {}

VARIABLES
  stopping,       \* m_stopping
  queue,          \* the deques, one per member of Queues
  pending,        \* m_pending and PerThreadQueue::pending
  running,        \* m_running
  runningTasks,   \* m_runningTasks
  finishedTasks,  \* m_finishedTasks
  frame,          \* the state of each coroutine frame
  finalizing,     \* the frames whose promise has finalizing == true
  parked,         \* coroutines suspended in a co_await that a waker will resume
  suspends,       \* number of co_awaits done, bounded by MaxSuspends
  wpc, wjob,      \* where each worker is in run(), and its local `task`
  doomed,         \* its local `to_destroy` list
  sub,            \* the task a thread has registered but not yet queued
  stopper,        \* the thread in stop()
  apc, scan, total, leaving, adoomed,  \* the thread in wait_all() and its locals
  due,            \* history: jobs accepted and not completed when wait_all began
  accepted,       \* history: jobs schedule() took responsibility for
  completed       \* history: callbacks that returned, coroutines that completed

queueVars  == <<queue, pending>>
taskVars   == <<runningTasks, finishedTasks, frame, finalizing>>
coVars     == <<parked, suspends>>
workerVars == <<wpc, wjob, doomed>>
waitVars   == <<apc, scan, total, leaving, adoomed, due>>
histVars   == <<accepted, completed>>
vars == <<stopping, queueVars, running, taskVars, coVars, workerVars, sub,
          stopper, waitVars, histVars>>

Frames == {"none", "suspended", "running", "final", "done", "destroyed"}
WorkerPcs == {"off", "local", "global", "steal", "popped", "exec", "final",
              "moved", "cleared", "ran", "drain", "clear", "check", "wait",
              "exited"}
WaiterPcs == {"idle", "scan", "running", "tasks", "drain", "clear", "returned"}

\* The constructor: empty queues, no worker thread yet.
Init ==
  /\ stopping = FALSE
  /\ queue = [q \in Queues |-> <<>>]
  /\ pending = [q \in Queues |-> 0]
  /\ running = 0
  /\ runningTasks = {} /\ finishedTasks = {}
  /\ frame = [t \in Tasks |-> "none"]
  /\ finalizing = {}
  /\ parked = {} /\ suspends = [t \in Tasks |-> 0]
  /\ wpc = [w \in Workers |-> "off"]
  /\ wjob = [w \in Workers |-> NoJob]
  /\ doomed = [w \in Workers |-> {}]
  /\ sub = [s \in Submitters |-> NoJob]
  /\ stopper = "idle"
  /\ apc = "idle" /\ scan = 0 /\ total = 0 /\ leaving = FALSE /\ adoomed = {}
  /\ due = {} /\ accepted = {} /\ completed = {}

\* start(): creates the worker threads.
Start ==
  /\ \A w \in Workers : wpc[w] = "off"
  /\ wpc' = [w \in Workers |-> "local"]
  /\ UNCHANGED <<stopping, queueVars, running, taskVars, coVars, wjob, doomed,
                 sub, stopper, waitVars, histVars>>

-----------------------------------------------------------------------------
(* Submission. *)

\* A thread may call schedule(): an outside thread, or a worker inside a job.
CanSubmit(s) ==
  /\ sub[s] = NoJob
  /\ s \in Workers => wpc[s] = "exec"

\* The queue schedule(cb, thr) picks: the one thr names; without thr, the
\* caller's own queue if it is a worker and the global queue if it is not.
Targets(s) == IF s \in Workers THEN Workers ELSE Queues

\* emplace_back under the queue's mutex, refused once m_stopping is seen there.
Push(q, j) ==
  IF stopping
  THEN UNCHANGED queueVars
  ELSE /\ queue' = [queue EXCEPT ![q] = Append(@, j)]
       /\ pending' = [pending EXCEPT ![q] = @ + 1]

\* schedule(Task<T>), up to the push on m_runningTasks. Once the scheduler is
\* stopping the Task parameter is destroyed on return.
RegisterTask(s, t) ==
  /\ CanSubmit(s)
  /\ frame[t] = "none"
  /\ IF stopping
     THEN /\ frame' = [frame EXCEPT ![t] = "destroyed"]
          /\ UNCHANGED <<runningTasks, sub, accepted>>
     ELSE /\ frame' = [frame EXCEPT ![t] = "suspended"]
          /\ runningTasks' = runningTasks \cup {t}
          /\ sub' = [sub EXCEPT ![s] = t]
          /\ accepted' = accepted \cup {t}
  /\ UNCHANGED <<stopping, queueVars, running, finishedTasks, finalizing, coVars,
                 workerVars, stopper, waitVars, completed>>

\* schedule(Task<T>), the rest: the lambda that resumes the handle is queued.
EnqueueTask(s, q) ==
  /\ sub[s] # NoJob
  /\ q \in Targets(s)
  /\ Push(q, sub[s])
  /\ sub' = [sub EXCEPT ![s] = NoJob]
  /\ UNCHANGED <<stopping, running, taskVars, coVars, workerVars, stopper,
                 waitVars, histVars>>

\* schedule(std::function<void()>); a stopping scheduler ignores the call.
SubmitCallback(s, c, q) ==
  /\ CanSubmit(s)
  /\ c \notin accepted
  /\ q \in Targets(s)
  /\ ~stopping
  /\ Push(q, c)
  /\ accepted' = accepted \cup {c}
  /\ UNCHANGED <<stopping, running, taskVars, coVars, workerVars, sub, stopper,
                 waitVars, completed>>

\* A waker resumes a suspended coroutine through schedule(h, thr); the wake-up
\* is dropped when the scheduler is stopping.
Wake(t, q) ==
  /\ t \in parked
  /\ parked' = parked \ {t}
  /\ Push(q, t)
  /\ UNCHANGED <<stopping, running, taskVars, suspends, workerVars, sub, stopper,
                 waitVars, histVars>>

-----------------------------------------------------------------------------
(* The worker loop, run(). *)

\* Worker w takes job j out of queue q, which is left as rest.
Take(w, q, j, rest) ==
  /\ queue' = [queue EXCEPT ![q] = rest]
  /\ pending' = [pending EXCEPT ![q] = @ - 1]
  /\ wjob' = [wjob EXCEPT ![w] = j]
  /\ wpc' = [wpc EXCEPT ![w] = "popped"]

\* Pops the front of q, or goes on to the next source of work.
PopFront(w, q, next) ==
  /\ IF queue[q] # <<>>
     THEN Take(w, q, Head(queue[q]), Tail(queue[q]))
     ELSE /\ wpc' = [wpc EXCEPT ![w] = next]
          /\ UNCHANGED <<queueVars, wjob>>
  /\ UNCHANGED <<stopping, running, taskVars, coVars, doomed, sub, stopper,
                 waitVars, histVars>>

PopLocal(w) == wpc[w] = "local" /\ PopFront(w, w, "global")

\* Mutant of PopGlobal: the worker never looks into m_queue.
PopGlobalSkips(w) ==
  /\ wpc[w] = "global"
  /\ wpc' = [wpc EXCEPT ![w] = "steal"]
  /\ UNCHANGED <<stopping, queueVars, running, taskVars, coVars, wjob, doomed, sub,
                 stopper, waitVars, histVars>>

PopGlobal(w) == wpc[w] = "global" /\ PopFront(w, Global, "steal")

\* Mutant of StealTask: the thief does not remove what it takes.
StealTaskCopies(w, v) ==
  /\ wpc[w] = "steal"
  /\ v # w
  /\ queue[v] # <<>>
  /\ Take(w, v, queue[v][Len(queue[v])], queue[v])
  /\ UNCHANGED <<stopping, running, taskVars, coVars, doomed, sub, stopper,
                 waitVars, histVars>>

\* stealTask(): takes the back of another worker's queue.
StealTask(w, v) ==
  /\ wpc[w] = "steal"
  /\ v # w
  /\ queue[v] # <<>>
  /\ Take(w, v, queue[v][Len(queue[v])], SubSeq(queue[v], 1, Len(queue[v]) - 1))
  /\ UNCHANGED <<stopping, running, taskVars, coVars, doomed, sub, stopper,
                 waitVars, histVars>>

\* stealTask() gives up after three attempts; random victims and try_lock let
\* it fail whatever the queues hold.
StealFails(w) ==
  /\ wpc[w] = "steal"
  /\ wpc' = [wpc EXCEPT ![w] = "drain"]
  /\ UNCHANGED <<stopping, queueVars, running, taskVars, coVars, wjob, doomed, sub,
                 stopper, waitVars, histVars>>

\* ++m_running and the call of task.cb, which resumes a handle that is not done.
BeginJob(w) ==
  /\ wpc[w] = "popped"
  /\ running' = running + 1
  /\ IF wjob[w] \in Tasks
     THEN /\ frame' = [frame EXCEPT ![wjob[w]] = IF @ = "suspended" THEN "running" ELSE @]
          /\ wpc' = [wpc EXCEPT ![w] = IF frame[wjob[w]] = "suspended" THEN "exec" ELSE "ran"]
     ELSE /\ wpc' = [wpc EXCEPT ![w] = "exec"]
          /\ UNCHANGED frame
  /\ UNCHANGED <<stopping, queueVars, runningTasks, finishedTasks, finalizing,
                 coVars, wjob, doomed, sub, stopper, waitVars, histVars>>

\* The function returns (or throws, which run() catches).
CallbackReturns(w) ==
  /\ wpc[w] = "exec" /\ sub[w] = NoJob
  /\ wjob[w] \in Callbacks
  /\ completed' = completed \cup {wjob[w]}
  /\ wpc' = [wpc EXCEPT ![w] = "ran"]
  /\ UNCHANGED <<stopping, queueVars, running, taskVars, coVars, wjob, doomed, sub,
                 stopper, waitVars, accepted>>

\* The coroutine suspends in a co_await and leaves its handle with a waker.
CoAwait(w) ==
  /\ wpc[w] = "exec" /\ sub[w] = NoJob
  /\ wjob[w] \in Tasks
  /\ suspends[wjob[w]] < MaxSuspends
  /\ suspends' = [suspends EXCEPT ![wjob[w]] = @ + 1]
  /\ parked' = parked \cup {wjob[w]}
  /\ frame' = [frame EXCEPT ![wjob[w]] = "suspended"]
  /\ wpc' = [wpc EXCEPT ![w] = "ran"]
  /\ UNCHANGED <<stopping, queueVars, running, runningTasks, finishedTasks,
                 finalizing, wjob, doomed, sub, stopper, waitVars, histVars>>

\* co_return: final_suspend() begins and sets finalizing.
CoReturn(w) ==
  /\ wpc[w] = "exec" /\ sub[w] = NoJob
  /\ wjob[w] \in Tasks
  /\ frame' = [frame EXCEPT ![wjob[w]] = "final"]
  /\ finalizing' = finalizing \cup {wjob[w]}
  /\ wpc' = [wpc EXCEPT ![w] = "final"]
  /\ UNCHANGED <<stopping, queueVars, running, runningTasks, finishedTasks, coVars,
                 wjob, doomed, sub, stopper, waitVars, histVars>>

\* The on_complete callback: from m_runningTasks to m_finishedTasks.
OnComplete(w) ==
  /\ wpc[w] = "final"
  /\ finishedTasks' = finishedTasks \cup {wjob[w]}
  /\ runningTasks' = runningTasks \ {wjob[w]}
  /\ completed' = completed \cup {wjob[w]}
  /\ wpc' = [wpc EXCEPT ![w] = "moved"]
  /\ UNCHANGED <<stopping, queueVars, running, frame, finalizing, coVars, wjob,
                 doomed, sub, stopper, waitVars, accepted>>

\* finalizing.store(false), the last write of final_suspend().
ClearFinalizing(w) ==
  /\ wpc[w] = "moved"
  /\ finalizing' = finalizing \ {wjob[w]}
  /\ wpc' = [wpc EXCEPT ![w] = "cleared"]
  /\ UNCHANGED <<stopping, queueVars, running, runningTasks, finishedTasks, frame,
                 coVars, wjob, doomed, sub, stopper, waitVars, histVars>>

\* `return SubCorroutine{fa}` and its await_suspend, which read the frame.
LeaveFinalSuspend(w) ==
  /\ wpc[w] = "cleared"
  /\ frame' = [frame EXCEPT ![wjob[w]] = IF @ = "final" THEN "done" ELSE @]
  /\ wpc' = [wpc EXCEPT ![w] = "ran"]
  /\ UNCHANGED <<stopping, queueVars, running, runningTasks, finishedTasks,
                 finalizing, coVars, wjob, doomed, sub, stopper, waitVars, histVars>>

\* --m_running; the loop starts again.
EndJob(w) ==
  /\ wpc[w] = "ran"
  /\ running' = running - 1
  /\ wjob' = [wjob EXCEPT ![w] = NoJob]
  /\ wpc' = [wpc EXCEPT ![w] = "local"]
  /\ UNCHANGED <<stopping, queueVars, taskVars, coVars, doomed, sub, stopper,
                 waitVars, histVars>>

\* Mutant of Drainable: finalizing is not looked at.
DrainableIgnoresFinalizing == finishedTasks

\* drainFinished(): what it takes from m_finishedTasks.
Drainable == finishedTasks \ finalizing

\* to_destroy.clear(): the frames in D are destroyed.
Destroy(D) == frame' = [t \in Tasks |-> IF t \in D THEN "destroyed" ELSE frame[t]]

DrainFinished(w) ==
  /\ wpc[w] = "drain"
  /\ doomed' = [doomed EXCEPT ![w] = Drainable]
  /\ finishedTasks' = finishedTasks \ Drainable
  /\ wpc' = [wpc EXCEPT ![w] = "clear"]
  /\ UNCHANGED <<stopping, queueVars, running, runningTasks, frame, finalizing,
                 coVars, wjob, sub, stopper, waitVars, histVars>>

DestroyFinished(w) ==
  /\ wpc[w] = "clear"
  /\ Destroy(doomed[w])
  /\ doomed' = [doomed EXCEPT ![w] = {}]
  /\ wpc' = [wpc EXCEPT ![w] = "check"]
  /\ UNCHANGED <<stopping, queueVars, running, runningTasks, finishedTasks,
                 finalizing, coVars, wjob, sub, stopper, waitVars, histVars>>

\* Mutant of CheckStop: m_stopping is not tested.
CheckStopForgotten(w, at, next) ==
  /\ wpc[w] = at
  /\ wpc' = [wpc EXCEPT ![w] = next]
  /\ UNCHANGED <<stopping, queueVars, running, taskVars, coVars, wjob, doomed, sub,
                 stopper, waitVars, histVars>>

\* The m_stopping test before the timed waits, and the one after them, which
\* returns without another look at the queues.
CheckStop(w, at, next) ==
  /\ wpc[w] = at
  /\ wpc' = [wpc EXCEPT ![w] = IF stopping THEN "exited" ELSE next]
  /\ UNCHANGED <<stopping, queueVars, running, taskVars, coVars, wjob, doomed, sub,
                 stopper, waitVars, histVars>>

CheckBeforeWait(w) == CheckStop(w, "check", "wait")

CheckAfterWait(w)  == CheckStop(w, "wait", "local")

-----------------------------------------------------------------------------
(* wait_all() and stop(). *)

WaitAll ==
  /\ MayWaitAll
  /\ apc = "idle"
  /\ apc' = "scan" /\ scan' = Global /\ total' = 0
  /\ due' = accepted \ completed
  /\ UNCHANGED <<stopping, queueVars, running, taskVars, coVars, workerVars, sub,
                 stopper, leaving, adoomed, histVars>>

\* total += pending, one counter at a time and without their mutexes.
ScanPending ==
  /\ apc = "scan"
  /\ total' = total + pending[scan]
  /\ IF scan < N
     THEN scan' = scan + 1 /\ UNCHANGED apc
     ELSE apc' = "running" /\ UNCHANGED scan
  /\ UNCHANGED <<stopping, queueVars, running, taskVars, coVars, workerVars, sub,
                 stopper, leaving, adoomed, due, histVars>>

TestRunning ==
  /\ apc = "running"
  /\ apc' = IF total = 0 /\ running = 0 THEN "tasks" ELSE "drain"
  /\ UNCHANGED <<stopping, queueVars, running, taskVars, coVars, workerVars, sub,
                 stopper, scan, total, leaving, adoomed, due, histVars>>

\* Mutant of TestTasks: wait_all() trusts the counters alone.
TestTasksSkipped ==
  /\ apc = "tasks"
  /\ leaving' = TRUE
  /\ apc' = "drain"
  /\ UNCHANGED <<stopping, queueVars, running, taskVars, coVars, workerVars, sub,
                 stopper, scan, total, adoomed, due, histVars>>

\* notHasRunningTask()
TestTasks ==
  /\ apc = "tasks"
  /\ leaving' = (runningTasks = {})
  /\ apc' = "drain"
  /\ UNCHANGED <<stopping, queueVars, running, taskVars, coVars, workerVars, sub,
                 stopper, scan, total, adoomed, due, histVars>>

\* clearFinishedTasks(), first half.
WaiterDrain ==
  /\ apc = "drain"
  /\ adoomed' = Drainable
  /\ finishedTasks' = finishedTasks \ Drainable
  /\ apc' = "clear"
  /\ UNCHANGED <<stopping, queueVars, running, runningTasks, frame, finalizing,
                 coVars, workerVars, sub, stopper, scan, total, leaving, due, histVars>>

\* clearFinishedTasks(), second half; then another round or the return.
WaiterDestroy ==
  /\ apc = "clear"
  /\ Destroy(adoomed)
  /\ adoomed' = {}
  /\ IF leaving
     THEN apc' = "returned" /\ UNCHANGED <<scan, total>>
     ELSE apc' = "scan" /\ scan' = Global /\ total' = 0
  /\ UNCHANGED <<stopping, queueVars, running, runningTasks, finishedTasks,
                 finalizing, coVars, workerVars, sub, stopper, leaving, due, histVars>>

\* stop(): m_stopping.exchange(true), then join.
StopBegin ==
  /\ MayStop
  /\ stopper = "idle"
  /\ \A w \in Workers : wpc[w] # "off"
  /\ stopping' = TRUE
  /\ stopper' = "joining"
  /\ UNCHANGED <<queueVars, running, taskVars, coVars, workerVars, sub, waitVars,
                 histVars>>

StopJoin ==
  /\ stopper = "joining"
  /\ \A w \in Workers : wpc[w] = "exited"
  /\ stopper' = "stopped"
  /\ UNCHANGED <<stopping, queueVars, running, taskVars, coVars, workerVars, sub,
                 waitVars, histVars>>

-----------------------------------------------------------------------------

\* A thread of its own in the middle of schedule(Task<T>).
FinishSubmit(s) == \E q \in Queues : EnqueueTask(s, q)

Submit ==
  \E s \in Submitters :
    \/ \E t \in Tasks : RegisterTask(s, t)
    \/ \E c \in Callbacks, q \in Queues : SubmitCallback(s, c, q)

WorkerStep(w) ==
  \/ PopLocal(w) \/ PopGlobal(w)
  \/ \E v \in Workers : StealTask(w, v)
  \/ StealFails(w)
  \/ BeginJob(w) \/ CallbackReturns(w) \/ CoAwait(w) \/ CoReturn(w)
  \/ OnComplete(w) \/ ClearFinalizing(w) \/ LeaveFinalSuspend(w) \/ EndJob(w)
  \/ DrainFinished(w) \/ DestroyFinished(w)
  \/ CheckBeforeWait(w) \/ CheckAfterWait(w)

WaiterStep == ScanPending \/ TestRunning \/ TestTasks \/ WaiterDrain \/ WaiterDestroy

Next ==
  \/ Start
  \/ Submit
  \/ \E s \in Submitters : FinishSubmit(s)
  \/ \E t \in Tasks, q \in Queues : Wake(t, q)
  \/ \E w \in Workers : WorkerStep(w)
  \/ WaitAll \/ WaiterStep
  \/ StopBegin \/ StopJoin

\* Threads that are runnable are run by the operating system, a thread inside
\* schedule() finishes the call, and what a suspended coroutine waits for comes.
Fairness ==
  /\ WF_vars(Start)
  /\ \A s \in Submitters : WF_vars(FinishSubmit(s))
  /\ \A t \in Tasks : WF_vars(\E q \in Queues : Wake(t, q))
  /\ \A w \in Workers : WF_vars(WorkerStep(w))
  /\ WF_vars(WaiterStep)
  /\ WF_vars(StopJoin)

Spec == Init /\ [][Next]_vars /\ Fairness

-----------------------------------------------------------------------------
(* Properties. *)

TypeOK ==
  /\ stopping \in BOOLEAN
  /\ queue \in [Queues -> Seq(Jobs)]
  /\ pending \in [Queues -> Int]
  /\ running \in Int
  /\ runningTasks \subseteq Tasks /\ finishedTasks \subseteq Tasks
  /\ frame \in [Tasks -> Frames]
  /\ finalizing \subseteq Tasks
  /\ parked \subseteq Tasks
  /\ suspends \in [Tasks -> 0 .. MaxSuspends]
  /\ wpc \in [Workers -> WorkerPcs]
  /\ wjob \in [Workers -> Jobs \cup {NoJob}]
  /\ doomed \in [Workers -> SUBSET Tasks]
  /\ sub \in [Submitters -> Tasks \cup {NoJob}]
  /\ stopper \in {"idle", "joining", "stopped"}
  /\ apc \in WaiterPcs
  /\ scan \in Queues /\ total \in Int /\ leaving \in BOOLEAN
  /\ adoomed \subseteq Tasks
  /\ due \subseteq Jobs /\ accepted \subseteq Jobs /\ completed \subseteq Jobs

\* The coroutine a worker is about to resume, runs, or finalizes (up to the
\* point where final_suspend() clears finalizing).
Resuming(w, t)   == wjob[w] = t /\ wpc[w] = "popped"
Executing(w, t)  == wjob[w] = t /\ wpc[w] = "exec"
Finalizing(w, t) == wjob[w] = t /\ wpc[w] \in {"final", "moved"}

\* No resume ever touches a dead or running frame: a handle that waits in a
\* queue, with a waker, with a submitting thread or in a worker's hand belongs
\* to a suspended coroutine, and a frame that runs, or that final_suspend()
\* protects with finalizing, has not been destroyed by any drainFinished().
NoDanglingResume ==
  \A t \in Tasks :
    /\ (\E q \in Queues : \E i \in 1 .. Len(queue[q]) : queue[q][i] = t) => frame[t] = "suspended"
    /\ t \in parked => frame[t] = "suspended"
    /\ (\E s \in Submitters : sub[s] = t) => frame[t] = "suspended"
    /\ \A w \in Workers :
         /\ Resuming(w, t) => frame[t] = "suspended"
         /\ Executing(w, t) => frame[t] = "running"
         /\ Finalizing(w, t) => frame[t] = "final"

\* A coroutine is resumed by one thread at a time: of all the places a resume
\* of t can be in (queues, wakers, submitting threads, workers), t is in at
\* most one, so work stealing never runs a coroutine twice.
OneResumer ==
  \A t \in Tasks :
    /\ \A p, q \in Queues :
         \A i \in 1 .. Len(queue[p]), j \in 1 .. Len(queue[q]) :
           queue[p][i] = t /\ queue[q][j] = t => p = q /\ i = j
    /\ \A v, w \in Workers : wjob[v] = t /\ wjob[w] = t /\ wpc[v] # "ran" /\ wpc[w] # "ran" => v = w
    /\ \A q \in Queues : \A i \in 1 .. Len(queue[q]) :
         queue[q][i] = t =>
           /\ t \notin parked
           /\ \A w \in Workers : wjob[w] = t => wpc[w] = "ran"
    /\ t \in parked => \A w \in Workers : wjob[w] = t => wpc[w] = "ran"

\* wait_all() does not return early for coroutines: every top-level coroutine
\* handed to schedule() before the call has run its on_complete when it returns,
\* although the counters are read one by one while workers, thieves and wakers
\* move the work around.
WaitAllWaitsForTasks == apc = "returned" => due \cap Tasks \subseteq completed

\* task.h: a frame may be destroyed only after final_suspend() has returned.
FrameOutlivesFinalSuspend ==
  \A w \in Workers : wpc[w] = "cleared" => frame[wjob[w]] # "destroyed"

\* A frame the scheduler accepted is destroyed only after its coroutine
\* completed, and until then m_runningTasks owns it, whatever happens to its
\* queue entry (dropped by a stopping scheduler included).
OwnedUntilComplete ==
  \A t \in accepted \cap Tasks :
    /\ t \notin completed <=> t \in runningTasks
    /\ frame[t] = "destroyed" => t \in completed

\* Every resume is safe: its frame is alive and suspended, it is the only one, and
\* m_runningTasks owns the frame until the coroutine has completed.
ResumesAreSafe == NoDanglingResume /\ OneResumer /\ OwnedUntilComplete

\* Every job schedule() accepted is eventually completed, unless the scheduler
\* is stopped: no lost queue entry, no starved queue.
EveryJobCompletes == \A j \in Jobs : j \in accepted ~> j \in completed \/ stopping

\* Frames of completed coroutines do not pile up: until stop(), an idle worker
\* or wait_all() reclaims them.
FramesReclaimed == \A t \in Tasks : t \in completed ~> frame[t] = "destroyed" \/ stopping

\* wait_all() returns once the submitted work has come to rest, unless stop()
\* drops some of it.
WaitAllReturns == apc = "scan" ~> apc = "returned" \/ stopping

\* Work comes to its end while nobody stops the scheduler: jobs complete, frames
\* are reclaimed and wait_all() returns.
WorkEnds == EveryJobCompletes /\ FramesReclaimed /\ WaitAllReturns

\* stop() returns: every worker notices m_stopping and leaves run().
StopReturns == stopping ~> stopper = "stopped"

-----------------------------------------------------------------------------
(* The scheduler implements the abstract pool of jobs of module JobPool. *)

\* Where a job is: in a deque, or in the hands of a thread that is inside
\* schedule() or has just popped it.
Handed(j) ==
  \/ \E q \in Queues : \E i \in 1 .. Len(queue[q]) : queue[q][i] = j
  \/ \E s \in Submitters : sub[s] = j
  \/ \E w \in Workers : wjob[w] = j /\ wpc[w] = "popped"

\* A worker runs it, up to the on_complete callback of a coroutine.
Runs(j) == \E w \in Workers : wjob[w] = j /\ wpc[w] \in {"exec", "final"}

\* The state of a job is read off the places it is in; only a job that is
\* nowhere is told done, dropped or new by what happened to it before.
Status(j) ==
  IF Runs(j) THEN "running"
  ELSE IF j \in parked THEN "waiting"
  ELSE IF Handed(j) THEN "ready"
  ELSE IF j \in completed THEN "done"
  ELSE IF j \in accepted THEN "dropped"
  ELSE "new"

Pool == INSTANCE JobPool WITH job <- [j \in Jobs |-> Status(j)], closed <- stopping

\* The queues, work stealing, wake-ups, the two halves of schedule(Task<T>) and of
\* final_suspend(), stop() and wait_all() together do to each job only what the
\* pool allows: none is queued or run again after it is done, none is lost
\* before stop(), none that runs is dropped by it.
ImplementsJobPool == Pool!Spec
=============================================================================
