------------------------------ MODULE WaitGroup ------------------------------
(***************************************************************************)
(* The coroutine barrier of src/src/core/wait_group.h.                     *)
(*                                                                         *)
(* The leader runs Rounds rounds: Add(n), start n doers, co_await Wait().  *)
(* Each doer calls Done() once; the doers of a round are new coroutines,   *)
(* so one may still be inside Done() when the next round starts. The other *)
(* waiters co_await Wait() once, at any time.                              *)
(***************************************************************************)
EXTENDS Integers, FiniteSets

CONSTANTS
  Doers,    \* coroutines that call Done()
  Waiters,  \* coroutines that call Wait()
  Leader,   \* the waiter that calls Add()
  Rounds,   \* bound: rounds of the leader
  Nobody

ASSUME GroupAssumption ==
  /\ IsFiniteSet(Doers) /\ Doers # {}
  /\ Leader \in Waiters /\ Nobody \notin Waiters
  /\ Rounds \in Nat \ {0}

\* The doers, one per member of Doers and round.
Runs == Doers \X (1 .. Rounds)

VARIABLES
  count,    \* m_count
  mutex,    \* who holds m_mutex
  waiters,  \* m_waiters
  armed,    \* the waiters whose ticket is armed
  wpc,      \* where each waiter is
  round,    \* rounds the leader has started
  jobs,     \* the try_resume callbacks in the scheduler
  dpc,      \* where each doer is in Done()
  local     \* its local vector of tickets

groupVars == <<count, mutex, waiters, armed, wpc, round, jobs, dpc, local>>

GroupInit ==
  /\ count = 0 /\ mutex = Nobody /\ waiters = {} /\ armed = {}
  /\ wpc = [w \in Waiters |-> "begin"]
  /\ round = 0 /\ jobs = {}
  /\ dpc = [d \in Runs |-> "idle"]
  /\ local = [d \in Runs |-> {}]

\* Add(n) and the start of the doers of the next round.
Add ==
  /\ wpc[Leader] = "begin"
  /\ round < Rounds
  /\ round' = round + 1
  /\ count' = count + Cardinality(Doers)
  /\ dpc' = [d \in Runs |-> IF d[2] = round + 1 THEN "work" ELSE dpc[d]]
  /\ wpc' = [wpc EXCEPT ![Leader] = "ready"]
  /\ UNCHANGED <<mutex, waiters, armed, jobs, local>>

\* A waiter other than the leader gets to its co_await.
Arrive(w) ==
  /\ w # Leader
  /\ wpc[w] = "begin"
  /\ round > 0
  /\ wpc' = [wpc EXCEPT ![w] = "ready"]
  /\ UNCHANGED <<count, mutex, waiters, armed, round, jobs, dpc, local>>

-----------------------------------------------------------------------------
(* Wait(). *)

\* await_ready(); if it fails await_suspend() creates the armed ticket.
AwaitReady(w) ==
  /\ wpc[w] = "ready"
  /\ IF count = 0
     THEN /\ wpc' = [wpc EXCEPT ![w] = "past"]
          /\ UNCHANGED armed
     ELSE /\ wpc' = [wpc EXCEPT ![w] = "lock"]
          /\ armed' = armed \cup {w}
  /\ UNCHANGED <<count, mutex, waiters, round, jobs, dpc, local>>

\* Mutant of AwaitSuspend: m_count is not read again under the mutex.
AwaitSuspendNoRecheck(w) ==
  /\ wpc[w] = "lock"
  /\ mutex = Nobody
  /\ waiters' = waiters \cup {w}
  /\ wpc' = [wpc EXCEPT ![w] = "waiting"]
  /\ UNCHANGED <<count, mutex, armed, round, jobs, dpc, local>>

\* await_suspend() under the mutex: a count that is zero by now resumes the
\* coroutine on the spot, inside the critical section; otherwise the ticket is
\* stored, the mutex released and the coroutine is suspended.
AwaitSuspend(w) ==
  /\ wpc[w] = "lock"
  /\ mutex = Nobody
  /\ IF count = 0
     THEN /\ mutex' = w
          /\ armed' = armed \ {w}
          /\ wpc' = [wpc EXCEPT ![w] = "past"]
          /\ UNCHANGED waiters
     ELSE /\ waiters' = waiters \cup {w}
          /\ wpc' = [wpc EXCEPT ![w] = "waiting"]
          /\ UNCHANGED <<mutex, armed>>
  /\ UNCHANGED <<count, round, jobs, dpc, local>>

\* The scheduled try_resume(ticket); await_resume() disarms once more.
Resume(w) ==
  /\ w \in jobs
  /\ jobs' = jobs \ {w}
  /\ armed' = armed \ {w}
  /\ wpc' = [wpc EXCEPT ![w] = IF w \in armed THEN "past" ELSE @]
  /\ UNCHANGED <<count, mutex, waiters, round, dpc, local>>

\* What follows the co_await: the leader starts another round without
\* suspending in between, or the coroutine ends; control then returns to
\* await_suspend(), which releases the mutex if it resumed the coroutine.
GoOn(w) ==
  /\ wpc[w] = "past"
  /\ IF w = Leader /\ round < Rounds
     THEN /\ wpc' = [wpc EXCEPT ![w] = "begin"]
          /\ UNCHANGED mutex
     ELSE /\ wpc' = [wpc EXCEPT ![w] = "done"]
          /\ mutex' = IF mutex = w THEN Nobody ELSE mutex
  /\ UNCHANGED <<count, waiters, armed, round, jobs, dpc, local>>

-----------------------------------------------------------------------------
(* Done(). *)

\* Mutant of Subtract: fetch_sub is taken to return the new value.
SubtractWakesEarly(d) ==
  /\ dpc[d] = "work"
  /\ count' = count - 1
  /\ dpc' = [dpc EXCEPT ![d] = IF count - 1 = 1 THEN "swap" ELSE "end"]
  /\ UNCHANGED <<mutex, waiters, armed, wpc, round, jobs, local>>

\* m_count.fetch_sub(1) == 1
Subtract(d) ==
  /\ dpc[d] = "work"
  /\ count' = count - 1
  /\ dpc' = [dpc EXCEPT ![d] = IF count = 1 THEN "swap" ELSE "end"]
  /\ UNCHANGED <<mutex, waiters, armed, wpc, round, jobs, local>>

\* waiters.swap(m_waiters) under the mutex.
Swap(d) ==
  /\ dpc[d] = "swap"
  /\ mutex = Nobody
  /\ local' = [local EXCEPT ![d] = waiters]
  /\ waiters' = {}
  /\ dpc' = [dpc EXCEPT ![d] = "schedule"]
  /\ UNCHANGED <<count, mutex, armed, wpc, round, jobs>>

\* One try_resume callback per ticket.
ScheduleWaiters(d) ==
  /\ dpc[d] = "schedule"
  /\ jobs' = jobs \cup local[d]
  /\ local' = [local EXCEPT ![d] = {}]
  /\ dpc' = [dpc EXCEPT ![d] = "end"]
  /\ UNCHANGED <<count, mutex, waiters, armed, wpc, round>>

-----------------------------------------------------------------------------

WaiterStep(w) == AwaitReady(w) \/ AwaitSuspend(w) \/ Resume(w) \/ GoOn(w)
DoerStep(d)   == Subtract(d) \/ Swap(d) \/ ScheduleWaiters(d)

GroupNext ==
  \/ Add
  \/ \E w \in Waiters : Arrive(w) \/ WaiterStep(w)
  \/ \E d \in Runs : DoerStep(d)

-----------------------------------------------------------------------------
(* Properties. *)

\* The barrier holds: the leader does not get past Wait() before every doer of
\* the round has called Done().
LeaderWaitsForDoers == wpc[Leader] \in {"past", "done"} => \A d \in Runs : dpc[d] # "work"

\* wait_group.h: Done() wakes all waiters when the count drops to zero; every
\* co_await of Wait() is passed.
EveryWaiterReleased == \A w \in Waiters : wpc[w] = "ready" ~> wpc[w] \in {"past", "done"}
=============================================================================
