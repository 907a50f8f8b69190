------------------------------- MODULE JobPool -------------------------------
(***************************************************************************)
(* What a scheduler promises, without threads, queues or frames: a job     *)
(* that is accepted becomes ready, runs, may wait and become ready again,  *)
(* and is done once.  Only after the pool is closed may jobs be dropped,   *)
(* and then only jobs that are not running.                                *)
(***************************************************************************)
CONSTANT Jobs
VARIABLES job,      \* the state of each job
          closed    \* the pool was told to stop

States == {"new", "ready", "running", "waiting", "done", "dropped"}

Init == job = [j \in Jobs |-> "new"] /\ closed = FALSE

Move(j, from, to) == job[j] = from /\ job' = [job EXCEPT ![j] = to] /\ UNCHANGED closed

Accept(j) == ~closed /\ Move(j, "new", "ready")
Begin(j)  == Move(j, "ready", "running")
Wait(j)   == Move(j, "running", "waiting")
Wake(j)   == ~closed /\ Move(j, "waiting", "ready")
Finish(j) == Move(j, "running", "done")
Drop(j)   == closed /\ \E from \in {"ready", "waiting"} : Move(j, from, "dropped")
Close     == closed' = TRUE /\ UNCHANGED job

Next == \/ Close
        \/ \E j \in Jobs : Accept(j) \/ Begin(j) \/ Wait(j) \/ Wake(j) \/ Finish(j) \/ Drop(j)

Spec == Init /\ [][Next]_<<job, closed>>
=============================================================================
