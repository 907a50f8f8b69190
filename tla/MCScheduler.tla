----------------------------- MODULE MCScheduler -----------------------------
(* Small instances of Scheduler for TLC. *)
EXTENDS Scheduler

\* To keep the instance small, a behaviour has either plain callbacks or a thread
\* in wait_all(); coroutines, wake-ups and stop() are in all of them.
Apart == apc' = "idle" \/ accepted' \cap Callbacks = {}

MCSpec == Init /\ [][Next /\ Apart]_vars /\ Fairness
=============================================================================
