------------------------------- MODULE MCTimers -------------------------------
(* Small instances of Timers for TLC. *)
EXTENDS Timers

CONSTANTS t1, t2

\* Two one-shot timers with different periods.
Periods == [t \in Timers |-> IF t = t1 THEN 2 ELSE 1]

\* A recurring timer that expires first and a later one-shot.
RecurringPeriods == [t \in Timers |-> IF t = t1 THEN 2 ELSE 3]
=============================================================================
