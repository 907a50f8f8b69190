------------------------------- MODULE LogCopy -------------------------------
(***************************************************************************)
(* What replication promises, abstractly.  Writes are issued to the lists  *)
(* of a master, one sequence per shard, and a copy of every list follows:  *)
(* it is at all times the list as it was at some earlier point.  Once the  *)
(* copy is spoilt the promise is off for good.                             *)
(***************************************************************************)
EXTENDS Sequences, SequencesExt

CONSTANT Lists         \* names of the lists
VARIABLES log, copy,   \* per list the writes issued, and those the copy has
          spoilt       \* the copy went wrong

Follows(c, l) == \A s \in Lists : IsPrefix(c[s], l[s])

Init ==
  /\ log = [s \in Lists |-> <<>>]
  /\ copy = log
  /\ spoilt = FALSE

Issue ==
  /\ \E s \in Lists : \E w \in Range(log'[s]) : log' = [log EXCEPT ![s] = Append(@, w)]
  /\ UNCHANGED <<copy, spoilt>>

\* The copy catches up with some of the writes, of one list or of several.
Catch ==
  /\ ~spoilt /\ Follows(copy, copy') /\ Follows(copy', log)
  /\ UNCHANGED <<log, spoilt>>

\* Something goes wrong; from then on the copy is what it is.
Spoil == spoilt' = TRUE /\ \A s \in Lists : IsPrefix(log[s], log'[s])

Next == Issue \/ Catch \/ Spoil

Spec == Init /\ [][Next]_<<log, copy, spoilt>>
=============================================================================
