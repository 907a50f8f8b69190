---------------------------- MODULE CommandTable ----------------------------
(***************************************************************************)
(* The command table (redis_command/command_table.h): entries sorted by    *)
(* the hash of the command's name when the program is compiled, and looked *)
(* up by bisection.  An entry is its hash; positions count from 0.         *)
(***************************************************************************)
EXTENDS Integers, Sequences, SequencesExt

At(e, i) == e[i + 1]
Exchange(e, i, j) == [e EXCEPT ![i + 1] = e[j + 1], ![j + 1] = e[i + 1]]

\* The median of the first, the middle and the last entry.
choosePivot(e, left, right) ==
  LET mid == left + (right - left) \div 2
  IN IF At(e, left) > At(e, mid)
       THEN IF At(e, mid) > At(e, right) THEN mid
            ELSE IF At(e, left) > At(e, right) THEN right ELSE left
       ELSE IF At(e, left) > At(e, right) THEN left
            ELSE IF At(e, mid) > At(e, right) THEN right ELSE mid

\* Entries and the final position of the pivot.
partition(e, left, right) ==
  LET p == choosePivot(e, left, right)
      pivot == At(e, p)
      Sift(acc, j) == IF At(acc.e, j) < pivot
                        THEN [e |-> Exchange(acc.e, acc.i, j), i |-> acc.i + 1] ELSE acc
      out == FoldLeft(Sift, [e |-> Exchange(e, p, right), i |-> left],
                      [j \in 1..(right - left) |-> left + j - 1])
  IN [e |-> Exchange(out.e, out.i, right), i |-> out.i]

\* pivot - 1 is an int that becomes a size_t: below 0 it is a huge position, the
\* entries there do not exist and the program does not compile. No table is <<>>.
Broken == <<>>
RECURSIVE process(_, _, _)
process(e, left, right) ==
  IF e = Broken THEN Broken
  ELSE IF right < 0 THEN Broken
  ELSE IF left >= right THEN e
  ELSE LET p == partition(e, left, right)
       IN IF p.i - left < right - p.i
            THEN process(process(p.e, left, p.i - 1), p.i + 1, right)
            ELSE process(process(p.e, p.i + 1, right), left, p.i - 1)

quicksort(e) == IF Len(e) > 1 THEN process(e, 0, Len(e) - 1) ELSE e

\* Mutant of lowerbound: the first entry beyond the hash.
RECURSIVE BisectPast(_, _, _, _)
BisectPast(t, hash, l, r) ==
  IF l >= r THEN r
  ELSE LET mid == l + (r - l) \div 2
       IN IF At(t, mid) <= hash THEN BisectPast(t, hash, mid + 1, r) ELSE BisectPast(t, hash, l, mid)
upperbound(t, hash) == BisectPast(t, hash, 0, Len(t))

RECURSIVE Bisect(_, _, _, _)
Bisect(t, hash, l, r) ==
  IF l >= r THEN r
  ELSE LET mid == l + (r - l) \div 2
       IN IF At(t, mid) < hash THEN Bisect(t, hash, mid + 1, r) ELSE Bisect(t, hash, l, mid)
lowerbound(t, hash) == Bisect(t, hash, 0, Len(t))

\* The position of the command, or -1.
find_lowerbound(t, hash) ==
  LET l == lowerbound(t, hash)
  IN IF Len(t) = 0 \/ l = Len(t) THEN -1 ELSE IF At(t, l) # hash THEN -1 ELSE l
=============================================================================
