------------------------------ MODULE SkipList ------------------------------
(***************************************************************************)
(* The skip list behind a sorted set (src/src/util/skiplist.h).            *)
(*                                                                         *)
(* A node is its key, a number; 0 is the head and Nil ends a chain.  A     *)
(* list has, per level, the forward pointer and the span of every node:    *)
(* the distance to the next node of the level or, at the end of a chain,   *)
(* the number of nodes behind.  Pointers and spans of nodes that are not   *)
(* in the list, and of levels above m_level, are whatever they were last.  *)
(* The value of a node is the member in its key, and is left out; the      *)
(* random level is an argument of insert.                                  *)
(***************************************************************************)
EXTENDS Integers, Sequences, SequencesExt

CONSTANTS MaxKey,    \* keys are 1..MaxKey
          MAX_LEVEL  \* levels are 1..MAX_LEVEL

Head0 == 0
Nil == -1
Nodes == 0..MaxKey
Levels == 1..MAX_LEVEL

EmptyList == [level |-> 1, size |-> 0,
              forward |-> [i \in Levels |-> [n \in Nodes |-> Nil]],
              span |-> [i \in Levels |-> [n \in Nodes |-> 0]]]

\* The walk along level i from curr to the last node before key, with the rank.
RECURSIVE Walk(_, _, _, _, _)
Walk(l, key, i, curr, rank) ==
  LET next == l.forward[i][curr]
  IN IF next # Nil /\ next < key THEN Walk(l, key, i, next, rank + l.span[i][curr])
     ELSE [curr |-> curr, rank |-> rank]

\* update[] and rank[] of the levels in use: the search descends from the top.
Search(l, key) ==
  LET Down(found, i) ==
        LET above == IF found = <<>> THEN [curr |-> Head0, rank |-> 0] ELSE Head(found)
        IN <<Walk(l, key, i, above.curr, above.rank)>> \o found
  IN FoldLeft(Down, <<>>, [j \in 1..l.level |-> l.level + 1 - j])

\* Mutant of insert: the levels above the new node keep their spans.
insertKeepsSpans(l, key, newlevel) ==
  LET at == Search(l, key)
      pre(i) == IF i <= l.level THEN at[i].curr ELSE Head0
      rank(i) == IF i <= l.level THEN at[i].rank ELSE 0
      old(i) == IF i <= l.level THEN l.span[i][pre(i)] ELSE l.size
      up(i) == at[1].rank - rank(i)
  IN IF l.forward[1][at[1].curr] = key THEN l
     ELSE [level |-> IF newlevel > l.level THEN newlevel ELSE l.level,
           size |-> l.size + 1,
           forward |-> [i \in Levels |-> IF i <= newlevel
             THEN [l.forward[i] EXCEPT ![key] = l.forward[i][pre(i)], ![pre(i)] = key]
             ELSE l.forward[i]],
           span |-> [i \in Levels |-> IF i <= newlevel
             THEN [l.span[i] EXCEPT ![key] = old(i) - up(i), ![pre(i)] = up(i) + 1]
             ELSE l.span[i]]]

insert(l, key, newlevel) ==
  LET at == Search(l, key)
      pre(i) == IF i <= l.level THEN at[i].curr ELSE Head0
      rank(i) == IF i <= l.level THEN at[i].rank ELSE 0
      old(i) == IF i <= l.level THEN l.span[i][pre(i)] ELSE l.size
      up(i) == at[1].rank - rank(i)
  IN IF l.forward[1][at[1].curr] = key THEN l
     ELSE [level |-> IF newlevel > l.level THEN newlevel ELSE l.level,
           size |-> l.size + 1,
           forward |-> [i \in Levels |-> IF i <= newlevel
             THEN [l.forward[i] EXCEPT ![key] = l.forward[i][pre(i)], ![pre(i)] = key]
             ELSE l.forward[i]],
           span |-> [i \in Levels |-> IF i <= newlevel
             THEN [l.span[i] EXCEPT ![key] = old(i) - up(i), ![pre(i)] = up(i) + 1]
             ELSE IF i <= l.level THEN [l.span[i] EXCEPT ![pre(i)] = @ + 1]
             ELSE l.span[i]]]

\* m_level after a removal: the highest level with a node in it.
Shrunk(l) == LET used == {i \in 1..l.level : l.forward[i][Head0] # Nil}
             IN [l EXCEPT !.level = IF used = {} THEN 1 ELSE Max(used)]

remove(l, key) ==
  LET at == Search(l, key)
      linked(i) == l.forward[i][at[i].curr] = key
      out == [l EXCEPT !.size = @ - 1,
        !.forward = [i \in Levels |-> IF i <= l.level /\ linked(i)
          THEN [@[i] EXCEPT ![at[i].curr] = l.forward[i][key], ![key] = Nil]
          ELSE [@[i] EXCEPT ![key] = Nil]],
        !.span = [i \in Levels |-> [IF i > l.level THEN @[i]
          ELSE [@[i] EXCEPT ![at[i].curr] = IF linked(i) THEN @ + l.span[i][key] - 1 ELSE @ - 1]
          EXCEPT ![key] = 0]]]
  IN IF l.forward[1][at[1].curr] # key THEN l ELSE Shrunk(out)

find(l, key) == l.forward[1][Search(l, key)[1].curr] = key
getRank(l, key) == IF find(l, key) THEN Search(l, key)[1].rank ELSE -1

\* The chain of a level, and the node getByIndex counts to along the lowest one.
RECURSIVE Chain(_, _, _)
Chain(l, i, n) == IF l.forward[i][n] = Nil THEN <<>>
                  ELSE <<l.forward[i][n]>> \o Chain(l, i, l.forward[i][n])
getByIndex(l, index) == IF index < 0 \/ index >= l.size THEN Nil
                        ELSE Chain(l, 1, Head0)[index + 1]
=============================================================================
