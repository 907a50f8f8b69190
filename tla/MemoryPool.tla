------------------------------ MODULE MemoryPool ------------------------------
(***************************************************************************)
(* MemoryPoolNoUnique (src/src/util/memory_pool.h), the ring of free nodes *)
(* that every skip list has, and the way the skip list uses it             *)
(* (src/src/util/skiplist.h): a node that the ring cannot give comes from  *)
(* new, and goes into the ring like the others when it is removed.         *)
(*                                                                         *)
(* A node is its address, a number; the first PoolCapacity are the ones    *)
(* that the ring is made with. A slot keeps the address that was taken out *)
(* of it last.                                                             *)
(***************************************************************************)
EXTENDS Naturals

CONSTANT PoolCapacity    \* Capacity, 4096 for a skip list

Nothing == 0

NewPool == [m_pool |-> [i \in 1..PoolCapacity |-> i],
            m_product |-> 0, m_consumer |-> 0, m_size |-> PoolCapacity]

Following(i) == (i + 1) % PoolCapacity

\* The pool and the node it gives.
acquire(p) ==
  IF p.m_size = 0 THEN [p |-> p, item |-> Nothing]
  ELSE [p |-> [p EXCEPT !.m_consumer = Following(@), !.m_size = @ - 1], item |-> p.m_pool[p.m_consumer + 1]]

\* Mutant of release: the place to put the next node stays.
releaseInPlace(p, item) ==
  IF item = Nothing \/ p.m_size >= PoolCapacity THEN p
  ELSE [p EXCEPT !.m_pool[p.m_product + 1] = item, !.m_size = @ + 1]

\* The pool after it was offered a node; a full one does not take it.
release(p, item) ==
  IF item = Nothing \/ p.m_size >= PoolCapacity THEN p
  ELSE [p EXCEPT !.m_pool[p.m_product + 1] = item, !.m_product = Following(@), !.m_size = @ + 1]

\* The nodes that wait in the ring, in the order in which they will be given.
Waiting(p) == [i \in 1..p.m_size |-> p.m_pool[((p.m_consumer + i - 1) % PoolCapacity) + 1]]

\* SkipList::allocateNode with the fallback of insert(): fresh is what new would return.
allocateNode(p, fresh) ==
  LET got == acquire(p) IN IF got.item = Nothing THEN [got EXCEPT !.item = fresh] ELSE got
=============================================================================
