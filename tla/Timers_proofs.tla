---------------------------- MODULE Timers_proofs ----------------------------
(***************************************************************************)
(* Proofs about Timers, for any number of one-shot timers, any periods and *)
(* any numbers of resets and cancellations.                                *)
(***************************************************************************)
EXTENDS Timers, WellFoundedInduction, TLAPS

-----------------------------------------------------------------------------
(* The least element of a set of numbers, for what needs an induction. *)

Less == {ss \in Nat \X Nat : ss[1] < ss[2]}

LEMMA LessWF == IsWellFoundedOn(Less, Nat)
BY NatLessThanWellFounded, Zenon DEF OpToRel, Less

LEMMA LessIs == \A x, y \in Nat : x < y => <<x, y>> \in Less
BY DEF Less

LEMMA Least == ASSUME NEW T, T \subseteq Nat, T # {} PROVE \E x \in T : \A y \in T : x <= y
<1>1. PICK x \in T : \A y \in T : ~(<<y, x>> \in Less)
  BY LessWF, WFMin
<1>2. \A y \in T : ~(y < x)
  BY <1>1, LessIs, Zenon
<1> QED
  BY <1>2

-----------------------------------------------------------------------------
(* The set as a sequence. *)

Distinct(s) == \A i, j \in 1 .. Len(s) : s[i] = s[j] => i = j

LEMMA ElemsIs == ASSUME NEW S, NEW s \in Seq(S) PROVE Elems(s) \subseteq S /\ \A i \in 1 .. Len(s) : s[i] \in Elems(s)
BY DEF Elems

LEMMA PieceIs ==
  ASSUME NEW S, NEW s \in Seq(S), NEW m \in 1 .. Len(s) + 1, NEW n \in m - 1 .. Len(s)
  PROVE  LET q == SubSeq(s, m, n)
         IN q \in Seq(S) /\ Len(q) = n - m + 1 /\ \A i \in 1 .. n - m + 1 : q[i] = s[m + i - 1]
OBVIOUS

LEMMA JoinIs ==
  ASSUME NEW S, NEW a \in Seq(S), NEW b \in Seq(S)
  PROVE  /\ a \o b \in Seq(S) /\ Len(a \o b) = Len(a) + Len(b)
         /\ \A i \in 1 .. Len(a) + Len(b) : (a \o b)[i] = IF i <= Len(a) THEN a[i] ELSE b[i - Len(a)]
OBVIOUS

LEMMA InsertIs ==
  ASSUME NEW S, NEW s \in Seq(S), NEW t \in S, NEW p \in 0 .. Len(s)
  PROVE  LET q == InsertAt(s, p + 1, t)
         IN /\ q \in Seq(S) /\ Len(q) = Len(s) + 1
            /\ \A i \in 1 .. Len(q) : q[i] = IF i <= p THEN s[i] ELSE IF i = p + 1 THEN t ELSE s[i - 1]
<1> DEFINE a == SubSeq(s, 1, (p + 1) - 1)
           b == SubSeq(s, p + 1, Len(s))
           c == a \o <<t>>
<1>1. a \in Seq(S) /\ Len(a) = p /\ \A i \in 1 .. p : a[i] = s[i]
  BY PieceIs
<1>2. b \in Seq(S) /\ Len(b) = Len(s) - p /\ \A i \in 1 .. Len(s) - p : b[i] = s[p + i]
  BY PieceIs
<1>3. InsertAt(s, p + 1, t) = c \o b
  BY Zenon DEF InsertAt
<1> HIDE DEF a, b
<1>4. c \in Seq(S) /\ Len(c) = p + 1 /\ \A i \in 1 .. p + 1 : c[i] = IF i <= p THEN s[i] ELSE t
  BY <1>1
<1> HIDE DEF c
<1>5. /\ c \o b \in Seq(S) /\ Len(c \o b) = Len(s) + 1
      /\ \A i \in 1 .. Len(s) + 1 : (c \o b)[i] = IF i <= p + 1 THEN c[i] ELSE b[i - (p + 1)]
  <2>1. Len(c) = p + 1 /\ Len(c) + Len(b) = Len(s) + 1 /\ c \in Seq(S) /\ b \in Seq(S)
    BY <1>2, <1>4
  <2>2. /\ c \o b \in Seq(S) /\ Len(c \o b) = Len(c) + Len(b)
        /\ \A i \in 1 .. Len(c) + Len(b) : (c \o b)[i] = IF i <= Len(c) THEN c[i] ELSE b[i - Len(c)]
    BY <2>1, JoinIs
  <2> QED
    BY <2>1, <2>2, Zenon
<1> DEFINE r == c \o b
<1>8. /\ r \in Seq(S) /\ Len(r) = Len(s) + 1 /\ InsertAt(s, p + 1, t) = r
      /\ \A i \in 1 .. Len(s) + 1 : r[i] = IF i <= p + 1 THEN c[i] ELSE b[i - (p + 1)]
  BY <1>3, <1>5
<1> HIDE DEF r
<1>6. ASSUME NEW i \in 1 .. Len(s) + 1 PROVE r[i] = IF i <= p THEN s[i] ELSE IF i = p + 1 THEN t ELSE s[i - 1]
  <2>1. CASE i <= p + 1
    BY <1>4, <1>8, <2>1
  <2>2. CASE i > p + 1
    <3>1. i - (p + 1) \in 1 .. Len(s) - p /\ p + (i - (p + 1)) = i - 1
      BY <2>2
    <3>2. r[i] = b[i - (p + 1)]
      BY <1>8, <2>2
    <3>3. b[i - (p + 1)] = s[p + (i - (p + 1))]
      BY <1>2, <3>1
    <3> QED
      BY <2>2, <3>1, <3>2, <3>3
  <2> QED
    BY <2>1, <2>2
<1> QED
  BY <1>6, <1>8

LEMMA RemoveIs ==
  ASSUME NEW S, NEW s \in Seq(S), NEW k \in 1 .. Len(s)
  PROVE  LET q == RemoveAt(s, k)
         IN /\ q \in Seq(S) /\ Len(q) = Len(s) - 1
            /\ \A i \in 1 .. Len(q) : q[i] = IF i < k THEN s[i] ELSE s[i + 1]
<1> DEFINE a == SubSeq(s, 1, k - 1)
           b == SubSeq(s, k + 1, Len(s))
           r == a \o b
<1>1. a \in Seq(S) /\ Len(a) = k - 1 /\ \A i \in 1 .. k - 1 : a[i] = s[i]
  BY PieceIs
<1>2. b \in Seq(S) /\ Len(b) = Len(s) - k /\ \A i \in 1 .. Len(s) - k : b[i] = s[k + i]
  BY PieceIs
<1>3. RemoveAt(s, k) = r
  BY Zenon DEF RemoveAt
<1> HIDE DEF a, b
<1>4. /\ r \in Seq(S) /\ Len(r) = Len(s) - 1
      /\ \A i \in 1 .. Len(s) - 1 : r[i] = IF i <= k - 1 THEN a[i] ELSE b[i - (k - 1)]
  BY <1>1, <1>2, JoinIs
<1> HIDE DEF r
<1>5. ASSUME NEW i \in 1 .. Len(s) - 1 PROVE r[i] = IF i < k THEN s[i] ELSE s[i + 1]
  <2>1. CASE i < k
    BY <1>1, <1>4, <2>1
  <2>2. CASE i >= k
    <3>1. i - (k - 1) \in 1 .. Len(s) - k /\ k + (i - (k - 1)) = i + 1
      BY <2>2
    <3>2. r[i] = b[i - (k - 1)]
      <4>1. ~(i <= k - 1)
        BY <2>2
      <4> QED
        BY <1>4, <4>1
    <3> QED
      BY <1>2, <2>2, <3>1, <3>2
  <2> QED
    BY <2>1, <2>2
<1> QED
  BY <1>3, <1>4, <1>5

\* What a timer leaves behind that is erased from the set.
LEMMA WithoutIs ==
  ASSUME NEW S, NEW s \in Seq(S), NEW t, Distinct(s)
  PROVE  LET q == Without(s, t)
         IN /\ q \in Seq(S) /\ Distinct(q) /\ Elems(q) = Elems(s) \ {t}
            /\ \A e : Sorted(s, e) => Sorted(q, e)
<1>1. CASE t \notin Elems(s)
  BY <1>1 DEF Without
<1>2. CASE t \in Elems(s)
  <2> DEFINE k == CHOOSE i \in 1 .. Len(s) : s[i] = t
             q == RemoveAt(s, k)
  <2>1. k \in 1 .. Len(s) /\ s[k] = t
    BY <1>2 DEF Elems
  <2>2. Without(s, t) = q
    BY <1>2 DEF Without
  <2> HIDE DEF k
  <2>3. /\ q \in Seq(S) /\ Len(q) = Len(s) - 1
        /\ \A i \in 1 .. Len(q) : q[i] = IF i < k THEN s[i] ELSE s[i + 1]
    BY <2>1, RemoveIs
  <2> HIDE DEF q
  <2> DEFINE to(i) == IF i < k THEN i ELSE i + 1
  <2>7. \A i \in 1 .. Len(q) : to(i) \in 1 .. Len(s) /\ q[i] = s[to(i)] /\ to(i) # k
    BY <2>1, <2>3
  <2>8. \A i, j \in 1 .. Len(q) : (i < j => to(i) < to(j)) /\ (to(i) = to(j) => i = j)
    BY <2>1, <2>3
  <2> HIDE DEF to
  <2>4. Distinct(q)
    BY <2>7, <2>8 DEF Distinct
  <2>5. Elems(q) = Elems(s) \ {t}
    <3>1. ASSUME NEW x \in Elems(q) PROVE x \in Elems(s) \ {t}
      BY <2>1, <2>7, <3>1 DEF Elems, Distinct
    <3>2. ASSUME NEW x \in Elems(s), x # t PROVE x \in Elems(q)
      <4>1. PICK i \in 1 .. Len(s) : s[i] = x
        BY DEF Elems
      <4>2. q[IF i < k THEN i ELSE i - 1] = x /\ (IF i < k THEN i ELSE i - 1) \in 1 .. Len(q)
        BY <2>1, <2>3, <3>2, <4>1
      <4> QED
        BY <4>2 DEF Elems
    <3> QED
      BY <3>1, <3>2
  <2>6. ASSUME NEW e, Sorted(s, e) PROVE Sorted(q, e)
    <3> SUFFICES ASSUME NEW i \in 1 .. Len(q), NEW j \in 1 .. Len(q), i < j PROVE e[q[i]] <= e[q[j]]
      BY DEF Sorted
    <3>1. to(i) \in 1 .. Len(s) /\ to(j) \in 1 .. Len(s) /\ to(i) < to(j)
      BY <2>7, <2>8
    <3>2. e[s[to(i)]] <= e[s[to(j)]]
      BY <2>6, <3>1 DEF Sorted
    <3> QED
      BY <2>7, <3>2
  <2> QED
    BY <2>2, <2>3, <2>4, <2>5, <2>6
<1> QED
  BY <1>1, <1>2

\* A timer is inserted where its expiry belongs.
LEMMA InsertedIs ==
  ASSUME NEW S, NEW s \in Seq(S), NEW t \in S, Distinct(s), t \notin Elems(s),
         NEW e, Sorted(s, e), \A x \in S : e[x] \in Nat, NEW p \in Places(s, t, e)
  PROVE  LET q == InsertAt(s, p + 1, t)
         IN /\ q \in Seq(S) /\ Distinct(q) /\ Elems(q) = Elems(s) \cup {t} /\ Sorted(q, e)
            /\ p # 0 => s # <<>> /\ e[s[1]] <= e[t]
<1> DEFINE q == InsertAt(s, p + 1, t)
<1>1. /\ p \in 0 .. Len(s)
      /\ \A i \in 1 .. p : e[s[i]] <= e[t]
      /\ \A i \in p + 1 .. Len(s) : e[t] <= e[s[i]]
  BY DEF Places
<1>2. /\ q \in Seq(S) /\ Len(q) = Len(s) + 1
      /\ \A i \in 1 .. Len(q) : q[i] = IF i <= p THEN s[i] ELSE IF i = p + 1 THEN t ELSE s[i - 1]
  BY <1>1, InsertIs
<1> HIDE DEF q
<1>3. \A i \in 1 .. Len(s) : s[i] \in S /\ s[i] # t
  BY DEF Elems
<1> DEFINE to(i) == IF i <= p THEN i ELSE i - 1
<1>a. q[p + 1] = t /\ p + 1 \in 1 .. Len(q)
  BY <1>1, <1>2
<1>b. \A i \in 1 .. Len(q) : i # p + 1 => to(i) \in 1 .. Len(s) /\ q[i] = s[to(i)]
  BY <1>1, <1>2
<1>c. \A i, j \in 1 .. Len(q) : i # p + 1 /\ j # p + 1 => (i < j => to(i) < to(j)) /\ (to(i) = to(j) => i = j)
  BY <1>1, <1>2
<1>d. /\ \A i \in 1 .. Len(q) : i < p + 1 => to(i) \in 1 .. p
      /\ \A i \in 1 .. Len(q) : i > p + 1 => to(i) \in p + 1 .. Len(s)
  BY <1>1, <1>2
<1> HIDE DEF to
<1>4. Distinct(q)
  <2> SUFFICES ASSUME NEW i \in 1 .. Len(q), NEW j \in 1 .. Len(q), q[i] = q[j] PROVE i = j
    BY DEF Distinct
  <2>1. CASE i = p + 1 \/ j = p + 1
    BY <1>3, <1>a, <1>b, <2>1
  <2>2. CASE i # p + 1 /\ j # p + 1
    BY <1>b, <1>c, <2>2 DEF Distinct
  <2> QED
    BY <2>1, <2>2
<1>5. Elems(q) = Elems(s) \cup {t}
  <2>1. ASSUME NEW x \in Elems(q) PROVE x \in Elems(s) \cup {t}
    <3>1. PICK i \in 1 .. Len(q) : q[i] = x
      BY DEF Elems
    <3> QED
      BY <1>a, <1>b, <3>1 DEF Elems
  <2>2. ASSUME NEW x \in Elems(s) PROVE x \in Elems(q)
    <3>1. PICK i \in 1 .. Len(s) : s[i] = x
      BY DEF Elems
    <3>2. q[IF i <= p THEN i ELSE i + 1] = x /\ (IF i <= p THEN i ELSE i + 1) \in 1 .. Len(q)
      BY <1>1, <1>2, <3>1
    <3> QED
      BY <3>2 DEF Elems
  <2>3. t \in Elems(q)
    BY <1>a DEF Elems
  <2> QED
    BY <2>1, <2>2, <2>3
<1>6. Sorted(q, e)
  <2> SUFFICES ASSUME NEW i \in 1 .. Len(q), NEW j \in 1 .. Len(q), i < j PROVE e[q[i]] <= e[q[j]]
    BY DEF Sorted
  <2>1. \A a, b \in 1 .. Len(s) : a < b => e[s[a]] <= e[s[b]]
    BY DEF Sorted
  <2>0. p \in Nat /\ i \in Nat /\ j \in Nat
    BY <1>1, <1>2
  <2>2. CASE i = p + 1
    <3>1. j > p + 1
      BY <2>0, <2>2
    <3>2. q[j] = s[to(j)] /\ to(j) \in p + 1 .. Len(s)
      BY <1>b, <1>d, <3>1, <2>0
    <3> QED
      BY <1>1, <1>a, <2>2, <3>2
  <2>3. CASE j = p + 1
    <3>1. i < p + 1
      BY <2>0, <2>3
    <3>2. q[i] = s[to(i)] /\ to(i) \in 1 .. p
      BY <1>b, <1>d, <3>1, <2>0
    <3> QED
      BY <1>1, <1>a, <2>3, <3>2
  <2>4. CASE i # p + 1 /\ j # p + 1
    BY <1>b, <1>c, <2>1, <2>4
  <2> QED
    BY <2>2, <2>3, <2>4
<1>7. p # 0 => s # <<>> /\ e[s[1]] <= e[t]
  BY <1>1
<1>8. InsertAt(s, p + 1, t) = q
  BY DEF q
<1> QED
  BY <1>2, <1>4, <1>5, <1>6, <1>7, <1>8

\* Without recurring timers none of the visited ones stays in the set.
LEMMA NoneStays ==
  ASSUME NEW hit \in Seq(Timers), Recurring = {}
  PROVE  Staying(hit) = <<>>
<1> DEFINE n == Len(hit)
           ss == [i \in 1 .. n |-> IF hit[i] \in Recurring THEN <<hit[i]>> ELSE <<>>]
           E(f) == f = [i \in 1 .. n |-> IF i = 1 THEN ss[i] ELSE f[i - 1] \o ss[i]]
           f0 == [i \in 1 .. n |-> <<>>]
<1>1. n \in Nat /\ ss = f0 /\ Len(ss) = n /\ (n = 0 => ss = <<>>)
  OBVIOUS
<1>2. \A i \in 1 .. n : ss[i] = <<>>
  OBVIOUS
<1> HIDE DEF ss
<1>3. E(f0)
  <2>1. <<>> \o <<>> = <<>>
    OBVIOUS
  <2> QED
    BY <1>1, <1>2, <2>1
<1>4. ASSUME NEW f, E(f) PROVE \A i \in 1 .. n : f[i] = <<>>
  <2> DEFINE T == {i \in 1 .. n : f[i] # <<>>}
  <2> SUFFICES ASSUME T # {} PROVE FALSE
    OBVIOUS
  <2>0. T \subseteq Nat
    BY <1>1
  <2>1. PICK x \in T : \A y \in T : x <= y
    BY <2>0, Least, Zenon
  <2>2. x \in 1 .. n /\ f[x] # <<>>
    OBVIOUS
  <2>3. x # 1
    BY <1>2, <1>4, <2>2
  <2>4. x - 1 \in 1 .. n /\ x - 1 \notin T
    BY <1>1, <2>1, <2>2, <2>3
  <2>5. f[x - 1] = <<>>
    BY <2>4
  <2>6. f[x] = <<>> \o <<>>
    BY <1>2, <1>4, <2>2, <2>3, <2>5
  <2> QED
    BY <2>2, <2>6
<1> DEFINE g == CHOOSE f : E(f)
<1>5. E(g)
  BY <1>3, Zenon
<1>7. FlattenSeq(ss) = IF n = 0 THEN ss ELSE g[n]
  BY <1>1 DEF FlattenSeq
<1>8. Staying(hit) = FlattenSeq(ss)
  BY DEF Staying, ss
<1> HIDE DEF g, E
<1>9. \A i \in 1 .. n : g[i] = <<>>
  BY <1>4, <1>5, Zenon
<1>6. n # 0 => g[n] = <<>>
  BY <1>1, <1>9
<1> QED
  BY <1>1, <1>6, <1>7, <1>8

\* There is a longest expired prefix.
LEMMA PrefixIs ==
  ASSUME set \in Seq(Timers), expire \in [Timers -> Nat], pnow \in Nat
  PROVE  /\ ExpiredPrefix \in 0 .. Len(set)
         /\ \A i \in 1 .. ExpiredPrefix : expire[set[i]] <= pnow
         /\ ExpiredPrefix < Len(set) => expire[set[ExpiredPrefix + 1]] > pnow
<1> DEFINE T == {n \in 0 .. Len(set) : n < Len(set) => expire[set[n + 1]] > pnow}
           P(n) == /\ \A i \in 1 .. n : expire[set[i]] <= pnow
                   /\ n < Len(set) => expire[set[n + 1]] > pnow
<1>1. Len(set) \in T /\ T \subseteq Nat
  OBVIOUS
<1>2. PICK n \in T : \A m \in T : n <= m
  BY <1>1, Least
<1>3. ASSUME NEW i \in 1 .. n PROVE expire[set[i]] <= pnow
  <2>1. i - 1 \in 0 .. Len(set) /\ i - 1 < Len(set) /\ ~(n <= i - 1) /\ (i - 1) + 1 = i
    OBVIOUS
  <2>2. i - 1 \notin T
    BY <1>2, <2>1
  <2>3. ~(expire[set[i]] > pnow)
    BY <2>1, <2>2
  <2>4. expire[set[i]] \in Nat
    BY <2>1
  <2> QED
    BY <2>3, <2>4
<1>4. \E m \in 0 .. Len(set) : P(m)
  BY <1>3
<1> QED
  BY <1>4 DEF ExpiredPrefix

-----------------------------------------------------------------------------
(* The inductive invariant. *)

\* The set is in order and, with the collected timers, holds each timer once.
InOrder ==
  /\ Sorted(set, expire)
  /\ Distinct(set) /\ Distinct(expired)
  /\ Elems(set) \cap Elems(expired) = {}

\* What is in the set or collected has not been scheduled; timers are collected
\* only between processExpired() and the end of its loop.
NotYetFired ==
  /\ Elems(set) \cup Elems(expired) \subseteq created
  /\ \A t \in Elems(set) \cup Elems(expired) : fired[t] = 0
  /\ \A t \in Timers \ created : fired[t] = 0
  /\ ipc # "fire" => expired = <<>>

IInv == TypeOK /\ InOrder /\ NotYetFired /\ NoOversleep

LEMMA InitIInv == Init => IInv
<1> SUFFICES ASSUME Init PROVE IInv
  OBVIOUS
<1> USE DEF Init
<1>1. TypeOK
  <2>1. expire \in [Timers -> Nat] /\ ms \in [Timers -> Nat] /\ fired \in [Timers -> Nat]
    BY TimersAssumption
  <2>2. set \in Seq(Timers) /\ expired \in Seq(Timers)
    OBVIOUS
  <2>3. now \in 0 .. MaxTime /\ pnow \in 0 .. MaxTime /\ resets \in 0 .. MaxResets /\ wakeAt \in Nat
    BY TimersAssumption
  <2>4. cb \subseteq created /\ created \subseteq Timers /\ owing \subseteq Timers
    OBVIOUS
  <2>5. tickle \in BOOLEAN /\ woken \in BOOLEAN /\ ipc \in {"plan", "sleep", "collect", "fire"}
    BY Zenon
  <2> QED
    BY <2>1, <2>2, <2>3, <2>4, <2>5, Zenon DEF TypeOK
<1>2. Elems(set) = {} /\ Elems(expired) = {}
  BY DEF Elems
<1>3. InOrder
  BY <1>2 DEF InOrder, Sorted, Distinct
<1>4. NotYetFired
  BY <1>2 DEF NotYetFired
<1>5. NoOversleep
  BY <1>2 DEF NoOversleep
<1> QED
  BY <1>1, <1>3, <1>4, <1>5 DEF IInv

LEMMA FirstIsLeast ==
  ASSUME IInv, NEW t \in Elems(set) PROVE set # <<>> /\ set[1] \in Elems(set) /\ expire[set[1]] <= expire[t]
<1>1. PICK i \in 1 .. Len(set) : set[i] = t
  BY DEF Elems
<1>2. set \in Seq(Timers) /\ expire \in [Timers -> Nat] /\ Sorted(set, expire)
  BY DEF IInv, TypeOK, InOrder
<1>3. set # <<>> /\ 1 \in 1 .. Len(set) /\ set[1] \in Elems(set) /\ set[1] \in Timers
  BY <1>1, <1>2 DEF Elems
<1>4. 1 < i => expire[set[1]] <= expire[set[i]]
  BY <1>1, <1>2, <1>3 DEF Sorted
<1>5. i = 1 \/ 1 < i
  BY <1>1
<1> QED
  BY <1>1, <1>2, <1>3, <1>4, <1>5

LEMMA InOrderKept == ASSUME InOrder, set' = set, expired' = expired, expire' = expire PROVE InOrder'
<1>1. Sorted(set, expire)'
  BY DEF InOrder, Sorted
<1>2. Distinct(set)' /\ Distinct(expired)'
  BY DEF InOrder, Distinct
<1>3. (Elems(set) \cap Elems(expired) = {})'
  BY DEF InOrder, Elems
<1> QED
  BY <1>1, <1>2, <1>3 DEF InOrder

LEMMA TickKeeps == ASSUME IInv, Tick PROVE IInv'
<1> USE TimersAssumption DEF IInv, Tick, idleVars
<1>1. TypeOK'
  BY DEF TypeOK
<1>2. InOrder'
  BY InOrderKept
<1>3. NotYetFired'
  BY DEF NotYetFired, Elems
<1>4. NoOversleep'
  <2> SUFFICES ASSUME ipc = "sleep", ~tickle, owing = {}, NEW t \in Elems(set)
               PROVE  wakeAt <= expire[t] \/ wakeAt <= now + 1
    BY DEF NoOversleep, Elems
  <2>1. wakeAt <= expire[t] \/ wakeAt <= now
    BY DEF NoOversleep
  <2>2. wakeAt \in Nat /\ now \in Nat
    BY DEF TypeOK
  <2> HIDE DEF IInv, Tick
  <2> QED
    BY <2>1, <2>2
<1> QED
  BY <1>1, <1>2, <1>3, <1>4

LEMMA AddTimerKeeps == ASSUME IInv, NEW t \in Timers, AddTimer(t) PROVE IInv'
<1> USE TimersAssumption
<1>1. PICK p \in Places(set, t, expire') :
        /\ set' = InsertAt(set, p + 1, t)
        /\ owing' = IF p = 0 THEN owing \cup {t} ELSE owing
  BY DEF AddTimer
<1>2. /\ set \in Seq(Timers) /\ expire \in [Timers -> Nat] /\ t \notin Elems(set)
      /\ Distinct(set) /\ Sorted(set, expire)
  BY DEF IInv, TypeOK, InOrder, NotYetFired, AddTimer
<1>3. expire' \in [Timers -> Nat] /\ \A x \in Timers : x # t => expire'[x] = expire[x]
  BY DEF IInv, TypeOK, AddTimer
<1>4. Sorted(set, expire')
  <2>1. \A i \in 1 .. Len(set) : set[i] \in Timers /\ set[i] # t
    BY <1>2, ElemsIs
  <2>2. \A i \in 1 .. Len(set) : expire'[set[i]] = expire[set[i]]
    BY <1>3, <2>1
  <2> QED
    BY <1>2, <2>2 DEF Sorted
<1>5. \A x \in Timers : expire'[x] \in Nat
  BY <1>3
<1>6. /\ set' \in Seq(Timers) /\ Distinct(set') /\ Elems(set') = Elems(set) \cup {t} /\ Sorted(set', expire')
      /\ p # 0 => set # <<>> /\ expire'[set[1]] <= expire'[t]
  BY <1>1, <1>2, <1>4, <1>5, InsertedIs
<1>7. TypeOK'
  BY <1>1, <1>3, <1>6 DEF IInv, TypeOK, AddTimer, idleVars
<1>8. Elems(expired') = Elems(expired) /\ Elems(set)' = Elems(set') /\ Elems(expired)' = Elems(expired)
  BY DEF AddTimer, idleVars, Elems
<1>9. InOrder'
  <2>1. t \notin Elems(expired)
    BY DEF IInv, NotYetFired, AddTimer
  <2> QED
    BY <1>6, <1>8, <2>1 DEF IInv, InOrder, AddTimer, idleVars, Distinct
<1>10. NotYetFired'
  BY <1>6, <1>8 DEF IInv, NotYetFired, AddTimer, idleVars
<1>11. NoOversleep'
  <2> SUFFICES ASSUME ipc = "sleep", ~tickle, owing' = {}, NEW x \in Elems(set') PROVE wakeAt <= expire'[x] \/ wakeAt <= now
    BY <1>8 DEF NoOversleep, AddTimer, idleVars
  <2>1. p # 0 /\ owing = {}
    BY <1>1
  <2>2. \A y \in Elems(set) : wakeAt <= expire[y] \/ wakeAt <= now
    BY <2>1 DEF IInv, NoOversleep
  <2>3. \A y \in Elems(set) : y \in Timers /\ y # t
    BY <1>2 DEF Elems
  <2>4. CASE x \in Elems(set)
    BY <1>3, <2>2, <2>3, <2>4
  <2>5. CASE x = t
    <3>1. set[1] \in Elems(set)
      <4>1. set # <<>>
        BY <1>6, <2>1
      <4>2. 1 \in 1 .. Len(set)
        BY <1>2, <4>1
      <4> QED
        BY <4>2 DEF Elems
    <3>2. expire'[set[1]] <= expire'[t] /\ expire'[set[1]] = expire[set[1]]
      BY <1>3, <1>6, <2>1, <2>3, <3>1
    <3>3. expire'[t] \in Nat /\ expire[set[1]] \in Nat /\ wakeAt \in Nat /\ now \in Nat
      BY <1>2, <1>3, <2>3, <3>1 DEF IInv, TypeOK
    <3> QED
      BY <2>2, <2>5, <3>1, <3>2, <3>3
  <2> QED
    BY <1>6, <2>4, <2>5
<1> QED
  BY <1>7, <1>9, <1>10, <1>11 DEF IInv

LEMMA TickleKeeps == ASSUME IInv, NEW t \in Timers, Tickle(t) PROVE IInv'
<1> USE TimersAssumption DEF IInv, Tickle, idleVars
<1>1. TypeOK'
  BY DEF TypeOK
<1>2. InOrder'
  BY InOrderKept
<1>3. NotYetFired'
  BY DEF NotYetFired, Elems
<1>4. NoOversleep'
  BY DEF NoOversleep
<1> QED
  BY <1>1, <1>2, <1>3, <1>4

\* A step that only takes timers out of the set.
LEMMA ShrinkKeeps ==
  ASSUME IInv, cb' \subseteq cb, set' \in Seq(Timers), Distinct(set'), Sorted(set', expire),
         Elems(set') \subseteq Elems(set),
         UNCHANGED <<now, expire, ms, created, owing, tickle, idleVars, resets>>
  PROVE  IInv'
<1> USE DEF IInv, idleVars
<1>1. TypeOK'
  BY DEF TypeOK
<1>2. Elems(set)' = Elems(set') /\ Elems(expired)' = Elems(expired)
  BY DEF Elems
<1>3. InOrder'
  BY <1>2 DEF InOrder, Distinct
<1>4. NotYetFired'
  BY <1>2 DEF NotYetFired
<1>5. NoOversleep'
  BY <1>2 DEF NoOversleep
<1> QED
  BY <1>1, <1>3, <1>4, <1>5

LEMMA CancelKeeps == ASSUME IInv, NEW t \in Timers, Cancel(t) PROVE IInv'
<1>1. set \in Seq(Timers) /\ Distinct(set) /\ Sorted(set, expire)
  BY DEF IInv, TypeOK, InOrder
<1>2. set' = Without(set, t)
  BY <1>1 DEF Cancel, Erasures
<1>3. set' \in Seq(Timers) /\ Distinct(set') /\ Elems(set') = Elems(set) \ {t} /\ Sorted(set', expire)
  BY <1>1, <1>2, WithoutIs
<1> QED
  BY <1>3, ShrinkKeeps DEF Cancel

LEMMA ClearKeeps == ASSUME IInv, Clear PROVE IInv'
<1>1. set' \in Seq(Timers) /\ Distinct(set') /\ Elems(set') = {} /\ Sorted(set', expire)
  BY DEF Clear, Distinct, Elems, Sorted
<1> QED
  BY <1>1, ShrinkKeeps DEF Clear

LEMMA ResetKeeps == ASSUME IInv, NEW t \in Timers, NEW m \in ResetMs, NEW f \in BOOLEAN, Reset(t, m, f) PROVE IInv'
<1> DEFINE start == IF f THEN now ELSE expire[t] - m
           later == start + m
           s == Without(set, t)
<1>1. /\ set \in Seq(Timers) /\ expire \in [Timers -> Nat] /\ ms \in [Timers -> Nat] /\ m \in Nat
      /\ now \in Nat /\ wakeAt \in Nat /\ MaxResets \in Nat
      /\ Distinct(set) /\ Sorted(set, expire)
  BY TimersAssumption DEF IInv, TypeOK, InOrder
<1>2. /\ t \in created /\ resets < MaxResets /\ resets' = resets + 1
      /\ ms' = [ms EXCEPT ![t] = m]
      /\ UNCHANGED <<now, cb, created, tickle, idleVars>>
  BY DEF Reset
<1>3. ms' \in [Timers -> Nat] /\ resets' \in 0 .. MaxResets
  BY <1>1, <1>2 DEF IInv, TypeOK
<1>4. CASE UNCHANGED <<set, expire, owing>>
  <2>1. TypeOK'
    BY <1>2, <1>3, <1>4 DEF IInv, TypeOK, idleVars
  <2>2. InOrder'
    BY <1>2, <1>4, InOrderKept DEF IInv, idleVars
  <2>3. NotYetFired'
    BY <1>2, <1>4 DEF IInv, NotYetFired, Elems, idleVars
  <2>4. NoOversleep'
    BY <1>2, <1>4 DEF IInv, NoOversleep, Elems, idleVars
  <2> QED
    BY <2>1, <2>2, <2>3, <2>4 DEF IInv
<1>5. ASSUME t \in Elems(set), expire' = [expire EXCEPT ![t] = later], later # expire[t],
             NEW p \in Places(s, t, expire'), set' = InsertAt(s, p + 1, t),
             owing' = IF p = 0 THEN owing \cup {t} ELSE owing
      PROVE  IInv'
  <2>0. f
    BY <1>1, <1>5
  <2>1. expire' \in [Timers -> Nat] /\ \A x \in Timers : x # t => expire'[x] = expire[x]
    BY <1>1, <1>5, <2>0
  <2>2. s \in Seq(Timers) /\ Distinct(s) /\ Elems(s) = Elems(set) \ {t} /\ Sorted(s, expire)
    BY <1>1, WithoutIs
  <2> HIDE DEF s, later, start
  <2>3. Sorted(s, expire')
    <3>1. \A i \in 1 .. Len(s) : s[i] \in Timers /\ s[i] # t
      BY <2>2, ElemsIs
    <3>2. \A i \in 1 .. Len(s) : expire'[s[i]] = expire[s[i]]
      BY <2>1, <3>1
    <3> QED
      BY <2>2, <3>2 DEF Sorted
  <2>4. \A x \in Timers : expire'[x] \in Nat
    BY <2>1
  <2>5. /\ set' \in Seq(Timers) /\ Distinct(set') /\ Elems(set') = Elems(s) \cup {t} /\ Sorted(set', expire')
        /\ p # 0 => s # <<>> /\ expire'[s[1]] <= expire'[t]
    <3>1. t \notin Elems(s)
      BY <2>2
    <3>2. /\ InsertAt(s, p + 1, t) \in Seq(Timers) /\ Distinct(InsertAt(s, p + 1, t))
          /\ Elems(InsertAt(s, p + 1, t)) = Elems(s) \cup {t} /\ Sorted(InsertAt(s, p + 1, t), expire')
          /\ p # 0 => s # <<>> /\ expire'[s[1]] <= expire'[t]
      BY <2>2, <2>3, <2>4, <3>1, InsertedIs
    <3> QED
      BY <1>5, <3>2, Zenon
  <2>6. Elems(set)' = Elems(set) /\ Elems(expired)' = Elems(expired) /\ Elems(set') = Elems(set)
    BY <1>2, <1>5, <2>2, <2>5 DEF Elems, idleVars
  <2>7. TypeOK'
    BY <1>2, <1>3, <1>5, <2>1, <2>5 DEF IInv, TypeOK, idleVars
  <2>8. InOrder'
    BY <1>2, <2>5, <2>6 DEF IInv, InOrder, idleVars, Distinct
  <2>9. NotYetFired'
    BY <1>2, <2>6 DEF IInv, NotYetFired, idleVars
  <2>10. NoOversleep'
    <3> SUFFICES ASSUME ipc = "sleep", ~tickle, owing' = {}, NEW x \in Elems(set) PROVE wakeAt <= expire'[x] \/ wakeAt <= now
      BY <1>2, <2>6 DEF NoOversleep, idleVars
    <3>1. p # 0 /\ owing = {}
      BY <1>5
    <3>2. \A y \in Elems(set) : wakeAt <= expire[y] \/ wakeAt <= now
      BY <3>1 DEF IInv, NoOversleep
    <3>3. \A y \in Elems(set) : y \in Timers
      BY <1>1 DEF Elems
    <3>4. CASE x # t
      BY <2>1, <3>2, <3>3, <3>4
    <3>5. CASE x = t
      <4>1. s[1] \in Elems(s)
        BY <2>2, <2>5, <3>1 DEF Elems
      <4>2. expire'[s[1]] <= expire'[t] /\ expire'[s[1]] = expire[s[1]] /\ s[1] \in Elems(set)
        BY <2>1, <2>2, <2>5, <3>1, <3>3, <4>1
      <4>3. expire'[t] \in Nat /\ expire[s[1]] \in Nat
        BY <1>1, <2>1, <3>3, <4>2
      <4> QED
        BY <1>1, <3>2, <3>5, <4>2, <4>3
    <3> QED
      BY <3>4, <3>5
  <2> QED
    BY <2>7, <2>8, <2>9, <2>10 DEF IInv
<1> HIDE DEF s
<1>6. \/ UNCHANGED <<set, expire, owing>>
      \/ /\ later # expire[t] /\ t \in Elems(set)
         /\ expire' = [expire EXCEPT ![t] = later]
         /\ \E p \in Places(s, t, expire') :
              /\ set' = InsertAt(s, p + 1, t)
              /\ owing' = IF p = 0 THEN owing \cup {t} ELSE owing
  BY DEF Reset, s
<1> HIDE DEF later, start
<1> QED
  BY <1>4, <1>5, <1>6

-----------------------------------------------------------------------------
(* The epoll thread. *)

LEMMA PlanKeeps == ASSUME IInv, Plan PROVE IInv'
<1> USE TimersAssumption DEF IInv, Plan
<1>1. NextTime \in Nat /\ SmallerOf(NextTime, MaxWait) \in Nat /\ SmallerOf(NextTime, MaxWait) <= NextTime
  <2>1. set # <<>> => expire[set[1]] \in Nat
    BY DEF TypeOK
  <2>2. NextTime \in Nat
    <3>1. now \in Nat /\ MaxWait \in Nat
      BY DEF TypeOK
    <3> HIDE DEF IInv, Plan
    <3> QED
      BY <2>1, <3>1 DEF NextTime
  <2> QED
    BY <2>2 DEF SmallerOf
<1>2. TypeOK'
  BY <1>1 DEF TypeOK
<1>3. InOrder'
  BY InOrderKept
<1>4. NotYetFired'
  BY DEF NotYetFired, Elems
<1>5. NoOversleep'
  <2> SUFFICES ASSUME NEW t \in Elems(set) PROVE wakeAt' <= expire[t] \/ wakeAt' <= now
    BY DEF NoOversleep, Elems
  <2>1. set # <<>> /\ set[1] \in Elems(set) /\ expire[set[1]] <= expire[t]
    BY FirstIsLeast
  <2>2. now \in Nat /\ expire[t] \in Nat /\ expire[set[1]] \in Nat
    <3>1. now \in Nat /\ expire \in [Timers -> Nat] /\ set \in Seq(Timers)
      BY DEF TypeOK
    <3>2. Elems(set) \subseteq Timers
      BY <3>1, ElemsIs
    <3> QED
      BY <2>1, <3>1, <3>2
  <2>3. wakeAt' <= now + NextTime /\ wakeAt' \in Nat
    BY <1>1, <2>2
  <2>4. now + NextTime = IF now >= expire[set[1]] THEN now ELSE expire[set[1]]
    BY <2>1, <2>2 DEF NextTime
  <2> HIDE DEF Plan
  <2> QED
    BY <2>1, <2>2, <2>3, <2>4
<1> QED
  BY <1>2, <1>3, <1>4, <1>5

LEMMA WakeUpKeeps == ASSUME IInv, WakeUp PROVE IInv'
<1> USE TimersAssumption DEF IInv, WakeUp
<1>1. TypeOK'
  BY DEF TypeOK
<1>2. InOrder'
  BY InOrderKept
<1>3. NotYetFired'
  BY DEF NotYetFired, Elems
<1>4. NoOversleep'
  BY DEF NoOversleep
<1> QED
  BY <1>1, <1>2, <1>3, <1>4

\* What processExpired() does under its lock when no timer is recurring.
LEMMA CollectIs ==
  ASSUME IInv, Collect, Recurring = {}
  PROVE  /\ expire' = expire
         /\ set' \in Seq(Timers) /\ Distinct(set') /\ Sorted(set', expire)
         /\ expired' \in Seq(Timers) /\ Distinct(expired')
         /\ Elems(set') \subseteq Elems(set) /\ Elems(expired') \subseteq Elems(set)
         /\ Elems(set') \cap Elems(expired') = {}
         /\ \A t \in Elems(set') : expire[t] > pnow
         /\ \A t \in Elems(expired') : expire[t] <= pnow
<1> DEFINE n == ExpiredPrefix
           hit == SubSeq(set, 1, n)
           rest == SubSeq(set, n + 1, Len(set))
<1>1. /\ set \in Seq(Timers) /\ expire \in [Timers -> Nat] /\ pnow \in Nat
      /\ Distinct(set) /\ Sorted(set, expire)
  BY TimersAssumption DEF IInv, TypeOK, InOrder
<1>2. /\ n \in 0 .. Len(set)
      /\ \A i \in 1 .. n : expire[set[i]] <= pnow
      /\ n < Len(set) => expire[set[n + 1]] > pnow
  BY <1>1, PrefixIs
<1> HIDE DEF n
<1>3. hit \in Seq(Timers) /\ Len(hit) = n /\ \A i \in 1 .. n : hit[i] = set[i]
  BY <1>1, <1>2, PieceIs
<1>4. rest \in Seq(Timers) /\ Len(rest) = Len(set) - n /\ \A i \in 1 .. Len(set) - n : rest[i] = set[n + i]
  BY <1>1, <1>2, PieceIs
<1> HIDE DEF hit
<1>5. Staying(hit) = <<>>
  BY <1>3, NoneStays
<1>6. /\ expired' = hit
      /\ set' = Staying(hit) \o SubSeq(set, Len(hit) + 1, Len(set))
      /\ expire' = [t \in Timers |-> IF t \in Elems(hit) /\ t \in Recurring THEN pnow + ms[t] ELSE expire[t]]
  BY DEF Collect, hit, n
<1>7. set' = rest
  BY <1>3, <1>4, <1>5, <1>6
<1>8. expire' = expire
  BY <1>1, <1>6
<1> HIDE DEF rest
<1>9. Distinct(hit)
  <2>1. \A i \in 1 .. Len(hit) : i \in 1 .. Len(set) /\ hit[i] = set[i]
    BY <1>2, <1>3
  <2> QED
    BY <1>1, <2>1 DEF Distinct
<1>10. Distinct(rest) /\ Sorted(rest, expire)
  <2>1. \A i \in 1 .. Len(rest) : n + i \in 1 .. Len(set) /\ rest[i] = set[n + i]
    BY <1>2, <1>4
  <2>2. Distinct(rest)
    <3> SUFFICES ASSUME NEW i \in 1 .. Len(rest), NEW j \in 1 .. Len(rest), rest[i] = rest[j] PROVE i = j
      BY DEF Distinct
    <3>1. n + i = n + j
      BY <1>1, <2>1 DEF Distinct
    <3> QED
      BY <1>2, <1>4, <3>1
  <2>3. Sorted(rest, expire)
    <3> SUFFICES ASSUME NEW i \in 1 .. Len(rest), NEW j \in 1 .. Len(rest), i < j PROVE expire[rest[i]] <= expire[rest[j]]
      BY DEF Sorted
    <3>1. n + i < n + j
      BY <1>2, <1>4
    <3> QED
      BY <1>1, <2>1, <3>1 DEF Sorted
  <2> QED
    BY <2>2, <2>3
<1>11. Elems(hit) \subseteq Elems(set) /\ \A t \in Elems(hit) : expire[t] <= pnow
  BY <1>2, <1>3 DEF Elems
<1>12. Elems(rest) \subseteq Elems(set) /\ \A t \in Elems(rest) : expire[t] > pnow
  <2> SUFFICES ASSUME NEW i \in 1 .. Len(rest) PROVE rest[i] \in Elems(set) /\ expire[rest[i]] > pnow
    BY DEF Elems
  <2>1. n + i \in 1 .. Len(set) /\ rest[i] = set[n + i] /\ n < Len(set) /\ n + 1 \in 1 .. Len(set)
    BY <1>2, <1>4
  <2>2. n + 1 < n + i => expire[set[n + 1]] <= expire[set[n + i]]
    BY <1>1, <2>1 DEF Sorted
  <2>3. n + 1 = n + i \/ n + 1 < n + i
    BY <1>2, <1>4
  <2>4. expire[set[n + 1]] \in Nat /\ expire[set[n + i]] \in Nat
    BY <1>1, <2>1
  <2>6. expire[set[n + 1]] > pnow
    BY <1>2, <2>1
  <2>5. expire[set[n + i]] > pnow
    BY <1>1, <2>2, <2>3, <2>4, <2>6
  <2> QED
    BY <2>1, <2>5 DEF Elems
<1>13. Elems(rest) \cap Elems(hit) = {}
  <2>1. \A t \in Elems(set) : expire[t] \in Nat
    BY <1>1 DEF Elems
  <2> QED
    BY <1>1, <1>11, <1>12, <2>1
<1> QED
  BY <1>3, <1>4, <1>6, <1>7, <1>8, <1>9, <1>10, <1>11, <1>12, <1>13

LEMMA CollectKeeps == ASSUME IInv, Collect, Recurring = {} PROVE IInv'
<1>1. /\ ipc = "collect" /\ ipc' = "fire"
      /\ UNCHANGED <<now, ms, cb, created, owing, tickle, wakeAt, woken, pnow, fired, resets>>
  BY DEF Collect
<1>2. /\ expire' = expire
      /\ set' \in Seq(Timers) /\ Distinct(set') /\ Sorted(set', expire)
      /\ expired' \in Seq(Timers) /\ Distinct(expired')
      /\ Elems(set') \subseteq Elems(set) /\ Elems(expired') \subseteq Elems(set)
      /\ Elems(set') \cap Elems(expired') = {}
  BY CollectIs
<1>3. Elems(set)' = Elems(set') /\ Elems(expired)' = Elems(expired')
  BY DEF Elems
<1>4. TypeOK'
  BY <1>1, <1>2 DEF IInv, TypeOK
<1>5. InOrder'
  BY <1>2, <1>3 DEF InOrder, Distinct
<1>6. NotYetFired'
  BY <1>1, <1>2, <1>3 DEF IInv, NotYetFired
<1>7. NoOversleep'
  BY <1>1 DEF NoOversleep
<1> QED
  BY <1>4, <1>5, <1>6, <1>7 DEF IInv

LEMMA FireKeeps == ASSUME IInv, Fire PROVE IInv'
<1> DEFINE t == Head(expired)
<1>1. expired \in Seq(Timers) /\ expired # <<>> /\ Distinct(expired) /\ fired \in [Timers -> Nat]
  BY DEF IInv, TypeOK, InOrder, Fire
<1>2. /\ t \in Timers /\ t \in Elems(expired) /\ expired' \in Seq(Timers)
      /\ Len(expired') = Len(expired) - 1 /\ \A i \in 1 .. Len(expired') : expired'[i] = expired[i + 1]
  BY <1>1 DEF Fire, Elems
<1>3. Distinct(expired') /\ Elems(expired') \subseteq Elems(expired) \ {t}
  <2>1. \A i \in 1 .. Len(expired') : i + 1 \in 1 .. Len(expired) /\ expired'[i] = expired[i + 1]
    BY <1>1, <1>2
  <2>2. Distinct(expired')
    <3> SUFFICES ASSUME NEW i \in 1 .. Len(expired'), NEW j \in 1 .. Len(expired'), expired'[i] = expired'[j] PROVE i = j
      BY DEF Distinct
    <3>1. i + 1 = j + 1
      BY <1>1, <2>1 DEF Distinct
    <3> QED
      BY <1>2, <3>1
  <2>3. ASSUME NEW i \in 1 .. Len(expired') PROVE expired'[i] \in Elems(expired) /\ expired'[i] # t
    <3>1. i + 1 # 1 /\ 1 \in 1 .. Len(expired) /\ t = expired[1]
      BY <1>1, <1>2
    <3> QED
      BY <1>1, <2>1, <3>1 DEF Distinct, Elems
  <2> QED
    BY <2>2, <2>3 DEF Elems
<1>4. /\ ipc = "fire" /\ fired' = [fired EXCEPT ![t] = IF t \in cb THEN @ + 1 ELSE @]
      /\ UNCHANGED <<now, set, expire, ms, cb, created, owing, tickle, ipc, wakeAt, woken, pnow, resets>>
  BY DEF Fire
<1>5. fired' \in [Timers -> Nat] /\ \A x \in Timers : x # t => fired'[x] = fired[x]
  BY <1>1, <1>2, <1>4
<1> HIDE DEF t
<1>6. Elems(set)' = Elems(set) /\ Elems(expired)' = Elems(expired') /\ Elems(set) \subseteq Timers /\ Elems(expired) \subseteq Timers
  <2>1. Elems(set) \subseteq Timers /\ Elems(expired) \subseteq Timers
    BY <1>1, ElemsIs DEF IInv, TypeOK
  <2> QED
    BY <1>4, <2>1 DEF Elems
<1>7. TypeOK'
  BY <1>2, <1>4, <1>5 DEF IInv, TypeOK
<1>8. InOrder'
  BY <1>3, <1>4, <1>6 DEF IInv, InOrder, Sorted, Distinct
<1>9. NotYetFired'
  BY <1>2, <1>3, <1>4, <1>5, <1>6 DEF IInv, NotYetFired, InOrder
<1>10. NoOversleep'
  BY <1>4 DEF NoOversleep
<1> QED
  BY <1>7, <1>8, <1>9, <1>10 DEF IInv

LEMMA DrainKeeps == ASSUME IInv, DrainEventfd PROVE IInv'
<1> USE TimersAssumption DEF IInv, DrainEventfd
<1>1. TypeOK'
  BY DEF TypeOK
<1>2. InOrder'
  BY InOrderKept
<1>3. NotYetFired'
  BY DEF NotYetFired, Elems
<1>4. NoOversleep'
  BY DEF NoOversleep
<1> QED
  BY <1>1, <1>2, <1>3, <1>4

LEMMA StutterKeeps == ASSUME IInv, UNCHANGED vars PROVE IInv'
<1> USE DEF IInv, vars
<1>1. TypeOK'
  BY DEF TypeOK
<1>2. InOrder'
  BY InOrderKept
<1>3. NotYetFired'
  BY DEF NotYetFired, Elems
<1>4. NoOversleep'
  BY DEF NoOversleep, Elems
<1> QED
  BY <1>1, <1>2, <1>3, <1>4

LEMMA NextKeeps == ASSUME IInv, [Next]_vars, Recurring = {} PROVE IInv'
BY TickKeeps, AddTimerKeeps, TickleKeeps, CancelKeeps, ResetKeeps, ClearKeeps, PlanKeeps, WakeUpKeeps,
   CollectKeeps, FireKeeps, DrainKeeps, StutterKeeps, Zenon DEF Next, IdleStep

\* Only processExpired() takes the epoll thread from collecting to scheduling.
LEMMA CollectStep ==
  ASSUME IInv, [Next]_vars, Recurring = {}
  PROVE  ipc = "collect" /\ ipc' = "fire" =>
           /\ \A t \in Elems(set') : expire'[t] > pnow
           /\ \A t \in Elems(expired') : expire[t] <= pnow
           /\ \A t \in Elems(expired') \ Recurring : fired[t] = 0
<1> SUFFICES ASSUME ipc = "collect", ipc' = "fire" PROVE
           /\ \A t \in Elems(set') : expire'[t] > pnow
           /\ \A t \in Elems(expired') : expire[t] <= pnow
           /\ \A t \in Elems(expired') \ Recurring : fired[t] = 0
  OBVIOUS
<1>1. Collect
  BY DEF Next, IdleStep, vars, Tick, AddTimer, Tickle, Cancel, Reset, Clear, WakeUp, Plan, Fire, DrainEventfd, idleVars
<1> QED
  BY <1>1, CollectIs DEF IInv, NotYetFired

-----------------------------------------------------------------------------
\* The state of the timers keeps its types, the set stays in the order of the
\* expiry times, and no timer is in it twice or in it again once scheduled,
\* when no timer is recurring (processExpired() changes the expiry of a
\* recurring timer inside the set).
THEOREM InvariantOneShot == ASSUME Recurring = {} PROVE Spec => []IInv
<1>1. Init => IInv
  BY InitIInv
<1>2. IInv /\ [Next]_vars => IInv'
  BY NextKeeps
<1> QED
  BY <1>1, <1>2, PTL DEF Spec

\* The epoll thread of IOManager::idle() never oversleeps a one-shot timer: with
\* no tickle owed or pending its timeout is no later than any expiry in the set.
THEOREM NeverOversleeps == ASSUME Recurring = {} PROVE Spec => []NoOversleep
<1>1. IInv => NoOversleep
  BY DEF IInv
<1> QED
  BY <1>1, InvariantOneShot, PTL

\* processExpired() takes every one-shot timer that was due when it read the
\* clock, none before its time and none that was scheduled before.
THEOREM TakesAllExpired == ASSUME Recurring = {} PROVE Spec => ProcessesAllExpired
<1>1. IInv /\ [Next]_vars =>
        [ipc = "collect" /\ ipc' = "fire" =>
           /\ \A t \in Elems(set') : expire'[t] > pnow
           /\ \A t \in Elems(expired') : expire[t] <= pnow
           /\ \A t \in Elems(expired') \ Recurring : fired[t] = 0]_vars
  BY CollectStep
<1> QED
  BY <1>1, InvariantOneShot, PTL DEF Spec, ProcessesAllExpired
=============================================================================
