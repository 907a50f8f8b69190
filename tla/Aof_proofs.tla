------------------------------ MODULE Aof_proofs ------------------------------
(***************************************************************************)
(* Proofs about Aof, for any number of files, commands, AOFROTATE threads  *)
(* and crashes, and every sync policy.                                     *)
(***************************************************************************)
EXTENDS Aof, WellFoundedInduction, TLAPS

-----------------------------------------------------------------------------
(* The least element of a set of numbers, for what needs an induction. *)

Less == {ss \in Nat \X Nat : ss[1] < ss[2]}

LEMMA LessWF == IsWellFoundedOn(Less, Nat)
BY NatLessThanWellFounded, Zenon DEF OpToRel, Less

LEMMA LessIs == \A x, y \in Nat : x < y => <<x, y>> \in Less
BY DEF Less

LEMMA Least == ASSUME NEW T, T \subseteq Nat, T # {} PROVE \E x \in T : \A y \in T : x <= y
<1>1. PICK x \in T : \A y \in T : ~(<<y, x>> \in Less)
  BY LessWF, WFMin
<1>2. \A y \in T : ~(y < x)
  BY <1>1, LessIs, Zenon
<1> QED
  BY <1>2

-----------------------------------------------------------------------------
(* Sequences, and FlattenSeq, whose definition is a recursive function. *)

LEMMA PieceIs ==
  ASSUME NEW S, NEW s \in Seq(S), NEW m \in 1 .. Len(s) + 1, NEW n \in m - 1 .. Len(s)
  PROVE  LET q == SubSeq(s, m, n)
         IN q \in Seq(S) /\ Len(q) = n - m + 1 /\ \A i \in 1 .. n - m + 1 : q[i] = s[m + i - 1]
OBVIOUS

LEMMA JoinIs ==
  ASSUME NEW S, NEW a \in Seq(S), NEW b \in Seq(S)
  PROVE  /\ a \o b \in Seq(S) /\ Len(a \o b) = Len(a) + Len(b)
         /\ \A i \in 1 .. Len(a) + Len(b) : (a \o b)[i] = IF i <= Len(a) THEN a[i] ELSE b[i - Len(a)]
OBVIOUS

LEMMA SameSeq ==
  ASSUME NEW S, NEW a \in Seq(S), NEW b \in Seq(S), Len(a) = Len(b), \A i \in 1 .. Len(a) : a[i] = b[i]
  PROVE  a = b
OBVIOUS

LEMMA AppendIs ==
  ASSUME NEW S, NEW b \in Seq(S), NEW a \in Seq(S), NEW x \in S, Len(b) = Len(a) + 1,
         \A i \in 1 .. Len(a) : b[i] = a[i], b[Len(b)] = x
  PROVE  b = Append(a, x)
OBVIOUS

LEMMA PrefixStep ==
  ASSUME NEW S, NEW s \in Seq(S), NEW n \in 1 .. Len(s)
  PROVE  SubSeq(s, 1, n - 1) \in Seq(S) /\ s[n] \in S /\ SubSeq(s, 1, n) = Append(SubSeq(s, 1, n - 1), s[n])
<1> DEFINE b == SubSeq(s, 1, n)
           a == SubSeq(s, 1, n - 1)
<1>1. b \in Seq(S) /\ Len(b) = n /\ \A i \in 1 .. n : b[i] = s[i]
  BY PieceIs
<1>2. a \in Seq(S) /\ Len(a) = n - 1 /\ \A i \in 1 .. n - 1 : a[i] = s[i]
  BY PieceIs
<1>3. s[n] \in S
  OBVIOUS
<1> HIDE DEF a, b
<1>4. Len(b) = Len(a) + 1 /\ (\A i \in 1 .. Len(a) : b[i] = a[i]) /\ b[Len(b)] = s[n]
  BY <1>1, <1>2
<1>5. b = Append(a, s[n])
  BY <1>1, <1>2, <1>3, <1>4, AppendIs
<1> QED
  BY <1>2, <1>3, <1>5 DEF a, b

Associates(a, b, c) == (a \o b) \o c = a \o (b \o c)

LEMMA JoinAssoc ==
  ASSUME NEW S, NEW a \in Seq(S), NEW b \in Seq(S), NEW c \in Seq(S) PROVE Associates(a, b, c)
BY DEF Associates

AppendsLast(a, b, x, S) == Append(a \o b, x) = a \o Append(b, x) /\ Append(b, x) \in Seq(S)

LEMMA JoinAppend ==
  ASSUME NEW S, NEW a \in Seq(S), NEW b \in Seq(S), NEW x \in S PROVE AppendsLast(a, b, x, S)
BY DEF AppendsLast

FourAssociate(a, b, c, d, S) == a \o b \o c \o d = a \o (b \o (c \o d)) /\ a \o b \o c \o d \in Seq(S)

LEMMA JoinAssocFour ==
  ASSUME NEW S, NEW a \in Seq(S), NEW b \in Seq(S), NEW c \in Seq(S), NEW d \in Seq(S)
  PROVE  FourAssociate(a, b, c, d, S)
<1> DEFINE u == a \o b
           v == c \o d
<1>1. u \in Seq(S) /\ v \in Seq(S)
  BY JoinIs
<1>2. Associates(u, c, d) /\ Associates(a, b, v)
  BY <1>1, JoinAssoc, Zenon
<1>3. u \o c \in Seq(S)
  BY <1>1, JoinIs
<1>4. (u \o c) \o d \in Seq(S)
  <2> DEFINE w == u \o c
  <2>1. w \in Seq(S)
    BY <1>3
  <2> HIDE DEF w
  <2>2. w \o d \in Seq(S)
    BY <2>1, JoinIs
  <2> QED
    BY <2>2 DEF w
<1> QED
  BY <1>2, <1>4, Zenon DEF Associates, FourAssociate

LEMMA JoinEmpty == ASSUME NEW S, NEW a \in Seq(S) PROVE a \o <<>> = a /\ <<>> \o a = a
OBVIOUS

Flat(f, ss, n) == f = [i \in 1 .. n |-> IF i = 1 THEN ss[i] ELSE f[i - 1] \o ss[i]]

LEMMA FlatExists ==
  ASSUME NEW S, NEW ss \in Seq(Seq(S)), NEW m \in 0 .. Len(ss) PROVE \E f : Flat(f, ss, m)
<1> DEFINE T == {n \in 0 .. Len(ss) : ~\E f : Flat(f, ss, n)}
<1> SUFFICES ASSUME T # {} PROVE FALSE
  OBVIOUS
<1>1. T \subseteq Nat
  OBVIOUS
<1>2. PICK n \in T : \A k \in T : n <= k
  BY <1>1, Least, Zenon
<1>3. n \in 0 .. Len(ss) /\ ~\E f : Flat(f, ss, n)
  OBVIOUS
<1>4. n # 0
  <2>1. Flat(<<>>, ss, 0)
    BY DEF Flat
  <2> QED
    BY <1>3, <2>1
<1>5. n - 1 \in 0 .. Len(ss) /\ n - 1 \notin T
  <2>1. n - 1 \in 0 .. Len(ss) /\ ~(n <= n - 1)
    BY <1>3, <1>4
  <2> HIDE DEF T
  <2> QED
    BY <1>2, <2>1
<1>6. PICK f : Flat(f, ss, n - 1)
  BY <1>5
<1> DEFINE g == [i \in 1 .. n |-> IF i = n THEN (IF n = 1 THEN ss[n] ELSE f[n - 1] \o ss[n]) ELSE f[i]]
<1>7. \A i \in 1 .. n : g[i] = IF i = 1 THEN ss[i] ELSE g[i - 1] \o ss[i]
  <2> SUFFICES ASSUME NEW i \in 1 .. n PROVE g[i] = IF i = 1 THEN ss[i] ELSE g[i - 1] \o ss[i]
    OBVIOUS
  <2>1. CASE i = n
    <3>1. n # 1 => n - 1 \in 1 .. n /\ n - 1 # n
      BY <1>3
    <3> QED
      BY <2>1, <3>1
  <2>2. CASE i # n
    <3>1. i \in 1 .. n - 1 /\ (i # 1 => i - 1 \in 1 .. n - 1 /\ i - 1 \in 1 .. n /\ i - 1 # n)
      BY <1>3, <2>2
    <3>2. f[i] = IF i = 1 THEN ss[i] ELSE f[i - 1] \o ss[i]
      BY <1>6, <3>1 DEF Flat
    <3> QED
      BY <2>2, <3>1, <3>2
  <2> QED
    BY <2>1, <2>2
<1>8. g = [i \in 1 .. n |-> IF i = 1 THEN ss[i] ELSE g[i - 1] \o ss[i]]
  <2>1. DOMAIN g = 1 .. n /\ g = [i \in 1 .. n |-> g[i]]
    OBVIOUS
  <2> HIDE DEF g
  <2> QED
    BY <1>7, <2>1
<1> QED
  BY <1>3, <1>8 DEF Flat

FlatSteps(f, ss, n, S) ==
  \A i \in 1 .. n : f[i] \in Seq(S) /\ (i = 1 => f[i] = ss[i]) /\ (i # 1 => f[i] = f[i - 1] \o ss[i])

LEMMA FlatIs ==
  ASSUME NEW S, NEW ss \in Seq(Seq(S)), NEW n \in 1 .. Len(ss), NEW f, Flat(f, ss, n)
  PROVE  FlatSteps(f, ss, n, S)
<1>1. \A i \in 1 .. n : f[i] = IF i = 1 THEN ss[i] ELSE f[i - 1] \o ss[i]
  BY DEF Flat
<1> DEFINE T == {i \in 1 .. n : f[i] \notin Seq(S)}
<1> SUFFICES ASSUME T # {} PROVE FALSE
  BY <1>1 DEF FlatSteps
<1>2. T \subseteq Nat
  OBVIOUS
<1>3. PICK x \in T : \A y \in T : x <= y
  BY <1>2, Least, Zenon
<1>4. x \in 1 .. n /\ f[x] \notin Seq(S) /\ ss[x] \in Seq(S)
  OBVIOUS
<1>5. x # 1
  BY <1>1, <1>4
<1>6. x - 1 \in 1 .. n /\ x - 1 \notin T
  BY <1>3, <1>4, <1>5
<1>7. f[x - 1] \in Seq(S)
  BY <1>6
<1>8. f[x] = f[x - 1] \o ss[x]
  BY <1>1, <1>4, <1>5
<1> QED
  BY <1>4, <1>7, <1>8

LEMMA FlattenIs ==
  ASSUME NEW S, NEW ss \in Seq(Seq(S)), Len(ss) # 0
  PROVE  \E f : Flat(f, ss, Len(ss)) /\ FlattenSeq(ss) = f[Len(ss)]
<1> DEFINE g == CHOOSE f : Flat(f, ss, Len(ss))
<1>1. Flat(g, ss, Len(ss))
  BY FlatExists
<1>2. FlattenSeq(ss) = g[Len(ss)]
  BY DEF FlattenSeq, Flat
<1> QED
  BY <1>1, <1>2

LEMMA FlattenType == ASSUME NEW S, NEW ss \in Seq(Seq(S)) PROVE FlattenSeq(ss) \in Seq(S)
<1>1. CASE Len(ss) = 0
  BY <1>1 DEF FlattenSeq
<1>2. CASE Len(ss) # 0
  <2>1. PICK f : Flat(f, ss, Len(ss)) /\ FlattenSeq(ss) = f[Len(ss)]
    BY <1>2, FlattenIs
  <2>2. Len(ss) \in 1 .. Len(ss)
    BY <1>2
  <2>3. FlatSteps(f, ss, Len(ss), S)
    BY <2>1, <2>2, FlatIs, Zenon
  <2> QED
    BY <2>1, <2>2, <2>3 DEF FlatSteps
<1> QED
  BY <1>1, <1>2

LEMMA FlattenNone == FlattenSeq(<<>>) = <<>>
BY DEF FlattenSeq

LEMMA FlattenAppend ==
  ASSUME NEW S, NEW ss \in Seq(Seq(S)), NEW x \in Seq(S)
  PROVE  FlattenSeq(Append(ss, x)) = FlattenSeq(ss) \o x
<1> DEFINE n == Len(ss)
           tt == Append(ss, x)
<1>1. tt \in Seq(Seq(S)) /\ Len(tt) = n + 1 /\ n \in Nat /\ tt[n + 1] = x /\ \A i \in 1 .. n : tt[i] = ss[i]
  OBVIOUS
<1> HIDE DEF tt
<1>2. PICK g : Flat(g, tt, n + 1) /\ FlattenSeq(tt) = g[n + 1]
  BY <1>1, FlattenIs
<1>3. \A i \in 1 .. n + 1 : g[i] \in Seq(S) /\ (i = 1 => g[i] = tt[i]) /\ (i # 1 => g[i] = g[i - 1] \o tt[i])
  <2> DEFINE k == n + 1
  <2>1. k \in 1 .. Len(tt)
    BY <1>1
  <2>2. tt \in Seq(Seq(S)) /\ Flat(g, tt, k)
    BY <1>1, <1>2
  <2> HIDE DEF k
  <2>3. FlatSteps(g, tt, k, S)
    BY <2>1, <2>2, FlatIs, Zenon
  <2> QED
    BY <2>3 DEF k, FlatSteps
<1>4. CASE n = 0
  <2>1. g[1] = x /\ ss = <<>>
    BY <1>1, <1>3, <1>4
  <2>2. FlattenSeq(ss) = <<>>
    BY <2>1, FlattenNone
  <2> QED
    BY <1>2, <1>4, <2>1, <2>2 DEF tt
<1>5. CASE n # 0
  <2>1. PICK f : Flat(f, ss, n) /\ FlattenSeq(ss) = f[n]
    BY <1>5, FlattenIs
  <2>2. \A i \in 1 .. n : f[i] \in Seq(S) /\ (i = 1 => f[i] = ss[i]) /\ (i # 1 => f[i] = f[i - 1] \o ss[i])
    <3>1. n \in 1 .. Len(ss)
      BY <1>1, <1>5
    <3>2. FlatSteps(f, ss, n, S)
      BY <2>1, <3>1, FlatIs, Zenon
    <3> QED
      BY <3>2 DEF FlatSteps
  <2>3. \A i \in 1 .. n : g[i] = f[i]
    <3> DEFINE T == {i \in 1 .. n : g[i] # f[i]}
    <3> SUFFICES ASSUME T # {} PROVE FALSE
      OBVIOUS
    <3>1. T \subseteq Nat
      OBVIOUS
    <3>2. PICK y \in T : \A z \in T : y <= z
      BY <3>1, Least, Zenon
    <3>3. y \in 1 .. n /\ y \in 1 .. n + 1 /\ g[y] # f[y]
      BY <1>1
    <3>4. y # 1
      BY <1>1, <1>3, <2>2, <3>3
    <3>5. y - 1 \in 1 .. n /\ y - 1 \notin T
      BY <1>1, <3>2, <3>3, <3>4
    <3>6. g[y - 1] = f[y - 1] /\ tt[y] = ss[y]
      BY <1>1, <3>3, <3>5
    <3>7. g[y] = g[y - 1] \o tt[y] /\ f[y] = f[y - 1] \o ss[y]
      BY <1>3, <2>2, <3>3, <3>4
    <3> QED
      BY <3>3, <3>6, <3>7
  <2>4. g[n + 1] = g[(n + 1) - 1] \o tt[n + 1] /\ (n + 1) - 1 = n /\ n \in 1 .. n
    <3>1. n + 1 \in 1 .. n + 1 /\ n + 1 # 1 /\ (n + 1) - 1 = n /\ n \in 1 .. n
      BY <1>1, <1>5
    <3> QED
      BY <1>3, <3>1
  <2> QED
    BY <1>1, <1>2, <2>1, <2>3, <2>4 DEF tt
<1> QED
  BY <1>4, <1>5

LEMMA FlattenJoin ==
  ASSUME NEW S, NEW a \in Seq(Seq(S)), NEW b \in Seq(Seq(S))
  PROVE  FlattenSeq(a \o b) = FlattenSeq(a) \o FlattenSeq(b)
<1> DEFINE B(n) == SubSeq(b, 1, n)
           P(n) == FlattenSeq(a \o B(n)) = FlattenSeq(a) \o FlattenSeq(B(n))
           T == {n \in 0 .. Len(b) : ~P(n)}
<1>0. FlattenSeq(a) \in Seq(S)
  BY FlattenType
<1>1. P(0)
  <2>1. B(0) = <<>> /\ a \o <<>> = a
    OBVIOUS
  <2>2. FlattenSeq(a) \o <<>> = FlattenSeq(a)
    BY <1>0
  <2> QED
    BY <2>1, <2>2, FlattenNone
<1>2. ASSUME NEW n \in 0 .. Len(b), n # 0, P(n - 1) PROVE P(n)
  <2>1. /\ B(n - 1) \in Seq(Seq(S)) /\ b[n] \in Seq(S)
        /\ B(n) = Append(B(n - 1), b[n]) /\ a \o B(n) = Append(a \o B(n - 1), b[n]) /\ a \o B(n - 1) \in Seq(Seq(S))
    <3>1. B(n - 1) \in Seq(Seq(S)) /\ b[n] \in Seq(S) /\ B(n) = Append(B(n - 1), b[n])
      BY <1>2
    <3> HIDE DEF B
    <3> DEFINE c == B(n - 1)
               x == b[n]
    <3>2. c \in Seq(Seq(S)) /\ x \in Seq(S)
      BY <3>1
    <3> HIDE DEF c, x
    <3>3. a \o Append(c, x) = Append(a \o c, x) /\ a \o c \in Seq(Seq(S))
      BY <3>2
    <3> QED
      BY <3>1, <3>3 DEF c, x
  <2> HIDE DEF B
  <2>2. FlattenSeq(B(n)) = FlattenSeq(B(n - 1)) \o b[n] /\ FlattenSeq(a \o B(n)) = FlattenSeq(a \o B(n - 1)) \o b[n]
    BY <2>1, FlattenAppend
  <2>3. FlattenSeq(B(n - 1)) \in Seq(S)
    BY <2>1, FlattenType
  <2>4. (FlattenSeq(a) \o FlattenSeq(B(n - 1))) \o b[n] = FlattenSeq(a) \o (FlattenSeq(B(n - 1)) \o b[n])
    <3> DEFINE u == FlattenSeq(a)
               v == FlattenSeq(B(n - 1))
               w == b[n]
    <3>1. u \in Seq(S) /\ v \in Seq(S) /\ w \in Seq(S)
      BY <1>0, <2>1, <2>3
    <3> HIDE DEF u, v, w
    <3>2. (u \o v) \o w = u \o (v \o w)
      BY <3>1
    <3> QED
      BY <3>2 DEF u, v, w
  <2> QED
    BY <1>2, <2>2, <2>4
<1> HIDE DEF P
<1>3. T = {}
  <2> SUFFICES ASSUME T # {} PROVE FALSE
    OBVIOUS
  <2>1. T \subseteq Nat
    OBVIOUS
  <2>2. PICK n \in T : \A k \in T : n <= k
    BY <2>1, Least, Zenon
  <2>3. n \in 0 .. Len(b) /\ n # 0 /\ ~P(n)
    BY <1>1
  <2>4. n - 1 \in 0 .. Len(b) /\ n - 1 \notin T
    BY <2>2, <2>3
  <2> QED
    BY <1>2, <2>3, <2>4
<1>4. P(Len(b))
  BY <1>3
<1>5. B(Len(b)) = b
  OBVIOUS
<1> QED
  BY <1>4, <1>5 DEF P

LEMMA FlattenOne == ASSUME NEW S, NEW x \in Seq(S) PROVE FlattenSeq(<<x>>) = x
<1>1. <<x>> = Append(<<>>, x) /\ <<>> \in Seq(Seq(S)) /\ <<>> \o x = x
  OBVIOUS
<1> QED
  BY <1>1, FlattenAppend, FlattenNone

LEMMA FlattenEmpties ==
  ASSUME NEW S, NEW ss \in Seq(Seq(S)), \A i \in 1 .. Len(ss) : ss[i] = <<>> PROVE FlattenSeq(ss) = <<>>
<1> DEFINE B(n) == SubSeq(ss, 1, n)
           P(n) == FlattenSeq(B(n)) = <<>>
           T == {n \in 0 .. Len(ss) : ~P(n)}
<1>1. P(0)
  <2>1. B(0) = <<>>
    OBVIOUS
  <2> QED
    BY <2>1, FlattenNone
<1>2. ASSUME NEW n \in 0 .. Len(ss), n # 0, P(n - 1) PROVE P(n)
  <2>1. B(n - 1) \in Seq(Seq(S)) /\ <<>> \in Seq(S) /\ B(n) = Append(B(n - 1), <<>>) /\ <<>> \o <<>> = <<>>
    BY <1>2
  <2> HIDE DEF B
  <2>2. FlattenSeq(B(n)) = FlattenSeq(B(n - 1)) \o <<>>
    BY <2>1, FlattenAppend
  <2> QED
    BY <1>2, <2>1, <2>2
<1> HIDE DEF P
<1>3. T = {}
  <2> SUFFICES ASSUME T # {} PROVE FALSE
    OBVIOUS
  <2>1. T \subseteq Nat
    OBVIOUS
  <2>2. PICK n \in T : \A k \in T : n <= k
    BY <2>1, Least, Zenon
  <2>3. n \in 0 .. Len(ss) /\ n # 0 /\ ~P(n)
    BY <1>1
  <2>4. n - 1 \in 0 .. Len(ss) /\ n - 1 \notin T
    BY <2>2, <2>3
  <2> QED
    BY <1>2, <2>3, <2>4
<1>4. P(Len(ss))
  BY <1>3
<1>5. B(Len(ss)) = ss
  OBVIOUS
<1> QED
  BY <1>4, <1>5 DEF P

LEMMA FlattenSingles ==
  ASSUME NEW S, NEW a \in Seq(S), NEW ss \in Seq(Seq(S)), Len(ss) = Len(a), \A i \in 1 .. Len(a) : ss[i] = <<a[i]>>
  PROVE  FlattenSeq(ss) = a
<1> DEFINE B(n) == SubSeq(ss, 1, n)
           A(n) == SubSeq(a, 1, n)
           P(n) == FlattenSeq(B(n)) = A(n)
           T == {n \in 0 .. Len(ss) : ~P(n)}
<1>1. P(0)
  <2>1. B(0) = <<>> /\ A(0) = <<>>
    OBVIOUS
  <2> QED
    BY <2>1, FlattenNone
<1>2. ASSUME NEW n \in 0 .. Len(ss), n # 0, P(n - 1) PROVE P(n)
  <2>0. n \in 1 .. Len(ss) /\ n \in 1 .. Len(a)
    BY <1>2
  <2>1. B(n - 1) \in Seq(Seq(S)) /\ <<a[n]>> \in Seq(S) /\ B(n) = Append(B(n - 1), <<a[n]>>)
    <3>1. B(n - 1) \in Seq(Seq(S)) /\ ss[n] \in Seq(S) /\ B(n) = Append(B(n - 1), ss[n])
      BY <2>0, PrefixStep
    <3> QED
      BY <2>0, <3>1
  <2>2. A(n) = A(n - 1) \o <<a[n]>>
    <3>1. A(n - 1) \in Seq(S) /\ a[n] \in S /\ A(n) = Append(A(n - 1), a[n])
      BY <2>0, PrefixStep
    <3> HIDE DEF A
    <3> QED
      BY <3>1
  <2> HIDE DEF A, B
  <2>3. FlattenSeq(B(n)) = FlattenSeq(B(n - 1)) \o <<a[n]>>
    BY <2>1, FlattenAppend
  <2> QED
    BY <1>2, <2>2, <2>3
<1> HIDE DEF P
<1>3. T = {}
  <2> SUFFICES ASSUME T # {} PROVE FALSE
    OBVIOUS
  <2>1. T \subseteq Nat
    OBVIOUS
  <2>2. PICK n \in T : \A k \in T : n <= k
    BY <2>1, Least, Zenon
  <2>3. n \in 0 .. Len(ss) /\ n # 0 /\ ~P(n)
    BY <1>1
  <2>4. n - 1 \in 0 .. Len(ss) /\ n - 1 \notin T
    BY <2>2, <2>3
  <2> QED
    BY <1>2, <2>3, <2>4
<1>4. P(Len(ss))
  BY <1>3
<1>5. B(Len(ss)) = ss /\ A(Len(ss)) = a
  OBVIOUS
<1> QED
  BY <1>4, <1>5 DEF P

LEMMA ToSetJoin == ASSUME NEW S, NEW a \in Seq(S), NEW b \in Seq(S) PROVE ToSet(a \o b) = ToSet(a) \cup ToSet(b)
<1> DEFINE q == a \o b
<1>1. /\ q \in Seq(S) /\ Len(q) = Len(a) + Len(b)
      /\ \A i \in 1 .. Len(a) + Len(b) : q[i] = IF i <= Len(a) THEN a[i] ELSE b[i - Len(a)]
  BY JoinIs
<1> HIDE DEF q
<1>2. /\ ToSet(q) = {q[i] : i \in 1 .. Len(a) + Len(b)}
      /\ ToSet(a) = {a[i] : i \in 1 .. Len(a)} /\ ToSet(b) = {b[i] : i \in 1 .. Len(b)}
  <2>1. DOMAIN q = 1 .. Len(a) + Len(b) /\ DOMAIN a = 1 .. Len(a) /\ DOMAIN b = 1 .. Len(b)
    BY <1>1
  <2> QED
    BY <2>1, Zenon DEF ToSet
<1>3. ASSUME NEW x \in ToSet(q) PROVE x \in ToSet(a) \cup ToSet(b)
  <2>1. PICK i \in 1 .. Len(a) + Len(b) : q[i] = x
    BY <1>2
  <2>2. CASE i <= Len(a)
    BY <1>1, <1>2, <2>1, <2>2
  <2>3. CASE ~(i <= Len(a))
    <3>1. i - Len(a) \in 1 .. Len(b) /\ q[i] = b[i - Len(a)]
      BY <1>1, <2>3
    <3> QED
      BY <1>2, <2>1, <3>1
  <2> QED
    BY <2>2, <2>3
<1>4. ASSUME NEW x \in ToSet(a) PROVE x \in ToSet(q)
  BY <1>1, <1>2
<1>5. ASSUME NEW x \in ToSet(b) PROVE x \in ToSet(q)
  <2>1. PICK i \in 1 .. Len(b) : b[i] = x
    BY <1>2
  <2>2. i + Len(a) \in 1 .. Len(a) + Len(b) /\ ~(i + Len(a) <= Len(a)) /\ (i + Len(a)) - Len(a) = i
    OBVIOUS
  <2>3. q[i + Len(a)] = x
    BY <1>1, <2>1, <2>2
  <2> QED
    BY <1>2, <2>2, <2>3
<1> QED
  BY <1>3, <1>4, <1>5 DEF q

LEMMA ToSetAppend == ASSUME NEW S, NEW a \in Seq(S), NEW x \in S PROVE ToSet(Append(a, x)) = ToSet(a) \cup {x}
<1> DEFINE b == Append(a, x)
<1>1. b \in Seq(S) /\ Len(b) = Len(a) + 1 /\ b[Len(a) + 1] = x /\ \A i \in 1 .. Len(a) : b[i] = a[i]
  OBVIOUS
<1> HIDE DEF b
<1>2. DOMAIN b = 1 .. Len(a) + 1 /\ DOMAIN a = 1 .. Len(a)
  BY <1>1
<1>3. \A i \in 1 .. Len(a) + 1 : i \in 1 .. Len(a) \/ i = Len(a) + 1
  OBVIOUS
<1>4. Len(a) + 1 \in 1 .. Len(a) + 1 /\ \A i \in 1 .. Len(a) : i \in 1 .. Len(a) + 1
  OBVIOUS
<1>5. ToSet(b) \subseteq ToSet(a) \cup {x}
  BY <1>1, <1>2, <1>3 DEF ToSet
<1>6. ToSet(a) \cup {x} \subseteq ToSet(b)
  BY <1>1, <1>2, <1>4 DEF ToSet
<1> QED
  BY <1>5, <1>6 DEF b

LEMMA FlattenElems ==
  ASSUME NEW S, NEW ss \in Seq(Seq(S))
  PROVE  ToSet(FlattenSeq(ss)) = UNION {ToSet(ss[i]) : i \in 1 .. Len(ss)}
<1> DEFINE B(n) == SubSeq(ss, 1, n)
           U(n) == UNION {ToSet(ss[i]) : i \in 1 .. n}
           P(n) == ToSet(FlattenSeq(B(n))) = U(n)
           T == {n \in 0 .. Len(ss) : ~P(n)}
<1>1. P(0)
  <2>1. B(0) = <<>> /\ U(0) = {} /\ ToSet(<<>>) = {}
    BY DEF ToSet
  <2> QED
    BY <2>1, FlattenNone
<1>2. ASSUME NEW n \in 0 .. Len(ss), n # 0, P(n - 1) PROVE P(n)
  <2>1. B(n - 1) \in Seq(Seq(S)) /\ ss[n] \in Seq(S) /\ B(n) = Append(B(n - 1), ss[n])
    <3>1. n \in 1 .. Len(ss)
      BY <1>2
    <3> QED
      BY <3>1, PrefixStep
  <2>2. U(n) = U(n - 1) \cup ToSet(ss[n])
    <3>1. \A i : i \in 1 .. n <=> i \in 1 .. n - 1 \/ i = n
      BY <1>2
    <3> QED
      BY <3>1
  <2> HIDE DEF U, B
  <2>3. FlattenSeq(B(n)) = FlattenSeq(B(n - 1)) \o ss[n]
    BY <2>1, FlattenAppend
  <2>4. FlattenSeq(B(n - 1)) \in Seq(S)
    BY <2>1, FlattenType
  <2>5. ToSet(FlattenSeq(B(n - 1)) \o ss[n]) = ToSet(FlattenSeq(B(n - 1))) \cup ToSet(ss[n])
    BY <2>1, <2>4, ToSetJoin
  <2> QED
    BY <1>2, <2>2, <2>3, <2>5
<1> HIDE DEF P
<1>3. T = {}
  <2> SUFFICES ASSUME T # {} PROVE FALSE
    OBVIOUS
  <2>1. T \subseteq Nat
    OBVIOUS
  <2>2. PICK n \in T : \A k \in T : n <= k
    BY <2>1, Least, Zenon
  <2>3. n \in 0 .. Len(ss) /\ n # 0 /\ ~P(n)
    BY <1>1
  <2>4. n - 1 \in 0 .. Len(ss) /\ n - 1 \notin T
    BY <2>2, <2>3
  <2> QED
    BY <1>2, <2>3, <2>4
<1>4. P(Len(ss))
  BY <1>3
<1>5. B(Len(ss)) = ss
  OBVIOUS
<1> QED
  BY <1>4, <1>5 DEF P

-----------------------------------------------------------------------------
(* The commands of a sequence that a set holds. *)

LEMMA KeptType == ASSUME NEW S, NEW s \in Seq(S), NEW D PROVE Kept(s, D) \in Seq(S)
<1> DEFINE ss == [i \in 1 .. Len(s) |-> IF s[i] \in D THEN <<s[i]>> ELSE <<>>]
<1>1. ss \in Seq(Seq(S))
  <2>1. \A i \in 1 .. Len(s) : ss[i] \in Seq(S)
    OBVIOUS
  <2> QED
    BY <2>1
<1> HIDE DEF ss
<1>2. FlattenSeq(ss) \in Seq(S)
  BY <1>1, FlattenType
<1> QED
  BY <1>2 DEF Kept, ss

LEMMA KeptJoin ==
  ASSUME NEW S, NEW a \in Seq(S), NEW b \in Seq(S), NEW D
  PROVE  Kept(a \o b, D) = Kept(a, D) \o Kept(b, D)
<1> DEFINE q == a \o b
           ss == [i \in 1 .. Len(q) |-> IF q[i] \in D THEN <<q[i]>> ELSE <<>>]
           aa == [i \in 1 .. Len(a) |-> IF a[i] \in D THEN <<a[i]>> ELSE <<>>]
           bb == [i \in 1 .. Len(b) |-> IF b[i] \in D THEN <<b[i]>> ELSE <<>>]
<1>1. /\ q \in Seq(S) /\ Len(q) = Len(a) + Len(b)
      /\ \A i \in 1 .. Len(a) + Len(b) : q[i] = IF i <= Len(a) THEN a[i] ELSE b[i - Len(a)]
  BY JoinIs
<1> HIDE DEF q
<1>2. /\ aa \in Seq(Seq(S)) /\ Len(aa) = Len(a)
      /\ \A i \in 1 .. Len(a) : aa[i] = IF a[i] \in D THEN <<a[i]>> ELSE <<>>
  <2>1. \A i \in 1 .. Len(a) : aa[i] \in Seq(S)
    OBVIOUS
  <2> QED
    BY <2>1
<1>3. /\ bb \in Seq(Seq(S)) /\ Len(bb) = Len(b)
      /\ \A i \in 1 .. Len(b) : bb[i] = IF b[i] \in D THEN <<b[i]>> ELSE <<>>
  <2>1. \A i \in 1 .. Len(b) : bb[i] \in Seq(S)
    OBVIOUS
  <2> QED
    BY <2>1
<1>4. ss \in Seq(Seq(S)) /\ Len(ss) = Len(a) + Len(b)
  <2>1. \A i \in 1 .. Len(q) : q[i] \in S
    BY <1>1
  <2>2. \A i \in 1 .. Len(q) : ss[i] \in Seq(S)
    BY <2>1
  <2> QED
    BY <1>1, <2>2
<1> HIDE DEF aa, bb
<1>5. /\ aa \o bb \in Seq(Seq(S)) /\ Len(aa \o bb) = Len(a) + Len(b)
      /\ \A i \in 1 .. Len(a) + Len(b) : (aa \o bb)[i] = IF i <= Len(a) THEN aa[i] ELSE bb[i - Len(a)]
  <2> DEFINE T == Seq(S)
  <2>0. aa \in Seq(T) /\ bb \in Seq(T)
    BY <1>2, <1>3
  <2> HIDE DEF T
  <2>1. /\ aa \o bb \in Seq(T) /\ Len(aa \o bb) = Len(aa) + Len(bb)
        /\ \A i \in 1 .. Len(aa) + Len(bb) : (aa \o bb)[i] = IF i <= Len(aa) THEN aa[i] ELSE bb[i - Len(aa)]
    BY <2>0, JoinIs
  <2> QED
    BY <1>2, <1>3, <2>1, Zenon DEF T
<1>6. ASSUME NEW i \in 1 .. Len(a) + Len(b) PROVE ss[i] = (aa \o bb)[i]
  <2>0. ss[i] = IF q[i] \in D THEN <<q[i]>> ELSE <<>>
    BY <1>1
  <2> HIDE DEF ss
  <2>1. CASE i <= Len(a)
    <3>1. i \in 1 .. Len(a) /\ q[i] = a[i]
      BY <1>1, <2>1
    <3>2. (aa \o bb)[i] = aa[i]
      BY <1>5, <2>1
    <3> QED
      BY <1>2, <2>0, <3>1, <3>2
  <2>2. CASE ~(i <= Len(a))
    <3>1. i - Len(a) \in 1 .. Len(b) /\ q[i] = b[i - Len(a)]
      BY <1>1, <2>2
    <3>2. (aa \o bb)[i] = bb[i - Len(a)]
      BY <1>5, <2>2
    <3> QED
      BY <1>3, <2>0, <3>1, <3>2
  <2> QED
    BY <2>1, <2>2
<1> HIDE DEF ss
<1>7. ss = aa \o bb
  BY <1>4, <1>5, <1>6, SameSeq
<1>8. FlattenSeq(aa \o bb) = FlattenSeq(aa) \o FlattenSeq(bb)
  BY <1>2, <1>3, FlattenJoin
<1>9. Kept(q, D) = FlattenSeq(ss)
  BY DEF Kept, ss
<1>10. Kept(a, D) = FlattenSeq(aa) /\ Kept(b, D) = FlattenSeq(bb)
  BY DEF Kept, aa, bb
<1> QED
  BY <1>7, <1>8, <1>9, <1>10 DEF q

LEMMA KeptAll ==
  ASSUME NEW S, NEW a \in Seq(S), NEW D, \A i \in 1 .. Len(a) : a[i] \in D PROVE Kept(a, D) = a
<1> DEFINE aa == [i \in 1 .. Len(a) |-> IF a[i] \in D THEN <<a[i]>> ELSE <<>>]
<1>1. aa \in Seq(Seq(S)) /\ Len(aa) = Len(a) /\ \A i \in 1 .. Len(a) : aa[i] = <<a[i]>>
  <2>1. \A i \in 1 .. Len(a) : aa[i] \in Seq(S) /\ aa[i] = <<a[i]>>
    OBVIOUS
  <2> QED
    BY <2>1
<1> HIDE DEF aa
<1>2. FlattenSeq(aa) = a
  BY <1>1, FlattenSingles
<1> QED
  BY <1>2 DEF Kept, aa

LEMMA KeptNone ==
  ASSUME NEW S, NEW a \in Seq(S), NEW D, \A i \in 1 .. Len(a) : a[i] \notin D PROVE Kept(a, D) = <<>>
<1> DEFINE aa == [i \in 1 .. Len(a) |-> IF a[i] \in D THEN <<a[i]>> ELSE <<>>]
<1>1. aa \in Seq(Seq(S)) /\ Len(aa) = Len(a) /\ \A i \in 1 .. Len(aa) : aa[i] = <<>>
  <2>1. \A i \in 1 .. Len(a) : aa[i] \in Seq(S) /\ aa[i] = <<>>
    OBVIOUS
  <2> QED
    BY <2>1
<1> HIDE DEF aa
<1>2. FlattenSeq(aa) = <<>>
  BY <1>1, FlattenEmpties
<1> QED
  BY <1>2 DEF Kept, aa

LEMMA KeptIs ==
  ASSUME NEW S, NEW a \in Seq(S), NEW b \in Seq(S), NEW D,
         \A i \in 1 .. Len(a) : a[i] \in D, \A i \in 1 .. Len(b) : b[i] \notin D
  PROVE  Kept(a \o b, D) = a
<1>1. Kept(a \o b, D) = Kept(a, D) \o Kept(b, D)
  BY KeptJoin
<1>2. Kept(a, D) = a /\ Kept(b, D) = <<>>
  BY KeptAll, KeptNone
<1> QED
  BY <1>1, <1>2, JoinEmpty

\* e is d without the sequences that have no element in D.
Drops(d, e, D) ==
  /\ Len(e) = Len(d)
  /\ \A i \in 1 .. Len(d) : \/ e[i] = d[i] /\ \A k \in 1 .. Len(d[i]) : d[i][k] \in D
                            \/ e[i] = <<>> /\ \A k \in 1 .. Len(d[i]) : d[i][k] \notin D

LEMMA KeptFlatten ==
  ASSUME NEW S, NEW d \in Seq(Seq(S)), NEW e \in Seq(Seq(S)), NEW D, Drops(d, e, D)
  PROVE  Kept(FlattenSeq(d), D) = FlattenSeq(e)
<1>0. /\ Len(e) = Len(d)
      /\ \A i \in 1 .. Len(d) : \/ e[i] = d[i] /\ \A k \in 1 .. Len(d[i]) : d[i][k] \in D
                                \/ e[i] = <<>> /\ \A k \in 1 .. Len(d[i]) : d[i][k] \notin D
  BY DEF Drops
<1> DEFINE A(n) == SubSeq(d, 1, n)
           B(n) == SubSeq(e, 1, n)
           P(n) == Kept(FlattenSeq(A(n)), D) = FlattenSeq(B(n))
           T == {n \in 0 .. Len(d) : ~P(n)}
<1>1. P(0)
  <2>1. A(0) = <<>> /\ B(0) = <<>> /\ <<>> \in Seq(S)
    OBVIOUS
  <2>2. Kept(<<>>, D) = <<>>
    <3> DEFINE z == <<>>
    <3>1. z \in Seq(S) /\ \A i \in 1 .. Len(z) : z[i] \notin D
      OBVIOUS
    <3> HIDE DEF z
    <3>2. Kept(z, D) = <<>>
      BY <3>1, KeptNone
    <3> QED
      BY <3>2 DEF z
  <2> QED
    BY <2>1, <2>2, FlattenNone
<1>2. ASSUME NEW n \in 0 .. Len(d), n # 0, P(n - 1) PROVE P(n)
  <2>0. n \in 1 .. Len(d) /\ n \in 1 .. Len(e)
    BY <1>0, <1>2
  <2>1. A(n - 1) \in Seq(Seq(S)) /\ d[n] \in Seq(S) /\ A(n) = Append(A(n - 1), d[n])
    BY <2>0, PrefixStep
  <2>2. B(n - 1) \in Seq(Seq(S)) /\ e[n] \in Seq(S) /\ B(n) = Append(B(n - 1), e[n])
    BY <2>0, PrefixStep
  <2>3. Kept(d[n], D) = e[n]
    <3>1. CASE e[n] = d[n] /\ \A k \in 1 .. Len(d[n]) : d[n][k] \in D
      BY <2>1, <3>1, KeptAll
    <3>2. CASE e[n] = <<>> /\ \A k \in 1 .. Len(d[n]) : d[n][k] \notin D
      BY <2>1, <3>2, KeptNone
    <3> QED
      BY <1>0, <2>0, <3>1, <3>2
  <2> HIDE DEF A, B
  <2>4. FlattenSeq(A(n)) = FlattenSeq(A(n - 1)) \o d[n] /\ FlattenSeq(B(n)) = FlattenSeq(B(n - 1)) \o e[n]
    BY <2>1, <2>2, FlattenAppend
  <2>5. FlattenSeq(A(n - 1)) \in Seq(S)
    BY <2>1, FlattenType
  <2>6. Kept(FlattenSeq(A(n - 1)) \o d[n], D) = Kept(FlattenSeq(A(n - 1)), D) \o Kept(d[n], D)
    <3> DEFINE p == FlattenSeq(A(n - 1))
               q == d[n]
    <3>1. p \in Seq(S) /\ q \in Seq(S)
      BY <2>1, <2>5
    <3> HIDE DEF p, q
    <3>2. Kept(p \o q, D) = Kept(p, D) \o Kept(q, D)
      BY <3>1, KeptJoin
    <3> QED
      BY <3>2 DEF p, q
  <2> QED
    BY <1>2, <2>3, <2>4, <2>6
<1> HIDE DEF P
<1>3. T = {}
  <2> SUFFICES ASSUME T # {} PROVE FALSE
    OBVIOUS
  <2>1. T \subseteq Nat
    OBVIOUS
  <2>2. PICK n \in T : \A k \in T : n <= k
    BY <2>1, Least, Zenon
  <2>3. n \in 0 .. Len(d) /\ n # 0 /\ ~P(n)
    BY <1>1
  <2>4. n - 1 \in 0 .. Len(d) /\ n - 1 \notin T
    BY <2>2, <2>3
  <2> QED
    BY <1>2, <2>3, <2>4
<1>4. P(Len(d))
  BY <1>3
<1>5. A(Len(d)) = d /\ B(Len(d)) = e
  BY <1>0
<1> QED
  BY <1>4, <1>5 DEF P

-----------------------------------------------------------------------------
(* The files from the oldest to the newest. *)

Cmds == 1 .. MaxCommands

AgeOf(d, c) == SubSeq(d, c + 1, MaxFiles) \o SubSeq(d, 1, c)

LEMMA NextIdxIs == ASSUME cur \in Files PROVE NextIdx = (IF cur = MaxFiles THEN 1 ELSE cur + 1) /\ NextIdx \in Files
<1> USE FilesAssumption DEF NextIdx, Files
<1>1. CASE cur = MaxFiles
  BY <1>1
<1>2. CASE cur # MaxFiles
  BY <1>2
<1> QED
  BY <1>1, <1>2

LEMMA DiskSeq == ASSUME NEW d \in [Files -> Seq(Cmds)] PROVE d \in Seq(Seq(Cmds)) /\ Len(d) = MaxFiles
BY FilesAssumption DEF Files

LEMMA AgeIs ==
  ASSUME NEW d \in [Files -> Seq(Cmds)], NEW c \in Files
  PROVE  /\ AgeOf(d, c) \in Seq(Seq(Cmds)) /\ Len(AgeOf(d, c)) = MaxFiles
         /\ \A i \in Files : AgeOf(d, c)[i] = IF i <= MaxFiles - c THEN d[c + i] ELSE d[i - (MaxFiles - c)]
<1> DEFINE a == SubSeq(d, c + 1, MaxFiles)
           b == SubSeq(d, 1, c)
<1> USE FilesAssumption
<1>1. d \in Seq(Seq(Cmds)) /\ Len(d) = MaxFiles /\ c \in 1 .. MaxFiles /\ MaxFiles \in Nat
  BY DiskSeq DEF Files
<1>2. a \in Seq(Seq(Cmds)) /\ Len(a) = MaxFiles - c /\ \A i \in 1 .. MaxFiles - c : a[i] = d[c + i]
  BY <1>1, PieceIs
<1>3. b \in Seq(Seq(Cmds)) /\ Len(b) = c /\ \A i \in 1 .. c : b[i] = d[i]
  BY <1>1, PieceIs
<1> HIDE DEF a, b
<1> DEFINE q == a \o b
<1>4. /\ q \in Seq(Seq(Cmds)) /\ Len(q) = Len(a) + Len(b)
      /\ \A i \in 1 .. Len(a) + Len(b) : q[i] = IF i <= Len(a) THEN a[i] ELSE b[i - Len(a)]
  BY <1>2, <1>3, JoinIs
<1>5. AgeOf(d, c) = q
  BY DEF AgeOf, a, b
<1> HIDE DEF q
<1>6. Len(a) + Len(b) = MaxFiles
  BY <1>1, <1>2, <1>3
<1>7. ASSUME NEW i \in Files PROVE q[i] = IF i <= MaxFiles - c THEN d[c + i] ELSE d[i - (MaxFiles - c)]
  <2>1. i \in 1 .. Len(a) + Len(b)
    BY <1>6 DEF Files
  <2>2. CASE i <= MaxFiles - c
    <3>1. i \in 1 .. MaxFiles - c
      BY <1>1, <2>2 DEF Files
    <3>2. q[i] = a[i]
      BY <1>2, <1>4, <2>1, <2>2
    <3> QED
      BY <1>2, <2>2, <3>1, <3>2
  <2>3. CASE ~(i <= MaxFiles - c)
    <3>1. i - (MaxFiles - c) \in 1 .. c
      BY <1>1, <2>3 DEF Files
    <3>2. q[i] = b[i - (MaxFiles - c)]
      BY <1>2, <1>4, <2>1, <2>3
    <3> QED
      BY <1>3, <2>3, <3>1, <3>2
  <2> QED
    BY <2>2, <2>3
<1> QED
  BY <1>4, <1>5, <1>6, <1>7

LEMMA AgeType ==
  ASSUME NEW d \in [Files -> Seq(Cmds)], NEW c \in Files PROVE FlattenSeq(AgeOf(d, c)) \in Seq(Cmds)
BY AgeIs, FlattenType

\* What is written to the current file comes last.
Appends(d, c, x) ==
  /\ [d EXCEPT ![c] = @ \o x] \in [Files -> Seq(Cmds)]
  /\ FlattenSeq(AgeOf([d EXCEPT ![c] = @ \o x], c)) = FlattenSeq(AgeOf(d, c)) \o x

LEMMA AgeAppend ==
  ASSUME NEW d \in [Files -> Seq(Cmds)], NEW c \in Files, NEW x \in Seq(Cmds)
  PROVE  Appends(d, c, x)
<1> USE FilesAssumption
<1> DEFINE e == [d EXCEPT ![c] = @ \o x]
           A == AgeOf(d, c)
           B == AgeOf(e, c)
           P == SubSeq(A, 1, MaxFiles - 1)
<1>1. e \in [Files -> Seq(Cmds)] /\ e[c] = d[c] \o x /\ d[c] \in Seq(Cmds) /\ \A i \in Files : i # c => e[i] = d[i]
  OBVIOUS
<1> HIDE DEF e
<1>2. /\ A \in Seq(Seq(Cmds)) /\ Len(A) = MaxFiles
      /\ \A i \in Files : A[i] = IF i <= MaxFiles - c THEN d[c + i] ELSE d[i - (MaxFiles - c)]
  BY AgeIs
<1>3. /\ B \in Seq(Seq(Cmds)) /\ Len(B) = MaxFiles
      /\ \A i \in Files : B[i] = IF i <= MaxFiles - c THEN e[c + i] ELSE e[i - (MaxFiles - c)]
  BY <1>1, AgeIs
<1> HIDE DEF A, B
<1>4. MaxFiles \in Files /\ c \in 1 .. MaxFiles /\ MaxFiles \in Nat \ {0} /\ ~(MaxFiles <= MaxFiles - c) /\ MaxFiles - (MaxFiles - c) = c
  BY DEF Files
<1>5. A[MaxFiles] = d[c] /\ B[MaxFiles] = e[c]
  BY <1>2, <1>3, <1>4
<1>6. ASSUME NEW i \in 1 .. MaxFiles - 1 PROVE A[i] = B[i]
  <2>1. i \in Files
    BY <1>4 DEF Files
  <2>2. CASE i <= MaxFiles - c
    <3>1. c + i \in Files /\ c + i # c
      BY <1>4, <2>1, <2>2 DEF Files
    <3> QED
      BY <1>1, <1>2, <1>3, <2>1, <2>2, <3>1
  <2>3. CASE ~(i <= MaxFiles - c)
    <3>1. i - (MaxFiles - c) \in Files /\ i - (MaxFiles - c) # c
      BY <1>4, <2>1, <2>3 DEF Files
    <3> QED
      BY <1>1, <1>2, <1>3, <2>1, <2>3, <3>1
  <2> QED
    BY <2>2, <2>3
<1>7. P \in Seq(Seq(Cmds)) /\ Len(P) = MaxFiles - 1 /\ \A i \in 1 .. MaxFiles - 1 : P[i] = A[i]
  BY <1>2, <1>4, PieceIs
<1> HIDE DEF P
<1>11. d[c] \o x \in Seq(Cmds)
  BY <1>1
<1>8. A = Append(P, d[c])
  <2>1. Len(A) = Len(P) + 1 /\ (\A i \in 1 .. Len(P) : A[i] = P[i]) /\ A[Len(A)] = d[c]
    BY <1>2, <1>4, <1>5, <1>7
  <2> QED
    BY <1>1, <1>2, <1>7, <2>1, AppendIs
<1>9. B = Append(P, d[c] \o x)
  <2>1. Len(B) = Len(P) + 1 /\ (\A i \in 1 .. Len(P) : B[i] = P[i]) /\ B[Len(B)] = d[c] \o x
    <3>1. Len(B) = Len(P) + 1 /\ Len(P) = MaxFiles - 1 /\ Len(B) = MaxFiles
      BY <1>1, <1>3, <1>7
    <3>2. B[Len(B)] = d[c] \o x
      BY <1>1, <1>5, <3>1
    <3>3. \A i \in 1 .. Len(P) : B[i] = P[i]
      BY <1>3, <1>4, <1>6, <1>7, <3>1
    <3> QED
      BY <3>1, <3>2, <3>3
  <2> DEFINE S == Seq(Cmds)
             y == d[c] \o x
  <2>2. B \in Seq(S) /\ P \in Seq(S) /\ y \in S
    BY <1>3, <1>7, <1>11
  <2>3. Len(B) = Len(P) + 1 /\ (\A i \in 1 .. Len(P) : B[i] = P[i]) /\ B[Len(B)] = y
    BY <2>1
  <2> HIDE DEF S, y
  <2>4. B = Append(P, y)
    BY <2>2, <2>3, AppendIs
  <2> QED
    BY <2>4 DEF y
<1>10. FlattenSeq(A) = FlattenSeq(P) \o d[c]
  BY <1>1, <1>7, <1>8, FlattenAppend
<1>12. FlattenSeq(B) = FlattenSeq(P) \o (d[c] \o x)
  BY <1>7, <1>9, <1>11, FlattenAppend
<1> DEFINE u == FlattenSeq(P)
           v == d[c]
<1>13. u \in Seq(Cmds) /\ v \in Seq(Cmds)
  BY <1>1, <1>7, FlattenType
<1> HIDE DEF u, v
<1>14. u \o (v \o x) = (u \o v) \o x
  BY <1>13
<1> QED
  <2>1. e \in [Files -> Seq(Cmds)] /\ FlattenSeq(B) = FlattenSeq(A) \o x
    BY <1>1, <1>10, <1>12, <1>14 DEF u, v
  <2> QED
    BY <2>1, Zenon DEF A, B, e, Appends

\* A rotation empties the oldest file, which is then the newest.
Rotates(d, c, n) ==
  /\ n \in Files /\ [d EXCEPT ![n] = <<>>] \in [Files -> Seq(Cmds)]
  /\ FlattenSeq(AgeOf(d, c)) = d[n] \o FlattenSeq(AgeOf([d EXCEPT ![n] = <<>>], n))

LEMMA AgeRotate ==
  ASSUME NEW d \in [Files -> Seq(Cmds)], NEW c \in Files, NEW n, n = IF c = MaxFiles THEN 1 ELSE c + 1
  PROVE  Rotates(d, c, n)
<1> USE FilesAssumption
<1>0. n \in Files
  BY DEF Files
<1> DEFINE e == [d EXCEPT ![n] = <<>>]
           A == AgeOf(d, c)
           B == AgeOf(e, n)
           R == SubSeq(A, 2, MaxFiles)
<1>1. e \in [Files -> Seq(Cmds)] /\ e[n] = <<>> /\ d[n] \in Seq(Cmds) /\ \A i \in Files : i # n => e[i] = d[i]
  BY <1>0
<1> HIDE DEF e
<1>2. /\ A \in Seq(Seq(Cmds)) /\ Len(A) = MaxFiles
      /\ \A i \in Files : A[i] = IF i <= MaxFiles - c THEN d[c + i] ELSE d[i - (MaxFiles - c)]
  BY AgeIs
<1>3. /\ B \in Seq(Seq(Cmds)) /\ Len(B) = MaxFiles
      /\ \A i \in Files : B[i] = IF i <= MaxFiles - n THEN e[n + i] ELSE e[i - (MaxFiles - n)]
  BY <1>0, <1>1, AgeIs
<1> HIDE DEF A, B
<1>4. MaxFiles \in Nat \ {0} /\ c \in 1 .. MaxFiles /\ n \in 1 .. MaxFiles /\ 1 \in Files /\ MaxFiles \in Files
  BY <1>0 DEF Files
<1>5. A[1] = d[n]
  <2>1. CASE c = MaxFiles
    <3>1. ~(1 <= MaxFiles - c) /\ 1 - (MaxFiles - c) = n
      BY <1>4, <2>1
    <3> QED
      BY <1>2, <1>4, <3>1
  <2>2. CASE c # MaxFiles
    <3>1. 1 <= MaxFiles - c /\ c + 1 = n
      BY <1>4, <2>2
    <3> QED
      BY <1>2, <1>4, <3>1
  <2> QED
    BY <2>1, <2>2
<1>6. B[MaxFiles] = <<>>
  <2>1. ~(MaxFiles <= MaxFiles - n) /\ MaxFiles - (MaxFiles - n) = n
    BY <1>4
  <2> QED
    BY <1>1, <1>3, <1>4, <2>1
<1>7. ASSUME NEW i \in 1 .. MaxFiles - 1 PROVE B[i] = A[i + 1]
  <2>1. i \in Files /\ i + 1 \in Files
    BY <1>4 DEF Files
  <2>2. CASE i <= MaxFiles - n
    <3>1. n + i \in Files /\ n + i # n
      BY <1>4, <2>1, <2>2 DEF Files
    <3>2. B[i] = d[n + i]
      BY <1>1, <1>3, <2>1, <2>2, <3>1
    <3>3. CASE c = MaxFiles
      <4>1. ~(i + 1 <= MaxFiles - c) /\ (i + 1) - (MaxFiles - c) = n + i
        BY <1>4, <2>1, <3>3
      <4> QED
        BY <1>2, <2>1, <3>2, <4>1
    <3>4. CASE c # MaxFiles
      <4>1. i + 1 <= MaxFiles - c /\ c + (i + 1) = n + i
        BY <1>4, <2>1, <2>2, <3>4
      <4> QED
        BY <1>2, <2>1, <3>2, <4>1
    <3> QED
      BY <3>3, <3>4
  <2>3. CASE ~(i <= MaxFiles - n)
    <3>1. c # MaxFiles /\ n = c + 1
      BY <1>4, <2>3
    <3>2. i - (MaxFiles - n) \in Files /\ i - (MaxFiles - n) # n
      BY <1>4, <2>1, <2>3 DEF Files
    <3>3. B[i] = d[i - (MaxFiles - n)]
      BY <1>1, <1>3, <2>1, <2>3, <3>2
    <3>4. ~(i + 1 <= MaxFiles - c) /\ (i + 1) - (MaxFiles - c) = i - (MaxFiles - n)
      BY <1>4, <2>1, <2>3, <3>1
    <3> QED
      BY <1>2, <2>1, <3>3, <3>4
  <2> QED
    BY <2>2, <2>3
<1>8. R \in Seq(Seq(Cmds)) /\ Len(R) = MaxFiles - 1 /\ \A i \in 1 .. MaxFiles - 1 : R[i] = A[i + 1]
  <2>1. 2 \in 1 .. Len(A) + 1 /\ MaxFiles \in 2 - 1 .. Len(A)
    BY <1>2, <1>4
  <2>2. R \in Seq(Seq(Cmds)) /\ Len(R) = MaxFiles - 2 + 1 /\ \A i \in 1 .. MaxFiles - 2 + 1 : R[i] = A[2 + i - 1]
    BY <1>2, <2>1, PieceIs
  <2> HIDE DEF R
  <2> QED
    BY <1>4, <2>2
<1> HIDE DEF R
<1>9. A = <<d[n]>> \o R
  BY <1>1, <1>2, <1>4, <1>5, <1>8
<1>10. B = Append(R, <<>>)
  <2>1. Len(B) = Len(R) + 1 /\ (\A i \in 1 .. Len(R) : B[i] = R[i]) /\ B[Len(B)] = <<>> /\ <<>> \in Seq(Cmds)
    <3>1. Len(B) = Len(R) + 1 /\ Len(R) = MaxFiles - 1 /\ Len(B) = MaxFiles
      BY <1>3, <1>4, <1>8
    <3>2. \A i \in 1 .. MaxFiles - 1 : B[i] = R[i]
      BY <1>7, <1>8
    <3>3. <<>> \in Seq(Cmds)
      OBVIOUS
    <3> QED
      BY <1>6, <3>1, <3>2, <3>3, Zenon
  <2> DEFINE S == Seq(Cmds)
             x == <<>>
  <2>2. B \in Seq(S) /\ R \in Seq(S) /\ x \in S
    BY <1>3, <1>8, <2>1
  <2>3. Len(B) = Len(R) + 1 /\ (\A i \in 1 .. Len(R) : B[i] = R[i]) /\ B[Len(B)] = x
    BY <2>1
  <2> HIDE DEF S, x
  <2>4. B = Append(R, x)
    BY <2>2, <2>3, AppendIs
  <2> QED
    BY <2>4 DEF x
<1>11. <<d[n]>> \in Seq(Seq(Cmds)) /\ <<>> \in Seq(Cmds)
  BY <1>1
<1>12. FlattenSeq(A) = FlattenSeq(<<d[n]>>) \o FlattenSeq(R)
  BY <1>8, <1>9, <1>11, FlattenJoin
<1>13. FlattenSeq(<<d[n]>>) = d[n]
  BY <1>1, FlattenOne
<1>14. FlattenSeq(B) = FlattenSeq(R) \o <<>>
  BY <1>8, <1>10, <1>11, FlattenAppend
<1>15. FlattenSeq(R) \in Seq(Cmds)
  BY <1>8, FlattenType
<1>16. FlattenSeq(R) \o <<>> = FlattenSeq(R)
  BY <1>15, JoinEmpty
<1> QED
  BY <1>0, <1>1, <1>12, <1>13, <1>14, <1>16 DEF A, B, e, Rotates

\* When the files after the current one are empty, the order of the indices is
\* the order of age.
LEMMA AgeIndex ==
  ASSUME NEW d \in [Files -> Seq(Cmds)], NEW c \in Files, \A f \in Files : f > c => d[f] = <<>>
  PROVE  FlattenSeq(AgeOf(d, c)) = FlattenSeq(d)
<1> USE FilesAssumption
<1> DEFINE a == SubSeq(d, c + 1, MaxFiles)
           b == SubSeq(d, 1, c)
<1>1. d \in Seq(Seq(Cmds)) /\ Len(d) = MaxFiles /\ c \in 1 .. MaxFiles /\ MaxFiles \in Nat
  BY DiskSeq DEF Files
<1>2. a \in Seq(Seq(Cmds)) /\ Len(a) = MaxFiles - c /\ \A i \in 1 .. MaxFiles - c : a[i] = d[c + i]
  BY <1>1, PieceIs
<1>3. b \in Seq(Seq(Cmds)) /\ Len(b) = c /\ \A i \in 1 .. c : b[i] = d[i]
  BY <1>1, PieceIs
<1>4. d = b \o a
  BY <1>1
<1>5. AgeOf(d, c) = a \o b
  BY DEF AgeOf
<1> HIDE DEF a, b
<1>6. \A i \in 1 .. Len(a) : a[i] = <<>>
  <2> SUFFICES ASSUME NEW i \in 1 .. Len(a) PROVE a[i] = <<>>
    OBVIOUS
  <2>1. i \in 1 .. MaxFiles - c /\ c + i \in Files /\ c + i > c
    BY <1>1, <1>2 DEF Files
  <2> QED
    BY <1>2, <2>1
<1>7. FlattenSeq(a) = <<>>
  BY <1>2, <1>6, FlattenEmpties
<1>8. FlattenSeq(a \o b) = FlattenSeq(a) \o FlattenSeq(b) /\ FlattenSeq(b \o a) = FlattenSeq(b) \o FlattenSeq(a)
  BY <1>2, <1>3, FlattenJoin
<1>9. FlattenSeq(b) \in Seq(Cmds)
  BY <1>3, FlattenType
<1>10. FlattenSeq(b) \o <<>> = FlattenSeq(b) /\ <<>> \o FlattenSeq(b) = FlattenSeq(b)
  BY <1>9, JoinEmpty
<1> QED
  BY <1>4, <1>5, <1>7, <1>8, <1>10

-----------------------------------------------------------------------------
(* The inductive invariant. *)

Distinct(s) == \A i, j \in 1 .. Len(s) : s[i] = s[j] => i = j

\* p is what is left of s after some of its first commands.
Ends(p, s) == \E n \in 0 .. Len(s) : s = SubSeq(s, 1, n) \o p

\* The thread that holds m_aof_mutex is the one between close() and open().
MutexInv == \A r \in Threads : rpc[r] = "open" <=> mutex = r

\* Where the flush thread and the process can be, whatever failed.
ThreadInv ==
  /\ (fpc = "rotate") <=> (rpc[Flusher] # "idle")
  /\ ppc \in {"boot", "up", "stopping"} /\ ~running => fpc = "off"
  /\ ppc = "flushing" => fpc = "exited"
  /\ fpc # "write" /\ ppc # "flushing" => hand = <<>>
  /\ ppc = "boot" => /\ ~running /\ ~open /\ mutex = NoOne /\ enabled
                     /\ stream = <<>> /\ hand = <<>> /\ buffer = <<>>

\* Without a failure and CONFIG SET: the flush thread runs until it is joined,
\* the stream is open unless a rotation has closed it, and once the destructor
\* has emptied the buffer it holds nothing but late commands.
HealthInv ==
  ~off => /\ ppc \in {"up", "stopping"} => running
          /\ ppc \notin {"boot", "down"} => ~bad /\ (mutex = NoOne => open)
          /\ ppc \in {"flushing", "closing", "down"} => fpc = "exited" /\ ToSet(buffer) \subseteq late
          /\ ppc = "down" => stream = <<>>

\* Which files exist and which hold commands.
FilesInv ==
  ~off => /\ \A f \in Files \ exists : disk[f] = <<>>
          /\ exists # {} => cur \in exists
          /\ exists = {} => ppc = "boot" /\ cur = 1
          /\ ~wrapped => exists = {} \/ exists = 1 .. cur
          /\ ppc = "boot" /\ crashes = 0 => exists = {} /\ ~wrapped

\* The commands, in their order.
LogInv ==
  ~off => /\ ~wrapped => /\ Pipeline = log
                         /\ Distinct(log) /\ \A i \in 1 .. Len(log) : log[i] < next
          /\ crashes = 0 => Ends(Pipeline, log)

IInv == TypeOK /\ MutexInv /\ ThreadInv /\ HealthInv /\ FilesInv /\ LogInv

-----------------------------------------------------------------------------
(* The pipeline. *)

USE DEF Serving

LEMMA EndsIs == ASSUME NEW S, NEW a \in Seq(S), NEW p \in Seq(S), NEW s, s = a \o p PROVE Ends(p, s)
<1>1. s \in Seq(S) /\ Len(a) \in 0 .. Len(s) /\ SubSeq(s, 1, Len(a)) = a
  OBVIOUS
<1> QED
  BY <1>1 DEF Ends

Completes(p, s, S) == \E a \in Seq(S) : s = a \o p

LEMMA EndsHas == ASSUME NEW S, NEW s \in Seq(S), NEW p, Ends(p, s) PROVE Completes(p, s, S)
<1>1. PICK n \in 0 .. Len(s) : s = SubSeq(s, 1, n) \o p
  BY DEF Ends
<1>2. SubSeq(s, 1, n) \in Seq(S)
  BY PieceIs
<1> QED
  BY <1>1, <1>2 DEF Completes

LEMMA EndsSuffix ==
  ASSUME NEW S, NEW s \in Seq(S), NEW p \in Seq(S), Ends(p, s) PROVE IsSuffix(p, s)
<1>1. PICK a \in Seq(S) : s = a \o p
  BY EndsHas DEF Completes
<1>2. /\ Len(s) = Len(a) + Len(p)
      /\ \A i \in 1 .. Len(a) + Len(p) : s[i] = IF i <= Len(a) THEN a[i] ELSE p[i - Len(a)]
  BY <1>1, JoinIs
<1> DEFINE rs == Reverse(s)
           rp == Reverse(p)
<1>3. /\ rs \in Seq(S) /\ Len(rs) = Len(s) /\ \A i \in 1 .. Len(s) : rs[i] = s[(Len(s) - i) + 1]
      /\ rp \in Seq(S) /\ Len(rp) = Len(p) /\ \A i \in 1 .. Len(p) : rp[i] = p[(Len(p) - i) + 1]
  BY DEF Reverse
<1> HIDE DEF rs, rp
<1>4. ASSUME NEW i \in 1 .. Len(p) PROVE rs[i] = rp[i]
  <2>1. /\ i \in 1 .. Len(s) /\ (Len(s) - i) + 1 \in 1 .. Len(a) + Len(p)
        /\ ~((Len(s) - i) + 1 <= Len(a)) /\ ((Len(s) - i) + 1) - Len(a) = (Len(p) - i) + 1
    BY <1>2
  <2>2. s[(Len(s) - i) + 1] = p[((Len(s) - i) + 1) - Len(a)]
    BY <1>2, <2>1
  <2> QED
    BY <1>3, <2>1, <2>2
<1> DEFINE x == SubSeq(rp, 1, Len(rp))
           y == SubSeq(rs, 1, Len(rp))
<1>5. Len(rp) <= Len(rs) /\ Len(p) \in Nat
  BY <1>2, <1>3
<1>6. /\ x \in Seq(S) /\ Len(x) = Len(p) /\ \A i \in 1 .. Len(p) : x[i] = rp[i]
      /\ y \in Seq(S) /\ Len(y) = Len(p) /\ \A i \in 1 .. Len(p) : y[i] = rs[i]
  BY <1>3, <1>5, PieceIs
<1> HIDE DEF x, y
<1>7. \A i \in 1 .. Len(x) : x[i] = y[i]
  BY <1>4, <1>6
<1>8. x = y
  BY <1>6, <1>7, SameSeq
<1> QED
  BY <1>5, <1>8 DEF IsSuffix, IsPrefix, x, y, rs, rp

LEMMA TypesHave ==
  ASSUME TypeOK
  PROVE  /\ disk \in [Files -> Seq(Cmds)] /\ cur \in Files /\ exists \subseteq Files
         /\ stream \in Seq(Cmds) /\ hand \in Seq(Cmds) /\ buffer \in Seq(Cmds)
         /\ log \in Seq(Cmds) /\ recovered \in Seq(Cmds)
         /\ ByAge \in Seq(Cmds) /\ Pipeline \in Seq(Cmds)
         /\ Pipeline = ByAge \o (stream \o (hand \o buffer)) /\ ByAge = FlattenSeq(AgeOf(disk, cur))
<1>1. /\ disk \in [Files -> Seq(Cmds)] /\ cur \in Files /\ exists \subseteq Files
      /\ stream \in Seq(Cmds) /\ hand \in Seq(Cmds) /\ buffer \in Seq(Cmds)
      /\ log \in Seq(Cmds) /\ recovered \in Seq(Cmds)
  BY DEF TypeOK, Cmds
<1>2. ByAge = FlattenSeq(AgeOf(disk, cur))
  BY DEF ByAge, AgeOf
<1>3. ByAge \in Seq(Cmds)
  BY <1>1, <1>2, AgeType
<1>4. Pipeline \in Seq(Cmds) /\ Pipeline = ByAge \o (stream \o (hand \o buffer))
  <2> DEFINE a == ByAge
  <2>1. a \in Seq(Cmds)
    BY <1>3
  <2> HIDE DEF a
  <2>2. FourAssociate(a, stream, hand, buffer, Cmds)
    BY <1>1, <2>1, JoinAssocFour, Zenon
  <2> QED
    BY <2>2, Zenon DEF Pipeline, a, FourAssociate
<1> QED
  BY <1>1, <1>2, <1>3, <1>4

\* A flush or close moves commands from the stream to the current file.
LEMMA FlushPipeline ==
  ASSUME TypeOK, disk' = Flushed, stream' = <<>>, UNCHANGED <<cur, hand, buffer>>
  PROVE  /\ Pipeline' = Pipeline /\ disk' \in [Files -> Seq(Cmds)]
         /\ \A f \in Files : f # cur => disk'[f] = disk[f]
<1>1. /\ disk \in [Files -> Seq(Cmds)] /\ cur \in Files /\ stream \in Seq(Cmds) /\ hand \in Seq(Cmds)
      /\ buffer \in Seq(Cmds) /\ ByAge \in Seq(Cmds) /\ ByAge = FlattenSeq(AgeOf(disk, cur))
  BY TypesHave
<1>2. disk' \in [Files -> Seq(Cmds)] /\ FlattenSeq(AgeOf(disk', cur)) = ByAge \o stream
  <2> DEFINE e == [disk EXCEPT ![cur] = @ \o stream]
  <2>1. e \in [Files -> Seq(Cmds)] /\ FlattenSeq(AgeOf(e, cur)) = FlattenSeq(AgeOf(disk, cur)) \o stream
    <3>1. Appends(disk, cur, stream)
      BY <1>1, AgeAppend, Zenon
    <3> QED
      BY <3>1, Zenon DEF Appends
  <2>2. disk' = e
    BY DEF Flushed
  <2> HIDE DEF e
  <2> QED
    BY <1>1, <2>1, <2>2
<1>3. ByAge' = ByAge \o stream
  BY <1>2 DEF ByAge, AgeOf
<1>4. ((ByAge \o stream) \o <<>>) \o hand \o buffer = ByAge \o stream \o hand \o buffer
  BY <1>1
<1>5. Pipeline' = Pipeline
  BY <1>3, <1>4 DEF Pipeline
<1>6. \A f \in Files : f # cur => disk'[f] = disk[f]
  BY <1>1 DEF Flushed
<1> QED
  BY <1>2, <1>5, <1>6

LEMMA SamePipeline ==
  ASSUME UNCHANGED <<disk, cur, stream, hand, buffer>> PROVE Pipeline' = Pipeline /\ ByAge' = ByAge
BY DEF Pipeline, ByAge

LEMMA LogKept ==
  ASSUME LogInv, off => off', wrapped => wrapped', ~off' => Pipeline' = Pipeline,
         UNCHANGED <<log, next, crashes>>
  PROVE  LogInv'
BY DEF LogInv, Distinct, Ends

\* The flush thread's or the destructor's write: nothing is lost by it while the
\* stream is good.
LEMMA WritePipeline ==
  ASSUME TypeOK, NEW m \in BOOLEAN, WriteHand(m), UNCHANGED <<cur, buffer>>
  PROVE  /\ disk' \in [Files -> Seq(Cmds)] /\ stream' \in Seq(Cmds) /\ hand' = <<>>
         /\ \A f \in Files : f # cur => disk'[f] = disk[f]
         /\ open /\ ~bad => Pipeline' = Pipeline
<1>1. /\ disk \in [Files -> Seq(Cmds)] /\ cur \in Files /\ stream \in Seq(Cmds) /\ hand \in Seq(Cmds)
      /\ buffer \in Seq(Cmds) /\ ByAge \in Seq(Cmds) /\ ByAge = FlattenSeq(AgeOf(disk, cur))
  BY TypesHave
<1> DEFINE data == IF open /\ ~bad THEN stream \o hand ELSE stream
           e == [disk EXCEPT ![cur] = @ \o data]
<1>2. data \in Seq(Cmds)
  BY <1>1
<1>3. /\ hand' = <<>>
      /\ \/ disk' = e /\ stream' = <<>>
         \/ stream' = data /\ disk' = disk
  BY DEF WriteHand
<1>4. open /\ ~bad => data = stream \o hand
  OBVIOUS
<1> HIDE DEF data
<1>5. CASE disk' = e /\ stream' = <<>>
  <2>1. e \in [Files -> Seq(Cmds)] /\ FlattenSeq(AgeOf(e, cur)) = FlattenSeq(AgeOf(disk, cur)) \o data
    <3>1. Appends(disk, cur, data)
      BY <1>1, <1>2, AgeAppend, Zenon
    <3> QED
      BY <3>1, Zenon DEF Appends
  <2>2. \A f \in Files : f # cur => e[f] = disk[f]
    BY <1>1
  <2> HIDE DEF e
  <2>3. ByAge' = ByAge \o data
    BY <1>1, <1>5, <2>1 DEF ByAge, AgeOf
  <2>4. ASSUME open, ~bad PROVE Pipeline' = Pipeline
    <3> DEFINE a == ByAge
    <3>1. a \in Seq(Cmds) /\ data = stream \o hand
      BY <1>1, <1>4, <2>4
    <3>2. Pipeline' = (a \o data) \o <<>> \o <<>> \o buffer /\ Pipeline = a \o stream \o hand \o buffer
      BY <1>3, <1>5, <2>3 DEF Pipeline
    <3> HIDE DEF a
    <3>3. Associates(a, stream, hand)
      BY <1>1, <3>1, JoinAssoc
    <3> DEFINE u == a \o data
    <3>4. u \in Seq(Cmds)
      BY <1>2, <3>1
    <3>5. u = a \o stream \o hand
      BY <3>1, <3>3 DEF Associates
    <3> HIDE DEF u
    <3>6. u \o <<>> \o <<>> = u
      BY <3>4
    <3> QED
      BY <3>2, <3>5, <3>6 DEF u
  <2> QED
    BY <1>3, <1>5, <2>1, <2>2, <2>4
<1>6. CASE stream' = data /\ disk' = disk
  <2>1. ByAge' = ByAge
    BY <1>6 DEF ByAge
  <2>2. ASSUME open, ~bad PROVE Pipeline' = Pipeline
    <3> DEFINE a == ByAge
    <3>1. a \in Seq(Cmds) /\ data = stream \o hand
      BY <1>1, <1>4, <2>2
    <3>2. Pipeline' = a \o data \o <<>> \o buffer /\ Pipeline = a \o stream \o hand \o buffer
      BY <1>3, <1>6, <2>1 DEF Pipeline
    <3> HIDE DEF a
    <3>3. Associates(a, stream, hand)
      BY <1>1, <3>1, JoinAssoc
    <3> DEFINE u == a \o data
    <3>4. u \in Seq(Cmds)
      BY <1>2, <3>1
    <3>5. u = a \o stream \o hand
      BY <3>1, <3>3 DEF Associates
    <3> HIDE DEF u
    <3>6. u \o <<>> = u
      BY <3>4
    <3> QED
      BY <3>2, <3>5, <3>6 DEF u
  <2> QED
    BY <1>1, <1>2, <1>3, <1>6, <2>2
<1> QED
  BY <1>3, <1>5, <1>6

\* A buffer that is taken into empty hands.
LEMMA TakePipeline ==
  ASSUME TypeOK, hand = <<>>, hand' = buffer, buffer' = <<>>, UNCHANGED <<disk, cur, stream>>
  PROVE  Pipeline' = Pipeline
<1> DEFINE a == ByAge \o stream
<1>1. ByAge \in Seq(Cmds) /\ stream \in Seq(Cmds) /\ buffer \in Seq(Cmds)
  BY TypesHave
<1>2. a \in Seq(Cmds)
  BY <1>1, JoinIs
<1>3. Pipeline = a \o <<>> \o buffer /\ Pipeline' = a \o buffer \o <<>>
  BY DEF Pipeline, ByAge
<1> HIDE DEF a
<1>4. a \o <<>> = a
  BY <1>2, JoinEmpty
<1> DEFINE u == a \o buffer
<1>5. u \in Seq(Cmds)
  BY <1>1, <1>2, JoinIs
<1> HIDE DEF u
<1>6. u \o <<>> = u
  BY <1>5, JoinEmpty
<1> QED
  BY <1>3, <1>4, <1>6 DEF u

LEMMA RotatePipeline ==
  ASSUME TypeOK, disk' = [disk EXCEPT ![NextIdx] = <<>>], cur' = NextIdx, UNCHANGED <<stream, hand, buffer>>
  PROVE  /\ disk' \in [Files -> Seq(Cmds)] /\ cur' \in Files
         /\ Pipeline = disk[NextIdx] \o Pipeline' /\ Pipeline' \in Seq(Cmds) /\ disk[NextIdx] \in Seq(Cmds)
<1>1. /\ disk \in [Files -> Seq(Cmds)] /\ cur \in Files /\ stream \in Seq(Cmds) /\ hand \in Seq(Cmds)
      /\ buffer \in Seq(Cmds) /\ ByAge \in Seq(Cmds) /\ ByAge = FlattenSeq(AgeOf(disk, cur))
      /\ Pipeline = ByAge \o (stream \o (hand \o buffer))
  BY TypesHave
<1> DEFINE n == NextIdx
           e == [disk EXCEPT ![n] = <<>>]
<1>2. n \in Files /\ n = IF cur = MaxFiles THEN 1 ELSE cur + 1
  BY <1>1, NextIdxIs
<1> HIDE DEF n
<1>3. /\ e \in [Files -> Seq(Cmds)]
      /\ FlattenSeq(AgeOf(disk, cur)) = disk[n] \o FlattenSeq(AgeOf(e, n))
  <2>1. disk \in [Files -> Seq(Cmds)] /\ cur \in Files
    BY <1>1
  <2>2. Rotates(disk, cur, n)
    BY <1>2, <2>1, AgeRotate
  <2> QED
    BY <2>2, Zenon DEF Rotates
<1>4. disk' = e /\ cur' = n
  BY DEF n
<1> HIDE DEF e
<1>5. ByAge' = FlattenSeq(AgeOf(e, n))
  BY <1>4 DEF ByAge, AgeOf
<1>6. FlattenSeq(AgeOf(e, n)) \in Seq(Cmds) /\ disk[n] \in Seq(Cmds)
  BY <1>1, <1>2, <1>3, AgeType
<1> DEFINE a == FlattenSeq(AgeOf(e, n))
           x == disk[n]
           t == stream \o (hand \o buffer)
<1>7. /\ a \in Seq(Cmds) /\ x \in Seq(Cmds) /\ ByAge = x \o a /\ ByAge' = a
  BY <1>1, <1>3, <1>5, <1>6
<1> HIDE DEF a, x
<1>8. t \in Seq(Cmds)
  BY <1>1
<1>9. Pipeline' = a \o t /\ a \o t \in Seq(Cmds)
  <2>0. a \in Seq(Cmds) /\ stream \in Seq(Cmds) /\ hand \in Seq(Cmds) /\ buffer \in Seq(Cmds)
    BY <1>1, <1>7
  <2>3. FourAssociate(a, stream, hand, buffer, Cmds)
    BY <2>0, JoinAssocFour, Zenon
  <2>1. a \o stream \o hand \o buffer = a \o t
    BY <2>3, Zenon DEF FourAssociate
  <2> HIDE DEF t
  <2>2. a \o t \in Seq(Cmds)
    BY <1>7, <1>8, JoinIs
  <2> QED
    BY <1>7, <2>1, <2>2 DEF Pipeline
<1>10. Pipeline = (x \o a) \o t
  BY <1>1, <1>7
<1> HIDE DEF t
<1>11. Associates(x, a, t)
  BY <1>7, <1>8, JoinAssoc
<1> QED
  BY <1>2, <1>3, <1>4, <1>6, <1>9, <1>10, <1>11 DEF Associates, x, n

-----------------------------------------------------------------------------
(* Every step keeps the invariant. *)

LEMMA Constants ==
  /\ MaxFiles \in Nat \ {0} /\ MaxCommands \in Nat /\ MaxCrashes \in Nat
  /\ Flusher \in Threads /\ NoOne \notin Threads /\ Rotators \subseteq Threads /\ Flusher \notin Rotators
BY FilesAssumption, ThreadsAssumption, BoundsAssumption DEF Threads

\* What a step must establish when AOF stays on.
LEMMA FilesKept ==
  ASSUME FilesInv, ppc # "boot", ppc' # "boot", off => off', wrapped => wrapped',
         UNCHANGED <<exists, cur, crashes>>, \A f \in Files : f # cur => disk'[f] = disk[f]
  PROVE  FilesInv'
<1> SUFFICES ASSUME ~off' PROVE FilesInv'
  BY DEF FilesInv
<1>1. /\ \A f \in Files \ exists : disk[f] = <<>>
      /\ cur \in exists /\ (~wrapped => exists = {} \/ exists = 1 .. cur)
  BY DEF FilesInv
<1> QED
  BY <1>1 DEF FilesInv

LEMMA SwitchedOff == ASSUME off' PROVE HealthInv' /\ FilesInv' /\ LogInv'
BY DEF HealthInv, FilesInv, LogInv

LEMMA FlushLoopKeeps == ASSUME IInv, FlushLoop PROVE IInv'
<1> USE Constants DEF IInv, FlushLoop, fileVars, histVars
<1>1. TypeOK'
  BY DEF TypeOK
<1>2. MutexInv'
  BY DEF MutexInv, TypeOK, ThreadInv
<1>3. ThreadInv'
  BY DEF ThreadInv, MutexInv, TypeOK
<1>4. HealthInv'
  BY DEF HealthInv, ThreadInv
<1>5. FilesInv'
  BY DEF FilesInv
<1>6. LogInv'
  <2>1. Pipeline' = Pipeline
    BY SamePipeline
  <2> HIDE DEF IInv, FlushLoop
  <2> QED
    BY <2>1, LogKept DEF IInv, FlushLoop
<1> QED
  BY <1>1, <1>2, <1>3, <1>4, <1>5, <1>6

LEMMA HandleAOFROTATEKeeps == ASSUME IInv, NEW r \in Threads, HandleAOFROTATE(r) PROVE IInv'
<1> USE Constants DEF IInv, HandleAOFROTATE, fileVars, histVars
<1>1. TypeOK'
  BY DEF TypeOK
<1>2. MutexInv'
  BY DEF MutexInv, TypeOK, ThreadInv
<1>3. ThreadInv'
  BY DEF ThreadInv, MutexInv, TypeOK
<1>4. HealthInv'
  BY DEF HealthInv, ThreadInv
<1>5. FilesInv'
  BY DEF FilesInv
<1>6. LogInv'
  <2>1. Pipeline' = Pipeline
    BY SamePipeline
  <2> HIDE DEF IInv, HandleAOFROTATE
  <2> QED
    BY <2>1, LogKept DEF IInv, HandleAOFROTATE
<1> QED
  BY <1>1, <1>2, <1>3, <1>4, <1>5, <1>6

LEMMA RotateTestKeeps == ASSUME IInv, NEW r \in Threads, RotateTest(r), ppc \notin {"boot", "down"} PROVE IInv'
<1> USE Constants DEF IInv, RotateTest, fileVars, histVars, Leave
<1>1. TypeOK'
  BY DEF TypeOK
<1>2. MutexInv'
  BY DEF MutexInv, TypeOK, ThreadInv
<1>3. ThreadInv'
  BY DEF ThreadInv, MutexInv, TypeOK
<1>4. HealthInv'
  BY DEF HealthInv, ThreadInv
<1>5. FilesInv'
  BY DEF FilesInv
<1>6. LogInv'
  <2>1. Pipeline' = Pipeline
    BY SamePipeline
  <2> HIDE DEF IInv, RotateTest
  <2> QED
    BY <2>1, LogKept DEF IInv, RotateTest
<1> QED
  BY <1>1, <1>2, <1>3, <1>4, <1>5, <1>6

LEMMA RotateSetKeeps == ASSUME IInv, NEW r \in Threads, RotateSet(r), ppc \notin {"boot", "down"} PROVE IInv'
<1> USE Constants DEF IInv, RotateSet, fileVars, histVars
<1>1. TypeOK'
  BY DEF TypeOK
<1>2. MutexInv'
  BY DEF MutexInv, TypeOK, ThreadInv
<1>3. ThreadInv'
  BY DEF ThreadInv, MutexInv, TypeOK
<1>4. HealthInv'
  BY DEF HealthInv, ThreadInv
<1>5. FilesInv'
  BY DEF FilesInv
<1>6. LogInv'
  <2>1. Pipeline' = Pipeline
    BY SamePipeline
  <2> HIDE DEF IInv, RotateSet
  <2> QED
    BY <2>1, LogKept DEF IInv, RotateSet
<1> QED
  BY <1>1, <1>2, <1>3, <1>4, <1>5, <1>6

LEMMA RotateEndKeeps == ASSUME IInv, NEW r \in Threads, RotateEnd(r), ppc \notin {"boot", "down"} PROVE IInv'
<1> USE Constants DEF IInv, RotateEnd, fileVars, histVars, Leave
<1>1. TypeOK'
  BY DEF TypeOK
<1>2. MutexInv'
  BY DEF MutexInv, TypeOK, ThreadInv
<1>3. ThreadInv'
  BY DEF ThreadInv, MutexInv, TypeOK
<1>4. HealthInv'
  BY DEF HealthInv, ThreadInv
<1>5. FilesInv'
  BY DEF FilesInv
<1>6. LogInv'
  <2>1. Pipeline' = Pipeline
    BY SamePipeline
  <2> HIDE DEF IInv, RotateEnd
  <2> QED
    BY <2>1, LogKept DEF IInv, RotateEnd
<1> QED
  BY <1>1, <1>2, <1>3, <1>4, <1>5, <1>6

LEMMA BeginShutdownKeeps == ASSUME IInv, BeginShutdown PROVE IInv'
<1> USE Constants DEF IInv, BeginShutdown, fileVars, histVars
<1>1. TypeOK'
  BY DEF TypeOK
<1>2. MutexInv'
  BY DEF MutexInv, TypeOK, ThreadInv
<1>3. ThreadInv'
  BY DEF ThreadInv, MutexInv, TypeOK
<1>4. HealthInv'
  BY DEF HealthInv, ThreadInv
<1>5. FilesInv'
  BY DEF FilesInv
<1>6. LogInv'
  <2>1. Pipeline' = Pipeline
    BY SamePipeline
  <2> HIDE DEF IInv, BeginShutdown
  <2> QED
    BY <2>1, LogKept DEF IInv, BeginShutdown
<1> QED
  BY <1>1, <1>2, <1>3, <1>4, <1>5, <1>6

LEMMA StopFlushThreadKeeps == ASSUME IInv, StopFlushThread PROVE IInv'
<1> USE Constants DEF IInv, StopFlushThread, fileVars, histVars
<1>1. TypeOK'
  BY DEF TypeOK
<1>2. MutexInv'
  BY DEF MutexInv, TypeOK, ThreadInv
<1>3. ThreadInv'
  BY DEF ThreadInv, MutexInv, TypeOK
<1>4. HealthInv'
  BY DEF HealthInv, ThreadInv
<1>5. FilesInv'
  BY DEF FilesInv
<1>6. LogInv'
  <2>1. Pipeline' = Pipeline
    BY SamePipeline
  <2> HIDE DEF IInv, StopFlushThread
  <2> QED
    BY <2>1, LogKept DEF IInv, StopFlushThread
<1> QED
  BY <1>1, <1>2, <1>3, <1>4, <1>5, <1>6

LEMMA SyncFlushKeeps == ASSUME IInv, SyncFlush PROVE IInv'
<1> USE Constants DEF IInv, SyncFlush, histVars
<1>0. /\ Pipeline' = Pipeline /\ disk' \in [Files -> Seq(Cmds)]
      /\ \A f \in Files : f # cur => disk'[f] = disk[f]
  BY FlushPipeline
<1>1. TypeOK'
  <2>1. disk' \in [Files -> Seq(1 .. MaxCommands)] /\ {stream', buffer', hand', log', recovered'} \subseteq Seq(1 .. MaxCommands)
    BY <1>0 DEF TypeOK, Cmds
  <2> QED
    BY <2>1 DEF TypeOK
<1>2. MutexInv'
  BY DEF MutexInv
<1>3. ThreadInv'
  BY DEF ThreadInv
<1>4. HealthInv'
  BY DEF HealthInv
<1>5. FilesInv'
  BY <1>0, FilesKept
<1>6. LogInv'
  BY <1>0, LogKept
<1> QED
  BY <1>1, <1>2, <1>3, <1>4, <1>5, <1>6

LEMMA ConfigOffKeeps == ASSUME IInv, ConfigOff PROVE IInv'
<1> USE Constants DEF IInv, ConfigOff
<1>0. disk' \in [Files -> Seq(Cmds)]
  BY FlushPipeline
<1>1. TypeOK'
  <2>1. disk' \in [Files -> Seq(1 .. MaxCommands)] /\ {stream', buffer', hand', log', recovered'} \subseteq Seq(1 .. MaxCommands)
    BY <1>0 DEF TypeOK, Cmds
  <2> QED
    BY <2>1 DEF TypeOK
<1>2. MutexInv'
  BY DEF MutexInv
<1>3. ThreadInv'
  BY DEF ThreadInv
<1> QED
  BY <1>1, <1>2, <1>3, SwitchedOff

LEMMA ConfigOnKeeps == ASSUME IInv, ConfigOn PROVE IInv'
<1> USE Constants DEF IInv, ConfigOn, InitAOF
<1>1. TypeOK'
  BY DEF TypeOK
<1>2. MutexInv'
  BY DEF MutexInv
<1>3. ThreadInv'
  BY DEF ThreadInv
<1>4. HealthInv'
  BY DEF HealthInv
<1>5. FilesInv'
  <2>1. CASE off'
    BY <2>1, SwitchedOff
  <2>2. CASE ~off'
    <3>1. ~off /\ off' = off /\ exists' = exists \cup {cur}
      BY <2>2
    <3>2. cur \in exists
      BY <3>1 DEF FilesInv
    <3>3. exists' = exists
      BY <3>1, <3>2
    <3> QED
      BY <3>1, <3>3, FilesKept
  <2> QED
    BY <2>1, <2>2
<1>6. LogInv'
  BY LogKept, SamePipeline
<1> QED
  BY <1>1, <1>2, <1>3, <1>4, <1>5, <1>6

LEMMA FlushTakeKeeps == ASSUME IInv, FlushTake PROVE IInv'
<1> USE Constants DEF IInv, FlushTake, fileVars, histVars
<1>0. hand = <<>> /\ ppc # "boot"
  BY DEF ThreadInv
<1>1. TypeOK'
  BY DEF TypeOK
<1>2. MutexInv'
  BY DEF MutexInv
<1>3. ThreadInv'
  BY <1>0 DEF ThreadInv
<1>4. HealthInv'
  BY DEF HealthInv
<1>5. FilesInv'
  BY DEF FilesInv
<1>6. LogInv'
  BY <1>0, TakePipeline, LogKept
<1> QED
  BY <1>1, <1>2, <1>3, <1>4, <1>5, <1>6

LEMMA FlushRestKeeps == ASSUME IInv, FlushRest PROVE IInv'
<1> USE Constants DEF IInv, FlushRest, fileVars, histVars
<1>0. hand = <<>>
  BY DEF ThreadInv
<1>1. TypeOK'
  BY DEF TypeOK
<1>2. MutexInv'
  BY DEF MutexInv
<1>3. ThreadInv'
  BY <1>0 DEF ThreadInv
<1>4. HealthInv'
  BY DEF HealthInv, ToSet
<1>5. FilesInv'
  BY DEF FilesInv
<1>6. LogInv'
  BY <1>0, TakePipeline, LogKept
<1> QED
  BY <1>1, <1>2, <1>3, <1>4, <1>5, <1>6

LEMMA FlushWriteKeeps == ASSUME IInv, FlushWrite PROVE IInv'
<1> USE Constants DEF IInv, FlushWrite, histVars
<1>0. /\ disk' \in [Files -> Seq(Cmds)] /\ stream' \in Seq(Cmds) /\ hand' = <<>>
      /\ \A f \in Files : f # cur => disk'[f] = disk[f]
      /\ open /\ ~bad => Pipeline' = Pipeline
  BY WritePipeline
<1>a. ppc # "boot" /\ ppc # "flushing" /\ (~off => ppc # "down" /\ open /\ ~bad)
  BY DEF ThreadInv, HealthInv
<1>1. TypeOK'
  <2>1. disk' \in [Files -> Seq(1 .. MaxCommands)] /\ {stream', buffer', hand', log', recovered'} \subseteq Seq(1 .. MaxCommands)
    BY <1>0 DEF TypeOK, Cmds
  <2> QED
    BY <2>1 DEF TypeOK
<1>2. MutexInv'
  BY DEF MutexInv, ThreadInv, TypeOK
<1>3. ThreadInv'
  BY <1>0, <1>a DEF ThreadInv, TypeOK
<1>4. HealthInv'
  BY <1>a DEF HealthInv
<1>5. FilesInv'
  BY <1>0, <1>a, FilesKept
<1>6. LogInv'
  BY <1>0, <1>a, LogKept
<1> QED
  BY <1>1, <1>2, <1>3, <1>4, <1>5, <1>6

LEMMA WriteRestKeeps == ASSUME IInv, WriteRest PROVE IInv'
<1> USE Constants DEF IInv, WriteRest, histVars
<1>0. /\ disk' \in [Files -> Seq(Cmds)] /\ stream' \in Seq(Cmds) /\ hand' = <<>>
      /\ \A f \in Files : f # cur => disk'[f] = disk[f]
      /\ open /\ ~bad => Pipeline' = Pipeline
  BY WritePipeline
<1>a. ~off => open /\ ~bad
  BY DEF HealthInv
<1>1. TypeOK'
  <2>1. disk' \in [Files -> Seq(1 .. MaxCommands)] /\ {stream', buffer', hand', log', recovered'} \subseteq Seq(1 .. MaxCommands)
    BY <1>0 DEF TypeOK, Cmds
  <2> QED
    BY <2>1 DEF TypeOK
<1>2. MutexInv'
  BY DEF MutexInv
<1>3. ThreadInv'
  BY <1>0 DEF ThreadInv
<1>4. HealthInv'
  BY DEF HealthInv
<1>5. FilesInv'
  BY <1>0, FilesKept
<1>6. LogInv'
  BY <1>0, <1>a, LogKept
<1> QED
  BY <1>1, <1>2, <1>3, <1>4, <1>5, <1>6

LEMMA CloseAOFKeeps == ASSUME IInv, CloseAOF PROVE IInv'
<1> USE Constants DEF IInv, CloseAOF, histVars
<1>0. /\ Pipeline' = Pipeline /\ disk' \in [Files -> Seq(Cmds)]
      /\ \A f \in Files : f # cur => disk'[f] = disk[f]
  BY FlushPipeline
<1>1. TypeOK'
  <2>1. disk' \in [Files -> Seq(1 .. MaxCommands)] /\ {stream', buffer', hand', log', recovered'} \subseteq Seq(1 .. MaxCommands)
    BY <1>0 DEF TypeOK, Cmds
  <2> QED
    BY <2>1 DEF TypeOK
<1>2. MutexInv'
  BY DEF MutexInv
<1>3. ThreadInv'
  BY DEF ThreadInv
<1>4. HealthInv'
  BY DEF HealthInv
<1>5. FilesInv'
  BY <1>0, FilesKept
<1>6. LogInv'
  BY <1>0, LogKept
<1> QED
  BY <1>1, <1>2, <1>3, <1>4, <1>5, <1>6

LEMMA RotateCloseKeeps == ASSUME IInv, NEW r \in Threads, RotateClose(r), ppc \notin {"boot", "down"} PROVE IInv'
<1> USE Constants DEF IInv, RotateClose, histVars
<1>0. /\ Pipeline' = Pipeline /\ disk' \in [Files -> Seq(Cmds)]
      /\ \A f \in Files : f # cur => disk'[f] = disk[f]
  BY FlushPipeline
<1>1. TypeOK'
  <2>1. disk' \in [Files -> Seq(1 .. MaxCommands)] /\ {stream', buffer', hand', log', recovered'} \subseteq Seq(1 .. MaxCommands)
    BY <1>0 DEF TypeOK, Cmds
  <2> QED
    BY <2>1 DEF TypeOK
<1>2. MutexInv'
  BY DEF MutexInv, TypeOK
<1>3. ThreadInv'
  BY DEF ThreadInv, TypeOK
<1>4. HealthInv'
  BY DEF HealthInv
<1>5. FilesInv'
  BY <1>0, FilesKept
<1>6. LogInv'
  BY <1>0, LogKept
<1> QED
  BY <1>1, <1>2, <1>3, <1>4, <1>5, <1>6

LEMMA RotateFailsKeeps == ASSUME IInv, NEW r \in Threads, RotateFails(r), ppc \notin {"boot", "down"} PROVE IInv'
<1> USE Constants DEF IInv, RotateFails
<1>0. disk' \in [Files -> Seq(Cmds)] /\ exists' \subseteq Files
  <2>1. NextIdx \in Files /\ disk \in [Files -> Seq(Cmds)] /\ exists \subseteq Files
    BY NextIdxIs, TypesHave DEF TypeOK
  <2>2. disk' = disk \/ disk' = [disk EXCEPT ![NextIdx] = <<>>]
    BY Zenon
  <2>3. exists' = exists \/ exists' = exists \ {NextIdx}
    OBVIOUS
  <2> HIDE DEF IInv, RotateFails
  <2>4. disk' \in [Files -> Seq(Cmds)]
    <3>1. <<>> \in Seq(Cmds)
      OBVIOUS
    <3>2. [disk EXCEPT ![NextIdx] = <<>>] \in [Files -> Seq(Cmds)]
      BY <2>1, <3>1
    <3> QED
      BY <2>1, <2>2, <3>2, Zenon
  <2>5. exists' \subseteq Files
    BY <2>1, <2>3
  <2> QED
    BY <2>4, <2>5
<1>1. TypeOK'
  BY <1>0 DEF TypeOK, Cmds, Leave
<1>2. MutexInv'
  BY DEF MutexInv, TypeOK, Leave
<1>3. ThreadInv'
  BY DEF ThreadInv, TypeOK, Leave
<1> QED
  BY <1>1, <1>2, <1>3, SwitchedOff

LEMMA RotateOpenKeeps == ASSUME IInv, NEW r \in Threads, RotateOpen(r), ppc \notin {"boot", "down"} PROVE IInv'
<1> USE Constants DEF IInv, RotateOpen
<1>0. /\ disk' \in [Files -> Seq(Cmds)] /\ cur' \in Files
      /\ Pipeline = disk[NextIdx] \o Pipeline' /\ Pipeline' \in Seq(Cmds) /\ disk[NextIdx] \in Seq(Cmds)
  BY RotatePipeline
<1>a. NextIdx \in Files /\ NextIdx = (IF cur = MaxFiles THEN 1 ELSE cur + 1) /\ cur \in Files /\ log \in Seq(Cmds)
      /\ disk \in [Files -> Seq(Cmds)] /\ exists \subseteq Files
  BY NextIdxIs, TypesHave DEF TypeOK
<1>1. TypeOK'
  BY <1>0, <1>a DEF TypeOK, Cmds
<1>2. MutexInv'
  BY DEF MutexInv, TypeOK
<1>3. ThreadInv'
  BY DEF ThreadInv, TypeOK
<1>4. HealthInv'
  BY DEF HealthInv
<1>5. FilesInv'
  <2> SUFFICES ASSUME ~off PROVE FilesInv'
    BY DEF FilesInv
  <2>1. \A f \in Files \ exists' : disk'[f] = <<>>
    BY <1>a DEF FilesInv
  <2>2. ~wrapped' => exists' = 1 .. cur'
    <3> SUFFICES ASSUME ~wrapped, NextIdx \notin exists PROVE exists \cup {NextIdx} = 1 .. NextIdx
      OBVIOUS
    <3>1. exists = 1 .. cur
      BY DEF FilesInv
    <3>2. NextIdx = cur + 1
      BY <1>a, <3>1 DEF Files
    <3> HIDE DEF RotateOpen, IInv
    <3> QED
      BY <1>a, <3>1, <3>2 DEF Files
  <2> QED
    BY <2>1, <2>2 DEF FilesInv
<1>6. LogInv'
  <2> SUFFICES ASSUME ~off PROVE LogInv'
    BY DEF LogInv
  <2>1. ASSUME ~wrapped' PROVE Pipeline' = Pipeline
    <3>1. disk[NextIdx] = <<>>
      BY <1>a, <2>1 DEF FilesInv
    <3> QED
      BY <1>0, <3>1, JoinEmpty
  <2>2. ASSUME crashes = 0 PROVE Ends(Pipeline', log)
    <3>1. Ends(Pipeline, log)
      BY <2>2 DEF LogInv
    <3>2. PICK a \in Seq(Cmds) : log = a \o Pipeline
      <4>1. log \in Seq(Cmds)
        BY <1>a
      <4> HIDE DEF IInv, RotateOpen
      <4>2. Completes(Pipeline, log, Cmds)
        BY <3>1, <4>1, EndsHas, Zenon
      <4> QED
        BY <4>2 DEF Completes
    <3> DEFINE x == disk[NextIdx]
               y == Pipeline'
    <3>3. x \in Seq(Cmds) /\ y \in Seq(Cmds) /\ log = a \o (x \o y)
      BY <1>0, <3>2
    <3> HIDE DEF x, y
    <3>4. Associates(a, x, y)
      BY <3>3, JoinAssoc
    <3>5. a \o x \in Seq(Cmds) /\ log = (a \o x) \o y
      BY <3>3, <3>4, JoinIs DEF Associates
    <3>6. Ends(y, log)
      BY <3>3, <3>5, EndsIs
    <3> QED
      BY <3>6 DEF y
  <2>3. UNCHANGED <<log, next, crashes, off>> /\ (wrapped => wrapped')
    OBVIOUS
  <2>4. LogInv
    OBVIOUS
  <2> HIDE DEF IInv, RotateOpen
  <2>5. ASSUME ~wrapped' PROVE Pipeline' = log' /\ Distinct(log') /\ \A i \in 1 .. Len(log') : log'[i] < next'
    BY <2>1, <2>3, <2>4, <2>5 DEF LogInv
  <2>6. crashes' = 0 => Ends(Pipeline', log')
    BY <2>2, <2>3
  <2> QED
    BY <2>5, <2>6 DEF LogInv, Ends, Distinct
<1> QED
  BY <1>1, <1>2, <1>3, <1>4, <1>5, <1>6

LEMMA AppendPipeline ==
  ASSUME TypeOK, NEW x \in Cmds, buffer' = Append(buffer, x), UNCHANGED <<disk, cur, stream, hand>>
  PROVE  Pipeline' = Append(Pipeline, x)
<1>1. ByAge \in Seq(Cmds) /\ stream \in Seq(Cmds) /\ hand \in Seq(Cmds) /\ buffer \in Seq(Cmds)
  BY TypesHave
<1> DEFINE a == ByAge \o stream \o hand
<1>2. a \in Seq(Cmds)
  <2> DEFINE b == ByAge \o stream
  <2>1. b \in Seq(Cmds)
    BY <1>1, JoinIs
  <2> HIDE DEF b
  <2>2. b \o hand \in Seq(Cmds)
    BY <1>1, <2>1, JoinIs
  <2> QED
    BY <2>2 DEF b
<1>3. Pipeline = a \o buffer /\ Pipeline' = a \o Append(buffer, x)
  BY DEF Pipeline, ByAge
<1> HIDE DEF a
<1>4. a \o Append(buffer, x) = Append(a \o buffer, x)
  BY <1>1, <1>2
<1> QED
  BY <1>3, <1>4

LEMMA AppendToAOFKeeps == ASSUME IInv, AppendToAOF PROVE IInv'
<1> USE Constants DEF IInv, AppendToAOF, fileVars
<1>0. next \in Cmds /\ next \in Nat /\ log \in Seq(Cmds) /\ buffer \in Seq(Cmds) /\ Pipeline \in Seq(Cmds)
  BY TypesHave DEF TypeOK, Cmds
<1>1. TypeOK'
  <2>1. Append(buffer, next) \in Seq(Cmds) /\ Append(log, next) \in Seq(Cmds)
    BY <1>0
  <2>2. buffer' \in Seq(Cmds) /\ log' \in Seq(Cmds)
    BY <1>0, <2>1
  <2>3. {stream', buffer', hand', log', recovered'} \subseteq Seq(1 .. MaxCommands)
    BY <2>2 DEF TypeOK, Cmds
  <2>4. missed' \subseteq 1 .. MaxCommands /\ late' \subseteq 1 .. MaxCommands /\ next' \in 1 .. MaxCommands + 1
    <3>1. missed \subseteq 1 .. MaxCommands /\ late \subseteq 1 .. MaxCommands /\ next <= MaxCommands /\ next' = next + 1
      BY DEF TypeOK
    <3>2. (missed' = missed \/ missed' = missed \cup {next}) /\ (late' = late \/ late' = late \cup {next})
      OBVIOUS
    <3> HIDE DEF IInv, AppendToAOF
    <3>3. next \in 1 .. MaxCommands
      BY <1>0 DEF Cmds
    <3>4. next' \in 1 .. MaxCommands + 1
      BY <3>1, <3>3
    <3>5. missed' \subseteq 1 .. MaxCommands /\ late' \subseteq 1 .. MaxCommands
      BY <3>1, <3>2, <3>3, Zenon
    <3> QED
      BY <3>4, <3>5
  <2> QED
    BY <2>3, <2>4 DEF TypeOK
<1>2. MutexInv'
  BY DEF MutexInv
<1>3. ThreadInv'
  BY DEF ThreadInv
<1>4. HealthInv'
  <2>1. ASSUME ToSet(buffer) \subseteq late, ppc \in {"flushing", "closing", "down"} PROVE ToSet(buffer') \subseteq late'
    <3>1. CASE enabled /\ open
      <4>1. ToSet(Append(buffer, next)) = ToSet(buffer) \cup {next}
        BY <1>0, ToSetAppend
      <4>2. buffer' = Append(buffer, next) /\ late' = late \cup {next}
        BY <2>1, <3>1
      <4> QED
        BY <2>1, <4>1, <4>2
    <3>2. CASE ~(enabled /\ open)
      BY <2>1, <3>2
    <3> QED
      BY <3>1, <3>2
  <2>2. UNCHANGED <<off, ppc, running, bad, mutex, open, fpc, stream>>
    OBVIOUS
  <2>3. ToSet(buffer)' = ToSet(buffer')
    BY DEF ToSet
  <2> HIDE DEF AppendToAOF
  <2> QED
    BY <2>1, <2>2, <2>3 DEF HealthInv
<1>5. FilesInv'
  BY DEF FilesInv
<1>6. LogInv'
  <2>1. CASE enabled /\ open
    <3> DEFINE p == Pipeline
               q == Append(log, next)
    <3>1. Pipeline' = Append(p, next) /\ log' = q
      BY <1>0, <2>1, AppendPipeline
    <3>2. p \in Seq(Cmds) /\ next' = next + 1 /\ UNCHANGED <<off, wrapped, crashes>> /\ LogInv
      BY <1>0
    <3>3. q \in Seq(Cmds) /\ Len(q) = Len(log) + 1 /\ q[Len(q)] = next /\ \A i \in 1 .. Len(log) : q[i] = log[i]
      BY <1>0
    <3> HIDE DEF IInv, AppendToAOF, p, q
    <3>4. ASSUME ~off, ~wrapped PROVE Pipeline' = log' /\ Distinct(log') /\ \A i \in 1 .. Len(log') : log'[i] < next'
      <4>1. p = log /\ Distinct(log) /\ \A i \in 1 .. Len(log) : log[i] < next
        BY <3>2, <3>4 DEF LogInv, p
      <4>2. Pipeline' = q
        BY <3>1, <4>1 DEF q
      <4>3. \A i \in 1 .. Len(q) : IF i = Len(q) THEN q[i] = next ELSE i \in 1 .. Len(log) /\ q[i] = log[i] /\ q[i] < next
        BY <1>0, <3>3, <4>1
      <4>4. ASSUME NEW i \in 1 .. Len(q), NEW j \in 1 .. Len(q), q[i] = q[j] PROVE i = j
        <5>1. CASE i = Len(q) \/ j = Len(q)
          BY <1>0, <4>3, <4>4, <5>1
        <5>2. CASE i # Len(q) /\ j # Len(q)
          BY <4>1, <4>3, <4>4, <5>2 DEF Distinct
        <5> QED
          BY <5>1, <5>2
      <4>5. Distinct(q)
        BY <4>4 DEF Distinct
      <4>6. ASSUME NEW i \in 1 .. Len(q) PROVE q[i] < next + 1
        <5>1. q[i] \in Nat
          BY <3>3 DEF Cmds
        <5> QED
          BY <1>0, <4>3, <5>1
      <4> QED
        BY <3>1, <3>2, <4>2, <4>5, <4>6
    <3>5. ASSUME ~off, crashes = 0 PROVE Ends(Pipeline', log')
      <4>1. Ends(p, log)
        BY <3>2, <3>5 DEF LogInv, p
      <4>a. Completes(p, log, Cmds)
        <5>1. log \in Seq(Cmds)
          BY <1>0
        <5> QED
          BY <4>1, <5>1, EndsHas, Zenon
      <4>2. PICK a \in Seq(Cmds) : log = a \o p
        BY <4>a DEF Completes
      <4>3. Append(a \o p, next) = a \o Append(p, next) /\ Append(p, next) \in Seq(Cmds)
        <5>1. p \in Seq(Cmds) /\ next \in Cmds
          BY <1>0, <3>2
        <5>2. AppendsLast(a, p, next, Cmds)
          BY <5>1, JoinAppend, Zenon
        <5> QED
          BY <5>2, Zenon DEF AppendsLast
      <4>4. q = a \o Append(p, next)
        BY <4>2, <4>3 DEF q
      <4>5. Ends(Append(p, next), q)
        BY <4>3, <4>4, EndsIs
      <4> QED
        BY <3>1, <4>5
    <3>6. Distinct(log)' = Distinct(log') /\ Ends(Pipeline, log)' = Ends(Pipeline', log')
      BY DEF Distinct, Ends
    <3> QED
      BY <3>2, <3>4, <3>5, <3>6 DEF LogInv
  <2>2. CASE ~(enabled /\ open)
    <3>1. UNCHANGED <<log, crashes, off, wrapped, disk, cur, stream, hand, buffer>> /\ next' = next + 1 /\ LogInv
      BY <2>2
    <3> HIDE DEF IInv, AppendToAOF
    <3>2. Pipeline' = Pipeline
      BY <3>1, SamePipeline
    <3>3. (\A i \in 1 .. Len(log) : log[i] < next) => \A i \in 1 .. Len(log) : log[i] < next + 1
      <4>1. \A i \in 1 .. Len(log) : log[i] \in Nat
        BY <1>0 DEF Cmds
      <4> QED
        BY <1>0, <4>1
    <3>4. (Distinct(log) => Distinct(log)') /\ (Ends(Pipeline, log) => Ends(Pipeline, log)')
      BY <3>1, <3>2 DEF Distinct, Ends
    <3> QED
      BY <3>1, <3>2, <3>3, <3>4 DEF LogInv
  <2> QED
    BY <2>1, <2>2
<1> QED
  BY <1>1, <1>2, <1>3, <1>4, <1>5, <1>6

LEMMA Greatest == ASSUME NEW E, E \subseteq Files, E # {} PROVE \E f \in E : \A g \in E : g <= f
<1> DEFINE T == {n \in Nat : MaxFiles - n \in E}
<1>1. T # {}
  <2>1. PICK f \in E : TRUE
    OBVIOUS
  <2>2. MaxFiles - f \in Nat /\ MaxFiles - (MaxFiles - f) = f
    BY <2>1, Constants DEF Files
  <2> QED
    BY <2>1, <2>2
<1>2. PICK n \in T : \A m \in T : n <= m
  BY <1>1, Least, Zenon
<1>3. MaxFiles - n \in E /\ n \in Nat
  BY <1>2
<1>4. ASSUME NEW g \in E PROVE g <= MaxFiles - n
  <2>1. g \in 1 .. MaxFiles
    BY DEF Files
  <2>2. MaxFiles - g \in Nat /\ MaxFiles - (MaxFiles - g) = g
    BY <2>1, Constants
  <2>3. MaxFiles - g \in T
    BY <2>2
  <2>4. n <= MaxFiles - g
    BY <1>2, <2>3
  <2> QED
    BY <1>3, <2>1, <2>4, Constants
<1> QED
  BY <1>3, <1>4

\* The file loadAOF() goes on with.
LEMMA LoadIs ==
  ASSUME IInv, Load
  PROVE  /\ ppc = "boot" /\ ppc' = "up" /\ skipped' \subseteq Files /\ cur' \in Files /\ InitAOF(cur')
         /\ recovered' = FlattenSeq([f \in Files |-> IF f \in skipped' THEN <<>> ELSE disk[f]])
         /\ wrapped' \in BOOLEAN /\ (wrapped => wrapped') /\ (exists = {} => wrapped' = wrapped)
         /\ exists = {} => cur' = 1
         /\ exists # {} /\ ~wrapped' => cur' \in exists /\ \A g \in exists : g <= cur'
         /\ UNCHANGED <<disk, stream, buffer, hand, mutex, rotating, rpc, stop, next, crashes, log, missed, late>>
<1>1. PICK unseen \in SUBSET exists :
        /\ \E over \in SUBSET {f \in exists \ unseen : disk[f] # <<>>} : skipped' = unseen \cup over
        /\ cur' = LastOf(exists \ unseen) /\ wrapped' = (wrapped \/ unseen # {})
  BY DEF Load
<1>2. exists \subseteq Files /\ 1 \in Files /\ wrapped \in BOOLEAN
  BY Constants DEF IInv, TypeOK, Files
<1>3. skipped' \subseteq Files
  BY <1>1, <1>2
<1> DEFINE E == exists \ unseen
<1>4. E \subseteq Files /\ E \subseteq exists /\ (~wrapped' => E = exists)
  BY <1>1, <1>2
<1>5. cur' = LastOf(E)
  BY <1>1
<1> HIDE DEF E
<1>6. E = {} => cur' = 1
  BY <1>5 DEF LastOf
<1>7. E # {} => cur' \in E /\ \A g \in E : g <= cur'
  BY <1>4, <1>5, Greatest DEF LastOf
<1>8. exists = {} => E = {} /\ wrapped' = wrapped
  BY <1>1, <1>2, <1>4
<1>9. /\ ppc = "boot" /\ ppc' = "up" /\ InitAOF(cur')
      /\ recovered' = FlattenSeq([f \in Files |-> IF f \in skipped' THEN <<>> ELSE disk[f]])
      /\ UNCHANGED <<disk, stream, buffer, hand, mutex, rotating, rpc, stop, next, crashes, log, missed, late>>
  BY DEF Load
<1>10. cur' \in Files
  BY <1>2, <1>4, <1>6, <1>7
<1>11. wrapped' \in BOOLEAN /\ (wrapped => wrapped')
  BY <1>1, <1>2
<1> QED
  BY <1>3, <1>4, <1>6, <1>7, <1>8, <1>9, <1>10, <1>11

\* Without failure and reuse, loading goes on with the file that was current.
LEMMA LoadSame ==
  ASSUME IInv, Load, ~off, ~wrapped'
  PROVE  cur' = cur /\ \A f \in Files : f > cur => disk[f] = <<>>
<1>1. /\ cur \in Files /\ exists \subseteq Files /\ (exists = {} => cur = 1) /\ (exists = {} \/ exists = 1 .. cur)
      /\ \A f \in Files \ exists : disk[f] = <<>>
  BY LoadIs DEF IInv, FilesInv, TypeOK
<1>2. /\ exists = {} => cur' = 1
      /\ exists # {} => cur' \in exists /\ \A g \in exists : g <= cur'
      /\ cur' \in Files
  BY LoadIs
<1>3. cur' = cur
  BY <1>1, <1>2 DEF Files
<1>4. \A f \in Files : f > cur => f \notin exists
  BY <1>1 DEF Files
<1> QED
  BY <1>1, <1>3, <1>4

LEMMA LoadKeeps == ASSUME IInv, Load PROVE IInv'
<1> USE Constants DEF IInv
<1>0. /\ ppc = "boot" /\ ppc' = "up" /\ skipped' \subseteq Files /\ cur' \in Files /\ InitAOF(cur')
      /\ recovered' = FlattenSeq([f \in Files |-> IF f \in skipped' THEN <<>> ELSE disk[f]])
      /\ wrapped' \in BOOLEAN /\ (wrapped => wrapped') /\ (exists = {} => wrapped' = wrapped)
      /\ UNCHANGED <<disk, stream, buffer, hand, mutex, rotating, rpc, stop, next, crashes, log, missed, late>>
  BY LoadIs
<1>a. recovered' \in Seq(Cmds) /\ exists' \subseteq Files
  <2>1. disk \in [Files -> Seq(Cmds)] /\ exists \subseteq Files
    BY TypesHave DEF TypeOK
  <2>2. recovered' \in Seq(Cmds)
    <3> DEFINE e == [f \in Files |-> IF f \in skipped' THEN <<>> ELSE disk[f]]
    <3>1. e \in [Files -> Seq(Cmds)]
      BY <2>1
    <3> HIDE DEF e
    <3>2. FlattenSeq(e) \in Seq(Cmds)
      BY <3>1, DiskSeq, FlattenType
    <3> QED
      BY <1>0, <3>2 DEF e
  <2>3. exists' \subseteq Files
    BY <1>0, <2>1 DEF InitAOF
  <2> QED
    BY <1>0, <2>2, <2>3
<1>b. \/ /\ off' = off /\ open' = TRUE /\ bad' = FALSE /\ enabled' = TRUE /\ exists' = exists \cup {cur'}
         /\ running' = TRUE /\ fpc' = IF running THEN fpc ELSE "loop"
      \/ bad' = TRUE /\ enabled' = FALSE /\ off' = TRUE /\ UNCHANGED <<exists, open, running, fpc>>
  BY <1>0 DEF InitAOF
<1>c. ~running /\ fpc = "off" /\ rpc[Flusher] = "idle" /\ mutex = NoOne /\ stream = <<>> /\ hand = <<>> /\ buffer = <<>>
  BY <1>0 DEF ThreadInv
<1>1. TypeOK'
  <2>1. {stream', buffer', hand', log', recovered'} \subseteq Seq(1 .. MaxCommands)
    BY <1>0, <1>a DEF TypeOK, Cmds
  <2>2. {enabled', open', bad', rotating', running', stop', off', wrapped'} \subseteq BOOLEAN
    BY <1>0, <1>b DEF TypeOK
  <2>3. fpc' \in {"off", "loop", "wait", "write", "rotate", "exited"} /\ exists' \subseteq Files /\ cur' \in Files
    BY <1>0, <1>a, <1>b DEF TypeOK
  <2> QED
    BY <1>0, <2>1, <2>2, <2>3 DEF TypeOK
<1>2. MutexInv'
  BY <1>0 DEF MutexInv
<1>3. ThreadInv'
  BY <1>0, <1>b, <1>c DEF ThreadInv
<1>4. HealthInv'
  BY <1>0, <1>b, <1>c DEF HealthInv
<1>5. CASE off'
  BY <1>1, <1>2, <1>3, <1>5, SwitchedOff
<1>6. CASE ~off'
  <2>1. ~off /\ exists' = exists \cup {cur'}
    BY <1>6, <1>b
  <2>2. ASSUME ~wrapped' PROVE cur' = cur /\ exists' = 1 .. cur
    <3>1. cur' = cur
      BY <2>1, <2>2, LoadSame
    <3>2. exists = {} => cur = 1
      BY <2>1 DEF FilesInv
    <3>3. exists = {} \/ exists = 1 .. cur
      BY <1>0, <2>1, <2>2 DEF FilesInv
    <3>4. cur \in Files
      BY DEF TypeOK
    <3> HIDE DEF IInv
    <3> QED
      BY <2>1, <3>1, <3>2, <3>3, <3>4 DEF Files
  <2>3. FilesInv'
    <3>1. \A f \in Files \ exists' : disk'[f] = <<>>
      BY <1>0, <2>1 DEF FilesInv
    <3> QED
      BY <1>0, <2>1, <2>2, <3>1 DEF FilesInv
  <2>4. LogInv'
    <3>1. UNCHANGED <<disk, stream, hand, buffer, log, next, crashes>> /\ (wrapped => wrapped')
      BY <1>0
    <3>2. CASE ~wrapped'
      <4>1. Pipeline' = Pipeline
        BY <2>2, <3>1, <3>2, SamePipeline
      <4> QED
        BY <2>1, <3>1, <4>1, LogKept
    <3>3. CASE wrapped'
      <4>1. crashes # 0
        BY <1>0, <2>1, <3>3 DEF FilesInv
      <4> QED
        BY <3>1, <3>3, <4>1 DEF LogInv
    <3> QED
      BY <3>2, <3>3
  <2> QED
    BY <1>1, <1>2, <1>3, <1>4, <2>3, <2>4
<1> QED
  BY <1>5, <1>6

\* The elements of the files, and of the pipeline's first part.
LEMMA AgeElems ==
  ASSUME NEW d \in [Files -> Seq(Cmds)], NEW c \in Files
  PROVE  ToSet(FlattenSeq(AgeOf(d, c))) = UNION {ToSet(d[f]) : f \in Files}
<1> DEFINE A == AgeOf(d, c)
<1>1. /\ A \in Seq(Seq(Cmds)) /\ Len(A) = MaxFiles
      /\ \A i \in Files : A[i] = IF i <= MaxFiles - c THEN d[c + i] ELSE d[i - (MaxFiles - c)]
  BY AgeIs
<1> HIDE DEF A
<1>2. ToSet(FlattenSeq(A)) = UNION {ToSet(A[i]) : i \in Files}
  BY <1>1, FlattenElems DEF Files
<1>3. ASSUME NEW i \in Files PROVE \E f \in Files : A[i] = d[f]
  <2>1. CASE i <= MaxFiles - c
    <3>1. c + i \in Files
      BY <2>1, Constants DEF Files
    <3> QED
      BY <1>1, <2>1, <3>1
  <2>2. CASE ~(i <= MaxFiles - c)
    <3>1. i - (MaxFiles - c) \in Files
      BY <2>2, Constants DEF Files
    <3> QED
      BY <1>1, <2>2, <3>1
  <2> QED
    BY <2>1, <2>2
<1>4. ASSUME NEW f \in Files PROVE \E i \in Files : A[i] = d[f]
  <2>1. CASE f > c
    <3>1. f - c \in Files /\ f - c <= MaxFiles - c /\ c + (f - c) = f
      BY <2>1, Constants DEF Files
    <3> QED
      BY <1>1, <3>1
  <2>2. CASE ~(f > c)
    <3>1. f + (MaxFiles - c) \in Files /\ ~(f + (MaxFiles - c) <= MaxFiles - c) /\ (f + (MaxFiles - c)) - (MaxFiles - c) = f
      BY <2>2, Constants DEF Files
    <3> QED
      BY <1>1, <3>1
  <2> QED
    BY <2>1, <2>2
<1>5. UNION {ToSet(A[i]) : i \in Files} = UNION {ToSet(d[f]) : f \in Files}
  BY <1>3, <1>4
<1> QED
  BY <1>2, <1>5 DEF A

\* A crash leaves of the log what the files hold.
LEMMA CrashKeepsFiles ==
  ASSUME TypeOK, Pipeline = log, Distinct(log)
  PROVE  /\ Kept(log, UNION {ToSet(disk[f]) : f \in Files}) = ByAge
         /\ Len(ByAge) <= Len(log) /\ \A i \in 1 .. Len(ByAge) : ByAge[i] = log[i]
<1> DEFINE D == UNION {ToSet(disk[f]) : f \in Files}
           a == ByAge
           t == stream \o (hand \o buffer)
<1>1. /\ disk \in [Files -> Seq(Cmds)] /\ cur \in Files /\ stream \in Seq(Cmds) /\ hand \in Seq(Cmds)
      /\ buffer \in Seq(Cmds) /\ a \in Seq(Cmds) /\ a = FlattenSeq(AgeOf(disk, cur))
      /\ Pipeline = a \o t
  BY TypesHave
<1>2. ToSet(a) = D
  BY <1>1, AgeElems
<1>3. t \in Seq(Cmds)
  <2> DEFINE u == hand \o buffer
  <2>1. u \in Seq(Cmds)
    BY <1>1, JoinIs
  <2> HIDE DEF u
  <2>2. stream \o u \in Seq(Cmds)
    BY <1>1, <2>1, JoinIs
  <2> QED
    BY <2>2 DEF u
<1> HIDE DEF D, a, t
<1>4. /\ a \o t \in Seq(Cmds) /\ Len(a \o t) = Len(a) + Len(t) /\ log = a \o t
      /\ \A i \in 1 .. Len(a) + Len(t) : (a \o t)[i] = IF i <= Len(a) THEN a[i] ELSE t[i - Len(a)]
  BY <1>1, <1>3, JoinIs
<1>5. \A i \in 1 .. Len(a) : a[i] \in D
  BY <1>1, <1>2 DEF ToSet
<1>6. \A i \in 1 .. Len(t) : t[i] \notin D
  <2> SUFFICES ASSUME NEW i \in 1 .. Len(t), t[i] \in D PROVE FALSE
    OBVIOUS
  <2>1. DOMAIN a = 1 .. Len(a)
    BY <1>1
  <2>2. PICK j \in 1 .. Len(a) : a[j] = t[i]
    BY <1>2, <2>1 DEF ToSet
  <2>3. /\ j \in 1 .. Len(log) /\ log[j] = a[j]
        /\ Len(a) + i \in 1 .. Len(log) /\ log[Len(a) + i] = t[i] /\ j # Len(a) + i
    <3>1. /\ j \in 1 .. Len(a) + Len(t) /\ j <= Len(a) /\ Len(a) + i \in 1 .. Len(a) + Len(t)
          /\ ~(Len(a) + i <= Len(a)) /\ (Len(a) + i) - Len(a) = i
      BY <1>1, <1>3
    <3> QED
      BY <1>4, <3>1
  <2> QED
    BY <2>2, <2>3 DEF Distinct
<1>7. Kept(a \o t, D) = a
  BY <1>1, <1>3, <1>5, <1>6, KeptIs
<1>8. Len(a) <= Len(log) /\ \A i \in 1 .. Len(a) : a[i] = log[i]
  <2>1. Len(a) \in Nat /\ Len(t) \in Nat
    BY <1>1, <1>3
  <2> QED
    BY <1>4, <2>1
<1> QED
  BY <1>4, <1>7, <1>8 DEF a, D

LEMMA RebootPipeline ==
  ASSUME TypeOK, Reboot PROVE Pipeline' = ByAge /\ ByAge' = ByAge
<1>1. ByAge' = ByAge
  BY DEF Reboot, ByAge
<1>2. ByAge \in Seq(Cmds)
  BY TypesHave
<1> DEFINE a == ByAge
<1>3. Pipeline' = a \o <<>> \o <<>> \o <<>>
  BY <1>1 DEF Pipeline, Reboot
<1>4. a \in Seq(Cmds)
  BY <1>2
<1> HIDE DEF a
<1>5. a \o <<>> \o <<>> \o <<>> = a
  BY <1>4
<1> QED
  BY <1>1, <1>3, <1>5 DEF a

LEMMA RebootKeeps ==
  ASSUME IInv, Reboot, ppc # "boot", crashes < MaxCrashes, crashes' = crashes + 1
  PROVE  IInv'
<1>a. log \in Seq(Cmds) /\ log' = Kept(log, UNION {ToSet(disk[f]) : f \in Files})
  BY TypesHave DEF IInv, Reboot
<1>b. log' \in Seq(Cmds)
  BY <1>a, KeptType
<1>c. ASSUME ~off, ~wrapped
      PROVE  log' = ByAge /\ Distinct(log') /\ \A i \in 1 .. Len(log') : log'[i] < next
  <2>1. Pipeline = log /\ Distinct(log) /\ \A i \in 1 .. Len(log) : log[i] < next
    BY <1>c DEF IInv, LogInv
  <2>2. log' = ByAge /\ Len(ByAge) <= Len(log) /\ \A i \in 1 .. Len(ByAge) : ByAge[i] = log[i]
    BY <1>a, <2>1, CrashKeepsFiles DEF IInv
  <2> DEFINE a == ByAge
  <2>3. log' = a /\ Len(a) <= Len(log) /\ a \in Seq(Cmds) /\ \A i \in 1 .. Len(a) : a[i] = log[i]
    BY <1>b, <2>2
  <2> HIDE DEF a
  <2>4. \A i \in 1 .. Len(a) : i \in 1 .. Len(log) /\ a[i] = log[i]
    BY <1>a, <2>3
  <2>5. Distinct(a) /\ \A i \in 1 .. Len(a) : a[i] < next
    BY <2>1, <2>4 DEF Distinct
  <2> QED
    BY <2>3, <2>5 DEF a
<1> USE Constants DEF IInv, Reboot
<1>0. /\ disk \in [Files -> Seq(Cmds)] /\ cur \in Files /\ exists \subseteq Files /\ recovered \in Seq(Cmds)
      /\ crashes \in 0 .. MaxCrashes
  BY TypesHave DEF TypeOK
<1>1. TypeOK'
  <2>1. {stream', buffer', hand', log', recovered'} \subseteq Seq(1 .. MaxCommands)
    BY <1>0, <1>b DEF Cmds
  <2>2. {enabled', open', bad', rotating', running', stop', off', wrapped'} \subseteq BOOLEAN
    BY DEF TypeOK
  <2>3. rpc' \in [Threads -> {"idle", "test", "set", "lock", "open", "end", "done"}]
    OBVIOUS
  <2>4. crashes' \in 0 .. MaxCrashes
    BY <1>0
  <2> QED
    BY <2>1, <2>2, <2>3, <2>4 DEF TypeOK
<1>2. MutexInv'
  BY DEF MutexInv
<1>3. ThreadInv'
  BY DEF ThreadInv
<1>4. HealthInv'
  BY DEF HealthInv
<1>5. FilesInv'
  BY <1>0 DEF FilesInv
<1>6. LogInv'
  <2>1. Pipeline' = ByAge
    BY RebootPipeline
  <2>2. crashes' # 0
    BY <1>0
  <2>3. UNCHANGED <<off, wrapped, next>>
    OBVIOUS
  <2> HIDE DEF IInv, Reboot
  <2>4. Distinct(log)' = Distinct(log')
    BY DEF Distinct
  <2> QED
    BY <1>c, <2>1, <2>2, <2>3, <2>4 DEF LogInv
<1> QED
  BY <1>1, <1>2, <1>3, <1>4, <1>5, <1>6

LEMMA CrashKeeps == ASSUME IInv, Crash \/ Restart PROVE IInv'
BY RebootKeeps DEF Crash, Restart

LEMMA InitIInv == Init => IInv
<1> SUFFICES ASSUME Init PROVE IInv
  OBVIOUS
<1> USE Constants DEF Init
<1>0. disk \in [Files -> Seq(Cmds)] /\ 1 \in Files /\ cur \in Files /\ \A f \in Files : disk[f] = <<>>
  BY DEF Files
<1>1. TypeOK
  <2>1. {stream, buffer, hand, log, recovered} \subseteq Seq(1 .. MaxCommands)
    OBVIOUS
  <2>2. {enabled, open, bad, rotating, running, stop, off, wrapped} \subseteq BOOLEAN
    OBVIOUS
  <2> QED
    BY <1>0, <2>1, <2>2 DEF TypeOK, Cmds
<1>2. MutexInv
  BY DEF MutexInv
<1>3. ThreadInv
  BY DEF ThreadInv
<1>4. HealthInv
  BY DEF HealthInv
<1>5. FilesInv
  BY <1>0 DEF FilesInv
<1>6. LogInv
  <2>1. AgeOf(disk, cur) \in Seq(Seq(Cmds)) /\ \A i \in 1 .. Len(AgeOf(disk, cur)) : AgeOf(disk, cur)[i] = <<>>
    <3>1. /\ AgeOf(disk, cur) \in Seq(Seq(Cmds)) /\ Len(AgeOf(disk, cur)) = MaxFiles
          /\ \A i \in Files : AgeOf(disk, cur)[i] = IF i <= MaxFiles - cur THEN disk[cur + i] ELSE disk[i - (MaxFiles - cur)]
      BY <1>0, AgeIs
    <3>2. ASSUME NEW i \in Files PROVE AgeOf(disk, cur)[i] = <<>>
      <4>1. IF i <= MaxFiles - cur THEN cur + i \in Files ELSE i - (MaxFiles - cur) \in Files
        BY <1>0 DEF Files
      <4> HIDE DEF Init
      <4> QED
        BY <1>0, <3>1, <4>1
    <3> QED
      BY <3>1, <3>2 DEF Files
  <2>2. ByAge = <<>>
    BY <2>1, FlattenEmpties DEF ByAge, AgeOf
  <2>3. Pipeline = <<>> /\ log = <<>>
    BY <2>2 DEF Pipeline
  <2>4. Distinct(log) /\ Ends(Pipeline, log)
    BY <2>3 DEF Distinct, Ends
  <2> QED
    BY <2>3, <2>4 DEF LogInv
<1> QED
  BY <1>1, <1>2, <1>3, <1>4, <1>5, <1>6 DEF IInv

LEMMA StutterKeeps == ASSUME IInv, UNCHANGED vars PROVE IInv'
<1> USE DEF IInv, vars, fileVars, histVars
<1>1. TypeOK'
  BY DEF TypeOK
<1>2. MutexInv' /\ ThreadInv' /\ HealthInv' /\ FilesInv'
  BY DEF MutexInv, ThreadInv, HealthInv, FilesInv
<1>3. LogInv'
  BY LogKept, SamePipeline
<1> QED
  BY <1>1, <1>2, <1>3

LEMMA NextKeeps == ASSUME IInv, [Next]_vars PROVE IInv'
<1>1. ASSUME NEW r \in Threads, RotateStep(r), ppc \notin {"boot", "down"} PROVE IInv'
  BY <1>1, RotateTestKeeps, RotateSetKeeps, RotateCloseKeeps, RotateOpenKeeps, RotateFailsKeeps, RotateEndKeeps DEF RotateStep
<1>2. ASSUME NEW r \in Rotators, HandleAOFROTATE(r) PROVE IInv'
  BY <1>2, HandleAOFROTATEKeeps, Constants
<1>3. ASSUME FlushStep PROVE IInv'
  BY <1>3, FlushLoopKeeps, FlushTakeKeeps, FlushWriteKeeps DEF FlushStep
<1>4. ASSUME ShutdownStep PROVE IInv'
  BY <1>4, StopFlushThreadKeeps, FlushRestKeeps, WriteRestKeeps, CloseAOFKeeps DEF ShutdownStep
<1> QED
  BY <1>1, <1>2, <1>3, <1>4, LoadKeeps, ConfigOnKeeps, ConfigOffKeeps, AppendToAOFKeeps, SyncFlushKeeps,
     BeginShutdownKeeps, CrashKeeps, StutterKeeps DEF Next

\* What the clients were told is in the log is there.
LEMMA Whole == IInv => LogIsWhole
<1> SUFFICES ASSUME IInv, ~off PROVE LogIsWhole
  BY DEF LogIsWhole
<1>1. log \in Seq(Cmds) /\ Pipeline \in Seq(Cmds) /\ ByAge \in Seq(Cmds)
  BY TypesHave DEF IInv
<1>2. (~wrapped => Pipeline = log) /\ (crashes = 0 => Ends(Pipeline, log))
  BY DEF IInv, LogInv
<1>3. crashes = 0 => IsSuffix(Pipeline, log)
  BY <1>1, <1>2, EndsSuffix
<1>4. ASSUME ppc = "down" PROVE Pipeline = ByAge \o buffer /\ ToSet(buffer) \subseteq late
  <2>1. stream = <<>> /\ hand = <<>> /\ ToSet(buffer) \subseteq late /\ buffer \in Seq(Cmds)
    BY <1>4, TypesHave DEF IInv, HealthInv, ThreadInv
  <2>2. Pipeline = ByAge \o <<>> \o <<>> \o buffer
    BY <2>1 DEF Pipeline
  <2> DEFINE a == ByAge
  <2>3. a \in Seq(Cmds)
    BY <1>1
  <2> HIDE DEF a
  <2>4. a \o <<>> \o <<>> = a
    BY <2>3
  <2> QED
    BY <2>1, <2>2, <2>4 DEF a
<1> QED
  BY <1>2, <1>3, <1>4 DEF LogIsWhole

\* No command is in two files.
LEMMA FilesDisjoint ==
  ASSUME NEW S, NEW d \in Seq(Seq(S)), Distinct(FlattenSeq(d)), NEW f \in 1 .. Len(d), NEW g \in 1 .. Len(d), f < g
  PROVE  ToSet(d[f]) \cap ToSet(d[g]) = {}
<1> SUFFICES ASSUME NEW x, x \in ToSet(d[f]), x \in ToSet(d[g]) PROVE FALSE
  BY Zenon
<1> DEFINE n == Len(d)
           a == SubSeq(d, 1, f)
           b == SubSeq(d, f + 1, n)
           p == FlattenSeq(a)
           q == FlattenSeq(b)
<1>1. a \in Seq(Seq(S)) /\ Len(a) = f /\ \A i \in 1 .. f : a[i] = d[i]
  BY PieceIs
<1>2. b \in Seq(Seq(S)) /\ Len(b) = n - f /\ \A i \in 1 .. n - f : b[i] = d[f + i]
  <2> DEFINE m == f + 1
  <2>1. m \in 1 .. Len(d) + 1 /\ n \in m - 1 .. Len(d) /\ n \in Nat
    OBVIOUS
  <2>2. n - m + 1 = n - f /\ \A i \in 1 .. n - f : m + i - 1 = f + i
    BY <2>1
  <2> HIDE DEF n, m
  <2>3. LET c == SubSeq(d, m, n)
        IN c \in Seq(Seq(S)) /\ Len(c) = n - m + 1 /\ \A i \in 1 .. n - m + 1 : c[i] = d[m + i - 1]
    BY <2>1, PieceIs
  <2> QED
    BY <2>2, <2>3 DEF m
<1>3. d = a \o b
  OBVIOUS
<1> HIDE DEF a, b
<1>4. FlattenSeq(d) = p \o q /\ p \in Seq(S) /\ q \in Seq(S)
  BY <1>1, <1>2, <1>3, FlattenJoin, FlattenType
<1>5. x \in ToSet(p)
  <2>1. f \in 1 .. Len(a) /\ a[f] = d[f]
    BY <1>1
  <2>2. ToSet(p) = UNION {ToSet(a[i]) : i \in 1 .. Len(a)}
    BY <1>1, FlattenElems
  <2> QED
    BY <2>1, <2>2
<1>6. x \in ToSet(q)
  <2>1. g - f \in 1 .. Len(b) /\ f + (g - f) = g
    BY <1>2
  <2>2. b[g - f] = d[g]
    BY <1>2, <2>1
  <2>3. ToSet(q) = UNION {ToSet(b[i]) : i \in 1 .. Len(b)}
    BY <1>2, FlattenElems
  <2> QED
    BY <2>1, <2>2, <2>3
<1> HIDE DEF p, q
<1>7. DOMAIN p = 1 .. Len(p) /\ DOMAIN q = 1 .. Len(q)
  BY <1>4
<1>8. PICK i \in 1 .. Len(p), j \in 1 .. Len(q) : p[i] = x /\ q[j] = x
  BY <1>5, <1>6, <1>7 DEF ToSet
<1> DEFINE s == p \o q
<1>9. /\ Len(s) = Len(p) + Len(q)
      /\ \A k \in 1 .. Len(p) + Len(q) : s[k] = IF k <= Len(p) THEN p[k] ELSE q[k - Len(p)]
  BY <1>4, JoinIs
<1>10. Distinct(s)
  BY <1>4
<1> HIDE DEF s
<1>11. /\ i \in 1 .. Len(s) /\ i <= Len(p) /\ Len(p) + j \in 1 .. Len(s)
       /\ ~(Len(p) + j <= Len(p)) /\ (Len(p) + j) - Len(p) = j /\ i # Len(p) + j
  BY <1>4, <1>9
<1>12. s[i] = x /\ s[Len(p) + j] = x
  BY <1>8, <1>9, <1>11
<1> QED
  BY <1>10, <1>11, <1>12 DEF Distinct

\* The files that are not passed over hold the log without the others.
LEMMA FilesWithout ==
  ASSUME NEW d \in [Files -> Seq(Cmds)], Distinct(FlattenSeq(d)), NEW K, K \subseteq Files
  PROVE  FlattenSeq([f \in Files |-> IF f \in K THEN <<>> ELSE d[f]]) =
           Kept(FlattenSeq(d), UNION {ToSet(d[f]) : f \in Files \ K})
<1> DEFINE e == [f \in Files |-> IF f \in K THEN <<>> ELSE d[f]]
           D == UNION {ToSet(d[f]) : f \in Files \ K}
<1>1. e \in [Files -> Seq(Cmds)] /\ \A f \in Files : e[f] = IF f \in K THEN <<>> ELSE d[f]
  OBVIOUS
<1> HIDE DEF e
<1>2. d \in Seq(Seq(Cmds)) /\ Len(d) = MaxFiles /\ e \in Seq(Seq(Cmds)) /\ Len(e) = Len(d) /\ Files = 1 .. Len(d)
  BY <1>1, DiskSeq DEF Files
<1>3. ASSUME NEW f \in Files, f \notin K PROVE e[f] = d[f] /\ \A k \in 1 .. Len(d[f]) : d[f][k] \in D
  <2>1. ToSet(d[f]) \subseteq D
    BY <1>3
  <2>2. \A k \in 1 .. Len(d[f]) : d[f][k] \in ToSet(d[f])
    BY DEF ToSet
  <2> HIDE DEF D
  <2> QED
    BY <1>1, <1>3, <2>1, <2>2
<1>4. ASSUME NEW f \in Files, f \in K PROVE e[f] = <<>> /\ \A k \in 1 .. Len(d[f]) : d[f][k] \notin D
  <2> SUFFICES ASSUME NEW k \in 1 .. Len(d[f]), d[f][k] \in D PROVE FALSE
    BY <1>1, <1>4
  <2>1. PICK g \in Files \ K : d[f][k] \in ToSet(d[g])
    OBVIOUS
  <2>2. d[f][k] \in ToSet(d[f])
    BY DEF ToSet
  <2>3. f < g \/ g < f
    BY <1>4, <2>1 DEF Files
  <2>4. ToSet(d[f]) \cap ToSet(d[g]) = {}
    <3>1. CASE f < g
      BY <1>2, <2>1, <3>1, FilesDisjoint
    <3>2. CASE g < f
      <4>1. ToSet(d[g]) \cap ToSet(d[f]) = {}
        BY <1>2, <2>1, <3>2, FilesDisjoint
      <4> QED
        BY <4>1
    <3> QED
      BY <2>3, <3>1, <3>2
  <2> QED
    BY <2>1, <2>2, <2>4
<1> HIDE DEF D
<1>5. Kept(FlattenSeq(d), D) = FlattenSeq(e)
  <2>1. \A i \in 1 .. Len(d) : \/ e[i] = d[i] /\ \A k \in 1 .. Len(d[i]) : d[i][k] \in D
                               \/ e[i] = <<>> /\ \A k \in 1 .. Len(d[i]) : d[i][k] \notin D
    BY <1>2, <1>3, <1>4, Zenon
  <2>2. Drops(d, e, D)
    BY <1>2, <2>1, Zenon DEF Drops
  <2> QED
    BY <1>2, <2>2, KeptFlatten, Zenon
<1> QED
  BY <1>5 DEF D, e

\* Only loadAOF() brings the process up, and it executes the files in an order
\* that is the order of their commands.
LEMMA LoadRecovers ==
  ASSUME IInv, [Next]_vars
  PROVE  ppc = "boot" /\ ppc' = "up" /\ ~off' /\ ~wrapped' =>
           recovered' = Kept(log, UNION {ToSet(disk[f]) : f \in Files \ skipped'})
<1> SUFFICES ASSUME ppc = "boot", ppc' = "up", ~off', ~wrapped'
             PROVE  recovered' = Kept(log, UNION {ToSet(disk[f]) : f \in Files \ skipped'})
  OBVIOUS
<1>1. Load
  BY DEF Next, vars, ConfigOn, ConfigOff, AppendToAOF, FlushStep, FlushLoop, FlushTake, FlushWrite, SyncFlush,
     HandleAOFROTATE, BeginShutdown, ShutdownStep, StopFlushThread, FlushRest, WriteRest, CloseAOF, Crash, Restart
<1>2. /\ recovered' = FlattenSeq([f \in Files |-> IF f \in skipped' THEN <<>> ELSE disk[f]])
      /\ skipped' \subseteq Files /\ ~wrapped /\ ~off
  <2>1. /\ recovered' = FlattenSeq([f \in Files |-> IF f \in skipped' THEN <<>> ELSE disk[f]])
        /\ skipped' \subseteq Files /\ (wrapped => wrapped') /\ InitAOF(cur')
    BY <1>1, LoadIs
  <2>2. ~off
    BY <2>1 DEF InitAOF
  <2> QED
    BY <2>1, <2>2
<1>3. disk \in [Files -> Seq(Cmds)] /\ cur \in Files /\ ByAge \in Seq(Cmds) /\ ByAge = FlattenSeq(AgeOf(disk, cur))
  BY TypesHave DEF IInv
<1>4. \A f \in Files : f > cur => disk[f] = <<>>
  BY <1>1, <1>2, LoadSame
<1>5. ByAge = FlattenSeq(disk)
  BY <1>3, <1>4, AgeIndex
<1>6. Pipeline = log /\ Distinct(log)
  BY <1>2 DEF IInv, LogInv
<1>7. stream = <<>> /\ hand = <<>> /\ buffer = <<>>
  BY DEF IInv, ThreadInv
<1>8. Pipeline = ByAge
  <2>2. Pipeline = ByAge \o <<>> \o <<>> \o <<>>
    BY <1>7 DEF Pipeline
  <2> DEFINE a == ByAge
  <2>3. a \in Seq(Cmds)
    BY <1>3
  <2> HIDE DEF a
  <2>4. a \o <<>> \o <<>> \o <<>> = a
    BY <2>3
  <2> QED
    BY <2>2, <2>4 DEF a
<1>9. log = FlattenSeq(disk)
  BY <1>5, <1>6, <1>8
<1> QED
  BY <1>2, <1>3, <1>6, <1>9, FilesWithout

-----------------------------------------------------------------------------
\* The states of the persistence threads stay consistent: who holds m_aof_mutex
\* is the thread between the close() and the open() of rotateAOF(), the stream
\* is good unless AOF was switched off, and files, stream, hands and buffer
\* together hold the accepted commands.
THEOREM Invariant == Spec => []IInv
<1>1. Init => IInv
  BY InitIInv
<1>2. IInv /\ [Next]_vars => IInv'
  BY NextKeeps
<1> QED
  BY <1>1, <1>2, PTL DEF Spec

\* The append-only file has its types, for any files, threads and commands.
THEOREM TypeCorrect == Spec => []TypeOK
<1>1. IInv => TypeOK
  BY DEF IInv
<1> QED
  BY <1>1, Invariant, PTL

\* appendToAOF(), the flush thread, aofSyncLoop(), any number of AOFROTATE
\* threads, the destructor and crashes never lose, repeat or reorder an accepted
\* command while AOF is on, except those of the oldest file when it is reused;
\* and an orderly shutdown leaves every accepted command in a file, except those
\* appended after flushAOFBuffer() has taken the buffer for the last time.
THEOREM LogStaysWhole == Spec => []LogIsWhole
<1>1. IInv => LogIsWhole
  BY Whole
<1> QED
  BY <1>1, Invariant, PTL

\* loadAOF() executes the commands that reached a file before the crash or
\* shutdown in the order in which clients appended them, each once, and all of
\* them but those of the files it passes over whole.
THEOREM LoadExecutesTheLog == Spec => RecoversTheLog
<1>1. IInv /\ [Next]_vars =>
        [ppc = "boot" /\ ppc' = "up" /\ ~off' /\ ~wrapped' =>
           recovered' = Kept(log, UNION {ToSet(disk[f]) : f \in Files \ skipped'})]_vars
  BY LoadRecovers
<1> QED
  BY <1>1, Invariant, PTL DEF Spec, RecoversTheLog
=============================================================================
