--------------------------- MODULE DataInduction ----------------------------
(***************************************************************************)
(* Induction over data without operator parameters: a set of numbers that  *)
(* contains 0 and each successor is Nat, a recursion over 0..n has exactly *)
(* one solution, and what follows for the recursive operators of the       *)
(* community modules that the models use.                                  *)
(***************************************************************************)
EXTENDS Integers, SequencesExt, FiniteSetsExt, WellFoundedInduction, TLAPS

\* Induction, of a set.
LEMMA SetInduction ==
    ASSUME NEW S \in SUBSET Nat, 0 \in S, \A n \in S : n + 1 \in S
    PROVE  S = Nat
<1> DEFINE R == {ss \in Nat \X Nat : ss[1] < ss[2]}
           T == Nat \ S
<1>1. IsWellFoundedOn(R, Nat)
  BY NatLessThanWellFounded DEF OpToRel
<1>2. SUFFICES ASSUME T # {}
               PROVE  FALSE
  OBVIOUS
<1>3. \E x \in T : \A y \in T : ~(<<y, x>> \in R)
  <2> HIDE DEF R
  <2> QED
    BY <1>1, <1>2, WFMin
<1>4. PICK x \in T : \A y \in T : ~(<<y, x>> \in R)
  BY <1>3
<1>5. x # 0 /\ x - 1 \in Nat
  OBVIOUS
<1>6. <<x - 1, x>> \in R
  BY <1>5
<1>7. x - 1 \in S
  BY <1>4, <1>5, <1>6
<1> QED
  BY <1>5, <1>7

\* Induction up to n.
LEMMA UpTo ==
    ASSUME NEW n \in Nat, NEW S, 0 \in S, \A k \in 0..(n - 1) : k \in S => k + 1 \in S
    PROVE  0..n \subseteq S
<1> DEFINE T == {k \in Nat : k <= n => k \in S}
<1>1. \A k \in T : k + 1 \in T
  <2> SUFFICES ASSUME NEW k \in T, k + 1 <= n
               PROVE  k + 1 \in S
    OBVIOUS
  <2>1. k \in 0..(n - 1) /\ k \in S
    OBVIOUS
  <2> QED
    BY <2>1
<1>2. 0 \in T
  OBVIOUS
<1> HIDE DEF T
<1>3. T \subseteq Nat
  BY DEF T
<1>4. T = Nat
  BY <1>1, <1>2, <1>3, SetInduction
<1> QED
  BY <1>4 DEF T

\* A recursion over 0..n with values in S, and a solution of it.
Steps(F, n, S) == F \in [(1..n) \X S -> S]
Solution(g, n, S, s0, F) ==
    g \in [0..n -> S] /\ g[0] = s0 /\ \A i \in 1..n : g[i] = F[<<i, g[i - 1]>>]

LEMMA Recursion ==
    ASSUME NEW n \in Nat, NEW S, NEW s0 \in S, NEW F, Steps(F, n, S)
    PROVE  \E g : Solution(g, n, S, s0, F)
<1> DEFINE Solves(g, k) == g[0] = s0 /\ \A i \in 1..k : g[i] = F[<<i, g[i - 1]>>]
           T == {k \in 0..n : \E g \in [0..k -> S] : Solves(g, k)}
<1>1. 0 \in T
  <2>1. [i \in 0..0 |-> s0] \in [0..0 -> S] /\ Solves([i \in 0..0 |-> s0], 0)
    OBVIOUS
  <2> HIDE DEF Solves
  <2> QED
    BY <2>1
<1>2. ASSUME NEW k \in 0..(n - 1), k \in T
      PROVE  k + 1 \in T
  <2>1. PICK g \in [0..k -> S] : Solves(g, k)
    BY <1>2
  <2> DEFINE h == [i \in 0..(k + 1) |-> IF i <= k THEN g[i] ELSE F[<<k + 1, g[k]>>]]
  <2>2. g[k] \in S /\ <<k + 1, g[k]>> \in (1..n) \X S
    OBVIOUS
  <2>3. F[<<k + 1, g[k]>>] \in S
    BY <2>2 DEF Steps
  <2>4. h \in [0..(k + 1) -> S]
    BY <2>3
  <2>5. \A i \in 0..k : h[i] = g[i]
    OBVIOUS
  <2>6. h[k + 1] = F[<<k + 1, g[k]>>]
    OBVIOUS
  <2> HIDE DEF h
  <2>7. Solves(h, k + 1)
    <3>1. h[0] = s0
      BY <2>1, <2>5
    <3>2. ASSUME NEW i \in 1..(k + 1)
          PROVE  h[i] = F[<<i, h[i - 1]>>]
      <4>1. CASE i = k + 1
        BY <4>1, <2>5, <2>6
      <4>2. CASE i \in 1..k
        <5>1. h[i] = g[i] /\ h[i - 1] = g[i - 1]
          BY <4>2, <2>5
        <5> QED
          BY <4>2, <5>1, <2>1
      <4> QED
        BY <4>1, <4>2
    <3> QED
      BY <3>1, <3>2
  <2> HIDE DEF Solves
  <2> QED
    BY <2>4, <2>7
<1> HIDE DEF T
<1>3. 0..n \subseteq T
  BY <1>1, <1>2, UpTo
<1>4. n \in T
  BY <1>3
<1> QED
  BY <1>4 DEF T, Solution

-----------------------------------------------------------------------------
(* Largest and smallest numbers.                                           *)

LEMMA MinOfNat ==
    ASSUME NEW T \in SUBSET Nat, T # {}
    PROVE  Min(T) \in T /\ \A t \in T : Min(T) <= t
<1> DEFINE R == {ss \in Nat \X Nat : ss[1] < ss[2]}
<1>1. IsWellFoundedOn(R, Nat)
  BY NatLessThanWellFounded DEF OpToRel
<1> HIDE DEF R
<1>2. PICK x \in T : \A y \in T : ~(<<y, x>> \in R)
  BY <1>1, WFMin
<1>3. ASSUME NEW y \in T
      PROVE  x <= y
  <2>1. <<y, x>> \notin R
    BY <1>2
  <2>2. y \in Nat /\ x \in Nat /\ ~(y < x)
    BY <2>1 DEF R
  <2> QED
    BY <2>2
<1> QED
  BY <1>3 DEF Min

LEMMA MaxOfNat ==
    ASSUME NEW T \in SUBSET Nat, T # {}, NEW n \in Nat, \A t \in T : t <= n
    PROVE  Max(T) \in T /\ \A t \in T : t <= Max(T)
<1> DEFINE U == {n - t : t \in T}
<1>1. \A t \in T : t \in Nat /\ n - t \in Nat
  OBVIOUS
<1>5. U \subseteq Nat /\ U # {}
  BY <1>1
<1> HIDE DEF U
<1>2. PICK u \in U : \A v \in U : u <= v
  BY <1>5, MinOfNat
<1>3. PICK x \in T : u = n - x
  BY <1>2 DEF U
<1>4. ASSUME NEW t \in T
      PROVE  x >= t
  <2>1. n - t \in U
    BY DEF U
  <2> QED
    BY <2>1, <1>2, <1>3
<1> QED
  BY <1>3, <1>4 DEF Max

-----------------------------------------------------------------------------
(* FlattenSeq.                                                             *)

\* g[i] is the concatenation of the first i elements of s.
Grows(g, s, n) == g[0] = <<>> /\ \A i \in 1..n : g[i] = g[i - 1] \o s[i]

\* Two such functions agree.
LEMMA GrowsOnce ==
    ASSUME NEW n \in Nat, NEW s, NEW g, NEW h, Grows(g, s, n), Grows(h, s, n)
    PROVE  \A k \in 0..n : g[k] = h[k]
<1> DEFINE S == {k \in Nat : g[k] = h[k]}
<1>1. 0 \in S
  BY DEF Grows
<1>2. ASSUME NEW k \in 0..(n - 1), k \in S
      PROVE  k + 1 \in S
  <2>1. k + 1 \in 1..n /\ (k + 1) - 1 = k /\ k + 1 \in Nat
    OBVIOUS
  <2>2. g[k + 1] = g[(k + 1) - 1] \o s[k + 1] /\ h[k + 1] = h[(k + 1) - 1] \o s[k + 1]
    BY <2>1, Zenon DEF Grows
  <2>3. g[k] = h[k]
    BY <1>2
  <2>4. g[k + 1] = h[k + 1]
    BY <2>1, <2>2, <2>3, Zenon
  <2> QED
    BY <2>1, <2>4, Zenon
<1> HIDE DEF S
<1>3. 0..n \subseteq S
  BY <1>1, <1>2, UpTo
<1> QED
  BY <1>3 DEF S

\* There is one, and FlattenSeq is its last value.
LEMMA GrowsExists ==
    ASSUME NEW C, NEW s \in Seq(Seq(C)), NEW n \in Nat, n <= Len(s)
    PROVE  \E g : g \in [0..n -> Seq(C)] /\ Grows(g, s, n)
<1> DEFINE D == Seq(C)  none == <<>>
           F == [p \in (1..n) \X D |-> p[2] \o s[p[1]]]
<1>1. none \in D
  OBVIOUS
<1>2. Steps(F, n, D)
  BY DEF Steps
<1>3. \A i \in 1..n, x \in D : F[<<i, x>>] = x \o s[i]
  OBVIOUS
<1> HIDE DEF F, D, none
<1>10. PICK g : Solution(g, n, D, none, F)
  BY <1>1, <1>2, Recursion
<1>6. g \in [0..n -> D] /\ g[0] = none /\ \A i \in 1..n : g[i] = F[<<i, g[i - 1]>>]
  BY <1>10 DEF Solution
<1>7. ASSUME NEW i \in 1..n
      PROVE  g[i] = g[i - 1] \o s[i]
  <2>1. g[i - 1] \in D
    BY <1>1, <1>6
  <2> QED
    BY <1>3, <1>6, <2>1
<1>8. Grows(g, s, n)
  BY <1>6, <1>7, Zenon DEF Grows, none
<1> QED
  BY <1>6, <1>8 DEF D

LEMMA EmptyLeft ==
    ASSUME NEW C, NEW x \in Seq(C)
    PROVE  <<>> \o x = x
OBVIOUS

LEMMA FlattenIs ==
    ASSUME NEW C, NEW s \in Seq(Seq(C)), NEW n \in Nat, n = Len(s), NEW g, Grows(g, s, n)
    PROVE  FlattenSeq(s) = g[n]
<1>1. CASE n = 0
  <2>1. s = <<>> /\ Len(s) = 0
    <3> DEFINE D == Seq(C)
    <3>1. s \in Seq(D) /\ Len(s) = 0
      BY <1>1
    <3> HIDE DEF D
    <3> QED
      BY <3>1
  <2>2. FlattenSeq(s) = s
    BY <2>1, Zenon DEF FlattenSeq
  <2>3. g[0] = <<>>
    BY Zenon DEF Grows
  <2> QED
    BY <1>1, <2>1, <2>2, <2>3
<1>2. CASE n # 0
  <2> DEFINE f == [i \in 1..n |-> g[i]]
             e == CHOOSE e : e = [i \in 1..n |-> IF i = 1 THEN s[i] ELSE e[i - 1] \o s[i]]
             h == [i \in 0..n |-> IF i = 0 THEN <<>> ELSE e[i]]
  <2>1. 1 \in 1..n /\ 1 - 1 = 0 /\ n \in 1..n /\ n \in 0..n
    BY <1>2
  <2>2. s[1] \in Seq(C) /\ <<>> \o s[1] = s[1]
    BY <2>1, EmptyLeft
  <2>3. g[1] = s[1]
    <3>1. g[1] = g[1 - 1] \o s[1] /\ g[0] = <<>>
      BY <2>1, Zenon DEF Grows
    <3> QED
      BY <2>1, <2>2, <3>1, Zenon
  <2>4. f = [i \in 1..n |-> IF i = 1 THEN s[i] ELSE f[i - 1] \o s[i]]
    <3>1. ASSUME NEW i \in 1..n
          PROVE  g[i] = IF i = 1 THEN s[i] ELSE f[i - 1] \o s[i]
      <4>1. CASE i = 1
        BY <4>1, <2>3, Zenon
      <4>2. CASE i # 1
        <5>1. i - 1 \in 1..n
          BY <4>2
        <5>2. g[i] = g[i - 1] \o s[i]
          BY Zenon DEF Grows
        <5>3. f[i - 1] = g[i - 1]
          BY <5>1
        <5> QED
          BY <4>2, <5>2, <5>3, Zenon
      <4> QED
        BY <4>1, <4>2
    <3> HIDE DEF e, h
    <3> QED
      BY <3>1, Zenon
  <2>5. e = [i \in 1..n |-> IF i = 1 THEN s[i] ELSE e[i - 1] \o s[i]]
    <3> HIDE DEF f
    <3> QED
      BY <2>4, Zenon
  <2>6. FlattenSeq(s) = e[n]
    BY <1>2, Zenon DEF FlattenSeq
  <2> HIDE DEF e, f
  <2>7. Grows(h, s, n)
    <3>1. h[0] = <<>>
      BY <2>1
    <3>2. ASSUME NEW i \in 1..n
          PROVE  h[i] = h[i - 1] \o s[i]
      <4>1. h[i] = e[i]
        OBVIOUS
      <4>2. CASE i = 1
        <5>1. e[i] = s[1]
          BY <2>5, <4>2, Zenon
        <5> QED
          BY <2>1, <2>2, <3>1, <4>1, <4>2, <5>1, Zenon
      <4>3. CASE i # 1
        <5>1. h[i - 1] = e[i - 1]
          BY <4>3
        <5>2. e[i] = e[i - 1] \o s[i]
          BY <2>5, <4>3, Zenon
        <5> QED
          BY <4>1, <5>1, <5>2, Zenon
      <4> QED
        BY <4>2, <4>3
    <3> HIDE DEF h
    <3> QED
      BY <3>1, <3>2, Zenon DEF Grows
  <2>8. h[n] = e[n]
    BY <1>2, <2>1
  <2> HIDE DEF h
  <2>9. g[n] = h[n]
    BY <2>1, <2>7, GrowsOnce
  <2> QED
    BY <2>6, <2>8, <2>9
<1> QED
  BY <1>1, <1>2

LEMMA FlattenType ==
    ASSUME NEW C, NEW s \in Seq(Seq(C))
    PROVE  FlattenSeq(s) \in Seq(C)
<1> DEFINE n == Len(s)
<1>1. n \in Nat /\ n <= n
  OBVIOUS
<1>2. n = Len(s) /\ n <= Len(s)
  BY <1>1
<1> HIDE DEF n
<1>3. PICK g : g \in [0..n -> Seq(C)] /\ Grows(g, s, n)
  BY <1>1, <1>2, GrowsExists
<1>4. FlattenSeq(s) = g[n]
  BY <1>1, <1>2, <1>3, FlattenIs
<1> QED
  BY <1>1, <1>3, <1>4

LEMMA FlattenEmpty == FlattenSeq(<<>>) = <<>>
BY DEF FlattenSeq

\* The flattened prefixes grow by one element at a time.
LEMMA FlattenPrefix ==
    ASSUME NEW C, NEW s \in Seq(Seq(C)), NEW k \in 1..Len(s)
    PROVE  FlattenSeq(SubSeq(s, 1, k)) = FlattenSeq(SubSeq(s, 1, k - 1)) \o s[k]
<1> DEFINE p(j) == SubSeq(s, 1, j)
<1>1. ASSUME NEW j \in 0..Len(s)
      PROVE  p(j) \in Seq(Seq(C)) /\ Len(p(j)) = j /\ \A i \in 1..j : p(j)[i] = s[i]
  OBVIOUS
<1> HIDE DEF p
<1>2. PICK g : g \in [0..k -> Seq(C)] /\ Grows(g, s, k)
  <2>1. k \in Nat /\ k <= Len(s)
    OBVIOUS
  <2> QED
    BY <2>1, GrowsExists
<1>3. ASSUME NEW j \in {k, k - 1}
      PROVE  FlattenSeq(p(j)) = g[j]
  <2>1. j \in 0..Len(s) /\ j \in Nat /\ \A i \in 1..j : i \in 1..k
    OBVIOUS
  <2>2. \A i \in 1..j : p(j)[i] = s[i]
    BY <1>1, <2>1
  <2>3. Grows(g, p(j), j)
    BY <1>2, <2>1, <2>2, Zenon DEF Grows
  <2>4. p(j) \in Seq(Seq(C)) /\ Len(p(j)) = j
    BY <1>1, <2>1
  <2> QED
    BY <2>1, <2>3, <2>4, FlattenIs
<1>4. g[k] = g[k - 1] \o s[k]
  <2>1. k \in 1..k
    OBVIOUS
  <2> QED
    BY <2>1, <1>2, Zenon DEF Grows
<1>5. FlattenSeq(p(k)) = g[k] /\ FlattenSeq(p(k - 1)) = g[k - 1]
  BY <1>3
<1>6. FlattenSeq(p(k)) = FlattenSeq(p(k - 1)) \o s[k]
  BY <1>4, <1>5, Zenon
<1> QED
  BY <1>6, Zenon DEF p

\* The first k elements of s, flattened.
Upto(s, k) == FlattenSeq(SubSeq(s, 1, k))

LEMMA UptoType ==
    ASSUME NEW C, NEW s \in Seq(Seq(C)), NEW k \in 0..Len(s)
    PROVE  Upto(s, k) \in Seq(C) /\ Len(Upto(s, k)) \in Nat
<1>1. SubSeq(s, 1, k) \in Seq(Seq(C))
  OBVIOUS
<1>2. FlattenSeq(SubSeq(s, 1, k)) \in Seq(C)
  BY <1>1, FlattenType
<1>3. Upto(s, k) \in Seq(C)
  BY <1>2, Zenon DEF Upto
<1> HIDE DEF Upto
<1> QED
  BY <1>3

LEMMA UptoNone ==
    ASSUME NEW C, NEW s \in Seq(C)
    PROVE  Upto(s, 0) = <<>>
<1>1. SubSeq(s, 1, 0) = <<>>
  OBVIOUS
<1> QED
  BY <1>1, FlattenEmpty DEF Upto

LEMMA UptoAll ==
    ASSUME NEW C, NEW s \in Seq(C)
    PROVE  Upto(s, Len(s)) = FlattenSeq(s)
<1>1. SubSeq(s, 1, Len(s)) = s
  OBVIOUS
<1> QED
  BY <1>1, Zenon DEF Upto

\* One element more.
LEMMA UptoNext ==
    ASSUME NEW C, NEW s \in Seq(Seq(C)), NEW k \in 1..Len(s)
    PROVE  /\ Upto(s, k) = Upto(s, k - 1) \o s[k]
           /\ Len(Upto(s, k)) = Len(Upto(s, k - 1)) + Len(s[k])
           /\ \A i \in 1..Len(Upto(s, k)) :
                Upto(s, k)[i] = IF i <= Len(Upto(s, k - 1)) THEN Upto(s, k - 1)[i]
                                ELSE s[k][i - Len(Upto(s, k - 1))]
<1> DEFINE a == Upto(s, k - 1)  b == s[k]
<1>1. Upto(s, k) = a \o b
  BY FlattenPrefix DEF Upto
<1>2. k - 1 \in 0..Len(s)
  OBVIOUS
<1>3. a \in Seq(C)
  BY <1>2, UptoType
<1>4. b \in Seq(C)
  OBVIOUS
<1> HIDE DEF a, b
<1>5. Len(a \o b) = Len(a) + Len(b)
      /\ \A i \in 1..Len(a \o b) : (a \o b)[i] = IF i <= Len(a) THEN a[i] ELSE b[i - Len(a)]
  BY <1>3, <1>4
<1> QED
  BY <1>1, <1>5, Zenon DEF a, b

\* All of it stays where it is as more follows.
Continues(x, y) == Len(x) <= Len(y) /\ \A i \in 1..Len(x) : y[i] = x[i]

LEMMA UptoContinues ==
    ASSUME NEW C, NEW s \in Seq(Seq(C)), NEW k \in 0..Len(s), NEW j \in 0..k
    PROVE  Continues(Upto(s, j), Upto(s, k))
<1> DEFINE n == Len(s)
           T == {m \in Nat : Continues(Upto(s, j), Upto(s, j + m))}
<1>1. 0 \in T
  <2>1. Len(Upto(s, j)) \in Nat
    BY UptoType
  <2>2. Continues(Upto(s, j), Upto(s, j))
    BY <2>1 DEF Continues
  <2>3. j + 0 = j
    OBVIOUS
  <2> QED
    BY <2>2, <2>3
<1>2. ASSUME NEW m \in 0..((k - j) - 1), m \in T
      PROVE  m + 1 \in T
  <2>1. j + (m + 1) \in 1..n /\ (j + (m + 1)) - 1 = j + m /\ j + m \in 0..n /\ m + 1 \in Nat
    OBVIOUS
  <2> DEFINE x == Upto(s, j)  y == Upto(s, j + m)  z == Upto(s, j + (m + 1))  e == s[j + (m + 1)]
  <2>2. /\ Len(z) = Len(y) + Len(e)
        /\ \A i \in 1..Len(z) : z[i] = IF i <= Len(y) THEN y[i] ELSE e[i - Len(y)]
    BY <2>1, UptoNext
  <2>3. Continues(x, y)
    BY <1>2
  <2>4. Len(x) \in Nat /\ Len(y) \in Nat /\ Len(e) \in Nat
    <3>1. Len(x) \in Nat /\ Len(y) \in Nat
      BY <2>1, UptoType
    <3>2. e \in Seq(C)
      BY <2>1
    <3> HIDE DEF e, x, y
    <3> QED
      BY <3>1, <3>2
  <2> HIDE DEF x, y, z, e
  <2>5. Continues(x, z)
    <3>1. Len(x) <= Len(y) /\ \A i \in 1..Len(x) : y[i] = x[i]
      BY <2>3, Zenon DEF Continues
    <3>2. Len(x) <= Len(z)
      BY <2>2, <2>4, <3>1
    <3>3. ASSUME NEW i \in 1..Len(x)
          PROVE  z[i] = x[i]
      <4>1. i \in 1..Len(z) /\ i <= Len(y)
        BY <2>4, <3>1, <3>2, <2>2
      <4>2. z[i] = y[i]
        BY <2>2, <4>1
      <4> QED
        BY <3>1, <4>2
    <3> QED
      BY <3>2, <3>3, Zenon DEF Continues
  <2> QED
    BY <2>1, <2>5 DEF x, z
<1> HIDE DEF T
<1>3. k - j \in Nat
  OBVIOUS
<1>4. 0..(k - j) \subseteq T
  BY <1>1, <1>2, <1>3, UpTo
<1>5. k - j \in T /\ j + (k - j) = k
  BY <1>3, <1>4
<1> QED
  BY <1>5 DEF T

\* Where the element i of s[k] is found, and what is found at a place.
LEMMA FlattenAt ==
    ASSUME NEW C, NEW s \in Seq(Seq(C)), NEW k \in 1..Len(s), NEW i \in 1..Len(s[k])
    PROVE  /\ Len(Upto(s, k - 1)) + i \in 1..Len(FlattenSeq(s))
           /\ FlattenSeq(s)[Len(Upto(s, k - 1)) + i] = s[k][i]
<1> DEFINE n == Len(s)  a == Upto(s, k - 1)  b == Upto(s, k)  z == FlattenSeq(s)  e == s[k]
<1>1. n \in Nat /\ n \in 0..n /\ k \in 0..n /\ k - 1 \in 0..n
  OBVIOUS
<1>2. Upto(s, n) = z
  BY UptoAll
<1>3. Continues(b, z)
  <2>1. Continues(Upto(s, k), Upto(s, n))
    BY <1>1, UptoContinues
  <2> QED
    BY <2>1, <1>2
<1>4. /\ Len(b) = Len(a) + Len(e)
      /\ \A x \in 1..Len(b) : b[x] = IF x <= Len(a) THEN a[x] ELSE e[x - Len(a)]
  BY UptoNext
<1>5. Len(a) \in Nat /\ Len(b) \in Nat /\ Len(z) \in Nat /\ i \in 1..Len(e)
  <2>1. Len(a) \in Nat
    BY <1>1, UptoType
  <2>2. Len(b) \in Nat
    BY <1>1, UptoType
  <2>3. Len(Upto(s, n)) \in Nat
    BY <1>1, UptoType
  <2> QED
    BY <1>2, <2>1, <2>2, <2>3
<1>6. Len(e) \in Nat
  <2>1. e \in Seq(C)
    OBVIOUS
  <2> HIDE DEF e
  <2> QED
    BY <2>1
<1> HIDE DEF a, b, z, e
<1>7. Len(a) + i \in 1..Len(b) /\ ~(Len(a) + i <= Len(a)) /\ (Len(a) + i) - Len(a) = i
  BY <1>4, <1>5, <1>6
<1>8. b[Len(a) + i] = e[i]
  BY <1>4, <1>7
<1>9. Len(a) + i \in 1..Len(z) /\ z[Len(a) + i] = e[i]
  BY <1>3, <1>5, <1>6, <1>7, <1>8 DEF Continues
<1> QED
  BY <1>9 DEF a, z, e

LEMMA FlattenWhere ==
    ASSUME NEW C, NEW s \in Seq(Seq(C)), NEW x \in 1..Len(FlattenSeq(s))
    PROVE  \E k \in 1..Len(s) : \E i \in 1..Len(s[k]) : x = Len(Upto(s, k - 1)) + i
<1> DEFINE n == Len(s)
           Found(y, j) == \E k \in 1..j : \E i \in 1..Len(s[k]) : y = Len(Upto(s, k - 1)) + i
           T == {j \in Nat : \A y \in 1..Len(Upto(s, j)) : Found(y, j)}
<1>1. 0 \in T
  <2>1. Upto(s, 0) = <<>>
    BY UptoNone
  <2>2. Len(Upto(s, 0)) = 0
    BY <2>1
  <2> HIDE DEF Found
  <2> QED
    BY <2>2
<1>2. ASSUME NEW j \in 0..(n - 1), j \in T
      PROVE  j + 1 \in T
  <2>1. j + 1 \in 1..n /\ (j + 1) - 1 = j /\ j \in 0..n /\ j \in Nat
    OBVIOUS
  <2>2. Len(Upto(s, j + 1)) = Len(Upto(s, j)) + Len(s[j + 1])
    BY <2>1, UptoNext
  <2>3. Len(Upto(s, j)) \in Nat
    BY <2>1, UptoType
  <2>4. Len(s[j + 1]) \in Nat
    <3>1. s[j + 1] \in Seq(C)
      BY <2>1
    <3> QED
      BY <3>1
  <2>5. ASSUME NEW y \in 1..Len(Upto(s, j + 1))
        PROVE  Found(y, j + 1)
    <3>1. CASE y <= Len(Upto(s, j))
      <4>1. Found(y, j)
        <5>1. y \in 1..Len(Upto(s, j))
          BY <2>2, <2>3, <2>4, <3>1
        <5> HIDE DEF Found
        <5> QED
          BY <5>1, <1>2
      <4>2. 1..j \subseteq 1..(j + 1)
        BY <2>1
      <4> QED
        BY <4>1, <4>2
    <3>2. CASE ~(y <= Len(Upto(s, j)))
      <4> DEFINE i == y - Len(Upto(s, j))  m == j + 1
      <4>1. i \in 1..Len(s[j + 1]) /\ y = Len(Upto(s, j)) + i
        BY <2>2, <2>3, <2>4, <3>2
      <4>2. m \in 1..(j + 1) /\ m - 1 = j
        BY <2>1
      <4>3. i \in 1..Len(s[m]) /\ y = Len(Upto(s, m - 1)) + i
        BY <4>1, <4>2, <2>1, Zenon
      <4> HIDE DEF i, m
      <4> QED
        BY <4>2, <4>3
    <3> QED
      BY <3>1, <3>2
  <2> HIDE DEF Found
  <2> QED
    BY <2>1, <2>5
<1>3. n \in Nat
  OBVIOUS
<1> HIDE DEF T, n
<1>4. 0..n \subseteq T
  BY <1>1, <1>2, <1>3, UpTo
<1>5. n \in T
  BY <1>3, <1>4
<1>6. Upto(s, n) = FlattenSeq(s)
  BY UptoAll DEF n
<1> HIDE DEF Found
<1>7. Found(x, n)
  BY <1>5, <1>6 DEF T
<1> QED
  BY <1>7 DEF Found, n

-----------------------------------------------------------------------------
(* One sequence after another.                                             *)

Concatenated(z, x, y) ==
    /\ Len(z) = Len(x) + Len(y)
    /\ \A i \in 1..Len(x) : z[i] = x[i]
    /\ \A i \in 1..Len(y) : z[Len(x) + i] = y[i]

LEMMA ConcatIs ==
    ASSUME NEW C, NEW x \in Seq(C), NEW y \in Seq(C)
    PROVE  x \o y \in Seq(C) /\ Concatenated(x \o y, x, y)
<1> DEFINE z == x \o y
<1>1. /\ z \in Seq(C) /\ Len(z) = Len(x) + Len(y)
      /\ \A i \in 1..Len(z) : z[i] = IF i <= Len(x) THEN x[i] ELSE y[i - Len(x)]
  OBVIOUS
<1>2. Len(x) \in Nat /\ Len(y) \in Nat
  OBVIOUS
<1> HIDE DEF z
<1>3. \A i \in 1..Len(x) : z[i] = x[i]
  BY <1>1, <1>2
<1>4. ASSUME NEW i \in 1..Len(y)
      PROVE  z[Len(x) + i] = y[i]
  <2>1. Len(x) + i \in 1..Len(z) /\ ~(Len(x) + i <= Len(x)) /\ (Len(x) + i) - Len(x) = i
    BY <1>1, <1>2
  <2> QED
    BY <1>1, <2>1
<1>5. Concatenated(z, x, y)
  BY <1>1, <1>3, <1>4, Zenon DEF Concatenated
<1> QED
  BY <1>1, <1>5 DEF z

-----------------------------------------------------------------------------
(* Slices, and the smaller of two numbers.                                  *)

LEMMA SliceType ==
    ASSUME NEW E, NEW s \in Seq(E), NEW x \in Nat \ {0}, NEW y \in 0..Len(s)
    PROVE  /\ SubSeq(s, x, y) \in Seq(E)
           /\ Len(SubSeq(s, x, y)) = IF x <= y THEN y - x + 1 ELSE 0
           /\ \A i \in 1..Len(SubSeq(s, x, y)) : SubSeq(s, x, y)[i] = s[x + i - 1]
<1>1. CASE x <= y
  BY <1>1
<1>2. CASE ~(x <= y)
  <2>1. SubSeq(s, x, y) = <<>>
    BY <1>2
  <2> QED
    BY <1>2, <2>1
<1> QED
  BY <1>1, <1>2

LEMMA MinOfTwo ==
    ASSUME NEW x \in Int, NEW y \in Int
    PROVE  Min({x, y}) = IF x <= y THEN x ELSE y
<1> DEFINE T == {x, y}  m == IF x <= y THEN x ELSE y
<1>1. m \in T /\ \A t \in T : m <= t
  OBVIOUS
<1>2. \A u \in T : (\A t \in T : u <= t) => u = m
  OBVIOUS
<1> HIDE DEF T, m
<1>3. Min(T) = m
  BY <1>1, <1>2 DEF Min
<1> QED
  BY <1>3 DEF T, m

-----------------------------------------------------------------------------
(* Sequences that are equal, joined or flattened.                          *)

\* A sequence of some values of D is one of D.
LEMMA SeqNarrow ==
    ASSUME NEW C, NEW s \in Seq(C), NEW D, \A i \in 1..Len(s) : s[i] \in D
    PROVE  s \in Seq(D)
<1>1. s = [i \in 1..Len(s) |-> s[i]] /\ Len(s) \in Nat
  OBVIOUS
<1>2. [i \in 1..Len(s) |-> s[i]] \in Seq(D)
  BY <1>1
<1> QED
  BY <1>1, <1>2

LEMMA FlattenAppend ==
    ASSUME NEW C, NEW s \in Seq(Seq(C)), NEW x \in Seq(C)
    PROVE  FlattenSeq(Append(s, x)) = FlattenSeq(s) \o x
<1> DEFINE t == Append(s, x)  n == Len(s)
<1>1. t \in Seq(Seq(C)) /\ Len(t) = n + 1 /\ t[n + 1] = x /\ SubSeq(t, 1, n) = s
  OBVIOUS
<1>2. n \in Nat
  OBVIOUS
<1> HIDE DEF t
<1>3. FlattenSeq(SubSeq(t, 1, n + 1)) = FlattenSeq(SubSeq(t, 1, (n + 1) - 1)) \o t[n + 1]
  <2>1. n + 1 \in 1..Len(t)
    BY <1>1, <1>2
  <2> HIDE DEF n
  <2> QED
    BY <2>1, <1>1, FlattenPrefix
<1>4. SubSeq(t, 1, n + 1) = t /\ (n + 1) - 1 = n
  BY <1>1, <1>2
<1> QED
  BY <1>1, <1>3, <1>4 DEF t

LEMMA SeqSame ==
    ASSUME NEW C, NEW D, NEW u \in Seq(C), NEW v \in Seq(D), NEW n, Len(u) = n, Len(v) = n,
           \A i \in 1..n : u[i] = v[i]
    PROVE  u = v
<1>1. u = [i \in 1..n |-> u[i]] /\ v = [i \in 1..n |-> v[i]]
  OBVIOUS
<1> QED
  BY <1>1

\* What z must be to be x and then y.
Join(z, x, y, m, n) ==
    /\ m = Len(x) /\ n = Len(y) /\ Len(z) = m + n
    /\ \A k \in 1..m : z[k] = x[k]
    /\ \A k \in 1..n : z[m + k] = y[k]

LEMMA Joined ==
    ASSUME NEW C, NEW x \in Seq(C), NEW y \in Seq(C), NEW D, NEW z \in Seq(D),
           NEW m, NEW n, Join(z, x, y, m, n)
    PROVE  z = x \o y
<1>0. /\ m = Len(x) /\ n = Len(y) /\ Len(z) = m + n
      /\ \A k \in 1..m : z[k] = x[k]
      /\ \A k \in 1..n : z[m + k] = y[k]
  BY DEF Join
<1> DEFINE v == x \o y  l == m + n
<1>1. v \in Seq(C) /\ Len(v) = l /\ m \in Nat /\ n \in Nat
  BY <1>0
<1>2. ASSUME NEW k \in 1..l
      PROVE  z[k] = v[k]
  <2>1. CASE k \in 1..m
    BY <2>1, <1>0
  <2>2. CASE ~(k \in 1..m)
    <3>1. k - m \in 1..n /\ m + (k - m) = k
      BY <1>1, <2>2
    <3>2. z[m + (k - m)] = y[k - m]
      BY <3>1, <1>0
    <3>3. v[k] = y[k - m]
      BY <1>0, <1>1, <2>2, <3>1
    <3> QED
      BY <3>1, <3>2, <3>3
  <2> QED
    BY <2>1, <2>2
<1> HIDE DEF v, l
<1>3. Len(z) = l
  BY <1>0 DEF l
<1>4. z = v
  BY <1>1, <1>2, <1>3, SeqSame
<1> QED
  BY <1>4 DEF v

LEMMA ConcatTwice ==
    ASSUME NEW C, NEW x \in Seq(C), NEW y \in Seq(C), NEW z \in Seq(C)
    PROVE  (x \o y) \o z = x \o (y \o z)
<1> DEFINE u == (x \o y) \o z  v == x \o (y \o z)  n == Len(u)
<1>1. u \in Seq(C) /\ v \in Seq(C) /\ Len(u) = n /\ Len(v) = n
  OBVIOUS
<1>2. \A i \in 1..n : u[i] = v[i]
  OBVIOUS
<1> HIDE DEF u, v, n
<1>3. u = v
  BY <1>1, <1>2, SeqSame
<1> QED
  BY <1>3 DEF u, v

LEMMA ConcatAppend ==
    ASSUME NEW C, NEW x \in Seq(C), NEW y \in Seq(C), NEW e \in C
    PROVE  x \o Append(y, e) = Append(x \o y, e)
<1> DEFINE u == x \o Append(y, e)  v == Append(x \o y, e)
<1>1. u \in Seq(C) /\ v \in Seq(C) /\ Len(u) = Len(v)
  OBVIOUS
<1>2. \A i \in 1..Len(u) : u[i] = v[i]
  OBVIOUS
<1> HIDE DEF u, v
<1>3. u = v
  BY <1>1, <1>2, SeqSame
<1> QED
  BY <1>3 DEF u, v

LEMMA PrefixNext ==
    ASSUME NEW C, NEW s \in Seq(C), NEW k \in 0..(Len(s) - 1)
    PROVE  /\ SubSeq(s, 1, k) \in Seq(C) /\ s[k + 1] \in C
           /\ SubSeq(s, 1, k + 1) = Append(SubSeq(s, 1, k), s[k + 1])
<1> DEFINE u == SubSeq(s, 1, k + 1)  v == Append(SubSeq(s, 1, k), s[k + 1])
<1>1. SubSeq(s, 1, k) \in Seq(C) /\ Len(SubSeq(s, 1, k)) = k /\ s[k + 1] \in C
  OBVIOUS
<1>2. u \in Seq(C) /\ v \in Seq(C) /\ Len(u) = k + 1 /\ Len(v) = k + 1
  BY <1>1
<1>3. \A i \in 1..(k + 1) : u[i] = v[i]
  BY <1>1
<1> HIDE DEF u, v
<1>4. u = v
  BY <1>2, <1>3
<1> QED
  BY <1>1, <1>4 DEF u, v

LEMMA FlattenConcat ==
    ASSUME NEW C, NEW s \in Seq(Seq(C)), NEW t \in Seq(Seq(C))
    PROVE  FlattenSeq(s \o t) = FlattenSeq(s) \o FlattenSeq(t)
<1> DEFINE n == Len(t)
           T == {k \in Nat : FlattenSeq(s \o SubSeq(t, 1, k)) = FlattenSeq(s) \o Upto(t, k)}
<1>1. n \in Nat
  OBVIOUS
<1>2. 0 \in T
  <2>1. SubSeq(t, 1, 0) = <<>> /\ s \o <<>> = s
    OBVIOUS
  <2>2. Upto(t, 0) = <<>>
    BY UptoNone
  <2>3. FlattenSeq(s) \in Seq(C)
    BY FlattenType
  <2>4. FlattenSeq(s) \o <<>> = FlattenSeq(s)
    BY <2>3
  <2> QED
    BY <2>1, <2>2, <2>4
<1>3. ASSUME NEW k \in 0..(n - 1), k \in T
      PROVE  k + 1 \in T
  <2> DEFINE p == SubSeq(t, 1, k)  q == SubSeq(t, 1, k + 1)  e == t[k + 1]
  <2>1. /\ p \in Seq(Seq(C)) /\ q \in Seq(Seq(C)) /\ e \in Seq(C)
        /\ s \o q = Append(s \o p, e) /\ s \o p \in Seq(Seq(C))
    <3> DEFINE D == Seq(C)
    <3>1. s \in Seq(D) /\ t \in Seq(D) /\ k \in 0..(Len(t) - 1)
      OBVIOUS
    <3> HIDE DEF D
    <3>2. p \in Seq(D) /\ e \in D /\ q = Append(p, e)
      BY <3>1, PrefixNext
    <3>3. s \o Append(p, e) = Append(s \o p, e)
      BY <3>1, <3>2, ConcatAppend
    <3>4. q \in Seq(D) /\ s \o p \in Seq(D)
      BY <3>1, <3>2
    <3> QED
      BY <3>2, <3>3, <3>4 DEF D
  <2>2. FlattenSeq(s \o p) = FlattenSeq(s) \o Upto(t, k)
    BY <1>3
  <2>3. Upto(t, k + 1) = Upto(t, k) \o e
    <3>1. k + 1 \in 1..Len(t) /\ (k + 1) - 1 = k
      BY <1>1
    <3> QED
      BY <3>1, UptoNext
  <2>4. Upto(t, k) \in Seq(C) /\ FlattenSeq(s) \in Seq(C)
    <3>1. k \in 0..Len(t)
      BY <1>1
    <3> QED
      BY <3>1, UptoType, FlattenType
  <2> HIDE DEF p, q, e
  <2>5. FlattenSeq(s \o q) = FlattenSeq(s \o p) \o e
    BY <2>1, FlattenAppend
  <2>6. FlattenSeq(s \o q) = FlattenSeq(s) \o Upto(t, k + 1)
    <3> DEFINE x == FlattenSeq(s)  y == Upto(t, k)
    <3>2. x \in Seq(C) /\ y \in Seq(C) /\ e \in Seq(C)
      BY <2>1, <2>4
    <3> HIDE DEF x, y
    <3>1. (x \o y) \o e = x \o (y \o e)
      BY ONLY <3>2, ConcatTwice, SMTT(60)
    <3> QED
      BY <3>1, <2>5, <2>2, <2>3 DEF x, y
  <2> QED
    BY <2>6 DEF q
<1> HIDE DEF T
<1>4. 0..n \subseteq T
  <2> HIDE DEF n
  <2> QED
    BY <1>1, <1>2, <1>3, UpTo
<1>5. n \in T
  <2> HIDE DEF n
  <2> QED
    BY <1>1, <1>4
<1>6. SubSeq(t, 1, n) = t /\ Upto(t, n) = FlattenSeq(t)
  BY UptoAll
<1> QED
  BY <1>5, <1>6 DEF T

\* What is at a place of a flattened sequence, and where an element is.
LEMMA FlatPlaces ==
    ASSUME NEW C, NEW R \in Seq(Seq(C))
    PROVE  /\ \A x \in DOMAIN FlattenSeq(R) : \E k \in DOMAIN R : \E i \in DOMAIN R[k] :
                x = Len(Upto(R, k - 1)) + i /\ FlattenSeq(R)[x] = R[k][i]
           /\ \A k \in DOMAIN R : \A i \in DOMAIN R[k] :
                /\ Len(Upto(R, k - 1)) + i \in DOMAIN FlattenSeq(R)
                /\ FlattenSeq(R)[Len(Upto(R, k - 1)) + i] = R[k][i]
<1>1. FlattenSeq(R) \in Seq(C)
  BY FlattenType
<1>2. DOMAIN FlattenSeq(R) = 1..Len(FlattenSeq(R)) /\ DOMAIN R = 1..Len(R)
  BY <1>1
<1>3. \A k \in DOMAIN R : DOMAIN R[k] = 1..Len(R[k])
  OBVIOUS
<1>4. ASSUME NEW k \in DOMAIN R, NEW i \in DOMAIN R[k]
      PROVE  /\ Len(Upto(R, k - 1)) + i \in DOMAIN FlattenSeq(R)
             /\ FlattenSeq(R)[Len(Upto(R, k - 1)) + i] = R[k][i]
  <2>1. k \in 1..Len(R) /\ i \in 1..Len(R[k])
    BY <1>2, <1>3
  <2> QED
    BY <2>1, <1>2, FlattenAt
<1>5. ASSUME NEW x \in DOMAIN FlattenSeq(R)
      PROVE  \E k \in DOMAIN R : \E i \in DOMAIN R[k] :
                x = Len(Upto(R, k - 1)) + i /\ FlattenSeq(R)[x] = R[k][i]
  <2>1. x \in 1..Len(FlattenSeq(R))
    BY <1>2
  <2>2. PICK k \in 1..Len(R) : \E i \in 1..Len(R[k]) : x = Len(Upto(R, k - 1)) + i
    BY <2>1, FlattenWhere
  <2>3. PICK i \in 1..Len(R[k]) : x = Len(Upto(R, k - 1)) + i
    BY <2>2
  <2>4. k \in DOMAIN R /\ i \in DOMAIN R[k]
    BY <1>2, <1>3
  <2> QED
    BY <2>3, <2>4, <1>4
<1> QED
  BY <1>4, <1>5

LEMMA FlatMembers ==
    ASSUME NEW C, NEW R \in Seq(Seq(C))
    PROVE  /\ \A e \in ToSet(FlattenSeq(R)) : \E k \in DOMAIN R : \E i \in DOMAIN R[k] : e = R[k][i]
           /\ \A k \in DOMAIN R : \A i \in DOMAIN R[k] : R[k][i] \in ToSet(FlattenSeq(R))
<1>1. \A e \in ToSet(FlattenSeq(R)) : \E x \in DOMAIN FlattenSeq(R) : e = FlattenSeq(R)[x]
  BY Zenon DEF ToSet
<1>2. \A x \in DOMAIN FlattenSeq(R) : FlattenSeq(R)[x] \in ToSet(FlattenSeq(R))
  BY Zenon DEF ToSet
<1>3. \A x \in DOMAIN FlattenSeq(R) : \E k \in DOMAIN R : \E i \in DOMAIN R[k] :
            FlattenSeq(R)[x] = R[k][i]
  BY FlatPlaces, Zenon
<1>4. \A k \in DOMAIN R : \A i \in DOMAIN R[k] : \E x \in DOMAIN FlattenSeq(R) :
            FlattenSeq(R)[x] = R[k][i]
  BY FlatPlaces, Zenon
<1>5. \A e \in ToSet(FlattenSeq(R)) : \E k \in DOMAIN R : \E i \in DOMAIN R[k] : e = R[k][i]
  BY <1>1, <1>3
<1>6. \A k \in DOMAIN R : \A i \in DOMAIN R[k] : R[k][i] \in ToSet(FlattenSeq(R))
  BY <1>2, <1>4
<1> QED
  BY <1>5, <1>6

LEMMA AppendOne ==
    ASSUME NEW C, NEW s \in Seq(C), NEW e \in C
    PROVE  Append(s, e) = s \o <<e>> /\ Append(s, e) \in Seq(C)
OBVIOUS

LEMMA SubSeqNext ==
    ASSUME NEW C, NEW s \in Seq(C), NEW i \in 0..Len(s), NEW j \in i..Len(s)
    PROVE  SubSeq(s, 1, j) = SubSeq(s, 1, i) \o SubSeq(s, i + 1, j)
<1> DEFINE z == SubSeq(s, 1, j)  x == SubSeq(s, 1, i)  y == SubSeq(s, i + 1, j)  n == j - i
<1>1. /\ z \in Seq(C) /\ Len(z) = j /\ \A k \in 1..j : z[k] = s[k]
      /\ x \in Seq(C) /\ Len(x) = i /\ \A k \in 1..i : x[k] = s[k]
  OBVIOUS
<1>2. y \in Seq(C) /\ Len(y) = n /\ \A k \in 1..n : y[k] = s[i + k]
  <2> DEFINE u == i + 1
  <2>1. u \in Nat \ {0} /\ j \in 0..Len(s) /\ n \in Nat /\ j - u + 1 = n
    OBVIOUS
  <2> DEFINE v == SubSeq(s, u, j)
  <2>2. /\ v \in Seq(C) /\ Len(v) = IF u <= j THEN j - u + 1 ELSE 0
        /\ \A k \in 1..Len(v) : v[k] = s[u + k - 1]
    <3> HIDE DEF u
    <3> QED
      BY <2>1, SliceType
  <2> HIDE DEF v
  <2>3. Len(v) = n
    BY <2>1, <2>2
  <2>4. \A k \in 1..n : v[k] = s[i + k]
    <3>1. \A k \in 1..n : u + k - 1 = i + k
      OBVIOUS
    <3> QED
      BY <2>2, <2>3, <3>1
  <2> QED
    BY <2>2, <2>3, <2>4 DEF v
<1>3. i + n = j /\ i \in Nat /\ n \in Nat
  OBVIOUS
<1> HIDE DEF x, y, z, n
<1>4. \A k \in 1..n : i + k \in 1..j
  BY <1>3
<1>5. Join(z, x, y, i, n)
  <2>1. \A k \in 1..i : z[k] = x[k]
    BY <1>1, <1>3
  <2>2. \A k \in 1..n : z[i + k] = y[k]
    BY <1>1, <1>2, <1>4
  <2> QED
    BY <1>1, <1>2, <1>3, <2>1, <2>2 DEF Join
<1>6. z = x \o y
  BY <1>1, <1>2, <1>5, Joined
<1> QED
  BY <1>6 DEF x, y, z

LEMMA FunSeq ==
    ASSUME NEW S, NEW m \in Nat, NEW s, s = [k \in 1..m |-> s[k]], \A k \in 1..m : s[k] \in S
    PROVE  s \in Seq(S) /\ Len(s) = m /\ DOMAIN s = 1..m
<1> DEFINE t == [k \in 1..m |-> s[k]]
<1>1. \A k \in 1..m : s[k] \in S
  OBVIOUS
<1>2. s = t
  OBVIOUS
<1>3. t \in Seq(S) /\ Len(t) = m /\ DOMAIN t = 1..m
  BY ONLY <1>1, m \in Nat
<1> HIDE DEF t
<1> QED
  BY <1>2, <1>3

-----------------------------------------------------------------------------
(* Sequences of the same shape flatten to the same places.                 *)

\* Two lists of sequences of the same lengths.
SameShape(R, S) ==
    /\ Len(S) = Len(R)
    /\ \A k \in 1..Len(R) : Len(S[k]) = Len(R[k])

LEMMA ShapeUpto ==
    ASSUME NEW C, NEW R \in Seq(Seq(C)), NEW D, NEW S \in Seq(Seq(D)), SameShape(R, S)
    PROVE  /\ \A k \in 0..Len(R) : Len(Upto(S, k)) = Len(Upto(R, k))
           /\ Len(FlattenSeq(S)) = Len(FlattenSeq(R))
<1> DEFINE n == Len(R)
           T == {k \in Nat : k <= n => Len(Upto(S, k)) = Len(Upto(R, k))}
<1>1. n \in Nat /\ Len(S) = n /\ \A k \in 1..n : Len(S[k]) = Len(R[k])
  BY DEF SameShape
<1>2. Upto(S, 0) = <<>> /\ Upto(R, 0) = <<>>
  BY UptoNone
<1>3. 0 \in T
  BY <1>2
<1>4. ASSUME NEW k \in 0..(n - 1), k \in T
      PROVE  k + 1 \in T
  <2> DEFINE m == k + 1
  <2>1. m \in 1..n /\ m - 1 = k /\ m \in Nat
    BY <1>1
  <2> HIDE DEF m
  <2>2. Len(Upto(R, m)) = Len(Upto(R, m - 1)) + Len(R[m])
    BY <2>1, UptoNext
  <2>3. m \in 1..Len(S)
    BY <2>1, <1>1
  <2>4. Len(Upto(S, m)) = Len(Upto(S, m - 1)) + Len(S[m])
    BY <2>3, UptoNext
  <2>5. Len(Upto(S, k)) = Len(Upto(R, k))
    BY <1>4, <1>1
  <2>6. Len(Upto(S, m)) = Len(Upto(R, m))
    BY <2>1, <2>2, <2>4, <2>5, <1>1
  <2> QED
    BY <2>1, <2>6 DEF m
<1>5. 0..n \subseteq T
  <2> HIDE DEF n, T
  <2> QED
    BY <1>1, <1>3, <1>4, UpTo
<1>6. \A k \in 0..n : Len(Upto(S, k)) = Len(Upto(R, k))
  BY <1>5, <1>1
<1>7. Upto(R, n) = FlattenSeq(R) /\ Upto(S, n) = FlattenSeq(S)
  BY <1>1, UptoAll
<1>8. n \in 0..n
  BY <1>1
<1> QED
  BY <1>6, <1>7, <1>8

\* Each place of the one flattened list is a place of the other.
LEMMA ShapePlaces ==
    ASSUME NEW C, NEW R \in Seq(Seq(C)), NEW D, NEW S \in Seq(Seq(D)), SameShape(R, S),
           NEW x \in DOMAIN FlattenSeq(S)
    PROVE  \E k \in DOMAIN R : \E i \in DOMAIN R[k] :
                /\ k \in DOMAIN S /\ i \in DOMAIN S[k] /\ x \in DOMAIN FlattenSeq(R)
                /\ FlattenSeq(R)[x] = R[k][i] /\ FlattenSeq(S)[x] = S[k][i]
<1>1. PICK k \in DOMAIN S : \E i \in DOMAIN S[k] :
            x = Len(Upto(S, k - 1)) + i /\ FlattenSeq(S)[x] = S[k][i]
  BY FlatPlaces
<1>2. PICK i \in DOMAIN S[k] : x = Len(Upto(S, k - 1)) + i /\ FlattenSeq(S)[x] = S[k][i]
  BY <1>1
<1>3. k \in 1..Len(R) /\ k \in DOMAIN R /\ S[k] \in Seq(D) /\ R[k] \in Seq(C)
  BY DEF SameShape
<1>4. Len(S[k]) = Len(R[k])
  BY <1>3 DEF SameShape
<1>5. i \in DOMAIN R[k]
  BY <1>3, <1>4
<1>6. k - 1 \in 0..Len(R)
  BY <1>3
<1>7. Len(Upto(S, k - 1)) = Len(Upto(R, k - 1))
  BY <1>6, ShapeUpto
<1>8. x \in DOMAIN FlattenSeq(R) /\ FlattenSeq(R)[x] = R[k][i]
  <2>1. Len(Upto(R, k - 1)) + i \in DOMAIN FlattenSeq(R)
        /\ FlattenSeq(R)[Len(Upto(R, k - 1)) + i] = R[k][i]
    BY <1>3, <1>5, FlatPlaces
  <2> QED
    BY <2>1, <1>2, <1>7
<1> QED
  BY <1>2, <1>3, <1>5, <1>8

\* Different fragments of different rows are at different places.
LEMMA PlacesDiffer ==
    ASSUME NEW C, NEW R \in Seq(Seq(C)),
           NEW k \in DOMAIN R, NEW l \in DOMAIN R, NEW i \in DOMAIN R[k], NEW j \in DOMAIN R[l],
           k < l
    PROVE  Len(Upto(R, k - 1)) + i < Len(Upto(R, l - 1)) + j
<1>1. k \in 1..Len(R) /\ l \in 1..Len(R) /\ R[k] \in Seq(C) /\ R[l] \in Seq(C)
  OBVIOUS
<1>2. i \in 1..Len(R[k]) /\ j \in 1..Len(R[l]) /\ Len(R[k]) \in Nat
  BY <1>1
<1>3. Len(Upto(R, k)) = Len(Upto(R, k - 1)) + Len(R[k])
  BY <1>1, UptoNext
<1>4. k - 1 \in 0..Len(R) /\ l - 1 \in 0..Len(R) /\ k \in 0..(l - 1)
  <2> DEFINE n == Len(R)
  <2>1. n \in Nat /\ k \in 1..n /\ l \in 1..n
    BY <1>1
  <2> HIDE DEF n
  <2>3. k \in Int /\ l \in Int /\ k > 0 /\ k <= l - 1
    BY ONLY <2>1, k < l
  <2>4. k \in 0..(l - 1)
    BY ONLY <2>3
  <2>5. k - 1 \in 0..n /\ l - 1 \in 0..n
    BY ONLY <2>1
  <2>2. k - 1 \in 0..n /\ l - 1 \in 0..n /\ k \in 0..(l - 1)
    BY <2>4, <2>5
  <2> QED
    BY <2>2 DEF n
<1>5. Continues(Upto(R, k), Upto(R, l - 1))
  BY <1>4, UptoContinues
<1>6. Len(Upto(R, k)) <= Len(Upto(R, l - 1))
  BY <1>5 DEF Continues
<1>7. Len(Upto(R, k - 1)) \in Nat /\ Len(Upto(R, l - 1)) \in Nat
  BY <1>4, UptoType
<1> DEFINE p == Len(Upto(R, k - 1))  q == Len(Upto(R, l - 1))  w == Len(R[k])
<1>8. /\ p + w <= q
      /\ p \in Nat /\ q \in Nat /\ w \in Nat /\ i \in 1..w
  BY <1>2, <1>3, <1>6, <1>7
<1>10. j \in Nat /\ j > 0
  <2> DEFINE v == Len(R[l])
  <2>1. j \in 1..v /\ v \in Nat
    BY <1>1, <1>2
  <2> HIDE DEF v
  <2> QED
    BY ONLY <2>1
<1> HIDE DEF p, q, w
<1>9. p + i < q + j
  BY ONLY <1>8, <1>10
<1> QED
  BY <1>9 DEF p, q

-----------------------------------------------------------------------------
(* What lies where in a sequence of sequences.                             *)

\* p is what z has from offset o on.
LiesAt(z, o, p) ==
    o \in Nat /\ o + Len(p) <= Len(z) /\ \A i \in 1..Len(p) : z[o + i] = p[i]

OneBefore(z, h, s) == z = <<h>> \o s
Headed(E, z, h, s) == z \in Seq(E) /\ Len(z) = 1 + Len(s) /\ z[1] = h /\ LiesAt(z, 1, s)

LEMMA OneThen ==
    ASSUME NEW E, NEW h \in E, NEW s \in Seq(E), NEW z, OneBefore(z, h, s)
    PROVE  Headed(E, z, h, s)
<1> DEFINE t == <<h>>  n == Len(s)
<1>1. t \in Seq(E) /\ Len(t) = 1 /\ t[1] = h /\ n \in Nat
  OBVIOUS
<1>2. z = t \o s
  BY DEF OneBefore
<1> HIDE DEF t
<1>3. t \o s \in Seq(E) /\ Concatenated(t \o s, t, s)
  BY <1>1, ConcatIs
<1>4. z \in Seq(E) /\ Len(z) = 1 + Len(s) /\ z[1] = h /\ \A i \in 1..Len(s) : z[1 + i] = s[i]
  <2>1. 1 \in 1..Len(t)
    BY <1>1
  <2> QED
    BY <1>1, <1>2, <1>3, <2>1 DEF Concatenated
<1>5. 1 + Len(s) <= Len(z)
  BY <1>1, <1>4
<1> QED
  BY <1>4, <1>5 DEF LiesAt, Headed

OneLonger(cells, blocks) ==
    Len(cells) = Len(blocks) /\ \A b \in 1..Len(blocks) : Len(cells[b]) = 1 + Len(blocks[b])
LEMMA LiesTwice ==
    ASSUME NEW z, NEW p, NEW q, NEW u, NEW v, Len(z) \in Nat, Len(p) \in Nat, Len(q) \in Nat,
           LiesAt(z, u, p), LiesAt(p, v, q)
    PROVE  LiesAt(z, u + v, q)
<1> DEFINE l == Len(z)  m == Len(p)  n == Len(q)
<1>1. /\ u \in Nat /\ u + m <= l /\ \A i \in 1..m : z[u + i] = p[i]
      /\ v \in Nat /\ v + n <= m /\ \A i \in 1..n : p[v + i] = q[i]
      /\ l \in Nat /\ m \in Nat /\ n \in Nat
  BY DEF LiesAt
<1> HIDE DEF l, m, n
<1>2. ASSUME NEW i \in 1..n
      PROVE  z[(u + v) + i] = q[i]
  <2>1. v + i \in 1..m /\ (u + v) + i = u + (v + i)
    BY <1>1
  <2> QED
    BY <2>1, <1>1
<1>3. u + v \in Nat /\ (u + v) + n <= l
  BY <1>1
<1> QED
  BY <1>2, <1>3 DEF LiesAt, l, n

LEMMA FlattenLies ==
    ASSUME NEW C, NEW s \in Seq(Seq(C)), NEW k \in 1..Len(s)
    PROVE  LiesAt(FlattenSeq(s), Len(Upto(s, k - 1)), s[k])
<1> DEFINE o == Len(Upto(s, k - 1))  n == Len(s[k])  z == FlattenSeq(s)
<1>1. \A i \in 1..n : o + i \in 1..Len(z) /\ z[o + i] = s[k][i]
  BY FlattenAt
<1>2. k - 1 \in 0..Len(s) /\ s[k] \in Seq(C) /\ n \in Nat
  <2> DEFINE m == Len(s)
  <2>1. m \in Nat /\ k \in 1..m
    OBVIOUS
  <2>2. s[k] \in Seq(C)
    OBVIOUS
  <2> HIDE DEF m
  <2>3. k - 1 \in 0..m
    BY ONLY <2>1
  <2> QED
    BY <2>2, <2>3 DEF m
<1>3. o \in Nat /\ z \in Seq(C)
  BY <1>2, UptoType, FlattenType
<1>4. o + n <= Len(z)
  <2>1. Len(Upto(s, k)) = o + n
    BY UptoNext
  <2>2. Continues(Upto(s, k), Upto(s, Len(s)))
    <3> DEFINE m == Len(s)
    <3>1. m \in Nat /\ k \in 1..m
      OBVIOUS
    <3> HIDE DEF m
    <3>2. m \in 0..m /\ k \in 0..m
      BY ONLY <3>1
    <3>3. m \in 0..Len(s)
      BY <3>2 DEF m
    <3>4. Continues(Upto(s, k), Upto(s, m))
      BY <3>2, <3>3, UptoContinues
    <3> QED
      BY <3>4 DEF m
  <2>3. Upto(s, Len(s)) = z
    BY UptoAll
  <2> QED
    BY <2>1, <2>2, <2>3 DEF Continues
<1> QED
  BY <1>1, <1>3, <1>4 DEF LiesAt

LEMMA SliceLies ==
    ASSUME NEW C, NEW z \in Seq(C), NEW D, NEW p \in Seq(D), NEW o, LiesAt(z, o, p),
           NEW x, x = o + 1, NEW y, y = o + Len(p)
    PROVE  SubSeq(z, x, y) = p
<1> DEFINE l == Len(z)  n == Len(p)  q == SubSeq(z, x, y)
<1>1. l \in Nat /\ n \in Nat /\ o \in Nat /\ o + n <= l /\ \A i \in 1..n : z[o + i] = p[i]
  BY DEF LiesAt
<1> HIDE DEF l, n
<1>2. x \in Nat \ {0} /\ y \in 0..l /\ y = o + n
  BY <1>1 DEF n
<1>3. /\ q \in Seq(C) /\ Len(q) = IF x <= y THEN y - x + 1 ELSE 0
      /\ \A i \in 1..Len(q) : q[i] = z[x + i - 1]
  <2>1. y \in 0..Len(z)
    BY <1>2 DEF l
  <2> QED
    BY <1>2, <2>1, SliceType
<1> HIDE DEF q
<1>4. Len(q) = n
  BY <1>1, <1>2, <1>3
<1>5. \A i \in 1..n : q[i] = p[i]
  <2>1. \A i \in 1..n : x + i - 1 = o + i
    BY <1>1
  <2> QED
    BY <1>1, <1>3, <1>4, <2>1
<1>6. q = p
  <2>1. Len(p) = n
    BY DEF n
  <2> QED
    BY <1>3, <1>4, <1>5, <2>1, SeqSame
<1> QED
  BY <1>6 DEF q

FourIn(E, z, p, q, r, s) ==
    /\ z \in Seq(E) /\ Len(z) = Len(p) + Len(q) + Len(r) + Len(s)
    /\ LiesAt(z, 0, p) /\ LiesAt(z, Len(p), q) /\ LiesAt(z, Len(p) + Len(q), r)
    /\ LiesAt(z, Len(p) + Len(q) + Len(r), s)

LEMMA TwoLie ==
    ASSUME NEW E, NEW p \in Seq(E), NEW q \in Seq(E)
    PROVE  /\ p \o q \in Seq(E) /\ Len(p \o q) = Len(p) + Len(q)
           /\ LiesAt(p \o q, 0, p) /\ LiesAt(p \o q, Len(p), q)
<1> DEFINE z == p \o q  l == Len(p)  m == Len(q)
<1>1. z \in Seq(E) /\ Concatenated(z, p, q)
  BY ConcatIs
<1>2. l \in Nat /\ m \in Nat
  OBVIOUS
<1> HIDE DEF z
<1>3. Len(z) = l + m /\ (\A i \in 1..l : z[i] = p[i]) /\ \A i \in 1..m : z[l + i] = q[i]
  BY <1>1 DEF Concatenated
<1> HIDE DEF l, m
<1>4. \A i \in 1..l : z[0 + i] = p[i]
  BY <1>2, <1>3
<1>5. 0 + l <= Len(z) /\ l + m <= Len(z)
  BY <1>2, <1>3
<1>6. LiesAt(z, 0, p) /\ LiesAt(z, l, q)
  BY <1>2, <1>3, <1>4, <1>5 DEF LiesAt, l, m
<1> QED
  BY <1>1, <1>3, <1>6 DEF z, l, m

LEMMA FourLie ==
    ASSUME NEW E, NEW p \in Seq(E), NEW q \in Seq(E), NEW r \in Seq(E), NEW s \in Seq(E),
           NEW z, z = p \o q \o r \o s
    PROVE  FourIn(E, z, p, q, r, s)
<1> DEFINE u == p \o q  v == u \o r  w == v \o s
<1>1. z = w
  OBVIOUS
<1>2. u \in Seq(E) /\ Len(u) = Len(p) + Len(q) /\ LiesAt(u, 0, p) /\ LiesAt(u, Len(p), q)
  BY TwoLie
<1> HIDE DEF u
<1>3. v \in Seq(E) /\ Len(v) = Len(u) + Len(r) /\ LiesAt(v, 0, u) /\ LiesAt(v, Len(u), r)
  BY <1>2, TwoLie
<1> HIDE DEF v
<1>4. w \in Seq(E) /\ Len(w) = Len(v) + Len(s) /\ LiesAt(w, 0, v) /\ LiesAt(w, Len(v), s)
  BY <1>3, TwoLie
<1> HIDE DEF w
<1>5. Len(p) \in Nat /\ Len(q) \in Nat /\ Len(r) \in Nat /\ Len(s) \in Nat
      /\ Len(u) \in Nat /\ Len(v) \in Nat /\ Len(w) \in Nat
  <2>1. \A t \in Seq(E) : Len(t) \in Nat
    OBVIOUS
  <2> QED
    BY <2>1, <1>2, <1>3, <1>4
<1>6. LiesAt(w, 0 + 0, u) /\ LiesAt(w, 0 + Len(u), r)
  BY <1>3, <1>4, <1>5, LiesTwice
<1>7. 0 + 0 = 0 /\ 0 + Len(u) = Len(u) /\ 0 + Len(p) = Len(p)
  BY <1>5
<1>8. LiesAt(w, 0, u) /\ LiesAt(w, Len(u), r)
  BY <1>6, <1>7
<1>9. LiesAt(w, 0 + 0, p) /\ LiesAt(w, 0 + Len(p), q)
  BY <1>2, <1>5, <1>8, LiesTwice
<1>10. LiesAt(w, 0, p) /\ LiesAt(w, Len(p), q)
  BY <1>7, <1>9
<1> QED
  BY <1>1, <1>2, <1>3, <1>4, <1>8, <1>10 DEF FourIn

\* s is content cut at the places T.
Cuts(s, content, m, T) ==
    /\ Len(s) = m /\ T[0] = 0 /\ T[m] = Len(content)
    /\ \A k \in 1..m :
        /\ T[k - 1] < T[k] /\ T[k] <= Len(content)
        /\ s[k] = SubSeq(content, T[k - 1] + 1, T[k])

LEMMA CutsFlatten ==
    ASSUME NEW C, NEW content \in Seq(C), NEW s \in Seq(Seq(C)), NEW m \in Nat,
           NEW T \in [0..m -> Nat], Cuts(s, content, m, T)
    PROVE  /\ FlattenSeq(s) = content
           /\ \A k \in 0..m : Upto(s, k) = SubSeq(content, 1, T[k]) /\ T[k] <= Len(content)
<1> DEFINE U == {k \in Nat : Upto(s, k) = SubSeq(content, 1, T[k])}
<1>1. /\ Len(s) = m /\ T[0] = 0 /\ T[m] = Len(content)
      /\ \A k \in 1..m :
            /\ T[k - 1] < T[k] /\ T[k] <= Len(content)
            /\ s[k] = SubSeq(content, T[k - 1] + 1, T[k])
  BY DEF Cuts
<1>2. \A k \in 0..m : T[k] \in Nat /\ T[k] <= Len(content)
  <2>1. \A k \in 0..m : k = 0 \/ k \in 1..m
    OBVIOUS
  <2> QED
    BY <1>1, <2>1
<1>3. 0 \in U
  <2>1. SubSeq(content, 1, 0) = <<>>
    OBVIOUS
  <2>2. Upto(s, 0) = <<>>
    BY UptoNone
  <2> QED
    BY <1>1, <2>1, <2>2
<1>4. ASSUME NEW k \in 0..(m - 1), k \in U
      PROVE  k + 1 \in U
  <2>1. k + 1 \in 1..Len(s) /\ (k + 1) - 1 = k /\ k + 1 \in 1..m /\ k + 1 \in 0..m /\ k \in 0..m
    BY <1>1
  <2>2. Upto(s, k + 1) = Upto(s, k) \o s[k + 1]
    <3> DEFINE j == k + 1
    <3>1. j \in 1..Len(s) /\ j - 1 = k
      BY <2>1
    <3> HIDE DEF j
    <3>2. Upto(s, j) = Upto(s, j - 1) \o s[j]
      BY <3>1, UptoNext
    <3> QED
      BY <3>1, <3>2 DEF j
  <2> DEFINE i == T[k]  j == T[k + 1]
  <2>3. i \in 0..Len(content) /\ j \in i..Len(content) /\ s[k + 1] = SubSeq(content, i + 1, j)
    <3>1. i \in Nat /\ i <= Len(content) /\ j \in Nat /\ j <= Len(content)
      BY <1>2, <2>1
    <3>2. i < j /\ s[k + 1] = SubSeq(content, i + 1, j)
      BY <1>1, <2>1
    <3> HIDE DEF i, j
    <3> QED
      BY <3>1, <3>2
  <2> HIDE DEF i, j
  <2>4. SubSeq(content, 1, j) = SubSeq(content, 1, i) \o SubSeq(content, i + 1, j)
    BY <2>3, SubSeqNext
  <2>5. Upto(s, k + 1) = SubSeq(content, 1, j)
    BY <1>4, <2>2, <2>3, <2>4 DEF i
  <2> QED
    BY <2>5 DEF j
<1> HIDE DEF U
<1>5. 0..m \subseteq U
  BY <1>3, <1>4, UpTo
<1>6. \A k \in 0..m : Upto(s, k) = SubSeq(content, 1, T[k])
  BY <1>5 DEF U
<1>7. FlattenSeq(s) = content
  <2>1. Upto(s, m) = FlattenSeq(s)
    BY <1>1, UptoAll
  <2>2. m \in 0..m /\ SubSeq(content, 1, Len(content)) = content
    OBVIOUS
  <2> QED
    BY <1>1, <1>6, <2>1, <2>2
<1> QED
  BY <1>2, <1>6, <1>7

CutParts(C, s, content, m, T) ==
    /\ s \in Seq(Seq(C))
    /\ \A k \in 1..m :
        /\ s[k] \in Seq(C) /\ Len(s[k]) = T[k] - T[k - 1] /\ Len(s[k]) > 0 /\ s[k] # <<>>
        /\ \A i \in 1..Len(s[k]) : s[k][i] = content[T[k - 1] + i]

LEMMA CutsType ==
    ASSUME NEW C, NEW content \in Seq(C), NEW s, NEW m \in Nat,
           NEW T \in [0..m -> Nat], Cuts(s, content, m, T), s = [k \in 1..m |-> s[k]]
    PROVE  CutParts(C, s, content, m, T)
<1>1. ASSUME NEW k \in 1..m
      PROVE  /\ s[k] \in Seq(C) /\ Len(s[k]) = T[k] - T[k - 1] /\ Len(s[k]) > 0 /\ s[k] # <<>>
             /\ \A i \in 1..Len(s[k]) : s[k][i] = content[T[k - 1] + i]
  <2> DEFINE i == T[k - 1]  j == T[k]  t == SubSeq(content, i + 1, j)
  <2>1. k - 1 \in 0..m /\ k \in 0..m
    OBVIOUS
  <2>2. i \in Nat /\ j \in Nat /\ i < j /\ j <= Len(content) /\ s[k] = t
    BY <2>1 DEF Cuts
  <2>3. i + 1 \in Nat \ {0} /\ j \in 0..Len(content) /\ i + 1 <= j
    <3> DEFINE l == Len(content)
    <3>1. i \in Nat /\ j \in Nat /\ i < j /\ j <= l /\ l \in Nat
      BY <2>2
    <3> HIDE DEF i, j, l
    <3>2. i + 1 \in Nat \ {0} /\ j \in 0..l /\ i + 1 <= j
      BY ONLY <3>1
    <3> QED
      BY <3>2 DEF l
  <2> HIDE DEF i, j
  <2>4. /\ t \in Seq(C) /\ Len(t) = IF i + 1 <= j THEN j - (i + 1) + 1 ELSE 0
        /\ \A o \in 1..Len(t) : t[o] = content[i + 1 + o - 1]
    BY <2>3, SliceType
  <2> HIDE DEF t
  <2>5. Len(t) = j - i /\ Len(t) > 0 /\ t # <<>>
    BY <2>2, <2>3, <2>4
  <2>6. \A o \in 1..Len(t) : i + 1 + o - 1 = i + o
    BY <2>2, <2>5
  <2> QED
    BY <2>2, <2>4, <2>5, <2>6 DEF i, j
<1> DEFINE D == Seq(C)
<1>2. \A k \in 1..m : s[k] \in D
  BY <1>1
<1> HIDE DEF D
<1>3. s \in Seq(D)
  BY <1>2, FunSeq
<1> QED
  BY <1>1, <1>3 DEF D, CutParts

\* The two halves of a concatenation, taken apart.
LEMMA ConcatParts ==
    ASSUME NEW C, NEW x \in Seq(C), NEW y \in Seq(C), NEW c, c = x \o y, NEW p \in Nat, p = Len(x)
    PROVE  p \in 0..Len(c) /\ SubSeq(c, 1, p) = x /\ SubSeq(c, p + 1, Len(c)) = y
<1> DEFINE l == Len(y)  m == Len(c)
<1>1. c \in Seq(C) /\ Concatenated(c, x, y)
  BY ConcatIs
<1>2. /\ m = p + l /\ l \in Nat
       /\ (\A i \in 1..p : c[i] = x[i]) /\ (\A i \in 1..l : c[p + i] = y[i])
  BY <1>1 DEF Concatenated
<1>3. SubSeq(c, 1, p) = x
  <2> DEFINE z == SubSeq(c, 1, p)
  <2> HIDE DEF l, m
  <2>1. p \in 0..m
    BY <1>2
  <2>2. z \in Seq(C) /\ Len(z) = p /\ \A i \in 1..p : z[i] = c[i]
    BY <1>1, <2>1 DEF m
  <2> HIDE DEF z
  <2>3. \A i \in 1..p : z[i] = x[i]
    BY <1>2, <2>2
  <2>4. z = x
    BY <2>2, <2>3, SeqSame
  <2> QED
    BY <2>4 DEF z
<1>4. SubSeq(c, p + 1, Len(c)) = y
  <2> DEFINE u == p + 1  z == SubSeq(c, u, m)
  <2> HIDE DEF l, m
  <2>1. u \in Nat \ {0} /\ m \in 0..m /\ (IF u <= m THEN m - u + 1 = l ELSE l = 0)
    <3>1. p \in Nat /\ l \in Nat /\ m = p + l
      BY <1>2
    <3>2. m \in 0..m /\ u \in Nat \ {0}
      BY ONLY <3>1
    <3>3. CASE l = 0
      BY ONLY <3>1, <3>2, <3>3
    <3>4. CASE l # 0
      <4>1. u <= m /\ m - u + 1 = l
        BY ONLY <3>1, <3>4
      <4> HIDE DEF u
      <4> QED
        BY <4>1, <3>2
    <3> QED
      BY <3>3, <3>4
  <2>2. \A i \in 1..l : u + i - 1 = p + i
    BY <1>2
  <2> HIDE DEF u
  <2>3. /\ z \in Seq(C) /\ Len(z) = IF u <= m THEN m - u + 1 ELSE 0
        /\ \A i \in 1..Len(z) : z[i] = c[u + i - 1]
    BY <2>1, <1>1, SliceType DEF m
  <2> HIDE DEF z
  <2>4. Len(z) = l
    BY <2>1, <2>3
  <2>5. \A i \in 1..l : z[i] = y[i]
    BY <2>2, <2>3, <2>4, <1>2
  <2>6. Len(y) = l
    BY DEF l
  <2>7. z = y
    BY <2>3, <2>4, <2>5, <2>6, SeqSame
  <2> QED
    BY <2>7 DEF z, u, m
<1>5. p \in 0..Len(c)
  <2> HIDE DEF l, m
  <2>1. p \in 0..m
    BY <1>2
  <2> QED
    BY <2>1 DEF m
<1> QED
  BY <1>3, <1>4, <1>5
=============================================================================
