------------------------------ MODULE DcpProofs -------------------------------
(***************************************************************************)
(* Proofs about DcpWriter, for contents, edits and chunks of every size,   *)
(* any number of partitions, and blocks of any number of entries.          *)
(*                                                                         *)
(* The invariant is Filed: every container is Healthy (fragments that are  *)
(* never empty and lie in the pool, bytes of content under each of them,   *)
(* SHARED on every byte that two fragments use, no uid twice) and no uid   *)
(* is in two partitions.  Together with IsView, which says that what the   *)
(* fragments spell is what DcpStore holds, it is kept by every operation;  *)
(* opening a file is the long case: ToBytes lays out the pool, the chains  *)
(* of fragment tables and the inner table (Imaged), and Parse walks them   *)
(* back to the same fragments (ChainWalked, ParsedIs).                     *)
(***************************************************************************)
EXTENDS MCDcpWriter, DataInduction

-----------------------------------------------------------------------------
(* Fragments and the bytes they stand for.                                 *)

FragSet == [offset : Nat, length : Nat \ {0}, shared : BOOLEAN]
InPool(pool, f) ==
    f.offset + f.length <= Len(pool) /\ \A i \in 1..f.length : pool[f.offset + i] \in Byte
FragsIn(pool, frags) == \A j \in DOMAIN frags : InPool(pool, frags[j])

LEMMA FragIs ==
    ASSUME NEW f \in FragSet
    PROVE  /\ f.offset \in Nat /\ f.length \in Nat /\ f.length > 0 /\ f.shared \in BOOLEAN
           /\ f.offset + f.length \in Nat
BY DEF FragSet

LEMMA SliceIs ==
    ASSUME NEW C, NEW pool \in Seq(C), NEW f \in FragSet, InPool(pool, f)
    PROVE  /\ Slice(pool, f) \in Seq(Byte) /\ Len(Slice(pool, f)) = f.length
           /\ \A i \in 1..f.length : Slice(pool, f)[i] = pool[f.offset + i]
<1> DEFINE x == f.offset + 1  y == f.offset + f.length  s == SubSeq(pool, x, y)
<1>1. x \in Nat \ {0} /\ y \in 0..Len(pool) /\ x <= y /\ y - x + 1 = f.length
  <2>1. f.offset \in Nat /\ f.length \in Nat /\ f.length > 0
    BY FragIs
  <2>2. f.offset + f.length <= Len(pool)
    BY DEF InPool
  <2>3. Len(pool) \in Nat
    OBVIOUS
  <2> QED
    BY <2>1, <2>2, <2>3
<1>2. /\ Len(s) = IF x <= y THEN y - x + 1 ELSE 0
      /\ \A i \in 1..Len(s) : s[i] = pool[x + i - 1]
      /\ s \in Seq(C)
  <2> HIDE DEF x, y
  <2> QED
    BY <1>1, SliceType
<1>3. Len(s) = f.length
  BY <1>1, <1>2
<1>4. \A i \in 1..f.length : x + i - 1 = f.offset + i
  BY FragIs
<1>5. \A i \in 1..f.length : s[i] = pool[f.offset + i]
  BY <1>2, <1>3, <1>4
<1>6. \A i \in 1..Len(s) : s[i] \in Byte
  BY <1>3, <1>5 DEF InPool
<1>7. s \in Seq(Byte)
  <2> HIDE DEF s
  <2> QED
    BY <1>2, <1>6, SeqNarrow
<1> QED
  BY <1>3, <1>5, <1>7 DEF Slice

Slices(pool, frags) == [k \in DOMAIN frags |-> Slice(pool, frags[k])]

LEMMA SlicesAre ==
    ASSUME NEW C, NEW pool \in Seq(C), NEW frags \in Seq(FragSet), FragsIn(pool, frags)
    PROVE  /\ Slices(pool, frags) \in Seq(Seq(Byte)) /\ Len(Slices(pool, frags)) = Len(frags)
           /\ Content(pool, frags) = FlattenSeq(Slices(pool, frags))
           /\ \A k \in 1..Len(frags) : Slices(pool, frags)[k] = Slice(pool, frags[k])
           /\ Content(pool, frags) \in Seq(Byte)
<1> DEFINE S == Slices(pool, frags)  n == Len(frags)
<1>1. n \in Nat /\ DOMAIN frags = 1..n
  OBVIOUS
<1>2. ASSUME NEW k \in 1..n
      PROVE  S[k] = Slice(pool, frags[k]) /\ S[k] \in Seq(Byte)
  <2>1. frags[k] \in FragSet /\ InPool(pool, frags[k])
    BY DEF FragsIn
  <2> QED
    BY <2>1, <1>1, SliceIs DEF Slices
<1>3. S = [k \in 1..n |-> S[k]]
  BY <1>1 DEF Slices
<1> HIDE DEF S
<1>4. S \in Seq(Seq(Byte)) /\ Len(S) = n
  BY <1>1, <1>2, <1>3
<1>5. Content(pool, frags) = FlattenSeq(S)
  BY DEF Content, S, Slices
<1>6. FlattenSeq(S) \in Seq(Byte)
  BY <1>4, FlattenType
<1> QED
  BY <1>2, <1>4, <1>5, <1>6 DEF S

-----------------------------------------------------------------------------
(* Sums of lengths.                                                        *)

Lengthy(s, n) == \A j \in 1..n : s[j].length \in Nat
Sums(h, s, n) == h[0] = 0 /\ \A j \in 1..n : h[j] = h[j - 1] + s[j].length

LEMMA SumsExist ==
    ASSUME NEW s, NEW n \in Nat, Lengthy(s, n)
    PROVE  \E h \in [0..n -> Nat] : Sums(h, s, n)
<1> DEFINE F == [p \in (1..n) \X Nat |-> p[2] + s[p[1]].length]
<1>1. Steps(F, n, Nat)
  BY DEF Steps, Lengthy
<1>2. \A i \in 1..n, x \in Nat : F[<<i, x>>] = x + s[i].length
  OBVIOUS
<1> HIDE DEF F
<1>3. PICK g : Solution(g, n, Nat, 0, F)
  BY <1>1, Recursion
<1>4. g \in [0..n -> Nat] /\ g[0] = 0 /\ \A i \in 1..n : g[i] = F[<<i, g[i - 1]>>]
  BY <1>3 DEF Solution
<1>5. ASSUME NEW i \in 1..n
      PROVE  g[i] = g[i - 1] + s[i].length
  <2>1. i - 1 \in 0..n
    OBVIOUS
  <2>2. g[i - 1] \in Nat
    BY <1>4, <2>1
  <2> QED
    BY <1>2, <1>4, <2>2
<1>6. Sums(g, s, n)
  BY <1>4, <1>5, Zenon DEF Sums
<1> QED
  BY <1>4, <1>6

LEMMA SumsOnce ==
    ASSUME NEW s, NEW n \in Nat, NEW g, NEW h, Sums(g, s, n), Sums(h, s, n)
    PROVE  \A k \in 0..n : g[k] = h[k]
<1> DEFINE T == {k \in Nat : g[k] = h[k]}
<1>1. 0 \in T
  BY DEF Sums
<1>2. ASSUME NEW k \in 0..(n - 1), k \in T
      PROVE  k + 1 \in T
  <2>1. k + 1 \in 1..n /\ (k + 1) - 1 = k
    OBVIOUS
  <2>2. g[k + 1] = g[k] + s[k + 1].length /\ h[k + 1] = h[k] + s[k + 1].length
    BY <2>1 DEF Sums
  <2> QED
    BY <1>2, <2>2
<1> HIDE DEF T
<1>3. 0..n \subseteq T
  BY <1>1, <1>2, UpTo
<1> QED
  BY <1>3 DEF T

LEMMA BeforeSums ==
    ASSUME NEW s, NEW n \in Nat, Lengthy(s, n), NEW h, Sums(h, s, n), NEW k \in 0..n
    PROVE  Before(s, k) = h[k]
<1> DEFINE g == [j \in 0..k |-> h[j]]
           c == CHOOSE c : c = [j \in 0..k |-> IF j = 0 THEN 0 ELSE c[j - 1] + s[j].length]
<1>1. Before(s, k) = c[k]
  BY Zenon DEF Before
<1>2. \A j \in 0..k : j \in 0..n /\ (j # 0 => j \in 1..n /\ j - 1 \in 0..k)
  OBVIOUS
<1>3. \A j \in 0..k : h[j] = IF j = 0 THEN 0 ELSE h[j - 1] + s[j].length
  BY <1>2 DEF Sums
<1>4. g = [j \in 0..k |-> IF j = 0 THEN 0 ELSE g[j - 1] + s[j].length]
  <2>1. \A j \in 0..k : j # 0 => g[j - 1] = h[j - 1]
    BY <1>2
  <2>2. \A j \in 0..k : h[j] = IF j = 0 THEN 0 ELSE g[j - 1] + s[j].length
    BY <1>3, <2>1
  <2> QED
    BY <2>2, Zenon
<1> HIDE DEF g
<1>5. c = [j \in 0..k |-> IF j = 0 THEN 0 ELSE c[j - 1] + s[j].length]
  BY <1>4, Zenon
<1> HIDE DEF c
<1>6. Sums(c, s, k)
  <2>1. 0 \in 0..k /\ \A j \in 1..k : j \in 0..k /\ j # 0
    OBVIOUS
  <2>2. c[0] = 0
    BY <1>5, <2>1, Zenon
  <2>3. \A j \in 1..k : c[j] = c[j - 1] + s[j].length
    BY <1>5, <2>1, Zenon
  <2> QED
    BY <2>2, <2>3, Zenon DEF Sums
<1>7. Sums(h, s, k)
  BY <1>2 DEF Sums
<1>8. k \in Nat /\ k \in 0..k
  OBVIOUS
<1>9. c[k] = h[k]
  BY <1>6, <1>7, <1>8, SumsOnce
<1> QED
  BY <1>1, <1>9

LEMMA BeforeIs ==
    ASSUME NEW s, NEW n \in Nat, Lengthy(s, n)
    PROVE  /\ Before(s, 0) = 0
           /\ \A k \in 0..n : Before(s, k) \in Nat
           /\ \A k \in 1..n : Before(s, k) = Before(s, k - 1) + s[k].length
<1>1. PICK h \in [0..n -> Nat] : Sums(h, s, n)
  BY SumsExist
<1>2. \A k \in 0..n : Before(s, k) = h[k]
  BY <1>1, BeforeSums
<1>3. 0 \in 0..n /\ \A k \in 1..n : k \in 0..n /\ k - 1 \in 0..n
  OBVIOUS
<1> QED
  BY <1>1, <1>2, <1>3 DEF Sums

\* The sums do not decrease.
LEMMA BeforeGrows ==
    ASSUME NEW s, NEW n \in Nat, Lengthy(s, n), NEW i \in 0..n, NEW j \in i..n
    PROVE  Before(s, i) <= Before(s, j)
<1> DEFINE T == {m \in Nat : Before(s, i) <= Before(s, i + m)}
<1>1. 0 \in T
  BY BeforeIs
<1>2. ASSUME NEW m \in 0..((j - i) - 1), m \in T
      PROVE  m + 1 \in T
  <2>1. i + m \in 0..n /\ i + (m + 1) \in 1..n /\ i + (m + 1) - 1 = i + m /\ i + (m + 1) \in 0..n
    OBVIOUS
  <2>2. Before(s, i + (m + 1)) = Before(s, i + m) + s[i + (m + 1)].length
    BY <2>1, BeforeIs
  <2>3. s[i + (m + 1)].length \in Nat
    BY <2>1 DEF Lengthy
  <2>4. Before(s, i) \in Nat /\ Before(s, i + m) \in Nat /\ Before(s, i + (m + 1)) \in Nat
    BY <2>1, BeforeIs
  <2>5. Before(s, i) <= Before(s, i + m)
    BY <1>2
  <2>6. Before(s, i) <= Before(s, i + (m + 1))
    BY ONLY <2>2, <2>3, <2>4, <2>5
  <2> QED
    BY <2>6
<1> HIDE DEF T
<1>3. j - i \in Nat /\ i + (j - i) = j
  OBVIOUS
<1>4. 0..(j - i) \subseteq T
  BY <1>1, <1>2, <1>3, UpTo
<1>5. j - i \in T
  BY <1>3, <1>4
<1> QED
  BY <1>3, <1>5 DEF T

-----------------------------------------------------------------------------
(* Contents.                                                               *)

LEMMA FragsLengthy ==
    ASSUME NEW frags \in Seq(FragSet)
    PROVE  /\ Lengthy(frags, Len(frags)) /\ Len(frags) \in Nat /\ DOMAIN frags = 1..Len(frags)
           /\ \A k \in 1..Len(frags) : frags[k] \in FragSet /\ frags[k].length > 0
BY FragIs DEF Lengthy

\* The content of the first k fragments is as long as they are together.
LEMMA ContentLen ==
    ASSUME NEW C, NEW pool \in Seq(C), NEW frags \in Seq(FragSet), FragsIn(pool, frags),
           NEW k \in 0..Len(frags)
    PROVE  /\ Len(Upto(Slices(pool, frags), k)) = Before(frags, k)
           /\ Upto(Slices(pool, frags), k) \in Seq(Byte)
<1> DEFINE S == Slices(pool, frags)  n == Len(frags)
           T == {j \in Nat : Len(Upto(S, j)) = Before(frags, j)}
<1>1. S \in Seq(Seq(Byte)) /\ Len(S) = n /\ \A j \in 1..n : S[j] = Slice(pool, frags[j])
  BY SlicesAre
<1>2. n \in Nat /\ Lengthy(frags, n) /\ DOMAIN frags = 1..n
  BY FragsLengthy
<1>3. \A j \in 1..n : Len(S[j]) = frags[j].length
  <2>1. ASSUME NEW j \in 1..n
        PROVE  Len(S[j]) = frags[j].length
    <3>1. frags[j] \in FragSet /\ InPool(pool, frags[j])
      BY <1>2, FragsLengthy DEF FragsIn
    <3> QED
      BY <3>1, <1>1, SliceIs
  <2> QED
    BY <2>1
<1> HIDE DEF S
<1>4. 0 \in T
  <2>1. Upto(S, 0) = <<>>
    BY <1>1, UptoNone
  <2>2. Before(frags, 0) = 0
    BY <1>2, BeforeIs
  <2> QED
    BY <2>1, <2>2
<1>5. ASSUME NEW j \in 0..(n - 1), j \in T
      PROVE  j + 1 \in T
  <2>1. j + 1 \in 1..n /\ (j + 1) - 1 = j /\ j + 1 \in 1..Len(S)
    BY <1>1, <1>2
  <2>2. Len(Upto(S, j + 1)) = Len(Upto(S, (j + 1) - 1)) + Len(S[j + 1])
    BY <1>1, <2>1, UptoNext
  <2>3. Before(frags, j + 1) = Before(frags, (j + 1) - 1) + frags[j + 1].length
    BY <1>2, <2>1, BeforeIs
  <2>4. Len(Upto(S, j + 1)) = Before(frags, j + 1)
    BY <1>3, <1>5, <2>1, <2>2, <2>3
  <2> QED
    BY <2>4
<1> HIDE DEF T
<1>6. 0..n \subseteq T
  <2> HIDE DEF n
  <2> QED
    BY <1>2, <1>4, <1>5, UpTo
<1>7. k \in T /\ k \in 0..Len(S)
  BY <1>1, <1>6
<1>8. Upto(S, k) \in Seq(Byte)
  BY <1>1, <1>7, UptoType
<1> QED
  BY <1>7, <1>8 DEF T, S

LEMMA LogicalIs ==
    ASSUME NEW C, NEW pool \in Seq(C), NEW frags \in Seq(FragSet), FragsIn(pool, frags)
    PROVE  /\ Content(pool, frags) \in Seq(Byte)
           /\ Len(Content(pool, frags)) = LogicalLen(frags) /\ LogicalLen(frags) \in Nat
<1> DEFINE S == Slices(pool, frags)  n == Len(frags)
<1>1. S \in Seq(Seq(Byte)) /\ Len(S) = n /\ Content(pool, frags) = FlattenSeq(S)
      /\ Content(pool, frags) \in Seq(Byte)
  BY SlicesAre
<1>2. n \in 0..n
  OBVIOUS
<1>3. Len(Upto(S, n)) = Before(frags, n)
  BY <1>2, ContentLen
<1>4. Upto(S, n) = FlattenSeq(S)
  <2> HIDE DEF S
  <2> QED
    BY <1>1, UptoAll
<1> HIDE DEF S
<1>5. Len(Content(pool, frags)) = LogicalLen(frags)
  BY <1>1, <1>3, <1>4 DEF LogicalLen
<1> QED
  BY <1>1, <1>5

\* The same slices, of whatever pools, are the same content.
LEMMA ContentSame ==
    ASSUME NEW p, NEW q, NEW r, NEW s, DOMAIN r = DOMAIN s,
           \A k \in DOMAIN r : Slice(p, r[k]) = Slice(q, s[k])
    PROVE  Content(p, r) = Content(q, s)
<1>1. [k \in DOMAIN r |-> Slice(p, r[k])] = [k \in DOMAIN s |-> Slice(q, s[k])]
  BY Zenon
<1> QED
  BY <1>1, Zenon DEF Content

LEMMA ContentConcat ==
    ASSUME NEW C, NEW pool \in Seq(C), NEW r \in Seq(FragSet), NEW s \in Seq(FragSet),
           FragsIn(pool, r), FragsIn(pool, s)
    PROVE  /\ r \o s \in Seq(FragSet) /\ FragsIn(pool, r \o s)
           /\ Content(pool, r \o s) = Content(pool, r) \o Content(pool, s)
<1> DEFINE t == r \o s  R == Slices(pool, r)  S == Slices(pool, s)
           T == Slices(pool, t)  m == Len(r)  n == Len(s)
<1>1. /\ t \in Seq(FragSet) /\ Len(t) = m + n /\ m \in Nat /\ n \in Nat
      /\ \A k \in 1..m : t[k] = r[k]
      /\ \A k \in 1..n : t[m + k] = s[k]
  BY ConcatIs DEF Concatenated
<1>2. \A k \in 1..(m + n) : k \in 1..m \/ (k - m \in 1..n /\ k = m + (k - m))
  BY <1>1
<1>3. DOMAIN r = 1..m /\ DOMAIN s = 1..n /\ DOMAIN t = 1..(m + n)
  BY <1>1
<1> HIDE DEF t, m, n
<1>4. FragsIn(pool, t)
  <2>1. ASSUME NEW k \in 1..(m + n)
        PROVE  InPool(pool, t[k])
    <3>1. CASE k \in 1..m
      BY <3>1, <1>1, <1>3 DEF FragsIn
    <3>2. CASE k - m \in 1..n /\ k = m + (k - m)
      BY <3>2, <1>1, <1>3 DEF FragsIn
    <3> QED
      BY <3>1, <3>2, <1>2
  <2> QED
    BY <2>1, <1>3 DEF FragsIn
<1>5. /\ R \in Seq(Seq(Byte)) /\ Len(R) = m /\ Content(pool, r) = FlattenSeq(R)
      /\ \A k \in 1..m : R[k] = Slice(pool, r[k])
  BY SlicesAre DEF m
<1>6. /\ S \in Seq(Seq(Byte)) /\ Len(S) = n /\ Content(pool, s) = FlattenSeq(S)
      /\ \A k \in 1..n : S[k] = Slice(pool, s[k])
  BY SlicesAre DEF n
<1>7. /\ T \in Seq(Seq(Byte)) /\ Len(T) = m + n /\ Content(pool, t) = FlattenSeq(T)
      /\ \A k \in 1..(m + n) : T[k] = Slice(pool, t[k])
  <2>1. /\ T \in Seq(Seq(Byte)) /\ Len(T) = Len(t) /\ Content(pool, t) = FlattenSeq(T)
        /\ \A k \in 1..Len(t) : T[k] = Slice(pool, t[k])
    BY <1>1, <1>4, SlicesAre
  <2> QED
    BY <2>1, <1>1
<1> HIDE DEF R, S, T
<1>8. T = R \o S
  <2> DEFINE D == Seq(Byte)
  <2>1. R \in Seq(D) /\ S \in Seq(D) /\ T \in Seq(D)
    BY <1>5, <1>6, <1>7
  <2> HIDE DEF D
  <2>2. ASSUME NEW k \in 1..m
        PROVE  T[k] = R[k]
    <3>1. k \in 1..(m + n)
      BY <1>1
    <3> QED
      BY <3>1, <1>1, <1>5, <1>7
  <2>3. ASSUME NEW k \in 1..n
        PROVE  T[m + k] = S[k]
    <3>1. m + k \in 1..(m + n)
      BY <1>1
    <3> QED
      BY <3>1, <1>1, <1>6, <1>7
  <2>4. /\ m = Len(R) /\ n = Len(S) /\ Len(T) = m + n
        /\ \A k \in 1..m : T[k] = R[k]
        /\ \A k \in 1..n : T[m + k] = S[k]
    BY <2>2, <2>3, <1>5, <1>6, <1>7
  <2>5. Join(T, R, S, m, n)
    BY <2>4 DEF Join
  <2> QED
    BY <2>1, <2>5, Joined
<1>9. FlattenSeq(R \o S) = FlattenSeq(R) \o FlattenSeq(S)
  BY <1>5, <1>6, FlattenConcat
<1>10. Content(pool, t) = Content(pool, r) \o Content(pool, s)
  BY <1>5, <1>6, <1>7, <1>8, <1>9
<1> QED
  BY <1>1, <1>4, <1>10 DEF t

LEMMA ContentOne ==
    ASSUME NEW C, NEW pool \in Seq(C), NEW f \in FragSet, InPool(pool, f)
    PROVE  /\ <<f>> \in Seq(FragSet) /\ FragsIn(pool, <<f>>)
           /\ Content(pool, <<f>>) = Slice(pool, f)
<1>1. <<f>> \in Seq(FragSet) /\ FragsIn(pool, <<f>>) /\ Len(<<f>>) = 1
  BY DEF FragsIn
<1> DEFINE g == <<f>>
<1>0. g[1] = f
  OBVIOUS
<1> HIDE DEF g
<1> DEFINE S == Slices(pool, g)
<1>2. S \in Seq(Seq(Byte)) /\ Len(S) = 1 /\ Content(pool, g) = FlattenSeq(S)
      /\ S[1] = Slice(pool, f)
  <2>1. g \in Seq(FragSet) /\ FragsIn(pool, g) /\ Len(g) = 1 /\ 1 \in 1..Len(g)
    BY <1>1 DEF g
  <2> QED
    BY <2>1, <1>0, SlicesAre
<1>3. Upto(S, 1) = Upto(S, 0) \o S[1]
  <2> HIDE DEF S
  <2>1. 1 \in 1..Len(S) /\ 1 - 1 = 0
    BY <1>2
  <2>2. Upto(S, 1) = Upto(S, 1 - 1) \o S[1]
    BY <2>1, <1>2, UptoNext, Zenon
  <2> QED
    BY <2>1, <2>2
<1>4. Upto(S, 0) = <<>> /\ Upto(S, 1) = FlattenSeq(S)
  <2> HIDE DEF S
  <2> QED
    BY <1>2, UptoNone, UptoAll
<1>5. Slice(pool, f) \in Seq(Byte)
  BY SliceIs
<1>6. <<>> \o Slice(pool, f) = Slice(pool, f)
  BY <1>5, EmptyLeft
<1> HIDE DEF S
<1>7. Content(pool, g) = Slice(pool, f)
  BY <1>2, <1>3, <1>4, <1>6
<1> QED
  BY <1>1, <1>7 DEF g

-----------------------------------------------------------------------------
(* Rows of fragments: those of each partition.  Two with a byte in common  *)
(* are marked.                                                             *)

SelfMarked(r) == \A i, j \in DOMAIN r : i # j /\ Overlap(r[i], r[j]) => r[i].shared
CrossMarked(r, s) ==
    \A i \in DOMAIN r, j \in DOMAIN s : Overlap(r[i], s[j]) => r[i].shared /\ s[j].shared
Marked(R) ==
    /\ \A k \in DOMAIN R : SelfMarked(R[k])
    /\ \A k, l \in DOMAIN R : k # l => CrossMarked(R[k], R[l])
Pooled(pool, R) == \A k \in DOMAIN R : FragsIn(pool, R[k])
Rows == Seq(Seq(FragSet))

LEMMA RowsAre ==
    ASSUME NEW R \in Rows
    PROVE  /\ DOMAIN R = 1..Len(R) /\ Len(R) \in Nat
           /\ \A k \in DOMAIN R : R[k] \in Seq(FragSet) /\ DOMAIN R[k] = 1..Len(R[k])
           /\ \A k \in DOMAIN R : \A i \in DOMAIN R[k] : R[k][i] \in FragSet
BY DEF Rows

LEMMA OverlapBoth ==
    ASSUME NEW f, NEW g, Overlap(f, g)
    PROVE  Overlap(g, f)
BY DEF Overlap

\* Two of the same extent overlap the same fragments.
LEMMA OverlapSame ==
    ASSUME NEW f, NEW g, NEW h, Extent(f) = Extent(g), Overlap(f, h)
    PROVE  Overlap(g, h)
BY DEF Overlap, Extent

LEMMA MarkIs ==
    ASSUME NEW frags \in Seq(FragSet), NEW e
    PROVE  /\ MarkShared(frags, e) \in Seq(FragSet)
           /\ Len(MarkShared(frags, e)) = Len(frags)
           /\ DOMAIN MarkShared(frags, e) = DOMAIN frags
           /\ \A k \in DOMAIN frags :
                /\ Extent(MarkShared(frags, e)[k]) = Extent(frags[k])
                /\ MarkShared(frags, e)[k].offset = frags[k].offset
                /\ MarkShared(frags, e)[k].length = frags[k].length
                /\ MarkShared(frags, e)[k].shared <=> frags[k].shared \/ Extent(frags[k]) = e
<1> DEFINE n == Len(frags)  r == MarkShared(frags, e)
<1>1. n \in Nat /\ DOMAIN frags = 1..n
  OBVIOUS
<1>2. ASSUME NEW k \in 1..n
      PROVE  /\ r[k] \in FragSet /\ Extent(r[k]) = Extent(frags[k])
             /\ r[k].offset = frags[k].offset /\ r[k].length = frags[k].length
             /\ r[k].shared <=> frags[k].shared \/ Extent(frags[k]) = e
  <2>1. frags[k] \in FragSet
    OBVIOUS
  <2>2. r[k] = IF Extent(frags[k]) = e THEN [frags[k] EXCEPT !.shared = TRUE] ELSE frags[k]
    BY <1>1 DEF MarkShared
  <2> HIDE DEF r
  <2>3. CASE Extent(frags[k]) = e
    <3>1. r[k] = [frags[k] EXCEPT !.shared = TRUE]
      BY <2>2, <2>3
    <3>2. /\ r[k] \in FragSet
          /\ r[k].offset = frags[k].offset /\ r[k].length = frags[k].length /\ r[k].shared = TRUE
      BY <2>1, <3>1 DEF FragSet
    <3> QED
      BY <2>3, <3>2 DEF Extent
  <2>4. CASE Extent(frags[k]) # e
    BY <2>1, <2>2, <2>4
  <2> QED
    BY <2>3, <2>4
<1>3. r = [k \in 1..n |-> r[k]]
  BY <1>1 DEF MarkShared
<1> HIDE DEF r
<1>4. r \in Seq(FragSet) /\ Len(r) = n /\ DOMAIN r = 1..n
  BY <1>1, <1>2, <1>3
<1> QED
  BY <1>1, <1>2, <1>4 DEF r

MarkedRows(R, e) == [k \in DOMAIN R |-> MarkShared(R[k], e)]
Remarked(pool, R, R2, e) ==
    /\ R2 \in Rows /\ Len(R2) = Len(R) /\ Marked(R2) /\ Pooled(pool, R2)
    /\ \A k \in DOMAIN R : \A j \in DOMAIN R[k] :
         /\ Extent(R2[k][j]) = Extent(R[k][j])
         /\ Extent(R2[k][j]) = e => R2[k][j].shared
    /\ \A k \in DOMAIN R : Content(pool, R2[k]) = Content(pool, R[k])

LEMMA MarkRows ==
    ASSUME NEW pool, NEW R \in Rows, NEW e, Marked(R), Pooled(pool, R),
           NEW R2, R2 = MarkedRows(R, e)
    PROVE  Remarked(pool, R, R2, e)
<1>0. R2 = [k \in DOMAIN R |-> MarkShared(R[k], e)]
  BY DEF MarkedRows
<1>1. /\ DOMAIN R = 1..Len(R) /\ Len(R) \in Nat
      /\ \A k \in DOMAIN R : R[k] \in Seq(FragSet)
  BY RowsAre
<1>2. ASSUME NEW k \in DOMAIN R
      PROVE  /\ R2[k] \in Seq(FragSet) /\ DOMAIN R2[k] = DOMAIN R[k]
             /\ \A j \in DOMAIN R[k] :
                    /\ Extent(R2[k][j]) = Extent(R[k][j])
                    /\ R2[k][j].offset = R[k][j].offset
                    /\ R2[k][j].length = R[k][j].length
                    /\ R2[k][j].shared <=> R[k][j].shared \/ Extent(R[k][j]) = e
  <2>1. R2[k] = MarkShared(R[k], e) /\ R[k] \in Seq(FragSet)
    BY <1>0, <1>1
  <2> QED
    BY <2>1, MarkIs
<1>3. R2 \in Rows /\ Len(R2) = Len(R) /\ DOMAIN R2 = DOMAIN R
  <2>1. R2 = [k \in 1..Len(R) |-> R2[k]]
    BY <1>0, <1>1
  <2>2. \A k \in 1..Len(R) : R2[k] \in Seq(FragSet)
    BY <1>1, <1>2
  <2> DEFINE D == Seq(FragSet)
  <2> HIDE DEF D
  <2>3. \A k \in 1..Len(R) : R2[k] \in D
    BY <2>2 DEF D
  <2>4. R2 \in Seq(D) /\ Len(R2) = Len(R)
    BY <1>1, <2>1, <2>3
  <2> QED
    BY <2>4, <1>1 DEF Rows, D
<1>4. \A k, l \in DOMAIN R : \A i \in DOMAIN R[k], j \in DOMAIN R[l] :
        Overlap(R2[k][i], R2[l][j]) => Overlap(R[k][i], R[l][j])
  BY <1>2 DEF Overlap
<1>5. Marked(R2)
  <2>1. ASSUME NEW k \in DOMAIN R
        PROVE  SelfMarked(R2[k])
    <3>1. SelfMarked(R[k])
      BY DEF Marked
    <3>2. SUFFICES ASSUME NEW i \in DOMAIN R2[k], NEW j \in DOMAIN R2[k], i # j,
                          Overlap(R2[k][i], R2[k][j])
                   PROVE  R2[k][i].shared
      BY DEF SelfMarked
    <3>3. i \in DOMAIN R[k] /\ j \in DOMAIN R[k]
      BY <1>2
    <3>4. Overlap(R[k][i], R[k][j])
      BY <3>2, <3>3, <1>4
    <3>5. R[k][i].shared
      BY <3>1, <3>2, <3>3, <3>4 DEF SelfMarked
    <3> QED
      BY <3>3, <3>5, <1>2
  <2>2. ASSUME NEW k \in DOMAIN R, NEW l \in DOMAIN R, k # l
        PROVE  CrossMarked(R2[k], R2[l])
    <3>1. CrossMarked(R[k], R[l])
      BY <2>2, Zenon DEF Marked
    <3>2. SUFFICES ASSUME NEW i \in DOMAIN R2[k], NEW j \in DOMAIN R2[l],
                          Overlap(R2[k][i], R2[l][j])
                   PROVE  R2[k][i].shared /\ R2[l][j].shared
      BY DEF CrossMarked
    <3>3. i \in DOMAIN R[k] /\ j \in DOMAIN R[l]
      BY <1>2
    <3>4. Overlap(R[k][i], R[l][j])
      BY <3>2, <3>3, <1>4
    <3>5. R[k][i].shared /\ R[l][j].shared
      BY <3>1, <3>3, <3>4 DEF CrossMarked
    <3> QED
      BY <3>3, <3>5, <1>2
  <2> QED
    BY <2>1, <2>2, <1>3 DEF Marked
<1>6. Pooled(pool, R2)
  <2>1. ASSUME NEW k \in DOMAIN R
        PROVE  FragsIn(pool, R2[k])
    <3>1. FragsIn(pool, R[k])
      BY DEF Pooled
    <3> QED
      BY <3>1, <1>2 DEF FragsIn, InPool
  <2> QED
    BY <2>1, <1>3 DEF Pooled
<1>7. ASSUME NEW k \in DOMAIN R
      PROVE  Content(pool, R2[k]) = Content(pool, R[k])
  <2>1. \A j \in DOMAIN R2[k] : Slice(pool, R2[k][j]) = Slice(pool, R[k][j])
    BY <1>2 DEF Slice
  <2>2. DOMAIN R2[k] = DOMAIN R[k]
    BY <1>2
  <2> QED
    BY <2>1, <2>2, ContentSame
<1> QED
  BY <1>2, <1>3, <1>5, <1>6, <1>7 DEF Remarked

\* A fragment more in one row.
LEMMA RowGrows ==
    ASSUME NEW R \in Rows, Marked(R), NEW n \in DOMAIN R, NEW f \in FragSet,
           \A l \in DOMAIN R : \A i \in DOMAIN R[l] :
                Overlap(f, R[l][i]) => f.shared /\ R[l][i].shared,
           NEW R2 \in Rows, DOMAIN R2 = DOMAIN R, R2[n] = Append(R[n], f),
           \A l \in DOMAIN R \ {n} : R2[l] = R[l]
    PROVE  Marked(R2)
<1>1. /\ DOMAIN R[n] = 1..Len(R[n]) /\ DOMAIN R2[n] = 1..(Len(R[n]) + 1) /\ Len(R[n]) \in Nat
      /\ \A i \in DOMAIN R[n] : R2[n][i] = R[n][i]
      /\ R2[n][Len(R[n]) + 1] = f
  <2>1. R[n] \in Seq(FragSet)
    BY RowsAre
  <2> QED
    BY <2>1
<1>2. \A i \in DOMAIN R2[n] : i \in DOMAIN R[n] \/ R2[n][i] = f
  BY <1>1
<1>3. \A i, j \in DOMAIN R2[n] : i # j => i \in DOMAIN R[n] \/ j \in DOMAIN R[n]
  BY <1>1
<1>4. \A l \in DOMAIN R : \A i \in DOMAIN R[l] : Overlap(R[l][i], f) => f.shared /\ R[l][i].shared
  BY OverlapBoth
<1>5. SelfMarked(R2[n])
  <2>1. SUFFICES ASSUME NEW i \in DOMAIN R2[n], NEW j \in DOMAIN R2[n], i # j,
                        Overlap(R2[n][i], R2[n][j])
                 PROVE  R2[n][i].shared
    BY DEF SelfMarked
  <2>2. CASE i \in DOMAIN R[n] /\ j \in DOMAIN R[n]
    <3>1. SelfMarked(R[n]) /\ R2[n][i] = R[n][i] /\ R2[n][j] = R[n][j]
      BY <2>2, <1>1 DEF Marked
    <3> QED
      BY <3>1, <2>1, <2>2 DEF SelfMarked
  <2>3. CASE i \in DOMAIN R[n] /\ R2[n][j] = f
    BY <2>1, <2>3, <1>1, <1>4
  <2>4. CASE R2[n][i] = f /\ j \in DOMAIN R[n]
    BY <2>1, <2>4, <1>1
  <2> QED
    BY <2>1, <2>2, <2>3, <2>4, <1>2, <1>3
<1>6. ASSUME NEW k \in DOMAIN R, NEW l \in DOMAIN R, k # l
      PROVE  CrossMarked(R2[k], R2[l])
  <2>1. CrossMarked(R[k], R[l])
    BY <1>6 DEF Marked
  <2>2. SUFFICES ASSUME NEW i \in DOMAIN R2[k], NEW j \in DOMAIN R2[l], Overlap(R2[k][i], R2[l][j])
                 PROVE  R2[k][i].shared /\ R2[l][j].shared
    BY DEF CrossMarked
  <2>3. CASE k = n /\ ~(i \in DOMAIN R[n])
    <3>1. R2[k][i] = f /\ R2[l] = R[l] /\ j \in DOMAIN R[l]
      BY <1>2, <1>6, <2>3
    <3> QED
      BY <2>2, <3>1
  <2>4. CASE l = n /\ ~(j \in DOMAIN R[n])
    <3>1. R2[l][j] = f /\ R2[k] = R[k] /\ i \in DOMAIN R[k]
      BY <1>2, <1>6, <2>4
    <3> QED
      BY <2>2, <3>1, <1>4
  <2>5. CASE (k = n => i \in DOMAIN R[n]) /\ (l = n => j \in DOMAIN R[n])
    <3>1. /\ i \in DOMAIN R[k] /\ j \in DOMAIN R[l]
          /\ R2[k][i] = R[k][i] /\ R2[l][j] = R[l][j]
      BY <1>1, <2>5
    <3> QED
      BY <2>1, <2>2, <3>1 DEF CrossMarked
  <2> QED
    BY <2>3, <2>4, <2>5
<1>7. \A k \in DOMAIN R : SelfMarked(R2[k])
  <2>1. \A k \in DOMAIN R \ {n} : SelfMarked(R2[k])
    BY DEF Marked
  <2> QED
    BY <2>1, <1>5
<1> QED
  BY <1>6, <1>7 DEF Marked

-----------------------------------------------------------------------------
(* A pool that grows.                                                      *)

LEMMA PoolGrows ==
    ASSUME NEW D, NEW pool \in Seq(D), NEW chunk \in Seq(D), NEW f \in FragSet, InPool(pool, f)
    PROVE  /\ InPool(pool \o chunk, f)
           /\ Slice(pool \o chunk, f) = Slice(pool, f)
<1> DEFINE new == pool \o chunk  s == Slice(pool, f)  t == Slice(new, f)  n == f.length
<1>1. new \in Seq(D) /\ Len(new) = Len(pool) + Len(chunk) /\ Len(pool) \in Nat /\ Len(chunk) \in Nat
  OBVIOUS
<1>2. \A i \in 1..Len(pool) : new[i] = pool[i]
  OBVIOUS
<1>3. /\ f.offset \in Nat /\ n \in Nat /\ f.offset + n <= Len(pool)
      /\ \A i \in 1..n : pool[f.offset + i] \in Byte
  BY FragIs DEF InPool
<1> HIDE DEF new
<1>4. \A i \in 1..n : f.offset + i \in 1..Len(pool)
  <2> DEFINE o == f.offset  l == Len(pool)
  <2>1. o \in Nat /\ n \in Nat /\ l \in Nat /\ o + n <= l
    BY <1>1, <1>3
  <2> HIDE DEF o, l, n
  <2>2. \A i \in 1..n : o + i \in 1..l
    BY ONLY <2>1
  <2> QED
    BY <2>2 DEF o, l
<1>5. f.offset + n <= Len(new)
  BY <1>1, <1>3
<1>6. InPool(new, f)
  BY <1>2, <1>3, <1>4, <1>5 DEF InPool
<1>7. /\ s \in Seq(Byte) /\ Len(s) = n
      /\ \A i \in 1..n : s[i] = pool[f.offset + i]
  BY SliceIs
<1>8. /\ t \in Seq(Byte) /\ Len(t) = n
      /\ \A i \in 1..n : t[i] = new[f.offset + i]
  BY <1>1, <1>6, SliceIs
<1>9. \A i \in 1..n : t[i] = s[i]
  BY <1>2, <1>4, <1>7, <1>8
<1> HIDE DEF s, t, n
<1>10. t = s
  BY <1>7, <1>8, <1>9, SeqSame
<1> QED
  BY <1>6, <1>10 DEF new, s, t

\* The last bytes of a pool as a fragment.
AtEnd(D, pool, chunk, f) ==
    /\ f \in FragSet /\ pool \o chunk \in Seq(D) /\ InPool(pool \o chunk, f)
    /\ Slice(pool \o chunk, f) = chunk
    /\ \A g \in FragSet : InPool(pool, g) => ~Overlap(f, g)

LEMMA FreshSlice ==
    ASSUME NEW D, NEW pool \in Seq(D), NEW chunk \in Seq(Byte), chunk # <<>>, Byte \subseteq D,
           NEW f, f = Frag(Len(pool), Len(chunk), FALSE)
    PROVE  AtEnd(D, pool, chunk, f)
<1> DEFINE new == pool \o chunk  t == Slice(new, f)  m == Len(pool)  n == Len(chunk)
<1>1. /\ chunk \in Seq(D) /\ new \in Seq(D) /\ Len(new) = m + n
      /\ m \in Nat /\ n \in Nat /\ n > 0
      /\ \A i \in 1..n : new[m + i] = chunk[i] /\ chunk[i] \in Byte
  OBVIOUS
<1> HIDE DEF new, m, n
<1>2. f.offset = m /\ f.length = n /\ f.shared = FALSE /\ f \in FragSet
  BY <1>1 DEF Frag, FragSet, m, n
<1>3. InPool(new, f)
  <2>1. f.offset + f.length <= Len(new)
    <3>1. f.offset + f.length = m + n /\ m + n <= m + n
      BY ONLY <1>1, <1>2
    <3> QED
      BY ONLY <3>1, <1>1
  <2>2. \A i \in 1..f.length : new[f.offset + i] \in Byte
    BY <1>1, <1>2
  <2> QED
    BY <2>1, <2>2 DEF InPool
<1>4. t \in Seq(Byte) /\ Len(t) = n /\ \A i \in 1..n : t[i] = chunk[i]
  BY <1>1, <1>2, <1>3, SliceIs
<1>5. t = chunk
  <2> HIDE DEF t
  <2>1. Len(chunk) = n
    BY DEF n
  <2> QED
    BY <1>4, <2>1, SeqSame
<1>6. ASSUME NEW g \in FragSet, InPool(pool, g)
      PROVE  ~Overlap(f, g)
  <2>1. g.offset \in Nat /\ g.length \in Nat /\ g.offset + g.length <= m
    BY <1>6, FragIs DEF InPool, m
  <2>2. ~(m < g.offset + g.length)
    <3> DEFINE o == g.offset  l == g.length
    <3>1. o \in Nat /\ l \in Nat /\ o + l <= m
      BY <2>1
    <3> HIDE DEF o, l
    <3>2. ~(m < o + l)
      BY ONLY <3>1, <1>1
    <3> QED
      BY <3>2 DEF o, l
  <2> QED
    BY <2>2, <1>2 DEF Overlap
<1> QED
  BY <1>1, <1>2, <1>3, <1>5, <1>6 DEF new, AtEnd

-----------------------------------------------------------------------------
(* One chunk.                                                              *)

InnerSet == [uid : Uid, algo : Algo, frags : Seq(FragSet)]
Accs(D) == [blob : Seq(D), inners : Seq(InnerSet), frags : Seq(FragSet)]
RowsOf(inners) == [k \in DOMAIN inners |-> inners[k].frags]
AccRows(x) == Append(RowsOf(x.inners), x.frags)
Good(pool, R) == Pooled(pool, R) /\ Marked(R)

\* The same partitions with the same contents.
Kept(x, y) ==
    /\ Len(y.inners) = Len(x.inners)
    /\ \A k \in DOMAIN x.inners :
        /\ y.inners[k].uid = x.inners[k].uid /\ y.inners[k].algo = x.inners[k].algo
        /\ InnerContent(y, k) = InnerContent(x, k)

\* No bytes twice, unless they are the same bytes.
Distinct(pool, R) ==
    \A k, l \in DOMAIN R : \A i \in DOMAIN R[k], j \in DOMAIN R[l] :
        Slice(pool, R[k][i]) = Slice(pool, R[l][j]) => Extent(R[k][i]) = Extent(R[l][j])

LEMMA InnersAre ==
    ASSUME NEW inners \in Seq(InnerSet)
    PROVE  /\ Len(inners) \in Nat /\ DOMAIN inners = 1..Len(inners)
           /\ \A k \in DOMAIN inners :
                /\ inners[k] \in InnerSet
                /\ inners[k].uid \in Uid /\ inners[k].algo \in Algo
                /\ inners[k].frags \in Seq(FragSet)
           /\ RowsOf(inners) \in Rows /\ Len(RowsOf(inners)) = Len(inners)
           /\ \A k \in DOMAIN inners : RowsOf(inners)[k] = inners[k].frags
<1> DEFINE D == Seq(FragSet)  n == Len(inners)  R == RowsOf(inners)
<1>1. n \in Nat /\ DOMAIN inners = 1..n /\ \A k \in 1..n : inners[k] \in InnerSet
  OBVIOUS
<1>2. ASSUME NEW k \in 1..n
      PROVE  inners[k].uid \in Uid /\ inners[k].algo \in Algo /\ inners[k].frags \in D
  BY <1>1 DEF InnerSet
<1> HIDE DEF D
<1>3. R = [k \in 1..n |-> inners[k].frags]
  BY <1>1 DEF RowsOf
<1>4. R \in Seq(D) /\ Len(R) = n
  BY <1>1, <1>2, <1>3
<1> QED
  BY <1>1, <1>2, <1>3, <1>4 DEF Rows, D

LEMMA AccIs ==
    ASSUME NEW D, NEW x \in Accs(D)
    PROVE  /\ x.blob \in Seq(D) /\ x.inners \in Seq(InnerSet) /\ x.frags \in Seq(FragSet)
           /\ AccRows(x) \in Rows
           /\ Len(AccRows(x)) = Len(x.inners) + 1 /\ Len(x.inners) \in Nat
           /\ DOMAIN AccRows(x) = 1..(Len(x.inners) + 1)
           /\ \A k \in DOMAIN x.inners : AccRows(x)[k] = x.inners[k].frags
           /\ AccRows(x)[Len(x.inners) + 1] = x.frags
           /\ Known(x.inners, x.frags) = FlattenSeq(AccRows(x))
<1>1. x.blob \in Seq(D) /\ x.inners \in Seq(InnerSet) /\ x.frags \in Seq(FragSet)
  BY DEF Accs
<1> DEFINE E == Seq(FragSet)  R == RowsOf(x.inners)  n == Len(x.inners)  S == AccRows(x)
<1>2. /\ n \in Nat /\ DOMAIN x.inners = 1..n
      /\ R \in Seq(E) /\ Len(R) = n
      /\ \A k \in 1..n : R[k] = x.inners[k].frags
  BY <1>1, InnersAre DEF Rows
<1>3. x.frags \in E
  BY <1>1
<1>4. S = Append(R, x.frags)
  BY DEF AccRows
<1> HIDE DEF E, R, n, S
<1>5. /\ S \in Seq(E) /\ Len(S) = n + 1 /\ DOMAIN S = 1..(n + 1)
      /\ \A k \in 1..n : S[k] = R[k]
      /\ S[n + 1] = x.frags
  BY <1>2, <1>3, <1>4
<1>6. FlattenSeq(S) = FlattenSeq(R) \o x.frags
  BY <1>1, <1>2, <1>4, FlattenAppend DEF E
<1>7. Known(x.inners, x.frags) = FlattenSeq(S)
  BY <1>6 DEF Known, AllFrags, R, RowsOf
<1> QED
  BY <1>1, <1>2, <1>5, <1>7 DEF E, n, S, Rows

LEMMA PooledIs ==
    ASSUME NEW pool, NEW R \in Rows, Pooled(pool, R), NEW k \in DOMAIN R
    PROVE  /\ R[k] \in Seq(FragSet) /\ FragsIn(pool, R[k])
           /\ \A j \in DOMAIN R[k] : R[k][j] \in FragSet /\ InPool(pool, R[k][j])
<1>1. FragsIn(pool, R[k])
  BY DEF Pooled
<1>2. R[k] \in Seq(FragSet) /\ \A j \in DOMAIN R[k] : R[k][j] \in FragSet
  BY RowsAre
<1> QED
  BY <1>1, <1>2 DEF FragsIn

LEMMA PooledGrows ==
    ASSUME NEW D, NEW pool \in Seq(D), NEW chunk \in Seq(D), NEW R \in Rows, Pooled(pool, R)
    PROVE  /\ Pooled(pool \o chunk, R)
           /\ \A k \in DOMAIN R : \A j \in DOMAIN R[k] :
                Slice(pool \o chunk, R[k][j]) = Slice(pool, R[k][j])
           /\ \A k \in DOMAIN R : Content(pool \o chunk, R[k]) = Content(pool, R[k])
<1>1. \A k \in DOMAIN R : \A j \in DOMAIN R[k] : R[k][j] \in FragSet /\ InPool(pool, R[k][j])
  BY PooledIs
<1>2. \A k \in DOMAIN R : \A j \in DOMAIN R[k] :
        /\ InPool(pool \o chunk, R[k][j])
        /\ Slice(pool \o chunk, R[k][j]) = Slice(pool, R[k][j])
  BY <1>1, PoolGrows
<1>3. Pooled(pool \o chunk, R)
  BY <1>2 DEF Pooled, FragsIn
<1>4. \A k \in DOMAIN R : Content(pool \o chunk, R[k]) = Content(pool, R[k])
  BY <1>2, ContentSame
<1> QED
  BY <1>2, <1>3, <1>4

LEMMA AccMade ==
    ASSUME NEW A, NEW B, NEW C, NEW x \in [blob : A, inners : B, frags : C],
           NEW p \in A, NEW q \in B, NEW r \in C
    PROVE  /\ [x EXCEPT !.frags = r] = [blob |-> x.blob, inners |-> x.inners, frags |-> r]
           /\ [x EXCEPT !.blob = p] = [blob |-> p, inners |-> x.inners, frags |-> x.frags]
           /\ [x EXCEPT !.inners = q] = [blob |-> x.blob, inners |-> q, frags |-> x.frags]
<1> DEFINE u == [x EXCEPT !.frags = r]  v == [x EXCEPT !.blob = p]  w == [x EXCEPT !.inners = q]
           S == [blob : A, inners : B, frags : C]
<1>0. \A z \in S : z = [blob |-> z.blob, inners |-> z.inners, frags |-> z.frags]
  OBVIOUS
<1>1. u \in S /\ u.blob = x.blob /\ u.inners = x.inners /\ u.frags = r
  OBVIOUS
<1>2. v \in S /\ v.blob = p /\ v.inners = x.inners /\ v.frags = x.frags
  OBVIOUS
<1>3. w \in S /\ w.blob = x.blob /\ w.inners = q /\ w.frags = x.frags
  OBVIOUS
<1> HIDE DEF S, u, v, w
<1>4. u = [blob |-> x.blob, inners |-> x.inners, frags |-> r]
  BY <1>0, <1>1
<1>5. v = [blob |-> p, inners |-> x.inners, frags |-> x.frags]
  BY <1>0, <1>2
<1>6. w = [blob |-> x.blob, inners |-> q, frags |-> x.frags]
  BY <1>0, <1>3
<1> QED
  BY <1>4, <1>5, <1>6 DEF u, v, w

LEMMA AccIn ==
    ASSUME NEW D, NEW p \in Seq(D), NEW q \in Seq(InnerSet), NEW r \in Seq(FragSet)
    PROVE  [blob |-> p, inners |-> q, frags |-> r] \in Accs(D)
BY DEF Accs

\* Assigning to the parts of an accumulator.
SetParts(x, p, q, r) ==
    /\ [x EXCEPT !.frags = r] = [blob |-> x.blob, inners |-> x.inners, frags |-> r]
    /\ [x EXCEPT !.blob = p, !.frags = r] = [blob |-> p, inners |-> x.inners, frags |-> r]
    /\ [x EXCEPT !.inners = q, !.frags = r] = [blob |-> x.blob, inners |-> q, frags |-> r]

LEMMA AccSet ==
    ASSUME NEW D, NEW x \in Accs(D),
           NEW p \in Seq(D), NEW q \in Seq(InnerSet), NEW r \in Seq(FragSet)
    PROVE  SetParts(x, p, q, r)
<1> DEFINE A == Seq(D)  B == Seq(InnerSet)  C == Seq(FragSet)
           S == [blob : A, inners : B, frags : C]
           v == [x EXCEPT !.blob = p]  w == [x EXCEPT !.inners = q]
<1>1. x \in S /\ p \in A /\ q \in B /\ r \in C
  BY DEF Accs
<1> HIDE DEF A, B, C
<1>2. v = [blob |-> p, inners |-> x.inners, frags |-> x.frags]
  BY <1>1, AccMade
<1>3. w = [blob |-> x.blob, inners |-> q, frags |-> x.frags]
  BY <1>1, AccMade
<1>4. v \in S /\ w \in S
  BY <1>1, <1>2, <1>3
<1>5. [x EXCEPT !.frags = r] = [blob |-> x.blob, inners |-> x.inners, frags |-> r]
  BY <1>1, AccMade
<1> HIDE DEF v, w
<1>6. [v EXCEPT !.frags = r] = [blob |-> v.blob, inners |-> v.inners, frags |-> r]
  BY <1>1, <1>4, AccMade
<1>7. [w EXCEPT !.frags = r] = [blob |-> w.blob, inners |-> w.inners, frags |-> r]
  BY <1>1, <1>4, AccMade
<1>8. [v EXCEPT !.frags = r] = [blob |-> p, inners |-> x.inners, frags |-> r]
  BY <1>2, <1>6
<1>9. [w EXCEPT !.frags = r] = [blob |-> x.blob, inners |-> q, frags |-> r]
  BY <1>3, <1>7
<1> QED
  BY <1>5, <1>8, <1>9 DEF SetParts, v, w

\* What one chunk more is.
Added(D, x, y, chunk) ==
    /\ y \in Accs(D) /\ Good(y.blob, AccRows(y)) /\ Kept(x, y)
    /\ Content(y.blob, y.frags) = Content(x.blob, x.frags) \o chunk

Extends(x, f) == [x EXCEPT !.frags = Append(@, f)]

\* A row that ends in a fragment more, of the right bytes, pooled and marked.
LEMMA FragGrows ==
    ASSUME NEW D, NEW x \in Accs(D), Good(x.blob, AccRows(x)),
           NEW f \in FragSet, InPool(x.blob, f),
           \A k \in DOMAIN AccRows(x) : \A i \in DOMAIN AccRows(x)[k] :
                Overlap(f, AccRows(x)[k][i]) => f.shared /\ AccRows(x)[k][i].shared
    PROVE  Added(D, x, Extends(x, f), Slice(x.blob, f))
<1> DEFINE y == Extends(x, f)  R == AccRows(x)  S == AccRows(y)  n == Len(x.inners) + 1
<1>1. y \in Accs(D) /\ y.blob = x.blob /\ y.inners = x.inners /\ y.frags = Append(x.frags, f)
  <2> DEFINE r == Append(x.frags, f)
  <2>1. x.blob \in Seq(D) /\ x.inners \in Seq(InnerSet) /\ x.frags \in Seq(FragSet)
    BY AccIs
  <2>2. r \in Seq(FragSet)
    BY <2>1
  <2> HIDE DEF r
  <2>3. y = [blob |-> x.blob, inners |-> x.inners, frags |-> r]
    <3>1. SetParts(x, x.blob, x.inners, r)
      BY <2>1, <2>2, AccSet
    <3> QED
      BY <3>1 DEF SetParts, Extends, r
  <2> HIDE DEF y
  <2>4. y \in Accs(D)
    BY <2>1, <2>2, <2>3, AccIn
  <2> QED
    BY <2>3, <2>4 DEF r
<1>2. /\ x.blob \in Seq(D) /\ x.frags \in Seq(FragSet)
      /\ R \in Rows /\ DOMAIN R = 1..n /\ Len(x.inners) \in Nat
      /\ R[n] = x.frags /\ DOMAIN x.inners = 1..Len(x.inners)
      /\ \A k \in DOMAIN x.inners : R[k] = x.inners[k].frags
  BY AccIs, InnersAre
<1>3. /\ S \in Rows /\ DOMAIN S = 1..n /\ S[n] = y.frags
      /\ \A k \in DOMAIN x.inners : S[k] = x.inners[k].frags
  BY <1>1, AccIs
<1> HIDE DEF y, R, S
<1>4. \A k \in DOMAIN R \ {n} : S[k] = R[k]
  BY <1>2, <1>3
<1>5. n \in DOMAIN R /\ S[n] = Append(R[n], f) /\ DOMAIN S = DOMAIN R
  BY <1>1, <1>2, <1>3
<1> HIDE DEF n
<1>6. Marked(R) /\ Pooled(x.blob, R)
  BY DEF Good, R
<1>7. Marked(S)
  <2>1. \A l \in DOMAIN R : \A i \in DOMAIN R[l] :
            Overlap(f, R[l][i]) => f.shared /\ R[l][i].shared
    BY DEF R
  <2> QED
    BY <1>2, <1>3, <1>4, <1>5, <1>6, <2>1, RowGrows
<1> DEFINE g == <<f>>
<1>8. Append(x.frags, f) = x.frags \o g
  BY <1>2, AppendOne
<1>9. g \in Seq(FragSet) /\ FragsIn(x.blob, g) /\ Content(x.blob, g) = Slice(x.blob, f)
  BY <1>2, ContentOne
<1>10. FragsIn(x.blob, x.frags)
  BY <1>2, <1>5, <1>6, PooledIs
<1> HIDE DEF g
<1>11. /\ FragsIn(x.blob, x.frags \o g)
       /\ Content(x.blob, x.frags \o g) = Content(x.blob, x.frags) \o Content(x.blob, g)
  BY <1>2, <1>9, <1>10, ContentConcat
<1>12. Pooled(x.blob, S)
  <2>1. \A k \in DOMAIN R \ {n} : FragsIn(x.blob, S[k])
    BY <1>4, <1>6 DEF Pooled
  <2>2. FragsIn(x.blob, S[n])
    BY <1>1, <1>3, <1>8, <1>11
  <2> QED
    BY <2>1, <2>2, <1>5 DEF Pooled
<1>13. Kept(x, y)
  BY <1>1 DEF Kept, InnerContent
<1>14. Content(y.blob, y.frags) = Content(x.blob, x.frags) \o Slice(x.blob, f)
  BY <1>1, <1>8, <1>9, <1>11
<1>15. Good(y.blob, AccRows(y))
  BY <1>1, <1>7, <1>12 DEF Good, S
<1> QED
  BY <1>1, <1>13, <1>14, <1>15 DEF Added, y

LEMMA AddMiss ==
    ASSUME NEW D, Byte \subseteq D, NEW x \in Accs(D), Good(x.blob, AccRows(x)),
           NEW chunk \in Seq(Byte), chunk # <<>>,
           NEW f, f = Frag(Len(x.blob), Len(chunk), FALSE),
           NEW y, y = [blob |-> x.blob \o chunk, inners |-> x.inners, frags |-> Append(x.frags, f)]
    PROVE  Added(D, x, y, chunk)
<1> DEFINE z == [blob |-> x.blob \o chunk, inners |-> x.inners, frags |-> x.frags]
           R == AccRows(x)
<1>1. x.blob \in Seq(D) /\ x.inners \in Seq(InnerSet) /\ x.frags \in Seq(FragSet)
  BY AccIs
<1>2. /\ f \in FragSet /\ x.blob \o chunk \in Seq(D) /\ InPool(x.blob \o chunk, f)
      /\ Slice(x.blob \o chunk, f) = chunk
      /\ \A g \in FragSet : InPool(x.blob, g) => ~Overlap(f, g)
  <2>1. AtEnd(D, x.blob, chunk, f)
    BY <1>1, FreshSlice
  <2> QED
    BY <2>1 DEF AtEnd
<1>3. z \in Accs(D) /\ z.blob = x.blob \o chunk /\ z.inners = x.inners /\ z.frags = x.frags
  BY <1>1, <1>2, AccIn
<1>4. AccRows(z) = R
  BY DEF AccRows
<1>5. R \in Rows /\ Pooled(x.blob, R) /\ Marked(R) /\ chunk \in Seq(D)
  BY AccIs DEF Good
<1>6. y = Extends(z, f)
  <2> DEFINE r == Append(x.frags, f)
  <2>1. r \in Seq(FragSet)
    BY <1>1, <1>2, AppendOne
  <2> HIDE DEF z, r
  <2>2. SetParts(z, z.blob, z.inners, r)
    BY <1>1, <1>2, <1>3, <2>1, AccSet
  <2>3. [z EXCEPT !.frags = r] = [blob |-> z.blob, inners |-> z.inners, frags |-> r]
    BY <2>2 DEF SetParts
  <2> QED
    BY <2>3, <1>3 DEF r, Extends
<1> HIDE DEF z, R
<1>7. /\ Pooled(z.blob, R)
      /\ \A k \in DOMAIN R : Content(z.blob, R[k]) = Content(x.blob, R[k])
  BY <1>1, <1>3, <1>5, PooledGrows
<1>8. Good(z.blob, AccRows(z))
  BY <1>4, <1>5, <1>7 DEF Good
<1>9. \A k \in DOMAIN R : \A i \in DOMAIN R[k] : ~Overlap(f, R[k][i])
  BY <1>2, <1>5, PooledIs
<1>10. Added(D, z, Extends(z, f), Slice(z.blob, f))
  <2>1. \A k \in DOMAIN AccRows(z) : \A i \in DOMAIN AccRows(z)[k] :
            Overlap(f, AccRows(z)[k][i]) => f.shared /\ AccRows(z)[k][i].shared
    BY <1>4, <1>9
  <2>2. InPool(z.blob, f)
    BY <1>2, <1>3
  <2> QED
    BY <1>2, <1>3, <1>8, <2>1, <2>2, FragGrows
<1>11. Added(D, z, y, chunk)
  BY <1>2, <1>3, <1>6, <1>10
<1>12. /\ Content(z.blob, z.frags) = Content(x.blob, x.frags)
       /\ \A k \in DOMAIN x.inners : InnerContent(z, k) = InnerContent(x, k)
  <2>1. /\ \A k \in DOMAIN x.inners : k \in DOMAIN R /\ R[k] = x.inners[k].frags
        /\ Len(x.inners) + 1 \in DOMAIN R /\ R[Len(x.inners) + 1] = x.frags
    BY <1>1, AccIs, InnersAre DEF R
  <2> QED
    BY <2>1, <1>3, <1>7 DEF InnerContent
<1> QED
  BY <1>3, <1>11, <1>12 DEF Added, Kept

LEMMA InnerWith ==
    ASSUME NEW p \in InnerSet, NEW r \in Seq(FragSet)
    PROVE  /\ [p EXCEPT !.frags = r] \in InnerSet
           /\ [p EXCEPT !.frags = r].uid = p.uid /\ [p EXCEPT !.frags = r].algo = p.algo
           /\ [p EXCEPT !.frags = r].frags = r
<1> DEFINE D == Seq(FragSet)
<1>1. p \in [uid : Uid, algo : Algo, frags : D] /\ r \in D
  BY DEF InnerSet
<1> HIDE DEF D
<1>2. /\ [p EXCEPT !.frags = r] \in [uid : Uid, algo : Algo, frags : D]
      /\ [p EXCEPT !.frags = r].uid = p.uid /\ [p EXCEPT !.frags = r].algo = p.algo
      /\ [p EXCEPT !.frags = r].frags = r
  BY <1>1
<1> QED
  BY <1>2 DEF InnerSet, D

LEMMA InnersMark ==
    ASSUME NEW inners \in Seq(InnerSet), NEW e
    PROVE  /\ MarkedInners(inners, e) \in Seq(InnerSet)
           /\ Len(MarkedInners(inners, e)) = Len(inners)
           /\ \A k \in DOMAIN inners :
                /\ MarkedInners(inners, e)[k].uid = inners[k].uid
                /\ MarkedInners(inners, e)[k].algo = inners[k].algo
                /\ MarkedInners(inners, e)[k].frags = MarkShared(inners[k].frags, e)
<1> DEFINE q == MarkedInners(inners, e)  n == Len(inners)
<1>1. n \in Nat /\ DOMAIN inners = 1..n
  BY InnersAre
<1>2. ASSUME NEW k \in 1..n
      PROVE  /\ q[k] \in InnerSet /\ q[k].uid = inners[k].uid /\ q[k].algo = inners[k].algo
             /\ q[k].frags = MarkShared(inners[k].frags, e)
  <2> DEFINE p == inners[k]  r == MarkShared(p.frags, e)
  <2>1. p \in InnerSet /\ p.frags \in Seq(FragSet)
    BY <1>1, InnersAre
  <2>2. r \in Seq(FragSet)
    BY <2>1, MarkIs
  <2>3. q[k] = [p EXCEPT !.frags = r]
    BY <1>1 DEF MarkedInners
  <2> HIDE DEF p, r, q
  <2>4. /\ [p EXCEPT !.frags = r] \in InnerSet
        /\ [p EXCEPT !.frags = r].uid = p.uid /\ [p EXCEPT !.frags = r].algo = p.algo
        /\ [p EXCEPT !.frags = r].frags = r
    BY <2>1, <2>2, InnerWith
  <2> QED
    BY <2>3, <2>4 DEF p, r
<1>3. q = [k \in 1..n |-> q[k]]
  BY <1>1 DEF MarkedInners
<1> HIDE DEF q
<1>4. q \in Seq(InnerSet) /\ Len(q) = n
  BY <1>1, <1>2, <1>3
<1> QED
  BY <1>1, <1>2, <1>4 DEF q

LEMMA AddHit ==
    ASSUME NEW D, NEW x \in Accs(D), Good(x.blob, AccRows(x)),
           NEW m \in DOMAIN AccRows(x), NEW o \in DOMAIN AccRows(x)[m],
           NEW e, e = Extent(AccRows(x)[m][o]),
           NEW f, f = Frag(e.offset, e.length, TRUE),
           NEW y, y = [blob |-> x.blob, inners |-> MarkedInners(x.inners, e),
                       frags |-> Append(MarkShared(x.frags, e), f)]
    PROVE  Added(D, x, y, Slice(x.blob, AccRows(x)[m][o]))
<1> DEFINE q == MarkedInners(x.inners, e)  r == MarkShared(x.frags, e)
           z == [blob |-> x.blob, inners |-> q, frags |-> r]
           R == AccRows(x)  S == AccRows(z)  n == Len(x.inners)
           g == R[m][o]
<1>1. x.blob \in Seq(D) /\ x.inners \in Seq(InnerSet) /\ x.frags \in Seq(FragSet)
  BY AccIs
<1>2. /\ q \in Seq(InnerSet) /\ Len(q) = n /\ r \in Seq(FragSet)
      /\ \A k \in DOMAIN x.inners :
            /\ q[k].uid = x.inners[k].uid /\ q[k].algo = x.inners[k].algo
            /\ q[k].frags = MarkShared(x.inners[k].frags, e)
  BY <1>1, InnersMark, MarkIs
<1>3. z \in Accs(D) /\ z.blob = x.blob /\ z.inners = q /\ z.frags = r
  BY <1>1, <1>2, AccIn
<1>4. /\ R \in Rows /\ DOMAIN R = 1..(n + 1) /\ R[n + 1] = x.frags
      /\ \A k \in DOMAIN x.inners : R[k] = x.inners[k].frags
      /\ n \in Nat /\ DOMAIN x.inners = 1..n
  BY <1>1, AccIs, InnersAre
<1>5. /\ S \in Rows /\ DOMAIN S = 1..(n + 1) /\ S[n + 1] = r
      /\ \A k \in DOMAIN x.inners : S[k] = q[k].frags
  <2> HIDE DEF q, r
  <2>1. DOMAIN q = 1..n
    BY <1>2, <1>4
  <2> HIDE DEF z, S, n
  <2>2. /\ AccRows(z) \in Rows
        /\ Len(z.inners) = n
        /\ DOMAIN AccRows(z) = 1..(Len(z.inners) + 1)
        /\ \A k \in DOMAIN z.inners : AccRows(z)[k] = z.inners[k].frags
        /\ AccRows(z)[Len(z.inners) + 1] = z.frags
    BY <1>2, <1>3, AccIs
  <2> QED
    BY <2>1, <2>2, <1>3, <1>4 DEF S
<1>6. S = [k \in DOMAIN R |-> MarkShared(R[k], e)]
  <2>1. \A k \in 1..(n + 1) : k \in 1..n \/ k = n + 1
    BY <1>4
  <2>2. \A k \in 1..(n + 1) : S[k] = MarkShared(R[k], e)
    <3> HIDE DEF R, S, q, n
    <3>1. ASSUME NEW k \in 1..n
          PROVE  S[k] = MarkShared(R[k], e)
      BY <1>2, <1>4, <1>5
    <3>2. S[n + 1] = MarkShared(R[n + 1], e)
      BY <1>4, <1>5 DEF r
    <3> QED
      BY <2>1, <3>1, <3>2
  <2> HIDE DEF R, S, n
  <2>3. S = [k \in DOMAIN S |-> S[k]]
    BY <1>5 DEF Rows
  <2> QED
    BY <2>2, <2>3, <1>4, <1>5
<1> HIDE DEF q, r, z, R, S, n
<1>7. Marked(R) /\ Pooled(x.blob, R)
  BY DEF Good, R
<1>8. /\ Marked(S) /\ Pooled(x.blob, S)
      /\ \A k \in DOMAIN R : \A j \in DOMAIN R[k] :
            /\ Extent(S[k][j]) = Extent(R[k][j])
            /\ Extent(S[k][j]) = e => S[k][j].shared
      /\ \A k \in DOMAIN R : Content(x.blob, S[k]) = Content(x.blob, R[k])
  <2>1. S = MarkedRows(R, e)
    BY <1>6 DEF MarkedRows
  <2>2. Remarked(x.blob, R, S, e)
    BY <1>4, <1>7, <2>1, MarkRows
  <2> QED
    BY <2>2 DEF Remarked
<1>9. /\ m \in DOMAIN R /\ o \in DOMAIN R[m] /\ g \in FragSet /\ InPool(x.blob, g) /\ e = Extent(g)
  BY <1>4, <1>7, PooledIs DEF R
<1>10. f.offset = g.offset /\ f.length = g.length /\ f.shared = TRUE /\ f \in FragSet
  BY <1>9, FragIs DEF Frag, Extent, FragSet
<1>11. InPool(x.blob, f) /\ Slice(x.blob, f) = Slice(x.blob, g) /\ Extent(f) = e
  BY <1>9, <1>10 DEF InPool, Slice, Extent
<1>12. m \in DOMAIN S /\ o \in DOMAIN S[m] /\ Extent(S[m][o]) = e /\ S[m][o].shared
  <2>1. DOMAIN S[m] = DOMAIN R[m]
    BY <1>4, <1>6, <1>9, MarkIs, RowsAre
  <2> QED
    BY <2>1, <1>4, <1>5, <1>8, <1>9
<1>13. \A k \in DOMAIN S : \A i \in DOMAIN S[k] : Overlap(f, S[k][i]) => S[k][i].shared
  <2>1. SUFFICES ASSUME NEW k \in DOMAIN S, NEW i \in DOMAIN S[k], Overlap(f, S[k][i])
                 PROVE  S[k][i].shared
    OBVIOUS
  <2>2. Overlap(S[m][o], S[k][i])
    BY <2>1, <1>11, <1>12, OverlapSame
  <2>3. CASE k = m /\ i = o
    BY <2>3, <1>12
  <2>4. CASE k = m /\ i # o
    <3>1. SelfMarked(S[m]) /\ Overlap(S[k][i], S[m][o])
      BY <1>8, <1>12, <2>2, OverlapBoth DEF Marked
    <3> QED
      BY <3>1, <2>4, <1>12 DEF SelfMarked
  <2>5. CASE k # m
    <3>1. CrossMarked(S[m], S[k])
      BY <1>8, <1>12, <2>5 DEF Marked
    <3> QED
      BY <3>1, <2>2, <1>12 DEF CrossMarked
  <2> QED
    BY <2>3, <2>4, <2>5
<1>14. Good(z.blob, AccRows(z))
  BY <1>3, <1>8 DEF Good, S
<1>15. y = Extends(z, f)
  <2> DEFINE t == Append(r, f)
  <2>1. t \in Seq(FragSet)
    BY <1>2, <1>10, AppendOne
  <2> HIDE DEF t
  <2>2. SetParts(z, z.blob, z.inners, t)
    BY <1>1, <1>2, <1>3, <2>1, AccSet
  <2>3. [z EXCEPT !.frags = t] = [blob |-> z.blob, inners |-> z.inners, frags |-> t]
    BY <2>2 DEF SetParts
  <2> QED
    BY <2>3, <1>3 DEF t, q, r, Extends
<1>16. Added(D, z, y, Slice(x.blob, g))
  <2>1. \A k \in DOMAIN AccRows(z) : \A i \in DOMAIN AccRows(z)[k] :
            Overlap(f, AccRows(z)[k][i]) => f.shared /\ AccRows(z)[k][i].shared
    BY <1>10, <1>13 DEF S
  <2>2. InPool(z.blob, f)
    BY <1>3, <1>11
  <2>3. Added(D, z, Extends(z, f), Slice(z.blob, f))
    BY <1>3, <1>10, <1>14, <2>1, <2>2, FragGrows
  <2> QED
    BY <2>3, <1>3, <1>11, <1>15
<1>17. /\ Content(z.blob, z.frags) = Content(x.blob, x.frags)
       /\ \A k \in DOMAIN x.inners : InnerContent(z, k) = InnerContent(x, k)
  <2>1. n + 1 \in DOMAIN R /\ S[n + 1] = r /\ R[n + 1] = x.frags
    BY <1>4, <1>5
  <2>2. \A k \in DOMAIN x.inners : k \in DOMAIN R /\ S[k] = q[k].frags /\ R[k] = x.inners[k].frags
    BY <1>4, <1>5
  <2> QED
    BY <2>1, <2>2, <1>3, <1>8 DEF InnerContent
<1>18. Kept(x, z)
  BY <1>2, <1>3, <1>17 DEF Kept, n
<1>19. Kept(x, y)
  <2>1. Kept(z, y)
    BY <1>16 DEF Added
  <2>2. DOMAIN z.inners = DOMAIN x.inners
    BY <1>2, <1>3, <1>4, InnersAre DEF n
  <2> QED
    BY <2>1, <2>2, <1>18 DEF Kept
<1> QED
  BY <1>16, <1>17, <1>19 DEF Added, g, R

\* The two outcomes of AddChunk.
Missed(x, chunk) ==
    [blob |-> x.blob \o chunk, inners |-> x.inners,
     frags |-> Append(x.frags, Frag(Len(x.blob), Len(chunk), FALSE))]
Met(x, e) ==
    [blob |-> x.blob, inners |-> MarkedInners(x.inners, e),
     frags |-> Append(MarkShared(x.frags, e), Frag(e.offset, e.length, TRUE))]
Missing(x, chunk, y) ==
    /\ \A k \in DOMAIN AccRows(x) : \A i \in DOMAIN AccRows(x)[k] :
            Slice(x.blob, AccRows(x)[k][i]) # chunk
    /\ y = Missed(x, chunk)
Meeting(x, chunk, y) ==
    \E k \in DOMAIN AccRows(x) : \E i \in DOMAIN AccRows(x)[k] :
        /\ Slice(x.blob, AccRows(x)[k][i]) = chunk
        /\ y = Met(x, Extent(AccRows(x)[k][i]))

LEMMA ChunkCases ==
    ASSUME NEW D, Byte \subseteq D, NEW x \in Accs(D), Good(x.blob, AccRows(x)),
           NEW chunk \in Seq(Byte), chunk # <<>>
    PROVE  Missing(x, chunk, AddChunk(x, chunk)) \/ Meeting(x, chunk, AddChunk(x, chunk))
<1> DEFINE known == Known(x.inners, x.frags)
           hits == {i \in DOMAIN known : Slice(x.blob, known[i]) = chunk}
           e == Extent(known[Min(hits)])
           f == Frag(Len(x.blob), Len(chunk), FALSE)
           u == Append(x.frags, f)  v == x.blob \o chunk
           w == Append(MarkShared(x.frags, e), Frag(e.offset, e.length, TRUE))
           q == MarkedInners(x.inners, e)
           R == AccRows(x)  y == AddChunk(x, chunk)
<1>1. /\ x.blob \in Seq(D) /\ x.inners \in Seq(InnerSet) /\ x.frags \in Seq(FragSet)
      /\ R \in Rows /\ known = FlattenSeq(R)
  BY AccIs
<1>2. Pooled(x.blob, R)
  BY DEF Good
<1>3. y = IF hits = {} THEN [x EXCEPT !.blob = v, !.frags = u]
          ELSE [x EXCEPT !.inners = q, !.frags = w]
  BY DEF AddChunk, LocalMarked
<1>4. /\ \A p \in DOMAIN known : \E k \in DOMAIN R : \E i \in DOMAIN R[k] : known[p] = R[k][i]
      /\ \A k \in DOMAIN R : \A i \in DOMAIN R[k] : \E p \in DOMAIN known : known[p] = R[k][i]
      /\ known \in Seq(FragSet)
  <2> HIDE DEF known, R
  <2>1. R \in Seq(Seq(FragSet))
    BY <1>1 DEF Rows
  <2>2. /\ \A p \in DOMAIN FlattenSeq(R) : \E k \in DOMAIN R : \E i \in DOMAIN R[k] :
                p = Len(Upto(R, k - 1)) + i /\ FlattenSeq(R)[p] = R[k][i]
        /\ \A k \in DOMAIN R : \A i \in DOMAIN R[k] :
                /\ Len(Upto(R, k - 1)) + i \in DOMAIN FlattenSeq(R)
                /\ FlattenSeq(R)[Len(Upto(R, k - 1)) + i] = R[k][i]
    BY <2>1, FlatPlaces
  <2>3. FlattenSeq(R) \in Seq(FragSet)
    BY <2>1, FlattenType
  <2> QED
    BY <2>2, <2>3, <1>1
<1>5. CASE hits = {}
  <2>1. \A k \in DOMAIN R : \A i \in DOMAIN R[k] : Slice(x.blob, R[k][i]) # chunk
    <3>1. \A p \in DOMAIN known : Slice(x.blob, known[p]) # chunk
      BY <1>5
    <3> HIDE DEF known, R
    <3> QED
      BY <3>1, <1>4
  <2>2. AtEnd(D, x.blob, chunk, f)
    BY <1>1, FreshSlice
  <2>3. v \in Seq(D) /\ u \in Seq(FragSet)
    BY <1>1, <2>2, AppendOne DEF AtEnd
  <2>4. y = [blob |-> v, inners |-> x.inners, frags |-> u]
    <3> HIDE DEF u, v, y
    <3>1. y = [x EXCEPT !.blob = v, !.frags = u]
      BY <1>3, <1>5
    <3>2. SetParts(x, v, x.inners, u)
      BY <1>1, <2>3, AccSet
    <3> QED
      BY <3>1, <3>2 DEF SetParts
  <2>5. Missing(x, chunk, y)
    <3> HIDE DEF y
    <3> QED
      BY <2>1, <2>4 DEF Missing, Missed
  <2> QED
    BY <2>5
<1>6. CASE hits # {}
  <2>1. Min(hits) \in hits
    <3>1. DOMAIN known \subseteq Nat
      BY <1>4
    <3>2. hits \in SUBSET Nat
      BY <3>1
    <3> HIDE DEF hits
    <3> QED
      BY <3>2, <1>6, MinOfNat
  <2>2. Min(hits) \in DOMAIN known /\ Slice(x.blob, known[Min(hits)]) = chunk
    BY <2>1
  <2>3. PICK k \in DOMAIN R : \E i \in DOMAIN R[k] : known[Min(hits)] = R[k][i]
    <3> HIDE DEF hits, R, known
    <3> QED
      BY <2>2, <1>4
  <2>4. PICK i \in DOMAIN R[k] : known[Min(hits)] = R[k][i]
    BY <2>3
  <2>5. e = Extent(R[k][i]) /\ Slice(x.blob, R[k][i]) = chunk
    <3> HIDE DEF hits, known, R
    <3> QED
      BY <2>2, <2>4
  <2> HIDE DEF e
  <2>6. e.offset = R[k][i].offset /\ e.length = R[k][i].length /\ R[k][i] \in FragSet
    BY <1>1, <2>5, RowsAre DEF Extent
  <2>7. Frag(e.offset, e.length, TRUE) \in FragSet
    BY <2>6, FragIs DEF Frag, FragSet
  <2>8. w \in Seq(FragSet) /\ q \in Seq(InnerSet)
    BY <1>1, <2>7, AppendOne, MarkIs, InnersMark
  <2>9. y = [blob |-> x.blob, inners |-> q, frags |-> w]
    <3> HIDE DEF w, q, y
    <3>1. y = [x EXCEPT !.inners = q, !.frags = w]
      BY <1>3, <1>6
    <3>2. SetParts(x, x.blob, q, w)
      BY <1>1, <2>8, AccSet
    <3> QED
      BY <3>1, <3>2 DEF SetParts
  <2>10. y = Met(x, e)
    <3> HIDE DEF y
    <3> QED
      BY <2>9 DEF Met
  <2>11. Meeting(x, chunk, y)
    <3> HIDE DEF y
    <3>1. k \in DOMAIN AccRows(x) /\ i \in DOMAIN AccRows(x)[k]
      OBVIOUS
    <3>2. /\ Slice(x.blob, AccRows(x)[k][i]) = chunk
          /\ y = Met(x, Extent(AccRows(x)[k][i]))
      BY <2>5, <2>10
    <3> QED
      BY <3>1, <3>2, Zenon DEF Meeting
  <2> QED
    BY <2>11
<1> QED
  BY <1>5, <1>6

LEMMA ChunkAdded ==
    ASSUME NEW D, Byte \subseteq D, NEW x \in Accs(D), Good(x.blob, AccRows(x)),
           NEW chunk \in Seq(Byte), chunk # <<>>
    PROVE  Added(D, x, AddChunk(x, chunk), chunk)
<1> DEFINE y == AddChunk(x, chunk)
<1>1. Missing(x, chunk, y) \/ Meeting(x, chunk, y)
  BY ChunkCases
<1> HIDE DEF y
<1>2. CASE Missing(x, chunk, y)
  <2> DEFINE f == Frag(Len(x.blob), Len(chunk), FALSE)
  <2>1. y = [blob |-> x.blob \o chunk, inners |-> x.inners, frags |-> Append(x.frags, f)]
    BY <1>2 DEF Missing, Missed
  <2> HIDE DEF f
  <2> QED
    BY <2>1, AddMiss DEF f, y
<1>3. CASE Meeting(x, chunk, y)
  <2>1. PICK k \in DOMAIN AccRows(x) : \E i \in DOMAIN AccRows(x)[k] :
            /\ Slice(x.blob, AccRows(x)[k][i]) = chunk
            /\ y = Met(x, Extent(AccRows(x)[k][i]))
    BY <1>3 DEF Meeting
  <2>2. PICK i \in DOMAIN AccRows(x)[k] :
            /\ Slice(x.blob, AccRows(x)[k][i]) = chunk
            /\ y = Met(x, Extent(AccRows(x)[k][i]))
    BY <2>1
  <2> DEFINE e == Extent(AccRows(x)[k][i])  f == Frag(e.offset, e.length, TRUE)
  <2>3. y = [blob |-> x.blob, inners |-> MarkedInners(x.inners, e),
             frags |-> Append(MarkShared(x.frags, e), f)]
    BY <2>2 DEF Met
  <2> HIDE DEF e, f
  <2>4. Added(D, x, y, Slice(x.blob, AccRows(x)[k][i]))
    BY <2>3, AddHit DEF e, f
  <2> QED
    BY <2>2, <2>4 DEF y
<1> QED
  BY <1>1, <1>2, <1>3 DEF y

-----------------------------------------------------------------------------
(* A sequence cut into chunks.                                             *)

LEMMA DivIs ==
    ASSUME NEW x \in Nat, NEW m \in Nat \ {0}
    PROVE  /\ x \div m \in Nat /\ (x \div m) * m <= x /\ x < (x \div m) * m + m
OBVIOUS

LEMMA Multiple ==
    ASSUME NEW n \in Nat \ {0}, NEW k \in Nat
    PROVE  /\ k * n \in Nat /\ (k + 1) * n = k * n + n /\ 0 * n = 0
           /\ (k - 1) * n = k * n - n
OBVIOUS

LEMMA Strides ==
    ASSUME NEW n \in Nat \ {0}, NEW i \in Nat, NEW j \in Nat, i < j
    PROVE  i * n + n <= j * n
<1>1. (j - i) - 1 \in Nat
  OBVIOUS
<1>2. ((j - i) - 1) * n \in Nat
  BY <1>1, Multiple
<1>3. ((j - i) - 1) * n = j * n - i * n - n
  OBVIOUS
<1>4. i * n \in Nat /\ j * n \in Nat
  BY Multiple
<1> DEFINE x == i * n  y == j * n  z == ((j - i) - 1) * n
<1>5. x \in Nat /\ y \in Nat /\ z \in Nat /\ z = y - x - n
  BY <1>2, <1>3, <1>4
<1> HIDE DEF x, y, z
<1>6. x + n <= y
  BY <1>5
<1> QED
  BY <1>6 DEF x, y

\* n items at a time, m times.
LEMMA Rounds ==
    ASSUME NEW l \in Nat \ {0}, NEW n \in Nat \ {0}, NEW m, m = (l + n - 1) \div n
    PROVE  m \in Nat \ {0} /\ (m - 1) * n < l /\ l <= m * n
<1> DEFINE x == l + n - 1
<1>1. x \in Nat /\ m = x \div n
  OBVIOUS
<1> HIDE DEF x
<1>2. x \div n \in Nat /\ (x \div n) * n <= x /\ x < (x \div n) * n + n
  BY <1>1, DivIs
<1>3. m \in Nat /\ m * n <= x /\ x < m * n + n
  BY <1>1, <1>2
<1>4. m * n \in Nat /\ (m - 1) * n = m * n - n /\ 0 * n = 0
  BY <1>3, Multiple
<1> DEFINE y == m * n  z == (m - 1) * n
<1>5. y \in Nat /\ z = y - n /\ y <= x /\ x < y + n /\ (m = 0 => y = 0)
  BY <1>3, <1>4
<1> HIDE DEF y, z
<1>6. z < l /\ l <= y /\ y # 0
  BY <1>5 DEF x
<1> QED
  BY <1>3, <1>5, <1>6 DEF y, z

\* The places are the multiples of n and the end.
Regular(T, m, n) ==
    \A k \in 1..m : T[k] <= T[k - 1] + n /\ (k < m => T[k] = T[k - 1] + n /\ T[k] = k * n)

LEMMA ChunksCut ==
    ASSUME NEW C, NEW content \in Seq(C), content # <<>>, NEW n \in Nat \ {0}
    PROVE  \E m \in Nat \ {0} : \E T \in [0..m -> Nat] :
                /\ Cuts(Chunks(content, n), content, m, T) /\ Regular(T, m, n)
                /\ DOMAIN Chunks(content, n) = 1..m
<1> DEFINE l == Len(content)  m == (l + n - 1) \div n  s == Chunks(content, n)
           End(k) == IF k * n < l THEN k * n ELSE l
           T == [k \in 0..m |-> End(k)]
<1>1. l \in Nat \ {0}
  OBVIOUS
<1>2. m \in Nat \ {0} /\ (m - 1) * n < l /\ l <= m * n
  <2> HIDE DEF l
  <2>1. m = (l + n - 1) \div n
    OBVIOUS
  <2> HIDE DEF m
  <2> QED
    BY <1>1, <2>1, Rounds
<1>3. s = [k \in 1..m |-> SubSeq(content, (k - 1) * n + 1, End(k))]
  BY DEF Chunks
<1> HIDE DEF m, l, s
<1>4. ASSUME NEW k \in Nat
      PROVE  k * n \in Nat /\ End(k) \in Nat /\ End(k) <= l
  BY <1>1, Multiple
<1>5. T \in [0..m -> Nat] /\ \A k \in 0..m : T[k] = End(k)
  <2>1. \A k \in 0..m : k \in Nat
    OBVIOUS
  <2> HIDE DEF End
  <2> QED
    BY <1>4, <2>1
<1>6. ASSUME NEW k \in 0..(m - 1)
      PROVE  k * n < l /\ End(k) = k * n /\ (k + 1 < m => End(k + 1) = k * n + n)
             /\ End(k + 1) <= k * n + n /\ k * n < End(k + 1)
  <2> DEFINE x == k * n  y == (k + 1) * n  z == (m - 1) * n
  <2>1. x \in Nat /\ y = x + n
    BY Multiple
  <2>2. x <= z /\ z \in Nat
    <3>1. m - 1 \in Nat
      BY <1>2
    <3>2. z \in Nat
      BY <3>1, Multiple
    <3>3. CASE k = m - 1
      BY <3>2, <3>3
    <3>4. CASE k < m - 1
      <4>1. x + n <= z
        BY <3>1, <3>4, Strides
      <4> HIDE DEF x, z
      <4> QED
        BY <4>1, <2>1, <3>2
    <3> QED
      BY <1>2, <3>3, <3>4
  <2>3. z < l
    BY <1>2
  <2>4. k + 1 < m => y <= z
    <3>1. ASSUME k + 1 < m
          PROVE  y <= z
      <4>1. CASE k + 1 = m - 1
        BY <4>1, <2>2
      <4>2. CASE k + 1 < m - 1
        <5> DEFINE j == k + 1  v == m - 1
        <5>1. j \in Nat /\ v \in Nat /\ j < v
          BY <1>2, <4>2
        <5> HIDE DEF j, v
        <5>2. j * n + n <= v * n
          BY <5>1, Strides
        <5>3. y + n <= z
          BY <5>2 DEF j, v
        <5> HIDE DEF x, y, z
        <5> QED
          BY <5>3, <2>1, <2>2
      <4> QED
        BY <1>2, <3>1, <4>1, <4>2
    <3> QED
      BY <3>1
  <2>5. End(k) = IF x < l THEN x ELSE l
    OBVIOUS
  <2>6. End(k + 1) = IF y < l THEN y ELSE l
    OBVIOUS
  <2> DEFINE p == End(k)  q == End(k + 1)
  <2>7. /\ p = IF x < l THEN x ELSE l
        /\ q = IF y < l THEN y ELSE l
    BY <2>5, <2>6
  <2> HIDE DEF x, y, z, p, q, End
  <2>8. x < l /\ p = x /\ (k + 1 < m => q = x + n) /\ q <= x + n /\ x < q
    BY <1>1, <2>1, <2>2, <2>3, <2>4, <2>7
  <2> QED
    BY <2>8 DEF x, p, q
<1>7. T[0] = 0 /\ T[m] = l
  <2>1. 0 \in 0..(m - 1) /\ 0 \in 0..m /\ m \in 0..m
    BY <1>2
  <2>2. T[0] = 0 * n /\ 0 * n = 0
    <3> HIDE DEF End, T
    <3> QED
      BY <1>5, <1>6, <2>1, Multiple
  <2>3. End(m) = l
    <3> DEFINE y == m * n
    <3>1. y \in Nat /\ l <= y /\ End(m) = IF y < l THEN y ELSE l
      BY <1>2, Multiple
    <3> HIDE DEF y, End
    <3> QED
      BY <1>1, <3>1
  <2>4. T[m] = End(m)
    BY <1>5, <2>1
  <2> HIDE DEF T, End
  <2> QED
    BY <2>2, <2>3, <2>4
<1>8. ASSUME NEW k \in 1..m
      PROVE  /\ T[k - 1] < T[k] /\ T[k] <= l /\ s[k] = SubSeq(content, T[k - 1] + 1, T[k])
             /\ T[k] <= T[k - 1] + n /\ (k < m => T[k] = T[k - 1] + n /\ T[k] = k * n)
  <2> DEFINE j == k - 1
  <2>1. j \in 0..(m - 1) /\ j + 1 = k /\ j \in 0..m /\ k \in 0..m /\ j \in Nat /\ k \in Nat
    BY <1>2
  <2>2. T[j] = End(j) /\ T[k] = End(k)
    BY <1>5, <2>1
  <2> HIDE DEF j, T
  <2>3. j * n < l /\ End(j) = j * n /\ (j + 1 < m => End(j + 1) = j * n + n)
        /\ End(j + 1) <= j * n + n /\ j * n < End(j + 1)
    <3> HIDE DEF End
    <3> QED
      BY <2>1, <1>6
  <2>4. (j + 1) * n = j * n + n
    BY <2>1, Multiple
  <2>5. s[k] = SubSeq(content, j * n + 1, End(k))
    <3> HIDE DEF End
    <3> QED
      BY <1>3 DEF j
  <2>6. End(k) <= l
    <3> HIDE DEF End
    <3> QED
      BY <1>4, <2>1
  <2> DEFINE e == End(k)  x == j * n  y == k * n
  <2>7. /\ x < l /\ T[j] = x /\ T[k] = e /\ (k < m => e = x + n) /\ e <= x + n /\ x < e /\ e <= l
        /\ y = x + n /\ s[k] = SubSeq(content, x + 1, e)
    <3> HIDE DEF End
    <3> QED
      BY <2>1, <2>2, <2>3, <2>4, <2>5, <2>6
  <2> HIDE DEF e, x, y, End
  <2>8. /\ T[j] < T[k] /\ T[k] <= l /\ s[k] = SubSeq(content, T[j] + 1, T[k])
        /\ T[k] <= T[j] + n /\ (k < m => T[k] = T[j] + n /\ T[k] = y)
    BY <2>7
  <2> QED
    BY <2>8 DEF j, y
<1>9. Len(s) = m /\ DOMAIN s = 1..m
  <2>1. m \in Nat
    BY <1>2
  <2> HIDE DEF End
  <2>2. DOMAIN s = 1..m
    BY <1>3
  <2> DEFINE S == {s[k] : k \in 1..m}
  <2>4. \A k \in 1..m : s[k] \in S
    OBVIOUS
  <2>5. s = [k \in 1..m |-> s[k]]
    BY <1>3
  <2> HIDE DEF S
  <2>3. s \in Seq(S)
    <3>1. [k \in 1..m |-> s[k]] \in Seq(S)
      BY <2>1, <2>4
    <3> QED
      BY <3>1, <2>5
  <2> QED
    BY <2>1, <2>2, <2>3
<1> HIDE DEF T, End
<1>10. Cuts(s, content, m, T)
  BY <1>7, <1>8, <1>9 DEF Cuts, l
<1>11. Regular(T, m, n)
  BY <1>8 DEF Regular
<1> QED
  BY <1>2, <1>5, <1>9, <1>10, <1>11 DEF s

LEMMA ChunksAre ==
    ASSUME NEW C, NEW content \in Seq(C), NEW n \in Nat
    PROVE  /\ Chunks(content, n) \in Seq(Seq(C))
           /\ FlattenSeq(Chunks(content, n)) = content
           /\ \A k \in 1..Len(Chunks(content, n)) :
                Chunks(content, n)[k] \in Seq(C) /\ Chunks(content, n)[k] # <<>>
<1> DEFINE s == Chunks(content, n)
<1>1. CASE content = <<>>
  <2>1. s = <<>>
    BY <1>1 DEF Chunks
  <2> HIDE DEF s
  <2>2. s \in Seq(Seq(C)) /\ Len(s) = 0 /\ FlattenSeq(s) = content
    BY <1>1, <2>1, FlattenEmpty
  <2> QED
    BY <2>2 DEF s
<1>2. CASE content # <<>> /\ n = 0
  <2> DEFINE T == [k \in 0..1 |-> IF k = 0 THEN 0 ELSE Len(content)]  D == Seq(C)
  <2>1. s = <<content>> /\ Len(content) \in Nat /\ Len(content) > 0
    BY <1>2 DEF Chunks
  <2>2. T \in [0..1 -> Nat] /\ T[0] = 0 /\ T[1] = Len(content)
    OBVIOUS
  <2>3. SubSeq(content, 1, Len(content)) = content
    OBVIOUS
  <2>4. content \in D
    OBVIOUS
  <2> HIDE DEF s, T, D
  <2>5. s \in Seq(D) /\ Len(s) = 1 /\ s[1] = content
    BY <2>1, <2>4
  <2>6. Cuts(s, content, 1, T)
    <3>1. \A k \in 1..1 : k = 1 /\ k - 1 = 0
      OBVIOUS
    <3>2. T[0] + 1 = 1
      BY <2>2
    <3> QED
      BY <2>1, <2>2, <2>3, <2>5, <3>1, <3>2 DEF Cuts
  <2>7. s \in Seq(Seq(C))
    BY <2>5 DEF D
  <2>8. FlattenSeq(s) = content
    BY <2>2, <2>6, <2>7, CutsFlatten
  <2> QED
    BY <1>2, <2>5, <2>7, <2>8 DEF s
<1>3. CASE content # <<>> /\ n # 0
  <2>1. n \in Nat \ {0}
    BY <1>3
  <2>2. PICK m \in Nat \ {0} : \E T \in [0..m -> Nat] :
                /\ Cuts(Chunks(content, n), content, m, T) /\ Regular(T, m, n)
                /\ DOMAIN Chunks(content, n) = 1..m
    BY <1>3, <2>1, ChunksCut
  <2>3. PICK T \in [0..m -> Nat] :
                /\ Cuts(Chunks(content, n), content, m, T) /\ Regular(T, m, n)
                /\ DOMAIN Chunks(content, n) = 1..m
    BY <2>2
  <2>4. s = [k \in 1..m |-> s[k]]
    BY <1>3, <2>1, <2>3 DEF Chunks
  <2> HIDE DEF s
  <2>5. Cuts(s, content, m, T) /\ Len(s) = m
    BY <2>3 DEF s, Cuts
  <2>6. /\ s \in Seq(Seq(C))
        /\ \A k \in 1..m : s[k] \in Seq(C) /\ s[k] # <<>>
    <3>1. CutParts(C, s, content, m, T)
      BY <2>4, <2>5, CutsType
    <3> QED
      BY <3>1 DEF CutParts
  <2>7. FlattenSeq(s) = content
    BY <2>5, <2>6, CutsFlatten
  <2> QED
    BY <2>5, <2>6, <2>7 DEF s
<1> QED
  BY <1>1, <1>2, <1>3

-----------------------------------------------------------------------------
(* No bytes twice.                                                         *)

LEMMA SliceExtent ==
    ASSUME NEW pool, NEW f, NEW g, Extent(f) = Extent(g)
    PROVE  Slice(pool, f) = Slice(pool, g)
BY DEF Extent, Slice

\* What is in the last row, when it gets a fragment more.
LEMMA RowEnds ==
    ASSUME NEW r \in Seq(FragSet), NEW f \in FragSet, NEW j \in DOMAIN Append(r, f)
    PROVE  Append(r, f)[j] = f \/ (j \in DOMAIN r /\ Append(r, f)[j] = r[j])
OBVIOUS

OnlyNew(R, S, f) ==
    \A l \in DOMAIN S : \A j \in DOMAIN S[l] :
        S[l][j] = f \/ (l \in DOMAIN R /\ j \in DOMAIN R[l] /\ S[l][j] = R[l][j])

LEMMA MissedRows ==
    ASSUME NEW D, Byte \subseteq D, NEW x \in Accs(D), NEW chunk \in Seq(Byte), chunk # <<>>,
           NEW y, y = Missed(x, chunk)
    PROVE  OnlyNew(AccRows(x), AccRows(y), Frag(Len(x.blob), Len(chunk), FALSE))
<1> DEFINE f == Frag(Len(x.blob), Len(chunk), FALSE)
           R == AccRows(x)  S == AccRows(y)  n == Len(x.inners)
<1>1. /\ x.blob \in Seq(D) /\ x.inners \in Seq(InnerSet) /\ x.frags \in Seq(FragSet)
      /\ DOMAIN R = 1..(n + 1) /\ R[n + 1] = x.frags /\ n \in Nat /\ DOMAIN x.inners = 1..n
      /\ \A k \in DOMAIN x.inners : R[k] = x.inners[k].frags
  BY AccIs, InnersAre
<1>2. AtEnd(D, x.blob, chunk, f)
  BY <1>1, FreshSlice
<1>3. f \in FragSet /\ x.blob \o chunk \in Seq(D) /\ Append(x.frags, f) \in Seq(FragSet)
  BY <1>1, <1>2, AppendOne DEF AtEnd
<1>4. y = [blob |-> x.blob \o chunk, inners |-> x.inners, frags |-> Append(x.frags, f)]
  BY DEF Missed
<1> HIDE DEF f
<1> DEFINE t == Append(x.frags, f)  p == x.blob \o chunk
<1>5. y \in Accs(D) /\ y.inners = x.inners /\ y.frags = Append(x.frags, f)
  <2>1. p \in Seq(D) /\ t \in Seq(FragSet) /\ y = [blob |-> p, inners |-> x.inners, frags |-> t]
    BY <1>3, <1>4
  <2> HIDE DEF t, p
  <2>2. y \in Accs(D) /\ y.inners = x.inners /\ y.frags = t
    BY <2>1, <1>1, AccIn
  <2> QED
    BY <2>2 DEF t
<1> HIDE DEF R, S, n
<1>6. DOMAIN S = 1..(n + 1) /\ S[n + 1] = y.frags /\ \A k \in DOMAIN x.inners : S[k] = x.inners[k].frags
  <2>1. /\ DOMAIN AccRows(y) = 1..(Len(y.inners) + 1)
        /\ \A k \in DOMAIN y.inners : AccRows(y)[k] = y.inners[k].frags
        /\ AccRows(y)[Len(y.inners) + 1] = y.frags
    BY <1>5, AccIs
  <2> QED
    BY <2>1, <1>5 DEF S, n
<1>7. ASSUME NEW l \in DOMAIN S, NEW j \in DOMAIN S[l]
      PROVE  S[l][j] = f \/ (l \in DOMAIN R /\ j \in DOMAIN R[l] /\ S[l][j] = R[l][j])
  <2>1. CASE l = n + 1
    <3>1. S[l] = Append(x.frags, f) /\ R[l] = x.frags /\ l \in DOMAIN R
      BY <2>1, <1>1, <1>5, <1>6
    <3>2. j \in DOMAIN Append(x.frags, f)
      BY <3>1
    <3>3. Append(x.frags, f)[j] = f \/ (j \in DOMAIN x.frags /\ Append(x.frags, f)[j] = x.frags[j])
      BY <1>1, <1>3, <3>2, RowEnds
    <3> QED
      BY <3>1, <3>3
  <2>2. CASE l # n + 1
    <3>1. l \in 1..n
      BY <2>2, <1>1, <1>6
    <3> QED
      BY <3>1, <1>1, <1>6
  <2> QED
    BY <2>1, <2>2
<1> QED
  BY <1>7 DEF f, R, S, OnlyNew

LEMMA MetRows ==
    ASSUME NEW D, NEW x \in Accs(D), NEW m \in DOMAIN AccRows(x), NEW o \in DOMAIN AccRows(x)[m],
           NEW e, e = Extent(AccRows(x)[m][o]), NEW y, y = Met(x, e)
    PROVE  \A l \in DOMAIN AccRows(y) : \A j \in DOMAIN AccRows(y)[l] :
            \E k \in DOMAIN AccRows(x) : \E i \in DOMAIN AccRows(x)[k] :
                Extent(AccRows(y)[l][j]) = Extent(AccRows(x)[k][i])
<1> DEFINE q == MarkedInners(x.inners, e)  r == MarkShared(x.frags, e)
           f == Frag(e.offset, e.length, TRUE)
           R == AccRows(x)  S == AccRows(y)  n == Len(x.inners)
<1>1. /\ x.blob \in Seq(D) /\ x.inners \in Seq(InnerSet) /\ x.frags \in Seq(FragSet)
      /\ DOMAIN R = 1..(n + 1) /\ R[n + 1] = x.frags /\ n \in Nat /\ DOMAIN x.inners = 1..n
      /\ \A k \in DOMAIN x.inners : R[k] = x.inners[k].frags
      /\ R \in Rows
  BY AccIs, InnersAre
<1>2. /\ q \in Seq(InnerSet) /\ Len(q) = n /\ r \in Seq(FragSet)
      /\ \A k \in DOMAIN x.inners : q[k].frags = MarkShared(x.inners[k].frags, e)
  BY <1>1, InnersMark, MarkIs
<1>3. R[m][o] \in FragSet
  BY <1>1, RowsAre
<1>4. Extent(f) = e /\ f \in FragSet
  BY <1>3, FragIs DEF Frag, Extent, FragSet
<1>5. Append(r, f) \in Seq(FragSet)
  BY <1>2, <1>4, AppendOne
<1>6. y = [blob |-> x.blob, inners |-> q, frags |-> Append(r, f)]
  BY DEF Met
<1> HIDE DEF q, r, f
<1> DEFINE t == Append(r, f)
<1>7. y \in Accs(D) /\ y.inners = q /\ y.frags = Append(r, f)
  <2>1. t \in Seq(FragSet) /\ y = [blob |-> x.blob, inners |-> q, frags |-> t]
    BY <1>5, <1>6
  <2> HIDE DEF t
  <2>2. y \in Accs(D) /\ y.inners = q /\ y.frags = t
    BY <2>1, <1>1, <1>2, AccIn
  <2> QED
    BY <2>2 DEF t
<1>8. DOMAIN q = 1..n
  BY <1>2, <1>1
<1> HIDE DEF R, S, n
<1>9. DOMAIN S = 1..(n + 1) /\ S[n + 1] = y.frags /\ \A k \in 1..n : S[k] = q[k].frags
  <2>1. /\ DOMAIN AccRows(y) = 1..(Len(y.inners) + 1)
        /\ \A k \in DOMAIN y.inners : AccRows(y)[k] = y.inners[k].frags
        /\ AccRows(y)[Len(y.inners) + 1] = y.frags
    BY <1>7, AccIs
  <2>2. Len(y.inners) = n /\ DOMAIN y.inners = 1..n
    BY <1>2, <1>7, <1>8
  <2> QED
    BY <2>1, <2>2, <1>7 DEF S
<1>10. ASSUME NEW l \in DOMAIN S, NEW j \in DOMAIN S[l]
       PROVE  \E k \in DOMAIN R : \E i \in DOMAIN R[k] : Extent(S[l][j]) = Extent(R[k][i])
  <2>1. CASE l = n + 1
    <3>1. S[l] = Append(r, f) /\ R[l] = x.frags /\ l \in DOMAIN R
      BY <2>1, <1>1, <1>7, <1>9
    <3>2. j \in DOMAIN Append(r, f)
      BY <3>1
    <3>3. Append(r, f)[j] = f \/ (j \in DOMAIN r /\ Append(r, f)[j] = r[j])
      BY <1>2, <1>4, <3>2, RowEnds
    <3>4. CASE Append(r, f)[j] = f
      <4>1. m \in DOMAIN R /\ o \in DOMAIN R[m] /\ Extent(S[l][j]) = Extent(R[m][o])
        BY <3>1, <3>4, <1>4 DEF R
      <4> QED
        BY <4>1
    <3>5. CASE j \in DOMAIN r /\ Append(r, f)[j] = r[j]
      <4>1. j \in DOMAIN x.frags /\ Extent(r[j]) = Extent(x.frags[j])
        BY <1>1, <3>5, MarkIs DEF r
      <4>2. l \in DOMAIN R /\ j \in DOMAIN R[l] /\ Extent(S[l][j]) = Extent(R[l][j])
        BY <3>1, <3>5, <4>1
      <4> QED
        BY <4>2
    <3> QED
      BY <3>3, <3>4, <3>5
  <2>2. CASE l # n + 1
    <3>1. l \in 1..n
      BY <2>2, <1>1, <1>9
    <3>2. x.inners[l].frags \in Seq(FragSet)
      BY <3>1, <1>1, InnersAre
    <3>3. S[l] = MarkShared(x.inners[l].frags, e) /\ R[l] = x.inners[l].frags
      BY <3>1, <1>1, <1>2, <1>9
    <3>4. j \in DOMAIN R[l] /\ Extent(S[l][j]) = Extent(R[l][j])
      BY <3>2, <3>3, MarkIs
    <3>5. l \in DOMAIN R
      BY <3>1, <1>1
    <3> QED
      BY <3>4, <3>5
  <2> QED
    BY <2>1, <2>2
<1> QED
  BY <1>10 DEF R, S

LEMMA ChunkDistinct ==
    ASSUME NEW D, Byte \subseteq D, NEW x \in Accs(D), Good(x.blob, AccRows(x)),
           NEW chunk \in Seq(Byte), chunk # <<>>, Distinct(x.blob, AccRows(x))
    PROVE  Distinct(AddChunk(x, chunk).blob, AccRows(AddChunk(x, chunk)))
<1> DEFINE y == AddChunk(x, chunk)  R == AccRows(x)  S == AccRows(y)
<1>1. Missing(x, chunk, y) \/ Meeting(x, chunk, y)
  BY ChunkCases
<1>2. /\ x.blob \in Seq(D) /\ R \in Rows /\ Pooled(x.blob, R) /\ chunk \in Seq(D)
  BY AccIs DEF Good
<1> HIDE DEF y
<1>3. CASE Missing(x, chunk, y)
  <2> DEFINE f == Frag(Len(x.blob), Len(chunk), FALSE)  p == x.blob \o chunk
  <2>1. y = Missed(x, chunk) /\ y.blob = p
    BY <1>3 DEF Missing, Missed
  <2>2. \A k \in DOMAIN R : \A i \in DOMAIN R[k] : Slice(x.blob, R[k][i]) # chunk
    BY <1>3 DEF Missing
  <2>3. \A l \in DOMAIN S : \A j \in DOMAIN S[l] :
            \/ S[l][j] = f
            \/ l \in DOMAIN R /\ j \in DOMAIN R[l] /\ S[l][j] = R[l][j]
    <3> HIDE DEF f, p, R, S
    <3>1. OnlyNew(R, S, f)
      BY <2>1, MissedRows DEF R, S, f
    <3> QED
      BY <3>1 DEF OnlyNew
  <2>4. Slice(p, f) = chunk
    <3>1. AtEnd(D, x.blob, chunk, f)
      BY <1>2, FreshSlice
    <3> QED
      BY <3>1 DEF AtEnd
  <2> HIDE DEF f, p, R, S
  <2>5. \A k \in DOMAIN R : \A i \in DOMAIN R[k] : Slice(p, R[k][i]) = Slice(x.blob, R[k][i])
    BY <1>2, PooledGrows DEF p
  <2>6. Distinct(x.blob, R)
    BY DEF R
  <2>7. SUFFICES ASSUME NEW k \in DOMAIN S, NEW l \in DOMAIN S,
                        NEW i \in DOMAIN S[k], NEW j \in DOMAIN S[l],
                        Slice(p, S[k][i]) = Slice(p, S[l][j])
                 PROVE  Extent(S[k][i]) = Extent(S[l][j])
    BY <2>1 DEF Distinct, S, y
  <2>8. CASE S[k][i] = f /\ S[l][j] = f
    BY <2>8
  <2>9. CASE S[k][i] = f /\ S[l][j] # f
    BY <2>2, <2>3, <2>4, <2>5, <2>7, <2>9
  <2>10. CASE S[k][i] # f /\ S[l][j] = f
    BY <2>2, <2>3, <2>4, <2>5, <2>7, <2>10
  <2>11. CASE S[k][i] # f /\ S[l][j] # f
    <3>1. /\ k \in DOMAIN R /\ i \in DOMAIN R[k] /\ S[k][i] = R[k][i]
          /\ l \in DOMAIN R /\ j \in DOMAIN R[l] /\ S[l][j] = R[l][j]
      BY <2>3, <2>11
    <3>2. Slice(x.blob, R[k][i]) = Slice(x.blob, R[l][j])
      BY <2>5, <2>7, <3>1
    <3> QED
      BY <2>6, <3>1, <3>2 DEF Distinct
  <2> QED
    BY <2>8, <2>9, <2>10, <2>11
<1>4. CASE Meeting(x, chunk, y)
  <2>1. PICK m \in DOMAIN AccRows(x) : \E o \in DOMAIN AccRows(x)[m] :
            /\ Slice(x.blob, AccRows(x)[m][o]) = chunk
            /\ y = Met(x, Extent(AccRows(x)[m][o]))
    BY <1>4 DEF Meeting
  <2>2. PICK o \in DOMAIN AccRows(x)[m] : y = Met(x, Extent(AccRows(x)[m][o]))
    BY <2>1
  <2>3. y.blob = x.blob
    BY <2>2 DEF Met
  <2>4. \A l \in DOMAIN S : \A j \in DOMAIN S[l] :
            \E k \in DOMAIN R : \E i \in DOMAIN R[k] : Extent(S[l][j]) = Extent(R[k][i])
    BY <2>2, MetRows
  <2> HIDE DEF R, S
  <2>5. Distinct(x.blob, R)
    BY DEF R
  <2>6. SUFFICES ASSUME NEW k \in DOMAIN S, NEW l \in DOMAIN S,
                        NEW i \in DOMAIN S[k], NEW j \in DOMAIN S[l],
                        Slice(x.blob, S[k][i]) = Slice(x.blob, S[l][j])
                 PROVE  Extent(S[k][i]) = Extent(S[l][j])
    BY <2>3 DEF Distinct, S, y
  <2>7. PICK k1 \in DOMAIN R : \E i1 \in DOMAIN R[k1] : Extent(S[k][i]) = Extent(R[k1][i1])
    BY <2>4
  <2>8. PICK i1 \in DOMAIN R[k1] : Extent(S[k][i]) = Extent(R[k1][i1])
    BY <2>7
  <2>9. PICK l1 \in DOMAIN R : \E j1 \in DOMAIN R[l1] : Extent(S[l][j]) = Extent(R[l1][j1])
    BY <2>4
  <2>10. PICK j1 \in DOMAIN R[l1] : Extent(S[l][j]) = Extent(R[l1][j1])
    BY <2>9
  <2>11. /\ Slice(x.blob, S[k][i]) = Slice(x.blob, R[k1][i1])
         /\ Slice(x.blob, S[l][j]) = Slice(x.blob, R[l1][j1])
    BY <2>8, <2>10, SliceExtent
  <2>12. Extent(R[k1][i1]) = Extent(R[l1][j1])
    <3>1. Slice(x.blob, R[k1][i1]) = Slice(x.blob, R[l1][j1])
      BY <2>6, <2>11
    <3>2. k1 \in DOMAIN R /\ i1 \in DOMAIN R[k1] /\ l1 \in DOMAIN R /\ j1 \in DOMAIN R[l1]
      OBVIOUS
    <3> QED
      BY ONLY <2>5, <3>1, <3>2, ZenonT(40) DEF Distinct
  <2> QED
    BY <2>8, <2>10, <2>12
<1> QED
  BY <1>1, <1>3, <1>4 DEF y

-----------------------------------------------------------------------------
(* add_inner.                                                              *)

ArenaSet(D) == [algo : TableAlgo, blob : Seq(D), inners : Seq(InnerSet)]

LEMMA ArenaIn ==
    ASSUME NEW D, NEW p \in Seq(D), NEW q \in Seq(InnerSet), NEW t \in TableAlgo
    PROVE  /\ Arena(t, p, q) \in ArenaSet(D)
           /\ Arena(t, p, q).blob = p /\ Arena(t, p, q).inners = q
BY DEF ArenaSet, Arena

LEMMA EmptyRow ==
    ASSUME NEW pool, NEW R \in Rows, Good(pool, R), NEW S, S = Append(R, <<>>)
    PROVE  Good(pool, S) /\ (Distinct(pool, R) => Distinct(pool, S))
<1> DEFINE n == Len(R)  D == Seq(FragSet)  v == <<>>
<1>1. R \in Seq(D) /\ v \in D /\ n \in Nat /\ DOMAIN R = 1..n
  BY DEF Rows
<1> HIDE DEF D, v
<1>2. /\ DOMAIN S = 1..(n + 1) /\ S[n + 1] = v
      /\ \A k \in 1..n : S[k] = R[k]
  BY <1>1 DEF v
<1>3. DOMAIN v = {}
  BY DEF v
<1> HIDE DEF n
<1>4. \A k \in DOMAIN S : k = n + 1 \/ k \in DOMAIN R
  BY <1>1, <1>2
<1>5. \A k \in DOMAIN S : (\A i \in DOMAIN S[k] : k \in DOMAIN R /\ S[k] = R[k])
  BY <1>1, <1>2, <1>3, <1>4
<1>6. Pooled(pool, S)
  BY <1>5 DEF Good, Pooled, FragsIn
<1>7. \A k \in DOMAIN S : SelfMarked(S[k])
  <2>1. SUFFICES ASSUME NEW k \in DOMAIN S, NEW i \in DOMAIN S[k], NEW j \in DOMAIN S[k],
                        i # j, Overlap(S[k][i], S[k][j])
                 PROVE  S[k][i].shared
    BY DEF SelfMarked
  <2>2. k \in DOMAIN R /\ S[k] = R[k] /\ SelfMarked(R[k])
    BY <1>5 DEF Good, Marked
  <2> QED
    BY <2>1, <2>2 DEF SelfMarked
<1>8. ASSUME NEW k \in DOMAIN S, NEW l \in DOMAIN S, k # l
      PROVE  CrossMarked(S[k], S[l])
  <2>1. SUFFICES ASSUME NEW i \in DOMAIN S[k], NEW j \in DOMAIN S[l], Overlap(S[k][i], S[l][j])
                 PROVE  S[k][i].shared /\ S[l][j].shared
    BY DEF CrossMarked
  <2>2. k \in DOMAIN R /\ S[k] = R[k] /\ l \in DOMAIN R /\ S[l] = R[l]
    BY <1>5
  <2>3. CrossMarked(R[k], R[l])
    BY <2>2, <1>8 DEF Good, Marked
  <2> QED
    BY <2>1, <2>2, <2>3 DEF CrossMarked
<1>9. ASSUME Distinct(pool, R)
      PROVE  Distinct(pool, S)
  <2>1. SUFFICES ASSUME NEW k \in DOMAIN S, NEW l \in DOMAIN S,
                        NEW i \in DOMAIN S[k], NEW j \in DOMAIN S[l],
                        Slice(pool, S[k][i]) = Slice(pool, S[l][j])
                 PROVE  Extent(S[k][i]) = Extent(S[l][j])
    BY DEF Distinct
  <2>2. k \in DOMAIN R /\ S[k] = R[k] /\ l \in DOMAIN R /\ S[l] = R[l]
    BY <1>5
  <2>3. Slice(pool, R[k][i]) = Slice(pool, R[l][j]) /\ i \in DOMAIN R[k] /\ j \in DOMAIN R[l]
    BY <2>1, <2>2
  <2>4. Extent(R[k][i]) = Extent(R[l][j])
    BY <1>9, <2>2, <2>3, Zenon DEF Distinct
  <2> QED
    BY <2>2, <2>4
<1> QED
  BY <1>6, <1>7, <1>8, <1>9 DEF Good, Marked

LEMMA KeptTwice ==
    ASSUME NEW x, NEW y, NEW z, DOMAIN x.inners = DOMAIN y.inners, Kept(x, y), Kept(y, z)
    PROVE  Kept(x, z)
BY DEF Kept

\* The chunks so far.
Chunked(D, x, y, content) ==
    /\ y \in Accs(D) /\ Good(y.blob, AccRows(y)) /\ Kept(x, y)
    /\ Content(y.blob, y.frags) = content
    /\ Distinct(x.blob, AccRows(x)) => Distinct(y.blob, AccRows(y))

LEMMA ChunkedNext ==
    ASSUME NEW D, Byte \subseteq D, NEW x \in Accs(D), NEW y, NEW content, Chunked(D, x, y, content),
           NEW chunk \in Seq(Byte), chunk # <<>>
    PROVE  Chunked(D, x, AddChunk(y, chunk), content \o chunk)
<1> DEFINE z == AddChunk(y, chunk)
<1>1. /\ y \in Accs(D) /\ Good(y.blob, AccRows(y)) /\ Kept(x, y)
      /\ Content(y.blob, y.frags) = content
      /\ Distinct(x.blob, AccRows(x)) => Distinct(y.blob, AccRows(y))
  BY DEF Chunked
<1>2. Added(D, y, z, chunk)
  BY <1>1, ChunkAdded
<1>3. Distinct(y.blob, AccRows(y)) => Distinct(z.blob, AccRows(z))
  BY <1>1, ChunkDistinct
<1> HIDE DEF z
<1>4. DOMAIN x.inners = DOMAIN y.inners
  BY <1>1, AccIs, InnersAre DEF Kept
<1>5. Kept(x, z)
  BY <1>1, <1>2, <1>4, KeptTwice DEF Added
<1> QED
  BY <1>1, <1>2, <1>3, <1>5 DEF Added, Chunked, z

AddedBy(g, x, s) == g = [k \in 0..Len(s) |-> IF k = 0 THEN x ELSE AddChunk(g[k - 1], s[k])]

LEMMA AddedSolution ==
    ASSUME NEW D, Byte \subseteq D, NEW x \in Accs(D), Good(x.blob, AccRows(x)),
           NEW s \in Seq(Seq(Byte)), \A k \in 1..Len(s) : s[k] # <<>>
    PROVE  \E g : AddedBy(g, x, s)
<1> DEFINE m == Len(s)  A == {y \in Accs(D) : Good(y.blob, AccRows(y))}
           F == [p \in (1..m) \X A |-> AddChunk(p[2], s[p[1]])]
<1>1. m \in Nat /\ \A k \in 1..m : s[k] \in Seq(Byte) /\ s[k] # <<>>
  OBVIOUS
<1>2. ASSUME NEW k \in 1..m, NEW y \in A
      PROVE  AddChunk(y, s[k]) \in A
  <2>1. Added(D, y, AddChunk(y, s[k]), s[k])
    BY <1>1, ChunkAdded
  <2> QED
    BY <2>1 DEF Added
<1> HIDE DEF A, m
<1>3. Steps(F, m, A)
  BY <1>2 DEF Steps
<1>4. \A k \in 1..m, y \in A : F[<<k, y>>] = AddChunk(y, s[k])
  OBVIOUS
<1>5. x \in A
  BY DEF A
<1> HIDE DEF F
<1>6. PICK g : Solution(g, m, A, x, F)
  BY <1>1, <1>3, <1>5, Recursion
<1>7. g \in [0..m -> A] /\ g[0] = x /\ \A i \in 1..m : g[i] = F[<<i, g[i - 1]>>]
  BY <1>6 DEF Solution
<1>8. ASSUME NEW k \in 0..m
      PROVE  g[k] = IF k = 0 THEN x ELSE AddChunk(g[k - 1], s[k])
  <2>1. CASE k = 0
    BY <2>1, <1>7
  <2>2. CASE k # 0
    <3>1. k \in 1..m /\ k - 1 \in 0..m
      BY <2>2, <1>1
    <3>2. g[k] = F[<<k, g[k - 1]>>] /\ g[k - 1] \in A
      BY <3>1, <1>7
    <3>3. g[k] = AddChunk(g[k - 1], s[k])
      BY <3>1, <3>2, <1>4
    <3> QED
      BY <2>2, <3>3
  <2> QED
    BY <2>1, <2>2
<1>9. g = [k \in 0..m |-> g[k]]
  BY <1>7
<1>10. g = [k \in 0..m |-> IF k = 0 THEN x ELSE AddChunk(g[k - 1], s[k])]
  BY <1>8, <1>9, Zenon
<1> QED
  BY <1>10 DEF m, AddedBy

\* One partition more, the others with the contents they had.
Gained(D, x, y, uid, algo, content) ==
    /\ y \in ArenaSet(D) /\ Good(y.blob, RowsOf(y.inners))
    /\ Len(y.inners) = Len(x.inners) + 1
    /\ \A k \in DOMAIN x.inners :
        /\ y.inners[k].uid = x.inners[k].uid /\ y.inners[k].algo = x.inners[k].algo
        /\ InnerContent(y, k) = InnerContent(x, k)
    /\ y.inners[Len(x.inners) + 1].uid = uid /\ y.inners[Len(x.inners) + 1].algo = algo
    /\ InnerContent(y, Len(x.inners) + 1) = content
    /\ Distinct(x.blob, RowsOf(x.inners)) => Distinct(y.blob, RowsOf(y.inners))

LEMMA AddInnerIs ==
    ASSUME NEW D, Byte \subseteq D, NEW x \in ArenaSet(D), Good(x.blob, RowsOf(x.inners)),
           NEW uid \in Uid, NEW algo \in Algo, NEW content \in Seq(Byte), NEW n \in Nat
    PROVE  Gained(D, x, AddInner(x, uid, algo, content, n), uid, algo, content)
<1> DEFINE s == Chunks(content, n)  m == Len(s)
           x0 == [blob |-> x.blob, inners |-> x.inners, frags |-> <<>>]
           e == <<>>
           c == CHOOSE c : c = [k \in 0..m |-> IF k = 0 THEN x0 ELSE AddChunk(c[k - 1], s[k])]
           y == AddInner(x, uid, algo, content, n)  z == c[m]
           p == Inner(uid, algo, z.frags)
           T == {k \in Nat : Chunked(D, x0, c[k], Upto(s, k))}
<1>1. y = Arena(x.algo, z.blob, Append(z.inners, p))
  BY Zenon DEF AddInner
<1>2. /\ s \in Seq(Seq(Byte)) /\ FlattenSeq(s) = content
      /\ \A k \in 1..m : s[k] \in Seq(Byte) /\ s[k] # <<>>
  BY ChunksAre
<1>3. x.blob \in Seq(D) /\ x.inners \in Seq(InnerSet) /\ x.algo \in TableAlgo
  BY DEF ArenaSet
<1>4. /\ x0 \in Accs(D) /\ x0.blob = x.blob /\ x0.inners = x.inners /\ x0.frags = e
      /\ AccRows(x0) = Append(RowsOf(x.inners), <<>>)
  <2>1. e \in Seq(FragSet)
    OBVIOUS
  <2> HIDE DEF e
  <2>2. [blob |-> x.blob, inners |-> x.inners, frags |-> e] \in Accs(D)
    BY <1>3, <2>1, AccIn
  <2> QED
    BY <2>2 DEF e, AccRows
<1>5. /\ Good(x0.blob, AccRows(x0))
      /\ Distinct(x.blob, RowsOf(x.inners)) => Distinct(x0.blob, AccRows(x0))
  <2> HIDE DEF x0
  <2>1. RowsOf(x.inners) \in Rows
    BY <1>3, InnersAre
  <2> QED
    BY <2>1, <1>4, EmptyRow
<1> HIDE DEF s, x0
<1>6. \E g : AddedBy(g, x0, s)
  BY <1>2, <1>4, <1>5, AddedSolution
<1>7. c = [k \in 0..m |-> IF k = 0 THEN x0 ELSE AddChunk(c[k - 1], s[k])]
  <2>1. PICK g : g = [k \in 0..m |-> IF k = 0 THEN x0 ELSE AddChunk(g[k - 1], s[k])]
    BY <1>6 DEF AddedBy
  <2> QED
    BY <2>1, Zenon
<1> HIDE DEF c
<1>8. m \in Nat
  BY <1>2
<1>9. c[0] = x0 /\ \A k \in 1..m : c[k] = AddChunk(c[k - 1], s[k])
  <2> HIDE DEF m
  <2>1. 0 \in 0..m /\ \A k \in 1..m : k \in 0..m /\ k # 0
    BY <1>8
  <2>2. c[0] = x0
    BY <1>7, <2>1, Zenon
  <2>3. \A k \in 1..m : c[k] = AddChunk(c[k - 1], s[k])
    BY <1>7, <2>1, Zenon
  <2> QED
    BY <2>2, <2>3
<1>10. 0 \in T
  <2>1. Upto(s, 0) = <<>>
    BY <1>2, UptoNone
  <2>2. Content(x0.blob, x0.frags) = <<>>
    <3>1. [k \in DOMAIN <<>> |-> Slice(x0.blob, x0.frags[k])] = <<>>
      OBVIOUS
    <3> QED
      BY <3>1, <1>4, FlattenEmpty DEF Content
  <2>3. Kept(x0, x0)
    BY DEF Kept
  <2>4. Chunked(D, x0, x0, <<>>)
    BY <1>4, <1>5, <2>2, <2>3 DEF Chunked
  <2> QED
    BY <1>9, <2>1, <2>4
<1>11. ASSUME NEW k \in 0..(m - 1), k \in T
       PROVE  k + 1 \in T
  <2> DEFINE j == k + 1
  <2>1. j \in 1..m /\ j - 1 = k /\ j \in 1..Len(s) /\ j \in Nat
    BY <1>8
  <2> HIDE DEF j, m
  <2>2. Upto(s, j) = Upto(s, j - 1) \o s[j]
    BY <1>2, <2>1, UptoNext
  <2>3. Chunked(D, x0, c[k], Upto(s, k))
    BY <1>11
  <2>4. s[j] \in Seq(Byte) /\ s[j] # <<>>
    BY <1>2, <2>1
  <2>5. Chunked(D, x0, AddChunk(c[k], s[j]), Upto(s, k) \o s[j])
    BY <1>4, <2>3, <2>4, ChunkedNext
  <2>6. c[j] = AddChunk(c[k], s[j])
    BY <1>9, <2>1
  <2>7. Chunked(D, x0, c[j], Upto(s, j))
    BY <2>1, <2>2, <2>5, <2>6
  <2> QED
    BY <2>1, <2>7 DEF j
<1> HIDE DEF T
<1>12. 0..m \subseteq T
  <2> HIDE DEF m
  <2> QED
    BY <1>8, <1>10, <1>11, UpTo
<1>13. Chunked(D, x0, z, content)
  <2>1. m \in T
    BY <1>8, <1>12
  <2>2. Chunked(D, x0, z, Upto(s, m))
    BY <2>1 DEF T
  <2>3. Upto(s, m) = FlattenSeq(s)
    BY <1>2, UptoAll
  <2> QED
    BY <2>2, <2>3, <1>2
<1> HIDE DEF z, y
<1>14. /\ z \in Accs(D) /\ Good(z.blob, AccRows(z)) /\ Kept(x0, z)
       /\ Content(z.blob, z.frags) = content
       /\ Distinct(x0.blob, AccRows(x0)) => Distinct(z.blob, AccRows(z))
  BY <1>13 DEF Chunked
<1>15. z.blob \in Seq(D) /\ z.inners \in Seq(InnerSet) /\ z.frags \in Seq(FragSet)
  BY <1>14, AccIs
<1>16. p \in InnerSet /\ p.uid = uid /\ p.algo = algo /\ p.frags = z.frags
  BY <1>15 DEF Inner, InnerSet
<1> HIDE DEF p
<1> DEFINE q == Append(z.inners, p)  l == Len(z.inners)
<1>17. /\ q \in Seq(InnerSet) /\ Len(q) = l + 1 /\ l \in Nat /\ q[l + 1] = p
       /\ DOMAIN z.inners = 1..l
       /\ \A k \in 1..l : q[k] = z.inners[k]
  BY <1>15, <1>16
<1>18. RowsOf(q) = AccRows(z)
  <2> DEFINE E == Seq(FragSet)  S == AccRows(z)  R == RowsOf(q)
  <2>1. /\ R \in Seq(E) /\ Len(R) = l + 1 /\ \A k \in DOMAIN q : R[k] = q[k].frags
        /\ DOMAIN q = 1..(l + 1)
    BY <1>17, InnersAre DEF Rows
  <2>2. /\ S \in Seq(E) /\ Len(S) = l + 1 /\ S[l + 1] = z.frags
        /\ \A k \in DOMAIN z.inners : S[k] = z.inners[k].frags
    BY <1>14, AccIs DEF Rows
  <2> HIDE DEF E, S, R, q, l
  <2>3. \A k \in 1..(l + 1) : k \in 1..l \/ k = l + 1
    BY <1>17
  <2>4. \A k \in 1..(l + 1) : R[k] = S[k]
    BY <1>16, <1>17, <2>1, <2>2, <2>3
  <2>5. R = S
    <3> DEFINE o == l + 1
    <3>1. Len(R) = o /\ Len(S) = o /\ \A k \in 1..o : R[k] = S[k]
      BY <2>1, <2>2, <2>4
    <3> HIDE DEF o
    <3> QED
      BY <2>1, <2>2, <3>1, SeqSame
  <2> QED
    BY <2>5 DEF R, S
<1> HIDE DEF q
<1>19. y \in ArenaSet(D) /\ y.blob = z.blob /\ y.inners = q
  <2>1. y = Arena(x.algo, z.blob, q) /\ q \in Seq(InnerSet)
    BY <1>1, <1>17 DEF q, y
  <2> QED
    BY <2>1, <1>3, <1>15, ArenaIn
<1>20. l = Len(x.inners) /\ DOMAIN x.inners = 1..l
  BY <1>3, <1>4, <1>14, InnersAre DEF Kept
<1> HIDE DEF l
<1>21. \A k \in DOMAIN x.inners :
        /\ y.inners[k].uid = x.inners[k].uid /\ y.inners[k].algo = x.inners[k].algo
        /\ InnerContent(y, k) = InnerContent(x, k)
  <2>1. \A k \in DOMAIN x.inners :
        /\ z.inners[k].uid = x.inners[k].uid /\ z.inners[k].algo = x.inners[k].algo
        /\ InnerContent(z, k) = InnerContent(x0, k) /\ InnerContent(x0, k) = InnerContent(x, k)
    BY <1>4, <1>14 DEF Kept, InnerContent
  <2>2. \A k \in DOMAIN x.inners : y.inners[k] = z.inners[k]
    BY <1>17, <1>19, <1>20
  <2>3. \A k \in DOMAIN x.inners : InnerContent(y, k) = InnerContent(z, k)
    BY <2>2, <1>19 DEF InnerContent
  <2> QED
    BY <2>1, <2>2, <2>3
<1>22. /\ y.inners[l + 1].uid = uid /\ y.inners[l + 1].algo = algo
       /\ InnerContent(y, l + 1) = content
  BY <1>14, <1>16, <1>17, <1>19 DEF InnerContent
<1>23. Good(y.blob, RowsOf(y.inners))
  BY <1>14, <1>18, <1>19
<1>24. Distinct(x.blob, RowsOf(x.inners)) => Distinct(y.blob, RowsOf(y.inners))
  BY <1>5, <1>14, <1>18, <1>19
<1>25. Len(y.inners) = l + 1
  BY <1>17, <1>19
<1> QED
  BY <1>19, <1>20, <1>21, <1>22, <1>23, <1>24, <1>25 DEF Gained, y

-----------------------------------------------------------------------------
(* Fragments cut into finer ones.                                          *)

LEMMA BeforeAgree ==
    ASSUME NEW s, NEW t, NEW n \in Nat, Lengthy(s, n), \A j \in 1..n : t[j] = s[j]
    PROVE  \A k \in 0..n : Before(t, k) = Before(s, k)
<1>1. PICK h \in [0..n -> Nat] : Sums(h, s, n)
  BY SumsExist
<1>2. Lengthy(t, n) /\ Sums(h, t, n)
  BY <1>1 DEF Lengthy, Sums
<1>3. \A k \in 0..n : Before(s, k) = h[k]
  BY <1>1, BeforeSums
<1>4. \A k \in 0..n : Before(t, k) = h[k]
  BY <1>2, BeforeSums
<1> QED
  BY <1>3, <1>4

\* A place that is not between two fragments is within one.
LEMMA Straddles ==
    ASSUME NEW s, NEW n \in Nat, Lengthy(s, n), NEW pos \in Nat, pos <= Before(s, n),
           \A k \in 0..n : Before(s, k) # pos
    PROVE  \E k \in 1..n : Before(s, k - 1) < pos /\ pos < Before(s, k)
<1> DEFINE T == {k \in 0..n : pos <= Before(s, k)}  k == Min(T)
<1>1. n \in T /\ T \in SUBSET Nat
  OBVIOUS
<1> HIDE DEF T
<1>2. k \in T /\ \A i \in T : k <= i
  BY <1>1, MinOfNat
<1> HIDE DEF k
<1>3. k \in 0..n /\ pos <= Before(s, k)
  BY <1>2 DEF T
<1>4. k # 0
  <2>1. Before(s, 0) = 0
    BY BeforeIs
  <2>2. ASSUME k = 0
        PROVE  FALSE
    <3>1. pos <= 0
      BY <1>3, <2>1, <2>2
    <3>2. pos = 0
      BY <3>1
    <3>3. 0 \in 0..n
      OBVIOUS
    <3> QED
      BY <2>1, <3>2, <3>3
  <2> QED
    BY <2>2
<1>5. k \in 1..n /\ k - 1 \in 0..n
  BY <1>3, <1>4
<1>6. ~(pos <= Before(s, k - 1))
  <2>1. ASSUME pos <= Before(s, k - 1)
        PROVE  FALSE
    <3>1. k - 1 \in T
      BY <1>5, <2>1 DEF T
    <3>2. k <= k - 1
      BY <1>2, <3>1
    <3> QED
      BY <1>5, <3>2
  <2> QED
    BY <2>1
<1>7. Before(s, k - 1) \in Nat /\ Before(s, k) \in Nat /\ Before(s, k) # pos
  BY <1>3, <1>5, BeforeIs
<1>8. Before(s, k - 1) < pos /\ pos < Before(s, k)
  <2> DEFINE x == Before(s, k - 1)  y == Before(s, k)
  <2>1. x \in Nat /\ y \in Nat /\ y # pos /\ ~(pos <= x) /\ pos <= y
    BY <1>3, <1>6, <1>7
  <2> HIDE DEF x, y
  <2>2. x < pos /\ pos < y
    BY <2>1
  <2> QED
    BY <2>2 DEF x, y
<1> QED
  BY <1>5, <1>8

Inside(g, f) ==
    /\ f.offset <= g.offset /\ g.offset + g.length <= f.offset + f.length
    /\ g.shared = f.shared
\* Every fragment of t is within one of r, those within the same one apart.
FinerBy(o, t, r) ==
    /\ o \in [DOMAIN t -> DOMAIN r]
    /\ \A j \in DOMAIN t : Inside(t[j], r[o[j]])
    /\ \A i, j \in DOMAIN t : i # j /\ o[i] = o[j] => ~Overlap(t[i], t[j])
Finer(t, r) == \E o : FinerBy(o, t, r)

LEMMA InsideOverlap ==
    ASSUME NEW f \in FragSet, NEW g \in FragSet, NEW h \in FragSet, Inside(g, f), Overlap(g, h)
    PROVE  Overlap(f, h)
<1> DEFINE fo == f.offset  fl == f.length  go == g.offset  gl == g.length
           ho == h.offset  hl == h.length
<1>1. /\ fo \in Nat /\ fl \in Nat /\ go \in Nat /\ gl \in Nat /\ ho \in Nat /\ hl \in Nat
      /\ fo <= go /\ go + gl <= fo + fl /\ go < ho + hl /\ ho < go + gl
  BY FragIs DEF Inside, Overlap
<1> HIDE DEF fo, fl, go, gl, ho, hl
<1>2. fo < ho + hl /\ ho < fo + fl
  BY <1>1
<1> QED
  BY <1>2 DEF fo, fl, ho, hl, Overlap

LEMMA InsideTwice ==
    ASSUME NEW f \in FragSet, NEW g \in FragSet, NEW h \in FragSet, Inside(f, g), Inside(g, h)
    PROVE  Inside(f, h)
<1> DEFINE fo == f.offset  fl == f.length  go == g.offset  gl == g.length
           ho == h.offset  hl == h.length
<1>1. /\ fo \in Nat /\ fl \in Nat /\ go \in Nat /\ gl \in Nat /\ ho \in Nat /\ hl \in Nat
      /\ go <= fo /\ fo + fl <= go + gl /\ ho <= go /\ go + gl <= ho + hl
  BY FragIs DEF Inside
<1>2. f.shared = h.shared
  BY DEF Inside
<1> HIDE DEF fo, fl, go, gl, ho, hl
<1>3. ho <= fo /\ fo + fl <= ho + hl
  BY <1>1
<1> QED
  BY <1>2, <1>3 DEF fo, fl, ho, hl, Inside

LEMMA FinerTwice ==
    ASSUME NEW t \in Seq(FragSet), NEW s \in Seq(FragSet), NEW r, Finer(t, s), Finer(s, r),
           r \in Seq(FragSet)
    PROVE  Finer(t, r)
<1>1. PICK o : FinerBy(o, t, s)
  BY DEF Finer
<1>2. PICK p : FinerBy(p, s, r)
  BY DEF Finer
<1> DEFINE q == [j \in DOMAIN t |-> p[o[j]]]
<1>3. \A j \in DOMAIN t : t[j] \in FragSet /\ o[j] \in DOMAIN s /\ Inside(t[j], s[o[j]])
  BY <1>1 DEF FinerBy
<1>4. \A j \in DOMAIN s : s[j] \in FragSet /\ p[j] \in DOMAIN r /\ Inside(s[j], r[p[j]])
                          /\ r[p[j]] \in FragSet
  BY <1>2 DEF FinerBy
<1>5. \A j \in DOMAIN t : q[j] = p[o[j]] /\ q[j] \in DOMAIN r
  BY <1>3, <1>4
<1>6. q \in [DOMAIN t -> DOMAIN r]
  BY <1>5
<1> HIDE DEF q
<1>7. ASSUME NEW j \in DOMAIN t
      PROVE  Inside(t[j], r[q[j]])
  <2> DEFINE f == t[j]  g == s[o[j]]  h == r[q[j]]
  <2>1. Inside(f, g) /\ Inside(g, h) /\ f \in FragSet /\ g \in FragSet /\ h \in FragSet
    BY <1>3, <1>4, <1>5
  <2> HIDE DEF f, g, h
  <2>3. Inside(f, h)
    BY <2>1, InsideTwice
  <2> QED
    BY <2>3 DEF f, h
<1>8. ASSUME NEW i \in DOMAIN t, NEW j \in DOMAIN t, i # j, q[i] = q[j]
      PROVE  ~Overlap(t[i], t[j])
  <2>1. CASE o[i] = o[j]
    BY <1>1, <1>8, <2>1 DEF FinerBy
  <2>2. CASE o[i] # o[j]
    <3>1. p[o[i]] = p[o[j]] /\ o[i] \in DOMAIN s /\ o[j] \in DOMAIN s
      BY <1>3, <1>5, <1>8
    <3>2. ~Overlap(s[o[i]], s[o[j]])
      BY <1>2, <2>2, <3>1 DEF FinerBy
    <3>3. ASSUME Overlap(t[i], t[j])
          PROVE  FALSE
      <4>1. Overlap(s[o[i]], t[j])
        BY <1>3, <1>4, <3>3, InsideOverlap
      <4>2. Overlap(t[j], s[o[i]])
        BY <4>1, OverlapBoth
      <4>3. Overlap(s[o[j]], s[o[i]])
        BY <1>3, <1>4, <4>2, InsideOverlap
      <4> QED
        BY <3>2, <4>3, OverlapBoth
    <3> QED
      BY <3>3
  <2> QED
    BY <2>1, <2>2
<1>9. FinerBy(q, t, r)
  BY <1>6, <1>7, <1>8 DEF FinerBy
<1> QED
  BY <1>9 DEF Finer

\* A finer row is marked where the coarser one was.
LEMMA FinerMarked ==
    ASSUME NEW t \in Seq(FragSet), NEW r \in Seq(FragSet), Finer(t, r)
    PROVE  /\ SelfMarked(r) => SelfMarked(t)
           /\ \A s \in Seq(FragSet) :
                /\ CrossMarked(r, s) => CrossMarked(t, s)
                /\ CrossMarked(s, r) => CrossMarked(s, t)
<1>1. PICK o : FinerBy(o, t, r)
  BY DEF Finer
<1>2. \A j \in DOMAIN t : /\ t[j] \in FragSet /\ o[j] \in DOMAIN r /\ r[o[j]] \in FragSet
                          /\ Inside(t[j], r[o[j]]) /\ t[j].shared = r[o[j]].shared
  BY <1>1 DEF FinerBy, Inside
<1>3. ASSUME SelfMarked(r)
      PROVE  SelfMarked(t)
  <2>1. SUFFICES ASSUME NEW i \in DOMAIN t, NEW j \in DOMAIN t, i # j, Overlap(t[i], t[j])
                 PROVE  t[i].shared
    BY DEF SelfMarked
  <2>2. o[i] # o[j]
    BY <1>1, <2>1 DEF FinerBy
  <2>3. Overlap(r[o[i]], t[j])
    BY <1>2, <2>1, InsideOverlap
  <2>4. Overlap(t[j], r[o[i]])
    BY <2>3, OverlapBoth
  <2>5. Overlap(r[o[j]], r[o[i]])
    BY <1>2, <2>4, InsideOverlap
  <2>6. Overlap(r[o[i]], r[o[j]])
    BY <2>5, OverlapBoth
  <2>7. r[o[i]].shared
    BY <1>2, <1>3, <2>2, <2>6 DEF SelfMarked
  <2> QED
    BY <1>2, <2>7
<1>4. ASSUME NEW s \in Seq(FragSet), CrossMarked(r, s)
      PROVE  CrossMarked(t, s)
  <2>1. SUFFICES ASSUME NEW i \in DOMAIN t, NEW j \in DOMAIN s, Overlap(t[i], s[j])
                 PROVE  t[i].shared /\ s[j].shared
    BY DEF CrossMarked
  <2>2. Overlap(r[o[i]], s[j])
    BY <1>2, <2>1, InsideOverlap
  <2>3. r[o[i]].shared /\ s[j].shared
    BY <1>2, <1>4, <2>2 DEF CrossMarked
  <2> QED
    BY <1>2, <2>3
<1>5. ASSUME NEW s \in Seq(FragSet), CrossMarked(s, r)
      PROVE  CrossMarked(s, t)
  <2>1. SUFFICES ASSUME NEW i \in DOMAIN s, NEW j \in DOMAIN t, Overlap(s[i], t[j])
                 PROVE  s[i].shared /\ t[j].shared
    BY DEF CrossMarked
  <2>2. Overlap(t[j], s[i])
    BY <2>1, OverlapBoth
  <2>3. Overlap(r[o[j]], s[i])
    BY <1>2, <2>2, InsideOverlap
  <2>4. Overlap(s[i], r[o[j]])
    BY <2>3, OverlapBoth
  <2>5. s[i].shared /\ r[o[j]].shared
    BY <1>2, <1>5, <2>4 DEF CrossMarked
  <2> QED
    BY <1>2, <2>5
<1> QED
  BY <1>3, <1>4, <1>5

LEMMA FinerSame ==
    ASSUME NEW r \in Seq(FragSet)
    PROVE  Finer(r, r)
<1> DEFINE o == [j \in DOMAIN r |-> j]
<1>1. o \in [DOMAIN r -> DOMAIN r] /\ \A j \in DOMAIN r : o[j] = j
  OBVIOUS
<1>2. \A j \in DOMAIN r : Inside(r[j], r[j])
  <2>1. SUFFICES ASSUME NEW j \in DOMAIN r PROVE Inside(r[j], r[j])
    OBVIOUS
  <2>2. r[j] \in FragSet
    OBVIOUS
  <2>3. r[j].offset \in Nat /\ r[j].offset + r[j].length \in Nat
    BY <2>2, FragIs
  <2> QED
    BY <2>3 DEF Inside
<1> HIDE DEF o
<1>3. FinerBy(o, r, r)
  BY <1>1, <1>2 DEF FinerBy
<1> QED
  BY <1>3 DEF Finer

\* The two halves of a fragment.
Halves(f, head, u, v) ==
    /\ u = Frag(f.offset, head, f.shared)
    /\ v = Frag(f.offset + head, f.length - head, f.shared)

LEMMA HalvesAre ==
    ASSUME NEW C, NEW pool \in Seq(C), NEW f \in FragSet, InPool(pool, f),
           NEW head \in Nat, 0 < head, head < f.length, NEW u, NEW v, Halves(f, head, u, v)
    PROVE  /\ u \in FragSet /\ v \in FragSet /\ InPool(pool, u) /\ InPool(pool, v)
           /\ Slice(pool, u) \o Slice(pool, v) = Slice(pool, f)
           /\ Inside(u, f) /\ Inside(v, f) /\ ~Overlap(u, v) /\ ~Overlap(v, u)
           /\ u.length = head /\ v.length = f.length - head
<1> DEFINE o == f.offset  l == f.length  t == l - head
<1>1. /\ o \in Nat /\ l \in Nat /\ t \in Nat /\ t > 0 /\ head + t = l /\ o + head + t = o + l
      /\ f.shared \in BOOLEAN
  <2>1. o \in Nat /\ l \in Nat /\ head \in Nat /\ head < l /\ f.shared \in BOOLEAN
    BY FragIs
  <2> HIDE DEF o, l
  <2> QED
    BY <2>1
<1>2. o + l <= Len(pool) /\ \A i \in 1..l : pool[o + i] \in Byte
  BY DEF InPool
<1>3. /\ u.offset = o /\ u.length = head /\ u.shared = f.shared /\ u \in FragSet
      /\ v.offset = o + head /\ v.length = t /\ v.shared = f.shared /\ v \in FragSet
  <2> HIDE DEF o, l, t
  <2>1. u = Frag(o, head, f.shared) /\ v = Frag(o + head, t, f.shared)
    BY DEF Halves, o, l, t
  <2>2. o + head \in Nat /\ t \in Nat \ {0} /\ head \in Nat \ {0}
    BY <1>1
  <2> QED
    BY <2>1, <2>2, <1>1 DEF Frag, FragSet
<1>4. Len(pool) \in Nat
  OBVIOUS
<1> DEFINE w == Len(pool)
<1> HIDE DEF o, l, t, w
<1>5. /\ o + head <= w /\ (o + head) + t <= w
      /\ (\A i \in 1..head : i \in 1..l)
      /\ (\A i \in 1..t : head + i \in 1..l /\ (o + head) + i = o + (head + i))
  BY <1>1, <1>2, <1>4 DEF w
<1>6. InPool(pool, u) /\ InPool(pool, v)
  BY <1>2, <1>3, <1>5 DEF InPool, w
<1>7. /\ Slice(pool, u) \in Seq(Byte) /\ Len(Slice(pool, u)) = head
      /\ \A i \in 1..head : Slice(pool, u)[i] = pool[o + i]
  BY <1>3, <1>6, SliceIs
<1>8. /\ Slice(pool, v) \in Seq(Byte) /\ Len(Slice(pool, v)) = t
      /\ \A i \in 1..t : Slice(pool, v)[i] = pool[(o + head) + i]
  BY <1>3, <1>6, SliceIs
<1>9. /\ Slice(pool, f) \in Seq(Byte) /\ Len(Slice(pool, f)) = l
      /\ \A i \in 1..l : Slice(pool, f)[i] = pool[o + i]
  BY SliceIs DEF o, l
<1>10. Join(Slice(pool, f), Slice(pool, u), Slice(pool, v), head, t)
  <2> DEFINE x == Slice(pool, u)  y == Slice(pool, v)  z == Slice(pool, f)
  <2> HIDE DEF x, y, z
  <2>1. \A i \in 1..head : z[i] = x[i]
    BY <1>5, <1>7, <1>9 DEF x, z
  <2>2. \A i \in 1..t : z[head + i] = y[i]
    BY <1>5, <1>8, <1>9 DEF y, z
  <2>3. head = Len(x) /\ t = Len(y) /\ Len(z) = head + t
    BY <1>1, <1>7, <1>8, <1>9 DEF x, y, z
  <2> QED
    BY <2>1, <2>2, <2>3 DEF Join, x, y, z
<1>11. Slice(pool, u) \o Slice(pool, v) = Slice(pool, f)
  BY <1>7, <1>8, <1>9, <1>10, Joined
<1>12. Inside(u, f) /\ Inside(v, f)
  <2>1. o <= o /\ o + head <= o + l /\ o <= o + head /\ (o + head) + t <= o + l
    BY <1>1
  <2> QED
    BY <2>1, <1>3 DEF Inside, o, l
<1>13. ~Overlap(u, v) /\ ~Overlap(v, u)
  <2>1. ~(o + head < o + head)
    BY <1>1
  <2> QED
    BY <2>1, <1>3 DEF Overlap
<1> QED
  BY <1>3, <1>6, <1>11, <1>12, <1>13 DEF l, t

\* The row r with two fragments in the place of the k-th.
Replaced(t, r, k, u, v) ==
    /\ Len(t) = Len(r) + 1 /\ t[k] = u /\ t[k + 1] = v
    /\ \A j \in 1..(k - 1) : t[j] = r[j]
    /\ \A j \in (k + 1)..Len(r) : t[j + 1] = r[j]

LEMMA ReplacedIs ==
    ASSUME NEW r \in Seq(FragSet), NEW k \in 1..Len(r), NEW u \in FragSet, NEW v \in FragSet,
           NEW t, t = SubSeq(r, 1, k - 1) \o <<u, v>> \o SubSeq(r, k + 1, Len(r))
    PROVE  t \in Seq(FragSet) /\ Replaced(t, r, k, u, v)
<1> DEFINE n == Len(r)  P == SubSeq(r, 1, k - 1)  Q == SubSeq(r, k + 1, Len(r))  m == <<u, v>>
           W == P \o m
<1>1. n \in Nat /\ k \in 1..n
  OBVIOUS
<1>2. P \in Seq(FragSet) /\ Len(P) = k - 1 /\ \A j \in 1..(k - 1) : P[j] = r[j]
  OBVIOUS
<1>3. m \in Seq(FragSet) /\ Len(m) = 2 /\ m[1] = u /\ m[2] = v
  OBVIOUS
<1>4. Q \in Seq(FragSet) /\ Len(Q) = n - k /\ \A j \in 1..(n - k) : Q[j] = r[k + j]
  <2> DEFINE x == k + 1
  <2>1. x \in Nat \ {0} /\ n \in 0..Len(r)
    OBVIOUS
  <2>2. IF x <= n THEN n - x + 1 = n - k ELSE n - k = 0
    BY <1>1
  <2>3. \A j \in 1..(n - k) : x + j - 1 = k + j
    BY <1>1
  <2> DEFINE z == SubSeq(r, x, n)
  <2> HIDE DEF x, n
  <2>4. /\ z \in Seq(FragSet)
        /\ Len(z) = IF x <= n THEN n - x + 1 ELSE 0
        /\ \A j \in 1..Len(z) : z[j] = r[x + j - 1]
    BY <2>1, SliceType
  <2> HIDE DEF z
  <2>5. Len(z) = n - k
    BY <2>2, <2>4
  <2>6. \A j \in 1..(n - k) : z[j] = r[k + j]
    BY <2>3, <2>4, <2>5
  <2> QED
    BY <2>4, <2>5, <2>6 DEF z, x, n
<1> HIDE DEF P, Q, m, n, W
<1>5. W \in Seq(FragSet) /\ Concatenated(W, P, m)
  BY <1>2, <1>3, ConcatIs DEF W
<1>6. t \in Seq(FragSet) /\ Concatenated(t, W, Q)
  BY <1>4, <1>5, ConcatIs DEF W, P, m, Q
<1>7. /\ Len(W) = k + 1 /\ W[k] = u /\ W[k + 1] = v
      /\ \A j \in 1..(k - 1) : W[j] = r[j]
  <2>1. /\ Len(W) = Len(P) + Len(m)
        /\ \A i \in 1..Len(P) : W[i] = P[i]
        /\ \A i \in 1..Len(m) : W[Len(P) + i] = m[i]
    BY <1>5 DEF Concatenated
  <2>2. Len(P) + 1 = k /\ Len(P) + 2 = k + 1 /\ 1 \in 1..Len(m) /\ 2 \in 1..Len(m)
    BY <1>1, <1>2, <1>3
  <2>3. W[Len(P) + 1] = m[1] /\ W[Len(P) + 2] = m[2]
    BY <2>1, <2>2
  <2> QED
    BY <1>2, <1>3, <2>1, <2>2, <2>3
<1>8. /\ Len(t) = Len(W) + Len(Q)
      /\ \A i \in 1..Len(W) : t[i] = W[i]
      /\ \A i \in 1..Len(Q) : t[Len(W) + i] = Q[i]
  BY <1>6 DEF Concatenated
<1>9. Len(t) = n + 1 /\ t[k] = u /\ t[k + 1] = v /\ \A j \in 1..(k - 1) : t[j] = r[j]
  <2>1. (k + 1) + (n - k) = n + 1 /\ k \in 1..(k + 1) /\ k + 1 \in 1..(k + 1)
        /\ \A j \in 1..(k - 1) : j \in 1..(k + 1)
    BY <1>1
  <2>2. Len(t) = n + 1
    BY ONLY <2>1, <1>4, <1>7, <1>8
  <2>3. t[k] = u /\ t[k + 1] = v
    BY ONLY <2>1, <1>7, <1>8
  <2>4. \A j \in 1..(k - 1) : t[j] = r[j]
    BY ONLY <2>1, <1>7, <1>8
  <2> QED
    BY <2>2, <2>3, <2>4
<1>10. ASSUME NEW j \in (k + 1)..n
       PROVE  t[j + 1] = r[j]
  <2> DEFINE i == j - k
  <2>1. i \in 1..(n - k) /\ k + i = j /\ (k + 1) + i = j + 1
    BY <1>1
  <2> HIDE DEF i
  <2>2. t[(k + 1) + i] = Q[i] /\ Q[i] = r[k + i]
    BY <1>4, <1>7, <1>8, <2>1
  <2> QED
    BY <2>1, <2>2
<1> QED
  BY <1>6, <1>9, <1>10 DEF Replaced, n

LEMMA FragsPart ==
    ASSUME NEW pool, NEW r \in Seq(FragSet), FragsIn(pool, r), NEW i \in 0..Len(r), NEW j \in i..Len(r)
    PROVE  /\ SubSeq(r, i + 1, j) \in Seq(FragSet) /\ Len(SubSeq(r, i + 1, j)) = j - i
           /\ FragsIn(pool, SubSeq(r, i + 1, j))
           /\ \A k \in 1..(j - i) : SubSeq(r, i + 1, j)[k] = r[i + k]
<1> DEFINE x == i + 1  n == j - i  z == SubSeq(r, x, j)
<1>1. x \in Nat \ {0} /\ j \in 0..Len(r) /\ n \in Nat /\ Len(r) \in Nat
  OBVIOUS
<1>2. IF x <= j THEN j - x + 1 = n ELSE n = 0
  OBVIOUS
<1>3. \A k \in 1..n : x + k - 1 = i + k /\ i + k \in 1..Len(r)
  OBVIOUS
<1> HIDE DEF x, n
<1>4. /\ z \in Seq(FragSet)
      /\ Len(z) = IF x <= j THEN j - x + 1 ELSE 0
      /\ \A k \in 1..Len(z) : z[k] = r[x + k - 1]
  BY <1>1, SliceType
<1> HIDE DEF z
<1>5. Len(z) = n
  BY <1>2, <1>4
<1>6. \A k \in 1..n : z[k] = r[i + k]
  BY <1>3, <1>4, <1>5
<1>7. FragsIn(pool, z)
  <2>1. DOMAIN z = 1..n /\ DOMAIN r = 1..Len(r)
    BY <1>4, <1>5
  <2> QED
    BY <2>1, <1>3, <1>6 DEF FragsIn
<1> QED
  BY <1>4, <1>5, <1>6, <1>7 DEF x, n, z

\* The content of the fragments before a place, and of those after it.
LEMMA ContentParts ==
    ASSUME NEW C, NEW pool \in Seq(C), NEW r \in Seq(FragSet), FragsIn(pool, r),
           NEW k \in 0..Len(r), NEW p, p = Before(r, k), NEW c, c = Content(pool, r)
    PROVE  /\ p \in 0..Len(c)
           /\ Content(pool, SubSeq(r, 1, k)) = SubSeq(c, 1, p)
           /\ Content(pool, SubSeq(r, k + 1, Len(r))) = SubSeq(c, p + 1, Len(c))
<1> DEFINE n == Len(r)  P == SubSeq(r, 1, k)  Q == SubSeq(r, k + 1, n)
           x == Content(pool, P)  y == Content(pool, Q)
<1>1. n \in Nat /\ k \in 0..n /\ SubSeq(r, 1, n) = r
  OBVIOUS
<1>2. r = P \o Q
  <2> DEFINE w == SubSeq(r, 1, n)
  <2>1. w = P \o Q
    <3>1. k \in 0..Len(r) /\ n \in k..Len(r)
      OBVIOUS
    <3> HIDE DEF n
    <3> QED
      BY <3>1, SubSeqNext
  <2>2. w = r
    BY <1>1
  <2> HIDE DEF P, Q, w
  <2> QED
    BY <2>1, <2>2
<1>3. P \in Seq(FragSet) /\ Len(P) = k /\ FragsIn(pool, P) /\ \A i \in 1..k : P[i] = r[i]
  <2> DEFINE o == 0  z == SubSeq(r, o + 1, k)
  <2>1. o \in 0..Len(r) /\ k \in o..Len(r) /\ k - o = k /\ o + 1 = 1 /\ \A i \in 1..k : o + i = i
    OBVIOUS
  <2> HIDE DEF o
  <2>2. /\ z \in Seq(FragSet) /\ Len(z) = k - o /\ FragsIn(pool, z)
        /\ \A i \in 1..(k - o) : z[i] = r[o + i]
    BY <2>1, FragsPart
  <2> QED
    BY <2>1, <2>2
<1>4. Q \in Seq(FragSet) /\ FragsIn(pool, Q)
  <2>1. n \in k..Len(r)
    OBVIOUS
  <2> HIDE DEF n
  <2> QED
    BY <2>1, FragsPart
<1> HIDE DEF P, Q, n
<1>5. c = x \o y
  BY <1>2, <1>3, <1>4, ContentConcat
<1>6. x \in Seq(Byte) /\ Len(x) = LogicalLen(P) /\ y \in Seq(Byte)
  BY <1>3, <1>4, LogicalIs
<1>7. LogicalLen(P) = p
  <2>1. Lengthy(r, k)
    BY <1>1, FragsLengthy DEF Lengthy, n
  <2>2. k \in Nat /\ k \in 0..k
    BY <1>1
  <2>3. \A j \in 0..k : Before(P, j) = Before(r, j)
    BY <2>1, <2>2, <1>3, BeforeAgree
  <2> QED
    BY <2>2, <2>3, <1>3 DEF LogicalLen
<1> HIDE DEF x, y
<1>8. Len(x) = p /\ p \in Nat
  BY <1>6, <1>7
<1>9. p \in 0..Len(c) /\ SubSeq(c, 1, p) = x /\ SubSeq(c, p + 1, Len(c)) = y
  BY <1>5, <1>6, <1>8, ConcatParts
<1> QED
  BY <1>9 DEF x, y, P, Q, n

Parted(pool, r, k, p, c) ==
    /\ p \in 0..Len(c)
    /\ Content(pool, SubSeq(r, 1, k)) = SubSeq(c, 1, p)
    /\ Content(pool, SubSeq(r, k + 1, Len(r))) = SubSeq(c, p + 1, Len(c))

LEMMA ContentParted ==
    ASSUME NEW C, NEW pool \in Seq(C), NEW r \in Seq(FragSet), FragsIn(pool, r), NEW k \in 0..Len(r)
    PROVE  Parted(pool, r, k, Before(r, k), Content(pool, r))
<1> DEFINE p == Before(r, k)  c == Content(pool, r)
<1>1. p = Before(r, k) /\ c = Content(pool, r)
  OBVIOUS
<1> HIDE DEF p, c
<1>2. Parted(pool, r, k, p, c)
  BY <1>1, ContentParts DEF Parted
<1> QED
  BY <1>2 DEF p, c

\* The row r parted at the k-th fragment.
LEMMA Around ==
    ASSUME NEW r \in Seq(FragSet), NEW k \in 1..Len(r), NEW f, f = r[k]
    PROVE  /\ SubSeq(r, 1, k - 1) \in Seq(FragSet) /\ SubSeq(r, k + 1, Len(r)) \in Seq(FragSet)
           /\ r = (SubSeq(r, 1, k - 1) \o <<f>>) \o SubSeq(r, k + 1, Len(r))
<1> DEFINE i == k - 1  P == SubSeq(r, 1, i)  Q == SubSeq(r, k + 1, Len(r))  n == Len(r)
<1>1. i \in 0..(Len(r) - 1) /\ i + 1 = k /\ k \in 0..Len(r) /\ n \in k..Len(r) /\ SubSeq(r, 1, n) = r
  OBVIOUS
<1>2. SubSeq(r, 1, k) = Append(P, f) /\ P \in Seq(FragSet) /\ f \in FragSet
  <2> HIDE DEF i
  <2>1. SubSeq(r, 1, i + 1) = Append(SubSeq(r, 1, i), r[i + 1]) /\ SubSeq(r, 1, i) \in Seq(FragSet)
        /\ r[i + 1] \in FragSet
    BY <1>1, PrefixNext
  <2> QED
    BY <2>1, <1>1
<1>3. r = SubSeq(r, 1, k) \o Q
  <2> DEFINE w == SubSeq(r, 1, n)
  <2> DEFINE v == SubSeq(r, 1, k)
  <2>2. w = r /\ n \in k..Len(r) /\ k \in 0..Len(r)
    BY <1>1
  <2> HIDE DEF n
  <2>1. w = v \o SubSeq(r, k + 1, n)
    BY <2>2, SubSeqNext
  <2>3. Q = SubSeq(r, k + 1, n)
    BY DEF n
  <2> HIDE DEF Q, v, w
  <2>4. r = v \o Q
    BY <2>1, <2>2, <2>3
  <2> QED
    BY <2>4 DEF v
<1>4. Append(P, f) = P \o <<f>>
  <2> HIDE DEF P
  <2> QED
    BY <1>2, AppendOne
<1>5. Q \in Seq(FragSet)
  OBVIOUS
<1> DEFINE W == SubSeq(r, 1, k)
<1>6. W = P \o <<f>>
  <2> HIDE DEF P, W
  <2>1. W = Append(P, f)
    BY <1>2 DEF W
  <2> QED
    BY <2>1, <1>4
<1>7. r = W \o Q
  BY <1>3
<1> HIDE DEF P, Q, W
<1>8. r = (P \o <<f>>) \o Q /\ P \in Seq(FragSet) /\ Q \in Seq(FragSet)
  BY <1>2, <1>5, <1>6, <1>7
<1> QED
  BY <1>8 DEF P, Q, i

\* The middle of a row may be replaced by fragments of the same content.
LEMMA Middle ==
    ASSUME NEW C, NEW pool \in Seq(C), NEW p \in Seq(FragSet), NEW q \in Seq(FragSet),
           NEW m \in Seq(FragSet), NEW n \in Seq(FragSet),
           FragsIn(pool, p), FragsIn(pool, q), FragsIn(pool, m), FragsIn(pool, n),
           Content(pool, m) = Content(pool, n)
    PROVE  /\ FragsIn(pool, (p \o m) \o q)
           /\ Content(pool, (p \o m) \o q) = Content(pool, (p \o n) \o q)
<1> DEFINE x == p \o m  y == p \o n
<1>1. x \in Seq(FragSet) /\ FragsIn(pool, x) /\ Content(pool, x) = Content(pool, p) \o Content(pool, m)
  BY ContentConcat
<1>2. y \in Seq(FragSet) /\ FragsIn(pool, y) /\ Content(pool, y) = Content(pool, p) \o Content(pool, n)
  BY ContentConcat
<1> HIDE DEF x, y
<1>3. FragsIn(pool, x \o q) /\ Content(pool, x \o q) = Content(pool, x) \o Content(pool, q)
  BY <1>1, ContentConcat
<1>4. Content(pool, y \o q) = Content(pool, y) \o Content(pool, q)
  BY <1>2, ContentConcat
<1>5. Content(pool, x) = Content(pool, y)
  BY <1>1, <1>2
<1>6. Content(pool, x \o q) = Content(pool, y \o q)
  BY <1>3, <1>4, <1>5
<1> QED
  BY <1>3, <1>6 DEF x, y

\* The row t is the row r in finer parts, one of which starts at pos.
CutAt(pool, r, t, pos) ==
    /\ t \in Seq(FragSet) /\ FragsIn(pool, t) /\ Content(pool, t) = Content(pool, r)
    /\ Finer(t, r)
    /\ \E i \in 0..Len(t) : Before(t, i) = pos
\* ... and the same as r before pos.
SameTo(r, t, pos) ==
    \A i \in 0..Len(r) : Before(r, i) <= pos => i <= Len(t) /\ \A j \in 1..i : t[j] = r[j]

LEMMA InsideSelf ==
    ASSUME NEW f \in FragSet
    PROVE  Inside(f, f)
<1>1. f.offset \in Nat /\ f.length \in Nat
  BY FragIs
<1> DEFINE o == f.offset  l == f.length
<1>2. o <= o /\ o + l <= o + l
  <2>1. o \in Nat /\ l \in Nat
    BY <1>1
  <2> HIDE DEF o, l
  <2> QED
    BY <2>1
<1> QED
  BY <1>2 DEF Inside, o, l

LEMMA ReplacedFiner ==
    ASSUME NEW r \in Seq(FragSet), NEW t \in Seq(FragSet), NEW k \in 1..Len(r), NEW u, NEW v,
           Replaced(t, r, k, u, v), Inside(u, r[k]), Inside(v, r[k]),
           ~Overlap(u, v), ~Overlap(v, u)
    PROVE  Finer(t, r)
<1> DEFINE n == Len(r)  o == [j \in 1..(n + 1) |-> IF j <= k THEN j ELSE j - 1]
<1>1. /\ Len(t) = n + 1 /\ t[k] = u /\ t[k + 1] = v
      /\ \A j \in 1..(k - 1) : t[j] = r[j]
      /\ \A j \in (k + 1)..n : t[j + 1] = r[j]
  BY DEF Replaced, n
<1>2. n \in Nat /\ k \in 1..n /\ DOMAIN r = 1..n /\ DOMAIN t = 1..(n + 1)
  BY <1>1
<1>3. \A j \in 1..n : Inside(r[j], r[j])
  BY <1>2, InsideSelf
<1> HIDE DEF n
<1>4. \A j \in 1..(n + 1) : (j <= k => o[j] = j) /\ (j > k => o[j] = j - 1)
  BY <1>2
<1>5. o = [j \in 1..(n + 1) |-> o[j]]
  OBVIOUS
<1> HIDE DEF o
<1>6. ASSUME NEW j \in 1..(n + 1)
      PROVE  o[j] \in 1..n /\ Inside(t[j], r[o[j]])
  <2>1. CASE j \in 1..(k - 1)
    <3>1. o[j] = j /\ j \in 1..n
      BY ONLY <1>2, <1>4, <2>1
    <3> QED
      BY <3>1, <2>1, <1>1, <1>3
  <2>2. CASE j = k
    <3>1. o[j] = j /\ j \in 1..n
      BY ONLY <1>2, <1>4, <2>2
    <3> QED
      BY <3>1, <2>2, <1>1
  <2>3. CASE j = k + 1
    <3>1. o[j] = k /\ k \in 1..n
      BY ONLY <1>2, <1>4, <2>3
    <3> QED
      BY <3>1, <2>3, <1>1
  <2>4. CASE j \in (k + 2)..(n + 1)
    <3> DEFINE i == j - 1
    <3>1. o[j] = i /\ i \in (k + 1)..n /\ i \in 1..n /\ i + 1 = j
      BY ONLY <1>2, <1>4, <2>4
    <3> HIDE DEF i
    <3>2. t[j] = r[i]
      BY <3>1, <1>1
    <3> QED
      BY <3>1, <3>2, <1>3
  <2>5. j \in 1..(k - 1) \/ j = k \/ j = k + 1 \/ j \in (k + 2)..(n + 1)
    BY ONLY <1>2, j \in 1..(n + 1)
  <2> QED
    BY <2>1, <2>2, <2>3, <2>4, <2>5
<1>7. o \in [1..(n + 1) -> 1..n]
  BY <1>5, <1>6
<1>8. ASSUME NEW i \in 1..(n + 1), NEW j \in 1..(n + 1), i # j, o[i] = o[j]
      PROVE  ~Overlap(t[i], t[j])
  <2>1. (i = k /\ j = k + 1) \/ (i = k + 1 /\ j = k)
    BY ONLY <1>2, <1>4, <1>8
  <2> QED
    BY <2>1, <1>1
<1>9. FinerBy(o, t, r)
  BY <1>2, <1>6, <1>7, <1>8 DEF FinerBy
<1> QED
  BY <1>9 DEF Finer

LEMMA ReplacedBefore ==
    ASSUME NEW r \in Seq(FragSet), NEW t \in Seq(FragSet), NEW k \in 1..Len(r), NEW u, NEW v,
           Replaced(t, r, k, u, v), NEW pos \in Nat,
           NEW h, h = Before(r, k - 1), pos = h + u.length, pos < Before(r, k)
    PROVE  k \in 0..Len(t) /\ Before(t, k) = pos /\ SameTo(r, t, pos)
<1> DEFINE n == Len(r)  i == k - 1
<1>1. /\ Len(t) = n + 1 /\ t[k] = u /\ \A j \in 1..i : t[j] = r[j]
  BY DEF Replaced, n
<1>2. n \in Nat /\ k \in 1..n /\ i \in Nat /\ i \in 0..n /\ i + 1 = k /\ i \in 0..i
  OBVIOUS
<1>3. Lengthy(r, n) /\ Lengthy(t, n + 1)
  <2>1. Lengthy(t, Len(t)) /\ Lengthy(r, n)
    BY FragsLengthy
  <2> QED
    BY <2>1, <1>1
<1> HIDE DEF n
<1>4. Before(t, i) = Before(r, i)
  <2>1. Lengthy(r, i)
    <3> SUFFICES ASSUME NEW j \in 1..i
                 PROVE  r[j].length \in Nat
      BY DEF Lengthy
    <3>1. j \in 1..n
      BY <1>2
    <3> QED
      BY <3>1, <1>3 DEF Lengthy
  <2> HIDE DEF i
  <2> QED
    BY <2>1, <1>1, <1>2, BeforeAgree
<1>5. k \in 1..(n + 1) /\ n + 1 \in Nat /\ k \in 0..(n + 1)
  BY <1>2
<1>6. Before(t, k) = Before(t, k - 1) + t[k].length
  BY <1>3, <1>5, BeforeIs
<1>7. Before(t, k) = pos
  BY <1>1, <1>4, <1>6
<1>8. ASSUME NEW m \in 0..n, Before(r, m) <= pos
      PROVE  m <= Len(t) /\ \A j \in 1..m : t[j] = r[j]
  <2>1. m \in k..n => Before(r, k) <= Before(r, m)
    <3>1. k \in 0..n
      BY <1>2
    <3> QED
      BY <3>1, <1>2, <1>3, BeforeGrows
  <2>2. Before(r, m) \in Nat /\ Before(r, k) \in Nat
    <3>1. k \in 0..n
      BY <1>2
    <3> QED
      BY <3>1, <1>2, <1>3, BeforeIs
  <2> DEFINE x == Before(r, m)  y == Before(r, k)
  <2>3. x <= pos /\ pos < y /\ x \in Nat /\ y \in Nat /\ (m \in k..n => y <= x)
    BY <2>1, <2>2, <1>8
  <2> HIDE DEF x, y
  <2>4. m \notin k..n
    BY ONLY <2>3, pos \in Nat
  <2>5. m <= i /\ m <= n + 1
    BY <2>4, <1>2
  <2>6. \A j \in 1..m : j \in 1..i
    BY <2>5, <1>2
  <2> QED
    BY <2>5, <2>6, <1>1
<1>9. SameTo(r, t, pos)
  BY <1>8 DEF SameTo, n
<1> QED
  BY <1>1, <1>5, <1>7, <1>9

\* The row t, written as split_at makes it.
Spliced(t, r, k, u, v) ==
    t = SubSeq(r, 1, k - 1) \o <<u, v>> \o SubSeq(r, k + 1, Len(r))

Recut(pool, t, r) == FragsIn(pool, t) /\ Content(pool, t) = Content(pool, r)
SameBytes(pool, u, v, f) == Slice(pool, u) \o Slice(pool, v) = Slice(pool, f)

LEMMA ReplacedContent ==
    ASSUME NEW C, NEW pool \in Seq(C), NEW r \in Seq(FragSet), FragsIn(pool, r),
           NEW k \in 1..Len(r),
           NEW u \in FragSet, NEW v \in FragSet, InPool(pool, u), InPool(pool, v),
           SameBytes(pool, u, v, r[k]), NEW t, Spliced(t, r, k, u, v)
    PROVE  Recut(pool, t, r)
<1> DEFINE f == r[k]
<1>0. f \in FragSet /\ InPool(pool, f)
  BY FragsLengthy DEF FragsIn
<1> DEFINE n == Len(r)  P == SubSeq(r, 1, k - 1)  Q == SubSeq(r, k + 1, Len(r))
           m == <<u, v>>  s == <<f>>
<1>1. /\ P \in Seq(FragSet) /\ Q \in Seq(FragSet) /\ r = (P \o s) \o Q
  <2>1. f = r[k]
    OBVIOUS
  <2> HIDE DEF f
  <2> QED
    BY <2>1, Around
<1>2. t = (P \o m) \o Q
  BY DEF Spliced
<1>3. FragsIn(pool, P) /\ FragsIn(pool, Q)
  <2>1. k - 1 \in 0..Len(r) /\ k \in 0..Len(r) /\ n \in k..Len(r)
    OBVIOUS
  <2> HIDE DEF n
  <2>2. FragsIn(pool, SubSeq(r, k + 1, n))
    BY <2>1, FragsPart
  <2> DEFINE o == 0  i == k - 1
  <2>3. o \in 0..Len(r) /\ i \in o..Len(r) /\ o + 1 = 1
    BY <2>1
  <2> HIDE DEF o, i
  <2>4. FragsIn(pool, SubSeq(r, o + 1, i))
    BY <2>3, FragsPart
  <2>5. SubSeq(r, o + 1, i) = P
    BY <2>3 DEF i
  <2>6. SubSeq(r, k + 1, n) = Q
    BY DEF n
  <2> HIDE DEF P, Q
  <2> QED
    BY <2>2, <2>4, <2>5, <2>6
<1> HIDE DEF f
<1>4. s \in Seq(FragSet) /\ FragsIn(pool, s) /\ Content(pool, s) = Slice(pool, f)
  BY <1>0, ContentOne
<1> DEFINE x == <<u>>  y == <<v>>
<1>5. x \in Seq(FragSet) /\ FragsIn(pool, x) /\ Content(pool, x) = Slice(pool, u)
  BY ContentOne
<1>6. y \in Seq(FragSet) /\ FragsIn(pool, y) /\ Content(pool, y) = Slice(pool, v)
  BY ContentOne
<1>7. m = x \o y
  <2>1. 1 = Len(x) /\ 1 = Len(y) /\ Len(m) = 2 /\ m[1] = u /\ m[2] = v /\ x[1] = u /\ y[1] = v
    OBVIOUS
  <2>2. m \in Seq(FragSet)
    BY ONLY u \in FragSet, v \in FragSet
  <2> HIDE DEF x, y, m
  <2>3. \A g \in 1..1 : m[g] = x[g]
    BY ONLY <2>1
  <2>4. \A g \in 1..1 : m[1 + g] = y[g]
    BY ONLY <2>1
  <2>5. Join(m, x, y, 1, 1)
    BY ONLY <2>1, <2>3, <2>4 DEF Join
  <2> QED
    BY ONLY <1>5, <1>6, <2>2, <2>5, Joined
<1> HIDE DEF x, y
<1>8. /\ x \o y \in Seq(FragSet) /\ FragsIn(pool, x \o y)
      /\ Content(pool, x \o y) = Content(pool, x) \o Content(pool, y)
  BY <1>5, <1>6, ContentConcat
<1> HIDE DEF m, s, P, Q
<1>9. m \in Seq(FragSet) /\ FragsIn(pool, m) /\ Content(pool, m) = Content(pool, s)
  BY <1>4, <1>5, <1>6, <1>7, <1>8 DEF SameBytes, f
<1>10. /\ FragsIn(pool, (P \o m) \o Q)
       /\ Content(pool, (P \o m) \o Q) = Content(pool, (P \o s) \o Q)
  BY <1>1, <1>3, <1>4, <1>9, Middle
<1> QED
  BY <1>1, <1>2, <1>10 DEF Recut

LEMMA ReplacedCut ==
    ASSUME NEW C, NEW pool \in Seq(C), NEW r \in Seq(FragSet), FragsIn(pool, r),
           NEW k \in 1..Len(r), NEW f, f = r[k], NEW pos \in Nat,
           NEW h, h = Before(r, k - 1), h < pos, pos < Before(r, k),
           NEW head, head = pos - h, NEW u, NEW v, Halves(f, head, u, v),
           NEW t, Spliced(t, r, k, u, v)
    PROVE  CutAt(pool, r, t, pos) /\ SameTo(r, t, pos)
<1> DEFINE n == Len(r)  l == f.length  b == Before(r, k)
<1>1. /\ Lengthy(r, n) /\ n \in Nat /\ f \in FragSet /\ l \in Nat /\ k \in 1..n /\ DOMAIN r = 1..n
  <2>1. n \in Nat /\ DOMAIN r = 1..n /\ r[k] \in FragSet
    OBVIOUS
  <2>2. r[k].length \in Nat
    BY <2>1, FragIs
  <2>3. Lengthy(r, n)
    BY FragsLengthy
  <2> QED
    BY <2>1, <2>2, <2>3
<1>2. h \in Nat /\ b = h + l
  <2>1. k - 1 \in 0..n /\ k \in 1..n
    BY <1>1
  <2> HIDE DEF n
  <2>2. /\ \A j \in 0..n : Before(r, j) \in Nat
        /\ \A j \in 1..n : Before(r, j) = Before(r, j - 1) + r[j].length
    BY <1>1, BeforeIs
  <2> QED
    BY <2>1, <2>2
<1>3. head \in Nat /\ 0 < head /\ head < l /\ pos = h + head
  <2>1. b = h + l /\ h < pos /\ pos < b /\ h \in Nat /\ l \in Nat
    BY <1>1, <1>2
  <2> HIDE DEF b, l
  <2> QED
    BY ONLY <2>1, pos \in Nat, head = pos - h
<1>4. InPool(pool, f)
  BY <1>1 DEF FragsIn
<1>5. /\ u \in FragSet /\ v \in FragSet /\ InPool(pool, u) /\ InPool(pool, v)
      /\ Slice(pool, u) \o Slice(pool, v) = Slice(pool, f)
      /\ Inside(u, f) /\ Inside(v, f) /\ ~Overlap(u, v) /\ ~Overlap(v, u)
      /\ u.length = head
  <2>1. 0 < head /\ head < f.length /\ head \in Nat
    BY <1>3
  <2> QED
    BY ONLY <2>1, <1>1, <1>4, HalvesAre, Halves(f, head, u, v), pool \in Seq(C)
<1>6. t \in Seq(FragSet) /\ Replaced(t, r, k, u, v)
  BY <1>5, ReplacedIs DEF Spliced
<1>7. FragsIn(pool, t) /\ Content(pool, t) = Content(pool, r)
  <2>1. SameBytes(pool, u, v, r[k])
    BY <1>5 DEF SameBytes
  <2>2. Recut(pool, t, r)
    BY <2>1, <1>5, ReplacedContent
  <2> QED
    BY <2>2 DEF Recut
<1>8. Finer(t, r)
  BY <1>5, <1>6, ReplacedFiner
<1>9. k \in 0..Len(t) /\ Before(t, k) = pos /\ SameTo(r, t, pos)
  <2>1. pos = h + u.length
    BY <1>3, <1>5
  <2> QED
    BY <2>1, <1>6, ReplacedBefore
<1> QED
  BY <1>6, <1>7, <1>8, <1>9 DEF CutAt

\* split_at: the same content in finer parts, one of which starts at pos.
LEMMA SplitIs ==
    ASSUME NEW C, NEW pool \in Seq(C), NEW r \in Seq(FragSet), FragsIn(pool, r),
           NEW pos \in Nat, pos <= LogicalLen(r)
    PROVE  CutAt(pool, r, SplitAt(r, pos), pos) /\ SameTo(r, SplitAt(r, pos), pos)
<1> DEFINE n == Len(r)  t == SplitAt(r, pos)
<1>1. n \in Nat /\ Lengthy(r, n) /\ DOMAIN r = 1..n
  BY FragsLengthy
<1>2. CASE \E k \in 0..n : Before(r, k) = pos
  <2>1. t = r
    BY <1>2 DEF SplitAt
  <2>2. Finer(r, r)
    BY FinerSame
  <2>3. CutAt(pool, r, r, pos)
    BY <1>2, <2>2 DEF CutAt
  <2>4. SameTo(r, r, pos)
    BY <1>1 DEF SameTo
  <2> QED
    BY <2>1, <2>3, <2>4
<1>3. CASE \A k \in 0..n : Before(r, k) # pos
  <2> DEFINE k == CHOOSE k \in DOMAIN r : Before(r, k - 1) < pos /\ pos < Before(r, k)
             f == r[k]  h == Before(r, k - 1)  head == pos - h
             u == Frag(f.offset, head, f.shared)
             v == Frag(f.offset + head, f.length - head, f.shared)
  <2>1. pos <= Before(r, n)
    BY DEF LogicalLen
  <2>2. \E j \in DOMAIN r : Before(r, j - 1) < pos /\ pos < Before(r, j)
    <3>1. \E j \in 1..n : Before(r, j - 1) < pos /\ pos < Before(r, j)
      <4> HIDE DEF n
      <4> QED
        BY <1>1, <1>3, <2>1, Straddles
    <3> QED
      BY <1>1, <3>1
  <2>3. k \in DOMAIN r /\ h < pos /\ pos < Before(r, k)
    BY <2>2, Zenon
  <2>4. t = SubSeq(r, 1, k - 1) \o <<u, v>> \o SubSeq(r, k + 1, n)
    BY <1>3 DEF SplitAt
  <2>5. Halves(f, head, u, v)
    BY DEF Halves
  <2> HIDE DEF k, t, u, v, head
  <2>6. Spliced(t, r, k, u, v) /\ head = pos - h
    BY <2>4 DEF head, Spliced
  <2>7. k \in 1..Len(r)
    BY <1>1, <2>3
  <2> HIDE DEF n, h, f
  <2>8. h = Before(r, k - 1) /\ f = r[k]
    BY DEF h, f
  <2>9. CutAt(pool, r, t, pos) /\ SameTo(r, t, pos)
    BY <2>3, <2>5, <2>6, <2>7, <2>8, ReplacedCut
  <2> QED
    BY <2>9 DEF t
<1> QED
  BY <1>2, <1>3

LEMMA IndexIs ==
    ASSUME NEW r, NEW pos, \E i \in 0..Len(r) : Before(r, i) = pos
    PROVE  IndexAt(r, pos) \in 0..Len(r) /\ Before(r, IndexAt(r, pos)) = pos
BY Zenon DEF IndexAt

\* The row t is the row r in finer parts, and pos and end are the places of two.
CutTwice(pool, r, t, lo, hi, pos, end) ==
    /\ t \in Seq(FragSet) /\ FragsIn(pool, t) /\ Content(pool, t) = Content(pool, r)
    /\ Finer(t, r)
    /\ lo \in 0..Len(t) /\ hi \in lo..Len(t) /\ Before(t, lo) = pos /\ Before(t, hi) = end

LEMMA CutIs ==
    ASSUME NEW C, NEW pool \in Seq(C), NEW r \in Seq(FragSet), FragsIn(pool, r),
           NEW pos \in Nat, NEW end \in Nat, pos < end, end <= LogicalLen(r),
           NEW c, c = Cut(r, pos, end)
    PROVE  CutTwice(pool, r, c.frags, c.lo, c.hi, pos, end)
<1> DEFINE s == SplitAt(r, pos)  t == SplitAt(s, end)  lo == IndexAt(s, pos)  hi == IndexAt(t, end)
<1>1. c.frags = t /\ c.lo = lo /\ c.hi = hi
  BY DEF Cut
<1>2. LogicalLen(r) \in Nat /\ Len(Content(pool, r)) = LogicalLen(r)
  BY LogicalIs
<1>3. CutAt(pool, r, s, pos)
  <2>1. pos <= LogicalLen(r)
    BY <1>2
  <2> QED
    BY <2>1, SplitIs
<1> HIDE DEF s
<1>4. /\ s \in Seq(FragSet) /\ FragsIn(pool, s) /\ Content(pool, s) = Content(pool, r)
      /\ Finer(s, r) /\ \E i \in 0..Len(s) : Before(s, i) = pos
  BY <1>3 DEF CutAt
<1>5. LogicalLen(s) = LogicalLen(r)
  BY <1>2, <1>4, LogicalIs
<1>6. CutAt(pool, s, t, end) /\ SameTo(s, t, end)
  BY <1>4, <1>5, SplitIs
<1> HIDE DEF t
<1>7. /\ t \in Seq(FragSet) /\ FragsIn(pool, t) /\ Content(pool, t) = Content(pool, s)
      /\ Finer(t, s) /\ \E i \in 0..Len(t) : Before(t, i) = end
  BY <1>6 DEF CutAt
<1>8. lo \in 0..Len(s) /\ Before(s, lo) = pos
  BY <1>4, IndexIs
<1>9. hi \in 0..Len(t) /\ Before(t, hi) = end
  BY <1>7, IndexIs
<1> HIDE DEF lo, hi
<1>10. lo <= Len(t) /\ \A j \in 1..lo : t[j] = s[j]
  <2>1. Before(s, lo) <= end
    BY <1>8
  <2> QED
    BY <2>1, <1>6, <1>8 DEF SameTo
<1>11. lo \in 0..Len(t)
  BY <1>8, <1>10
<1>12. Before(t, lo) = pos
  <2>1. Lengthy(s, lo) /\ lo \in Nat /\ lo \in 0..lo
    <3>1. Lengthy(s, Len(s)) /\ lo \in Nat /\ \A j \in 1..lo : j \in 1..Len(s)
      BY <1>4, <1>8, FragsLengthy
    <3> QED
      BY <3>1 DEF Lengthy
  <2>2. Before(t, lo) = Before(s, lo)
    BY <2>1, <1>10, BeforeAgree
  <2> QED
    BY <2>2, <1>8
<1>13. hi \in lo..Len(t)
  <2>1. Lengthy(t, Len(t)) /\ Len(t) \in Nat
    BY <1>7, FragsLengthy
  <2>2. lo \in hi..Len(t) => Before(t, hi) <= Before(t, lo)
    BY <2>1, <1>9, BeforeGrows
  <2>3. lo \notin hi..Len(t)
    BY <2>2, <1>9, <1>12
  <2> QED
    BY <2>1, <2>3, <1>9, <1>11
<1>14. Finer(t, r)
  BY <1>4, <1>7, FinerTwice
<1>15. Content(pool, t) = Content(pool, r)
  BY <1>4, <1>7
<1> QED
  BY <1>1, <1>7, <1>9, <1>11, <1>12, <1>13, <1>14, <1>15 DEF CutTwice

\* What is left of a row without the fragments from the (lo + 1)st to the hi-th.
LEMMA Omitted ==
    ASSUME NEW pool, NEW t \in Seq(FragSet), FragsIn(pool, t),
           NEW lo \in 0..Len(t), NEW hi \in lo..Len(t),
           NEW d, d = SubSeq(t, 1, lo) \o SubSeq(t, hi + 1, Len(t))
    PROVE  d \in Seq(FragSet) /\ Finer(d, t)
<1> DEFINE n == Len(t)  P == SubSeq(t, 1, lo)  Q == SubSeq(t, hi + 1, n)  m == n - hi  e == hi - lo
<1>1. /\ n \in Nat /\ lo \in Nat /\ hi \in Nat /\ m \in Nat /\ e \in Nat
      /\ lo <= hi /\ hi <= n /\ DOMAIN t = 1..n
  OBVIOUS
<1>2. P \in Seq(FragSet) /\ Len(P) = lo /\ \A i \in 1..lo : P[i] = t[i]
  <2> DEFINE o == 0  z == SubSeq(t, o + 1, lo)
  <2>1. o \in 0..Len(t) /\ lo \in o..Len(t) /\ lo - o = lo /\ o + 1 = 1 /\ \A i \in 1..lo : o + i = i
    OBVIOUS
  <2> HIDE DEF o
  <2>2. /\ z \in Seq(FragSet) /\ Len(z) = lo - o /\ \A i \in 1..(lo - o) : z[i] = t[o + i]
    BY <2>1, FragsPart
  <2> QED
    BY <2>1, <2>2
<1>3. Q \in Seq(FragSet) /\ Len(Q) = m /\ \A i \in 1..m : Q[i] = t[hi + i]
  <2>1. n \in hi..Len(t) /\ hi \in 0..Len(t)
    BY <1>1
  <2> HIDE DEF n
  <2> QED
    BY <2>1, FragsPart
<1>4. d = P \o Q
  OBVIOUS
<1> HIDE DEF P, Q, n
<1>5. d \in Seq(FragSet) /\ Concatenated(d, P, Q)
  BY <1>2, <1>3, <1>4, ConcatIs
<1>6. /\ Len(d) = lo + m
      /\ \A i \in 1..lo : d[i] = t[i]
      /\ \A i \in 1..m : d[lo + i] = t[hi + i]
  <2>1. /\ Len(d) = Len(P) + Len(Q)
        /\ \A i \in 1..Len(P) : d[i] = P[i]
        /\ \A i \in 1..Len(Q) : d[Len(P) + i] = Q[i]
    BY <1>5 DEF Concatenated
  <2> HIDE DEF m
  <2>2. Len(d) = lo + m
    BY ONLY <2>1, <1>2, <1>3
  <2>3. \A i \in 1..lo : d[i] = t[i]
    BY ONLY <2>1, <1>2
  <2>4. \A i \in 1..m : d[lo + i] = t[hi + i]
    BY ONLY <2>1, <1>2, <1>3
  <2> QED
    BY ONLY <2>2, <2>3, <2>4
<1> DEFINE w == lo + m  o == [j \in 1..w |-> IF j <= lo THEN j ELSE j + e]
<1>7. \A j \in 1..w : (j <= lo => o[j] = j) /\ (j > lo => o[j] = j + e)
  BY <1>1
<1>8. o = [j \in 1..w |-> o[j]] /\ DOMAIN d = 1..w
  <2>1. DOMAIN d = 1..w
    <3>1. Len(d) = w
      BY <1>6
    <3>2. DOMAIN d = 1..Len(d)
      BY <1>5
    <3> HIDE DEF w
    <3> QED
      BY ONLY <3>1, <3>2
  <2>2. o = [j \in 1..w |-> o[j]]
    <3> HIDE DEF w
    <3> QED
      OBVIOUS
  <2> QED
    BY <2>1, <2>2
<1>9. lo + e = hi /\ hi + m = n /\ w = lo + m /\ w \in Nat
  BY <1>1
<1> HIDE DEF o, w, m, e
<1>10. ASSUME NEW j \in 1..w
       PROVE  o[j] \in 1..n /\ d[j] = t[o[j]]
  <2>1. CASE j <= lo
    <3>1. o[j] = j /\ j \in 1..lo /\ j \in 1..n
      BY ONLY <1>1, <1>7, <2>1, j \in 1..w
    <3> QED
      BY ONLY <3>1, <1>6
  <2>2. CASE j > lo
    <3> DEFINE i == j - lo
    <3>1. i \in 1..m /\ lo + i = j /\ hi + i = j + e /\ o[j] = j + e /\ j + e \in 1..n
      BY ONLY <1>1, <1>7, <1>9, <2>2, j \in 1..w
    <3> HIDE DEF i
    <3>2. d[lo + i] = t[hi + i]
      BY ONLY <3>1, <1>6
    <3> QED
      BY ONLY <3>1, <3>2
  <2>3. j <= lo \/ j > lo
    BY ONLY <1>1, <1>9, j \in 1..w
  <2> QED
    BY ONLY <2>1, <2>2, <2>3
<1>11. o \in [1..w -> 1..n]
  BY ONLY <1>8, <1>10
<1>12. ASSUME NEW i \in 1..w, NEW j \in 1..w, i # j
       PROVE  o[i] # o[j]
  BY ONLY <1>1, <1>7, <1>12
<1>13. \A j \in 1..n : Inside(t[j], t[j])
  BY <1>1, InsideSelf
<1>14. FinerBy(o, d, t)
  <2>1. \A j \in DOMAIN d : Inside(d[j], t[o[j]])
    BY <1>8, <1>10, <1>13
  <2>2. o \in [DOMAIN d -> DOMAIN t]
    BY <1>1, <1>8, <1>11
  <2>3. \A i, j \in DOMAIN d : i # j /\ o[i] = o[j] => ~Overlap(d[i], d[j])
    BY <1>8, <1>12
  <2> QED
    BY <2>1, <2>2, <2>3 DEF FinerBy
<1> QED
  BY <1>5, <1>14 DEF Finer

\* The two ends of a content, around what is taken out of it.
Ends(c, pos, end) == SubSeq(c, 1, pos) \o SubSeq(c, end + 1, Len(c))
Deleted(pool, r, d, pos, end) ==
    /\ d \in Seq(FragSet) /\ FragsIn(pool, d) /\ Finer(d, r)
    /\ Content(pool, d) = Ends(Content(pool, r), pos, end)

LEMMA DeleteIs ==
    ASSUME NEW C, NEW pool \in Seq(C), NEW r \in Seq(FragSet), FragsIn(pool, r),
           NEW pos \in Nat, NEW len \in Nat \ {0}, NEW end, end = pos + len, end <= LogicalLen(r)
    PROVE  Deleted(pool, r, DeleteFrags(r, pos, len), pos, end)
<1> DEFINE x == Cut(r, pos, end)  t == x.frags  lo == x.lo  hi == x.hi
           P == SubSeq(t, 1, lo)  Q == SubSeq(t, hi + 1, Len(t))  c == Content(pool, t)
           d == DeleteFrags(r, pos, len)
<1>1. d = P \o Q
  BY DEF DeleteFrags
<1>2. end \in Nat /\ pos < end
  OBVIOUS
<1> HIDE DEF d
<1>3. CutTwice(pool, r, t, lo, hi, pos, end)
  <2> HIDE DEF x
  <2>1. x = Cut(r, pos, end)
    BY DEF x
  <2> QED
    BY <2>1, <1>2, CutIs
<1> HIDE DEF t, lo, hi
<1>4. /\ t \in Seq(FragSet) /\ FragsIn(pool, t) /\ Content(pool, t) = Content(pool, r)
      /\ Finer(t, r)
      /\ lo \in 0..Len(t) /\ hi \in lo..Len(t) /\ Before(t, lo) = pos /\ Before(t, hi) = end
  BY <1>3 DEF CutTwice
<1>5. hi \in 0..Len(t) /\ Len(t) \in hi..Len(t) /\ Len(t) \in Nat
  BY <1>4
<1>6. d \in Seq(FragSet) /\ Finer(d, t)
  BY <1>1, <1>4, Omitted DEF P, Q
<1>7. Finer(d, r)
  BY <1>4, <1>6, FinerTwice
<1>8. Content(pool, P) = SubSeq(c, 1, pos)
  <2>1. Parted(pool, t, lo, pos, c)
    BY <1>4, ContentParted
  <2> QED
    BY <2>1 DEF Parted
<1>9. Content(pool, Q) = SubSeq(c, end + 1, Len(c))
  <2>1. Parted(pool, t, hi, end, c)
    BY <1>4, <1>5, ContentParted
  <2> QED
    BY <2>1 DEF Parted
<1>10. P \in Seq(FragSet) /\ FragsIn(pool, P)
  <2> DEFINE o == 0
  <2>1. o \in 0..Len(t) /\ lo \in o..Len(t) /\ o + 1 = 1
    BY <1>4
  <2> HIDE DEF o
  <2>2. SubSeq(t, o + 1, lo) \in Seq(FragSet) /\ FragsIn(pool, SubSeq(t, o + 1, lo))
    BY <2>1, <1>4, FragsPart
  <2> QED
    BY <2>1, <2>2
<1>11. Q \in Seq(FragSet) /\ FragsIn(pool, Q)
  <2> DEFINE w == Len(t)
  <2>1. w \in hi..Len(t)
    BY <1>5
  <2> HIDE DEF w
  <2>2. SubSeq(t, hi + 1, w) \in Seq(FragSet) /\ FragsIn(pool, SubSeq(t, hi + 1, w))
    BY <2>1, <1>4, <1>5, FragsPart
  <2> QED
    BY <2>2 DEF w
<1> HIDE DEF P, Q
<1>12. FragsIn(pool, d) /\ Content(pool, d) = Content(pool, P) \o Content(pool, Q)
  BY <1>1, <1>10, <1>11, ContentConcat
<1>13. Content(pool, d) = Ends(Content(pool, r), pos, end)
  BY <1>4, <1>8, <1>9, <1>12 DEF Ends
<1>14. Deleted(pool, r, d, pos, end)
  BY <1>6, <1>7, <1>12, <1>13 DEF Deleted
<1> QED
  BY <1>14 DEF d

\* The row d is the row t with one fragment more.
OneMore(d, t, f) ==
    \E o \in [DOMAIN d -> 0..Len(t)] :
        /\ \A j \in DOMAIN d : d[j] = IF o[j] = 0 THEN f ELSE t[o[j]]
        /\ \A i, j \in DOMAIN d : o[i] = o[j] => i = j

LEMMA OneMoreIs ==
    ASSUME NEW t \in Seq(FragSet), NEW at \in 0..Len(t), NEW f \in FragSet,
           NEW d, d = SubSeq(t, 1, at) \o <<f>> \o SubSeq(t, at + 1, Len(t))
    PROVE  d \in Seq(FragSet) /\ OneMore(d, t, f)
<1> DEFINE n == Len(t)  P == SubSeq(t, 1, at)  Q == SubSeq(t, at + 1, n)  s == <<f>>  W == P \o s
           m == n - at
<1>1. n \in Nat /\ at \in Nat /\ at <= n /\ m \in Nat /\ at + m = n /\ DOMAIN t = 1..n
  OBVIOUS
<1>2. P \in Seq(FragSet) /\ Len(P) = at /\ \A i \in 1..at : P[i] = t[i]
  OBVIOUS
<1>3. Q \in Seq(FragSet) /\ Len(Q) = m /\ \A i \in 1..m : Q[i] = t[at + i]
  <2> DEFINE pool == <<>>
  <2>1. n \in at..Len(t) /\ at + 1 \in Nat \ {0} /\ n \in 0..Len(t)
    BY <1>1
  <2>2. (IF at + 1 <= n THEN n - (at + 1) + 1 = m ELSE m = 0) /\ \A i \in 1..m : (at + 1) + i - 1 = at + i
    <3>1. n \in Nat /\ at \in Nat /\ m \in Nat /\ at + m = n
      BY <1>1
    <3> HIDE DEF n, m
    <3>2. CASE m = 0
      BY ONLY <3>1, <3>2
    <3>3. CASE m # 0
      <4>1. at + 1 <= n /\ n - (at + 1) + 1 = m
        BY ONLY <3>1, <3>3
      <4>2. \A i \in 1..m : (at + 1) + i - 1 = at + i
        BY ONLY <3>1
      <4> QED
        BY ONLY <4>1, <4>2
    <3> QED
      BY ONLY <3>2, <3>3
  <2> DEFINE x == at + 1  z == SubSeq(t, x, n)
  <2> HIDE DEF x, n
  <2>3. /\ z \in Seq(FragSet) /\ Len(z) = IF x <= n THEN n - x + 1 ELSE 0
        /\ \A i \in 1..Len(z) : z[i] = t[x + i - 1]
    BY <2>1, SliceType DEF x
  <2> HIDE DEF z, m
  <2>4. Len(z) = m
    BY ONLY <2>2, <2>3 DEF x
  <2>5. \A i \in 1..m : z[i] = t[at + i]
    BY ONLY <2>2, <2>3, <2>4 DEF x
  <2> QED
    BY <2>3, <2>4, <2>5 DEF z, x, n
<1>4. s \in Seq(FragSet) /\ Len(s) = 1 /\ s[1] = f
  OBVIOUS
<1>5. d = W \o Q
  OBVIOUS
<1> HIDE DEF P, Q, s, n, m
<1>6. W \in Seq(FragSet) /\ Concatenated(W, P, s)
  BY <1>2, <1>4, ConcatIs
<1> HIDE DEF W
<1>7. d \in Seq(FragSet) /\ Concatenated(d, W, Q)
  BY <1>3, <1>5, <1>6, ConcatIs
<1>8. Len(W) = at + 1 /\ W[at + 1] = f /\ \A i \in 1..at : W[i] = t[i]
  <2>1. /\ Len(W) = Len(P) + Len(s)
        /\ \A i \in 1..Len(P) : W[i] = P[i]
        /\ \A i \in 1..Len(s) : W[Len(P) + i] = s[i]
    BY <1>6 DEF Concatenated
  <2>2. 1 \in 1..Len(s)
    BY <1>4
  <2> QED
    BY <2>1, <2>2, <1>2, <1>4
<1>9. /\ Len(d) = (at + 1) + m
      /\ \A i \in 1..(at + 1) : d[i] = W[i]
      /\ \A i \in 1..m : d[(at + 1) + i] = t[at + i]
  <2>1. /\ Len(d) = Len(W) + Len(Q)
        /\ \A i \in 1..Len(W) : d[i] = W[i]
        /\ \A i \in 1..Len(Q) : d[Len(W) + i] = Q[i]
    BY <1>7 DEF Concatenated
  <2>2. Len(d) = (at + 1) + m
    BY ONLY <2>1, <1>3, <1>8
  <2>3. \A i \in 1..(at + 1) : d[i] = W[i]
    BY ONLY <2>1, <1>8
  <2>4. \A i \in 1..m : d[(at + 1) + i] = t[at + i]
    BY ONLY <2>1, <1>3, <1>8
  <2> QED
    BY ONLY <2>2, <2>3, <2>4
<1> DEFINE w == n + 1
           o == [j \in 1..w |-> IF j <= at THEN j ELSE IF j = at + 1 THEN 0 ELSE j - 1]
<1>10. w \in Nat /\ w = (at + 1) + m
  BY <1>1
<1>11. \A j \in 1..w : /\ j <= at => o[j] = j
                       /\ j = at + 1 => o[j] = 0
                       /\ j > at + 1 => o[j] = j - 1
  BY <1>1
<1>12. o = [j \in 1..w |-> o[j]]
  <2> HIDE DEF w
  <2> QED
    OBVIOUS
<1>13. DOMAIN d = 1..w
  <2>1. DOMAIN d = 1..Len(d)
    BY <1>7
  <2>2. Len(d) = w
    BY <1>9, <1>10
  <2> HIDE DEF w
  <2> QED
    BY ONLY <2>1, <2>2
<1> HIDE DEF o, w
<1>14. ASSUME NEW j \in 1..w
       PROVE  o[j] \in 0..n /\ d[j] = IF o[j] = 0 THEN f ELSE t[o[j]]
  <2>1. CASE j \in 1..at
    <3>1. o[j] = j /\ j # 0 /\ j \in 0..n /\ j \in 1..(at + 1)
      BY ONLY <1>1, <1>11, <2>1, j \in 1..w
    <3> QED
      BY ONLY <3>1, <2>1, <1>8, <1>9
  <2>2. CASE j = at + 1
    <3>1. o[j] = 0 /\ 0 \in 0..n /\ j \in 1..(at + 1)
      BY ONLY <1>1, <1>11, <2>2, j \in 1..w
    <3> QED
      BY ONLY <3>1, <2>2, <1>8, <1>9
  <2>3. CASE j \in (at + 2)..w
    <3> DEFINE i == j - (at + 1)
    <3>1. /\ i \in 1..m /\ (at + 1) + i = j /\ at + i = j - 1 /\ o[j] = j - 1 /\ j - 1 # 0
          /\ j - 1 \in 0..n
      BY ONLY <1>1, <1>10, <1>11, <2>3, j \in 1..w
    <3> HIDE DEF i
    <3>2. d[(at + 1) + i] = t[at + i]
      BY ONLY <3>1, <1>9
    <3> QED
      BY ONLY <3>1, <3>2
  <2>4. j \in 1..at \/ j = at + 1 \/ j \in (at + 2)..w
    BY ONLY <1>1, <1>10, j \in 1..w
  <2> QED
    BY ONLY <2>1, <2>2, <2>3, <2>4
<1>15. o \in [1..w -> 0..n]
  BY ONLY <1>12, <1>14
<1>16. ASSUME NEW i \in 1..w, NEW j \in 1..w, o[i] = o[j]
       PROVE  i = j
  BY ONLY <1>1, <1>10, <1>11, <1>16, i \in 1..w, j \in 1..w
<1>17. OneMore(d, t, f)
  <2>1. o \in [DOMAIN d -> 0..n]
    BY <1>13, <1>15
  <2>2. \A j \in DOMAIN d : d[j] = IF o[j] = 0 THEN f ELSE t[o[j]]
    BY <1>13, <1>14
  <2>3. \A i, j \in DOMAIN d : o[i] = o[j] => i = j
    BY <1>13, <1>16
  <2> QED
    BY <2>1, <2>2, <2>3, Zenon DEF OneMore, n
<1> QED
  BY <1>7, <1>17

\* The two ends of a content, around what is put into it.
Around1(c, pos, x) == SubSeq(c, 1, pos) \o x \o SubSeq(c, pos + 1, Len(c))
Inserted(pool, r, d, pos, f) ==
    /\ d \in Seq(FragSet) /\ FragsIn(pool, d)
    /\ Content(pool, d) = Around1(Content(pool, r), pos, Slice(pool, f))
    /\ \E t \in Seq(FragSet) : FragsIn(pool, t) /\ Finer(t, r) /\ OneMore(d, t, f)

LEMMA InsertIs ==
    ASSUME NEW C, NEW pool \in Seq(C), NEW r \in Seq(FragSet), FragsIn(pool, r),
           NEW pos \in Nat, pos <= LogicalLen(r), NEW f \in FragSet, InPool(pool, f)
    PROVE  Inserted(pool, r, InsertFrag(r, pos, f), pos, f)
<1> DEFINE t == SplitAt(r, pos)  at == IndexAt(t, pos)  d == InsertFrag(r, pos, f)  s == <<f>>
           P == SubSeq(t, 1, at)  Q == SubSeq(t, at + 1, Len(t))  W == P \o s  c == Content(pool, t)
<1>1. d = SubSeq(t, 1, at) \o <<f>> \o SubSeq(t, at + 1, Len(t))
  BY DEF InsertFrag
<1> HIDE DEF d
<1>2. CutAt(pool, r, t, pos)
  BY SplitIs
<1> HIDE DEF t
<1>3. /\ t \in Seq(FragSet) /\ FragsIn(pool, t) /\ Content(pool, t) = Content(pool, r)
      /\ Finer(t, r) /\ \E i \in 0..Len(t) : Before(t, i) = pos
  BY <1>2 DEF CutAt
<1>4. at \in 0..Len(t) /\ Before(t, at) = pos
  BY <1>3, IndexIs
<1> HIDE DEF at
<1>5. d \in Seq(FragSet) /\ OneMore(d, t, f)
  BY <1>1, <1>3, <1>4, OneMoreIs
<1>6. Content(pool, P) = SubSeq(c, 1, pos) /\ Content(pool, Q) = SubSeq(c, pos + 1, Len(c))
  <2>1. Parted(pool, t, at, pos, c)
    BY <1>3, <1>4, ContentParted
  <2> QED
    BY <2>1 DEF Parted
<1>7. P \in Seq(FragSet) /\ FragsIn(pool, P)
  <2> DEFINE o == 0
  <2>1. o \in 0..Len(t) /\ at \in o..Len(t) /\ o + 1 = 1
    BY <1>4
  <2> HIDE DEF o
  <2>2. SubSeq(t, o + 1, at) \in Seq(FragSet) /\ FragsIn(pool, SubSeq(t, o + 1, at))
    BY <2>1, <1>3, FragsPart
  <2> QED
    BY <2>1, <2>2
<1>8. Q \in Seq(FragSet) /\ FragsIn(pool, Q)
  <2> DEFINE w == Len(t)
  <2>1. w \in at..Len(t)
    BY <1>3, <1>4
  <2> HIDE DEF w
  <2>2. SubSeq(t, at + 1, w) \in Seq(FragSet) /\ FragsIn(pool, SubSeq(t, at + 1, w))
    BY <2>1, <1>3, <1>4, FragsPart
  <2> QED
    BY <2>2 DEF w
<1>9. s \in Seq(FragSet) /\ FragsIn(pool, s) /\ Content(pool, s) = Slice(pool, f)
  BY ContentOne
<1>10. d = W \o Q
  BY <1>1
<1> HIDE DEF P, Q, s
<1>11. W \in Seq(FragSet) /\ FragsIn(pool, W) /\ Content(pool, W) = Content(pool, P) \o Content(pool, s)
  BY <1>7, <1>9, ContentConcat
<1> HIDE DEF W
<1>12. FragsIn(pool, d) /\ Content(pool, d) = Content(pool, W) \o Content(pool, Q)
  BY <1>8, <1>10, <1>11, ContentConcat
<1>13. Content(pool, d) = Around1(Content(pool, r), pos, Slice(pool, f))
  BY <1>3, <1>6, <1>9, <1>11, <1>12 DEF Around1
<1>14. Inserted(pool, r, d, pos, f)
  BY <1>3, <1>5, <1>12, <1>13 DEF Inserted
<1> QED
  BY <1>14 DEF d

\* R2 is R with the row s in the place of the k-th.
RowChanged(R, R2, k, s) ==
    R2 \in Rows /\ DOMAIN R2 = DOMAIN R /\ R2[k] = s /\ \A l \in DOMAIN R \ {k} : R2[l] = R[l]

LEMMA RowsPooled ==
    ASSUME NEW pool, NEW R, NEW R2, NEW k, NEW s, Pooled(pool, R), FragsIn(pool, s),
           RowChanged(R, R2, k, s)
    PROVE  Pooled(pool, R2)
BY DEF Pooled, RowChanged

LEMMA FinerRows ==
    ASSUME NEW pool, NEW R \in Rows, Good(pool, R), NEW k \in DOMAIN R, NEW s \in Seq(FragSet),
           FragsIn(pool, s), Finer(s, R[k]), NEW R2, RowChanged(R, R2, k, s)
    PROVE  Good(pool, R2)
<1>1. Pooled(pool, R2)
  BY RowsPooled DEF Good
<1>2. R2 \in Rows /\ DOMAIN R2 = DOMAIN R /\ R2[k] = s /\ \A l \in DOMAIN R \ {k} : R2[l] = R[l]
  BY DEF RowChanged
<1>3. \A l \in DOMAIN R : R[l] \in Seq(FragSet)
  BY RowsAre
<1>4. (\A l \in DOMAIN R : SelfMarked(R[l])) /\ \A l, m \in DOMAIN R : l # m => CrossMarked(R[l], R[m])
  BY DEF Good, Marked
<1>5. ASSUME NEW l \in DOMAIN R2
      PROVE  SelfMarked(R2[l])
  BY <1>2, <1>3, <1>4, FinerMarked
<1>6. ASSUME NEW l \in DOMAIN R2, NEW m \in DOMAIN R2, l # m
      PROVE  CrossMarked(R2[l], R2[m])
  <2>1. CASE l = k
    BY <2>1, <1>2, <1>3, <1>4, <1>6, FinerMarked
  <2>2. CASE m = k
    BY <2>2, <1>2, <1>3, <1>4, <1>6, FinerMarked
  <2>3. CASE l # k /\ m # k
    BY <2>3, <1>2, <1>4, <1>6
  <2> QED
    BY <2>1, <2>2, <2>3
<1> QED
  BY <1>1, <1>5, <1>6 DEF Good, Marked

\* A row gains a fragment that overlaps none.
LEMMA MoreRows ==
    ASSUME NEW pool, NEW R \in Rows, Good(pool, R), NEW k \in DOMAIN R, NEW d \in Seq(FragSet),
           FragsIn(pool, d), NEW f \in FragSet, OneMore(d, R[k], f),
           \A l \in DOMAIN R : \A i \in DOMAIN R[l] : ~Overlap(f, R[l][i]),
           NEW R2, RowChanged(R, R2, k, d)
    PROVE  Good(pool, R2)
<1> DEFINE t == R[k]
<1>1. Pooled(pool, R2)
  BY RowsPooled DEF Good
<1>2. R2 \in Rows /\ DOMAIN R2 = DOMAIN R /\ R2[k] = d /\ \A l \in DOMAIN R \ {k} : R2[l] = R[l]
  BY DEF RowChanged
<1>3. t \in Seq(FragSet) /\ DOMAIN t = 1..Len(t) /\ Len(t) \in Nat
  BY RowsAre
<1>4. (\A l \in DOMAIN R : SelfMarked(R[l])) /\ \A l, m \in DOMAIN R : l # m => CrossMarked(R[l], R[m])
  BY DEF Good, Marked
<1>5. PICK o \in [DOMAIN d -> 0..Len(t)] :
        /\ \A j \in DOMAIN d : d[j] = IF o[j] = 0 THEN f ELSE t[o[j]]
        /\ \A i, j \in DOMAIN d : o[i] = o[j] => i = j
  BY DEF OneMore
<1> HIDE DEF t
<1>6. \A j \in DOMAIN d : o[j] # 0 => o[j] \in DOMAIN t /\ d[j] = t[o[j]]
  <2> SUFFICES ASSUME NEW j \in DOMAIN d, o[j] # 0
               PROVE  o[j] \in DOMAIN t /\ d[j] = t[o[j]]
    OBVIOUS
  <2>1. o[j] \in 0..Len(t)
    BY <1>5
  <2>2. o[j] \in 1..Len(t)
    BY ONLY <2>1, o[j] # 0, <1>3
  <2>3. d[j] = t[o[j]]
    BY <1>5
  <2> QED
    BY <2>2, <2>3, <1>3
<1>7. \A j \in DOMAIN d : o[j] = 0 => d[j] = f
  BY <1>5
<1>8. \A l \in DOMAIN R : \A i \in DOMAIN R[l] : ~Overlap(f, R[l][i]) /\ ~Overlap(R[l][i], f)
  BY OverlapBoth
<1>9. SelfMarked(d)
  <2> SUFFICES ASSUME NEW i \in DOMAIN d, NEW j \in DOMAIN d, i # j, Overlap(d[i], d[j])
               PROVE  d[i].shared
    BY DEF SelfMarked
  <2>1. o[i] # o[j]
    BY <1>5
  <2>2. CASE o[i] = 0
    <3>1. o[j] \in DOMAIN t /\ d[j] = t[o[j]] /\ d[i] = f
      BY <2>1, <2>2, <1>6, <1>7
    <3> QED
      BY <3>1, <1>8 DEF t
  <2>3. CASE o[j] = 0
    <3>1. o[i] \in DOMAIN t /\ d[i] = t[o[i]] /\ d[j] = f
      BY <2>1, <2>3, <1>6, <1>7
    <3> QED
      BY <3>1, <1>8 DEF t
  <2>4. CASE o[i] # 0 /\ o[j] # 0
    <3>1. o[i] \in DOMAIN t /\ d[i] = t[o[i]] /\ o[j] \in DOMAIN t /\ d[j] = t[o[j]]
      BY <2>4, <1>6
    <3>2. SelfMarked(t)
      BY <1>4 DEF t
    <3> QED
      BY <3>1, <3>2, <2>1 DEF SelfMarked
  <2> QED
    BY <2>2, <2>3, <2>4
<1>10. ASSUME NEW l \in DOMAIN R, l # k
       PROVE  CrossMarked(d, R[l]) /\ CrossMarked(R[l], d)
  <2>1. CrossMarked(t, R[l])
    BY <1>4, <1>10 DEF t
  <2> SUFFICES ASSUME NEW i \in DOMAIN d, NEW j \in DOMAIN R[l],
                      Overlap(d[i], R[l][j]) \/ Overlap(R[l][j], d[i])
               PROVE  d[i].shared /\ R[l][j].shared
    BY DEF CrossMarked
  <2>2. Overlap(d[i], R[l][j])
    BY OverlapBoth
  <2>3. o[i] # 0
    BY <2>2, <1>7, <1>8
  <2>4. o[i] \in DOMAIN t /\ d[i] = t[o[i]]
    BY <2>3, <1>6
  <2> QED
    BY <2>1, <2>2, <2>4 DEF CrossMarked
<1>11. ASSUME NEW l \in DOMAIN R2
       PROVE  SelfMarked(R2[l])
  BY <1>2, <1>4, <1>9
<1>12. ASSUME NEW l \in DOMAIN R2, NEW m \in DOMAIN R2, l # m
       PROVE  CrossMarked(R2[l], R2[m])
  <2>1. CASE l = k
    BY <2>1, <1>2, <1>10, <1>12
  <2>2. CASE m = k
    BY <2>2, <1>2, <1>10, <1>12
  <2>3. CASE l # k /\ m # k
    BY <2>3, <1>2, <1>4, <1>12
  <2> QED
    BY <2>1, <2>2, <2>3
<1> QED
  BY <1>1, <1>11, <1>12 DEF Good, Marked

\* The content c with len bytes from pos on replaced.
Changed(c, pos, end, bytes) == SubSeq(c, 1, pos) \o bytes \o SubSeq(c, end + 1, Len(c))

LEMMA EndsAre ==
    ASSUME NEW C, NEW c \in Seq(C), NEW pos \in Nat, NEW end \in pos..Len(c), NEW bytes \in Seq(C)
    PROVE  /\ Ends(c, pos, end) \in Seq(C) /\ pos <= Len(Ends(c, pos, end))
           /\ Around1(Ends(c, pos, end), pos, bytes) = Changed(c, pos, end, bytes)
           /\ Changed(c, pos, end, <<>>) = Ends(c, pos, end)
<1> DEFINE x == SubSeq(c, 1, pos)  y == SubSeq(c, end + 1, Len(c))  z == Ends(c, pos, end)  n == Len(c)
<1>1. z = x \o y
  BY DEF Ends
<1>2. pos \in 0..n /\ end \in 0..n /\ n \in Nat
  OBVIOUS
<1>3. x \in Seq(C) /\ Len(x) = pos
  OBVIOUS
<1>4. y \in Seq(C)
  BY <1>2
<1> HIDE DEF x, y, z
<1>5. pos \in 0..Len(z) /\ SubSeq(z, 1, pos) = x /\ SubSeq(z, pos + 1, Len(z)) = y
  BY <1>1, <1>3, <1>4, ConcatParts
<1>6. z \in Seq(C) /\ Concatenated(z, x, y)
  BY <1>1, <1>3, <1>4, ConcatIs
<1>7. pos <= Len(z)
  BY <1>5
<1>8. Around1(z, pos, bytes) = Changed(c, pos, end, bytes)
  BY <1>5 DEF Around1, Changed, x, y
<1>9. Changed(c, pos, end, <<>>) = z
  <2>1. x \o <<>> = x
    BY <1>3
  <2> QED
    BY <2>1, <1>1 DEF Changed, x, y
<1> QED
  BY <1>6, <1>7, <1>8, <1>9 DEF z

LEMMA FragsSet ==
    ASSUME NEW inners \in Seq(InnerSet), NEW k \in DOMAIN inners, NEW r \in Seq(FragSet),
           NEW q, q = [inners EXCEPT ![k].frags = r]
    PROVE  /\ q \in Seq(InnerSet) /\ Len(q) = Len(inners) /\ DOMAIN q = DOMAIN inners
           /\ \A l \in DOMAIN inners :
                /\ q[l].uid = inners[l].uid /\ q[l].algo = inners[l].algo
                /\ q[l].frags = IF l = k THEN r ELSE inners[l].frags
           /\ RowChanged(RowsOf(inners), RowsOf(q), k, r)
<1> DEFINE p == [inners[k] EXCEPT !.frags = r]
<1>1. /\ Len(inners) \in Nat /\ DOMAIN inners = 1..Len(inners)
      /\ \A l \in DOMAIN inners : inners[l] \in InnerSet
      /\ RowsOf(inners) \in Rows /\ Len(RowsOf(inners)) = Len(inners)
      /\ \A l \in DOMAIN inners : RowsOf(inners)[l] = inners[l].frags
  BY InnersAre
<1>2. p \in InnerSet /\ p.uid = inners[k].uid /\ p.algo = inners[k].algo /\ p.frags = r
  BY <1>1, InnerWith
<1>3. q = [inners EXCEPT ![k] = p]
  OBVIOUS
<1> HIDE DEF p
<1>4. DOMAIN q = DOMAIN inners /\ q[k] = p /\ \A l \in DOMAIN inners \ {k} : q[l] = inners[l]
  BY <1>3
<1>5. q \in Seq(InnerSet) /\ Len(q) = Len(inners)
  <2> DEFINE n == Len(inners)
  <2>1. q = [l \in 1..n |-> q[l]]
    BY <1>1, <1>3
  <2>2. n \in Nat /\ \A l \in 1..n : q[l] \in InnerSet
    BY <1>1, <1>2, <1>4
  <2> HIDE DEF n
  <2>3. q \in Seq(InnerSet) /\ Len(q) = n
    BY ONLY <2>1, <2>2, FunSeq
  <2> QED
    BY <2>3 DEF n
<1>6. ASSUME NEW l \in DOMAIN inners
      PROVE  /\ q[l].uid = inners[l].uid /\ q[l].algo = inners[l].algo
             /\ q[l].frags = IF l = k THEN r ELSE inners[l].frags
  BY <1>2, <1>4
<1>7. RowsOf(q) \in Rows /\ Len(RowsOf(q)) = Len(q) /\ \A l \in DOMAIN q : RowsOf(q)[l] = q[l].frags
  BY <1>5, InnersAre
<1>8. DOMAIN RowsOf(q) = DOMAIN q /\ DOMAIN RowsOf(inners) = DOMAIN inners
  BY DEF RowsOf
<1>9. RowsOf(q)[k] = r
  BY <1>2, <1>4, <1>7
<1>10. \A l \in DOMAIN RowsOf(inners) \ {k} : RowsOf(q)[l] = RowsOf(inners)[l]
  BY <1>1, <1>4, <1>7, <1>8
<1>11. RowChanged(RowsOf(inners), RowsOf(q), k, r)
  BY <1>4, <1>7, <1>8, <1>9, <1>10 DEF RowChanged
<1> QED
  BY <1>4, <1>5, <1>6, <1>11

LEMMA RowSet ==
    ASSUME NEW R \in Rows, NEW k \in DOMAIN R, NEW s \in Seq(FragSet),
           NEW R2, R2 = [R EXCEPT ![k] = s]
    PROVE  RowChanged(R, R2, k, s)
<1> DEFINE C == Seq(FragSet)
<1>1. R \in Seq(C) /\ s \in C
  BY DEF Rows
<1> HIDE DEF C
<1>2. R2 \in Seq(C)
  BY <1>1
<1>3. R2 \in Rows
  BY <1>2 DEF C, Rows
<1> QED
  BY <1>3 DEF RowChanged

\* y is the arena x with the content of its k-th partition replaced.
Rewritten(D, x, y, k, content) ==
    /\ y \in ArenaSet(D) /\ Good(y.blob, RowsOf(y.inners))
    /\ Len(y.inners) = Len(x.inners) /\ DOMAIN y.inners = DOMAIN x.inners
    /\ \A l \in DOMAIN x.inners :
        /\ y.inners[l].uid = x.inners[l].uid /\ y.inners[l].algo = x.inners[l].algo
        /\ InnerContent(y, l) = IF l = k THEN content ELSE InnerContent(x, l)

\* What is left of the row r when the bytes from pos to end are gone.
Kept1(pool, r, t, pos, end) ==
    /\ t \in Seq(FragSet) /\ FragsIn(pool, t) /\ Finer(t, r)
    /\ Content(pool, t) = Ends(Content(pool, r), pos, end)

LEMMA EndsNone ==
    ASSUME NEW C, NEW c \in Seq(C), NEW pos \in 0..Len(c)
    PROVE  Ends(c, pos, pos) = c
<1> DEFINE n == Len(c)  w == SubSeq(c, 1, n)
<1>1. w = c /\ n \in pos..Len(c)
  OBVIOUS
<1>2. Ends(c, pos, pos) = SubSeq(c, 1, pos) \o SubSeq(c, pos + 1, n)
  BY DEF Ends
<1> HIDE DEF n
<1>3. w = SubSeq(c, 1, pos) \o SubSeq(c, pos + 1, n)
  BY <1>1, SubSeqNext
<1> HIDE DEF w
<1> QED
  BY ONLY <1>1, <1>2, <1>3

LEMMA KeptIs ==
    ASSUME NEW C, NEW pool \in Seq(C), NEW r \in Seq(FragSet), FragsIn(pool, r),
           NEW pos \in Nat, NEW len \in Nat, NEW end, end = pos + len, end <= LogicalLen(r),
           NEW t, t = IF len = 0 THEN r ELSE DeleteFrags(r, pos, len)
    PROVE  Kept1(pool, r, t, pos, end)
<1>1. CASE len = 0
  <2> DEFINE c == Content(pool, r)
  <2>1. t = r /\ end = pos
    BY <1>1
  <2>2. c \in Seq(Byte) /\ Len(c) = LogicalLen(r) /\ LogicalLen(r) \in Nat
    BY LogicalIs
  <2>3. pos \in 0..Len(c)
    BY <2>1, <2>2
  <2> HIDE DEF c
  <2>4. Ends(c, pos, pos) = c
    BY <2>2, <2>3, EndsNone
  <2>6. c = Ends(c, pos, end)
    BY <2>1, <2>4
  <2>7. Finer(r, r)
    BY FinerSame
  <2> QED
    BY <2>1, <2>6, <2>7 DEF Kept1, c
<1>2. CASE len # 0
  <2>1. Deleted(pool, r, DeleteFrags(r, pos, len), pos, end)
    BY <1>2, DeleteIs
  <2> QED
    BY <2>1, <1>2 DEF Deleted, Kept1
<1> QED
  BY <1>1, <1>2

LEMMA EditIs ==
    ASSUME NEW D, Byte \subseteq D, NEW x \in ArenaSet(D), Good(x.blob, RowsOf(x.inners)),
           NEW uid, NEW k \in DOMAIN x.inners, k = IndexOf(x, uid),
           NEW c, c = InnerContent(x, k),
           NEW pos \in Nat, NEW len \in Nat, NEW end, end = pos + len, end <= Len(c),
           NEW bytes \in Seq(Byte)
    PROVE  Rewritten(D, x, Edit(x, uid, pos, len, bytes), k, Changed(c, pos, end, bytes))
<1> DEFINE pool == x.blob  R == RowsOf(x.inners)  r == x.inners[k].frags
           kept == IF len = 0 THEN r ELSE DeleteFrags(r, pos, len)
           f == Frag(Len(pool), Len(bytes), FALSE)
           new == IF bytes = <<>> THEN kept ELSE InsertFrag(kept, pos, f)
           pool2 == pool \o bytes  q == [x.inners EXCEPT ![k].frags = new]
           y == Edit(x, uid, pos, len, bytes)
<1>1. y = Arena(x.algo, pool2, q)
  BY DEF Edit
<1>2. pool \in Seq(D) /\ x.inners \in Seq(InnerSet) /\ x.algo \in TableAlgo
  BY DEF ArenaSet
<1>3. /\ R \in Rows /\ DOMAIN R = DOMAIN x.inners /\ Pooled(pool, R) /\ R[k] = r
      /\ \A l \in DOMAIN R : R[l] = x.inners[l].frags
  <2>1. R \in Rows /\ \A l \in DOMAIN x.inners : R[l] = x.inners[l].frags
    BY <1>2, InnersAre
  <2>2. DOMAIN R = DOMAIN x.inners
    BY DEF RowsOf
  <2> QED
    BY <2>1, <2>2 DEF Good
<1>4. r \in Seq(FragSet) /\ FragsIn(pool, r)
  <2>1. R[k] \in Seq(FragSet) /\ FragsIn(pool, R[k])
    BY <1>3, PooledIs
  <2> QED
    BY <2>1, <1>3
<1>5. c = Content(pool, r)
  BY DEF InnerContent
<1>6. c \in Seq(Byte) /\ Len(c) = LogicalLen(r) /\ LogicalLen(r) \in Nat
  BY <1>2, <1>4, <1>5, LogicalIs
<1>7. bytes \in Seq(D) /\ pool2 \in Seq(D)
  <2>1. bytes \in Seq(D)
    <3>1. \A i \in 1..Len(bytes) : bytes[i] \in D
      OBVIOUS
    <3> QED
      BY <3>1, SeqNarrow
  <2> QED
    BY <2>1, <1>2
<1> HIDE DEF kept, f, new, q, y, pool, R, r
<1>8. Kept1(pool, r, kept, pos, end)
  <2>1. end <= LogicalLen(r)
    BY <1>6
  <2> QED
    BY <2>1, <1>2, <1>4, KeptIs DEF kept
<1>9. /\ kept \in Seq(FragSet) /\ FragsIn(pool, kept) /\ Finer(kept, r)
      /\ Content(pool, kept) = Ends(c, pos, end)
  BY <1>5, <1>8 DEF Kept1
<1>10. /\ Ends(c, pos, end) \in Seq(Byte) /\ pos <= Len(Ends(c, pos, end))
       /\ Around1(Ends(c, pos, end), pos, bytes) = Changed(c, pos, end, bytes)
       /\ Changed(c, pos, end, <<>>) = Ends(c, pos, end)
  <2>1. end \in pos..Len(c)
    BY <1>6
  <2> QED
    BY <2>1, <1>6, EndsAre
<1> DEFINE R1 == [R EXCEPT ![k] = kept]  R2 == [R EXCEPT ![k] = new]
<1>11. RowChanged(R, R1, k, kept) /\ R1 \in Rows /\ DOMAIN R1 = DOMAIN R /\ R1[k] = kept
       /\ \A l \in DOMAIN R \ {k} : R1[l] = R[l]
  <2>1. RowChanged(R, R1, k, kept)
    BY <1>3, <1>9, RowSet
  <2> QED
    BY <2>1 DEF RowChanged
<1> HIDE DEF R1
<1>12. Good(pool, R1)
  BY <1>3, <1>9, <1>11, FinerRows DEF pool, R
<1>13. /\ Pooled(pool2, R)
       /\ \A l \in DOMAIN R : Content(pool2, R[l]) = Content(pool, R[l])
  BY <1>2, <1>3, <1>7, PooledGrows
<1>14. Pooled(pool2, R1) /\ \A l \in DOMAIN R1 : Content(pool2, R1[l]) = Content(pool, R1[l])
  <2>1. Pooled(pool, R1)
    BY <1>12 DEF Good
  <2> QED
    BY <2>1, <1>2, <1>7, <1>11, PooledGrows
<1>15. Good(pool2, R1)
  BY <1>12, <1>14 DEF Good
<1>16. /\ new \in Seq(FragSet) /\ Content(pool2, new) = Changed(c, pos, end, bytes)
       /\ \A S : RowChanged(R, S, k, new) => Good(pool2, S)
  <2>1. CASE bytes = <<>>
    <3>1. new = kept
      BY <2>1 DEF new
    <3>2. pool2 = pool
      BY <2>1, <1>2
    <3>3. \A S : RowChanged(R, S, k, new) => Good(pool, S)
      BY <3>1, <1>3, <1>9, FinerRows DEF pool, R
    <3>4. Content(pool, new) = Changed(c, pos, end, bytes)
      BY <3>1, <2>1, <1>9, <1>10
    <3> QED
      BY <3>1, <3>2, <3>3, <3>4, <1>9
  <2>2. CASE bytes # <<>>
    <3>1. new = InsertFrag(kept, pos, f)
      BY <2>2 DEF new
    <3>2. AtEnd(D, pool, bytes, f)
      BY <2>2, <1>2, FreshSlice DEF f
    <3>3. /\ f \in FragSet /\ InPool(pool2, f) /\ Slice(pool2, f) = bytes
          /\ \A g \in FragSet : InPool(pool, g) => ~Overlap(f, g)
      BY <3>2 DEF AtEnd
    <3>4. FragsIn(pool2, kept) /\ Content(pool2, kept) = Ends(c, pos, end)
      BY <1>3, <1>9, <1>11, <1>14 DEF Pooled
    <3>5. pos <= LogicalLen(kept)
      <4>1. Len(Content(pool2, kept)) = LogicalLen(kept)
        BY <3>4, <1>7, <1>9, LogicalIs
      <4> QED
        BY <4>1, <3>4, <1>10
    <3> HIDE DEF pool2
    <3>6. Inserted(pool2, kept, new, pos, f)
      BY <3>1, <3>3, <3>4, <3>5, <1>7, <1>9, InsertIs
    <3>7. new \in Seq(FragSet) /\ FragsIn(pool2, new)
          /\ Content(pool2, new) = Around1(Content(pool2, kept), pos, Slice(pool2, f))
      BY <3>6 DEF Inserted
    <3>8. PICK t \in Seq(FragSet) : FragsIn(pool2, t) /\ Finer(t, kept) /\ OneMore(new, t, f)
      BY <3>6 DEF Inserted
    <3> DEFINE T == [R EXCEPT ![k] = t]
    <3>9. RowChanged(R, T, k, t)
      BY <1>3, RowSet
    <3>10. T \in Rows /\ DOMAIN T = DOMAIN R /\ T[k] = t /\ \A l \in DOMAIN R \ {k} : T[l] = R[l]
      BY <3>9 DEF RowChanged
    <3> HIDE DEF T
    <3>11. RowChanged(R1, T, k, t)
      BY <3>10, <1>11 DEF RowChanged
    <3>12. Good(pool2, T)
      <4>1. k \in DOMAIN R1 /\ Finer(t, R1[k])
        BY <3>8, <1>3, <1>11
      <4> QED
        BY <4>1, <3>8, <3>11, <1>11, <1>15, FinerRows
    <3>13. ASSUME NEW l \in DOMAIN T, NEW i \in DOMAIN T[l]
           PROVE  ~Overlap(f, T[l][i])
      <4>1. CASE l # k
        <5>1. T[l] = R[l] /\ l \in DOMAIN R
          BY <4>1, <3>10
        <5>2. R[l][i] \in FragSet /\ InPool(pool, R[l][i])
          BY <5>1, <1>3, PooledIs
        <5> QED
          BY <5>1, <5>2, <3>3
      <4>2. CASE l = k
        <5>1. PICK o : FinerBy(o, t, kept)
          BY <3>8 DEF Finer
        <5> DEFINE g == kept[o[i]]
        <5>2. i \in DOMAIN t /\ T[l][i] = t[i] /\ o[i] \in DOMAIN kept /\ Inside(t[i], g)
          BY <4>2, <5>1, <3>10 DEF FinerBy
        <5>3. t[i] \in FragSet /\ g \in FragSet /\ InPool(pool, g)
          BY <5>2, <1>9, <3>8, FragsLengthy DEF FragsIn
        <5> HIDE DEF g
        <5>4. ~Overlap(f, g)
          BY <5>3, <3>3
        <5>5. Overlap(t[i], f) => Overlap(g, f)
          BY <5>2, <5>3, <3>3, InsideOverlap
        <5>6. ~Overlap(f, t[i])
          BY <5>4, <5>5, OverlapBoth
        <5> QED
          BY <5>2, <5>6
      <4> QED
        BY <4>1, <4>2
    <3>14. ASSUME NEW S, RowChanged(R, S, k, new)
           PROVE  Good(pool2, S)
      <4>1. RowChanged(T, S, k, new)
        BY <3>10, <3>14 DEF RowChanged
      <4>2. k \in DOMAIN T /\ OneMore(new, T[k], f)
        BY <3>8, <3>10, <1>3
      <4> QED
        BY <4>1, <4>2, <3>3, <3>7, <3>10, <3>12, <3>13, MoreRows
    <3>15. Content(pool2, new) = Changed(c, pos, end, bytes)
      BY <3>3, <3>4, <3>7, <1>10
    <3> QED
      BY <3>7, <3>14, <3>15
  <2> QED
    BY <2>1, <2>2
<1> HIDE DEF pool2
<1>17. /\ q \in Seq(InnerSet) /\ Len(q) = Len(x.inners) /\ DOMAIN q = DOMAIN x.inners
       /\ \A l \in DOMAIN x.inners :
            /\ q[l].uid = x.inners[l].uid /\ q[l].algo = x.inners[l].algo
            /\ q[l].frags = IF l = k THEN new ELSE x.inners[l].frags
       /\ RowChanged(R, RowsOf(q), k, new)
  BY <1>2, <1>16, FragsSet DEF q, R
<1>18. y \in ArenaSet(D) /\ y.blob = pool2 /\ y.inners = q
  BY <1>1, <1>2, <1>7, <1>17, ArenaIn
<1>19. Good(y.blob, RowsOf(y.inners))
  BY <1>16, <1>17, <1>18
<1>20. ASSUME NEW l \in DOMAIN x.inners
       PROVE  InnerContent(y, l) = IF l = k THEN Changed(c, pos, end, bytes) ELSE InnerContent(x, l)
  <2>1. InnerContent(y, l) = Content(pool2, q[l].frags)
    BY <1>18 DEF InnerContent
  <2>2. CASE l = k
    BY <2>1, <2>2, <1>16, <1>17
  <2>3. CASE l # k
    <3>1. q[l].frags = R[l] /\ l \in DOMAIN R
      BY <2>3, <1>3, <1>17
    <3>2. InnerContent(x, l) = Content(pool, R[l])
      BY <3>1, <1>3 DEF InnerContent, pool
    <3> QED
      BY <3>1, <3>2, <2>1, <2>3, <1>13
  <2> QED
    BY <2>2, <2>3
<1>21. Rewritten(D, x, y, k, Changed(c, pos, end, bytes))
  BY <1>17, <1>18, <1>19, <1>20 DEF Rewritten
<1> QED
  BY <1>21 DEF y

\* The sequence s without its k-th element.
Without(t, s, k) ==
    /\ Len(t) = Len(s) - 1
    /\ \A l \in 1..(k - 1) : t[l] = s[l]
    /\ \A l \in k..(Len(s) - 1) : t[l] = s[l + 1]

LEMMA RemoveAtIs ==
    ASSUME NEW C, NEW s \in Seq(C), NEW k \in 1..Len(s)
    PROVE  RemoveAt(s, k) \in Seq(C) /\ Without(RemoveAt(s, k), s, k)
<1> DEFINE n == Len(s)  P == SubSeq(s, 1, k - 1)  x == k + 1  Q == SubSeq(s, x, n)
           t == RemoveAt(s, k)
<1>1. n \in Nat /\ k \in 1..n
  OBVIOUS
<1>2. t = P \o Q
  BY DEF RemoveAt
<1>3. P \in Seq(C) /\ Len(P) = k - 1 /\ \A l \in 1..(k - 1) : P[l] = s[l]
  OBVIOUS
<1>4. Q \in Seq(C) /\ Len(Q) = n - k /\ \A l \in 1..(n - k) : Q[l] = s[k + l]
  <2>1. x \in Nat \ {0} /\ n \in 0..Len(s)
    BY <1>1
  <2>2. (IF x <= n THEN n - x + 1 = n - k ELSE n - k = 0) /\ \A l \in 1..(n - k) : x + l - 1 = k + l
    BY <1>1
  <2> HIDE DEF x, n
  <2>3. /\ Q \in Seq(C) /\ Len(Q) = IF x <= n THEN n - x + 1 ELSE 0
        /\ \A l \in 1..Len(Q) : Q[l] = s[x + l - 1]
    BY <2>1, SliceType
  <2> HIDE DEF Q
  <2>4. Len(Q) = n - k
    BY ONLY <2>2, <2>3
  <2>5. \A l \in 1..(n - k) : Q[l] = s[k + l]
    BY ONLY <2>2, <2>3, <2>4
  <2> QED
    BY <2>3, <2>4, <2>5
<1> HIDE DEF P, Q, t, x, n
<1>5. t \in Seq(C) /\ Concatenated(t, P, Q)
  BY <1>2, <1>3, <1>4, ConcatIs
<1>6. /\ Len(t) = Len(P) + Len(Q)
      /\ \A i \in 1..Len(P) : t[i] = P[i]
      /\ \A i \in 1..Len(Q) : t[Len(P) + i] = Q[i]
  BY <1>5 DEF Concatenated
<1>7. Len(t) = n - 1
  BY ONLY <1>1, <1>3, <1>4, <1>6
<1>8. \A l \in 1..(k - 1) : t[l] = s[l]
  BY ONLY <1>3, <1>6
<1>9. ASSUME NEW l \in k..(n - 1)
      PROVE  t[l] = s[l + 1]
  <2> DEFINE i == l - (k - 1)
  <2>1. i \in 1..(n - k) /\ (k - 1) + i = l /\ k + i = l + 1
    BY ONLY <1>1, l \in k..(n - 1)
  <2> HIDE DEF i
  <2>2. t[(k - 1) + i] = Q[i] /\ Q[i] = s[k + i]
    BY ONLY <2>1, <1>3, <1>4, <1>6
  <2> QED
    BY ONLY <2>1, <2>2
<1> QED
  BY <1>5, <1>7, <1>8, <1>9 DEF Without, t, n

\* y is the arena x without its k-th partition.
Dropped(D, x, y, k) ==
    /\ y \in ArenaSet(D) /\ Good(y.blob, RowsOf(y.inners))
    /\ Without(y.inners, x.inners, k)
    /\ \A l \in DOMAIN y.inners : \E m \in DOMAIN x.inners :
        /\ m # k /\ y.inners[l] = x.inners[m] /\ InnerContent(y, l) = InnerContent(x, m)
    /\ \A m \in DOMAIN x.inners : m # k => \E l \in DOMAIN y.inners :
        /\ y.inners[l] = x.inners[m] /\ InnerContent(y, l) = InnerContent(x, m)

LEMMA RemoveIs ==
    ASSUME NEW D, NEW x \in ArenaSet(D), Good(x.blob, RowsOf(x.inners)),
           NEW uid, NEW k \in DOMAIN x.inners, k = IndexOf(x, uid)
    PROVE  Dropped(D, x, RemoveInner(x, uid), k)
<1> DEFINE s == x.inners  t == RemoveAt(s, k)  y == RemoveInner(x, uid)  n == Len(s)  pool == x.blob
           R == RowsOf(s)  S == RowsOf(t)
           o(l) == IF l < k THEN l ELSE l + 1
<1> DEFINE a == x.algo
<1>1. /\ pool \in Seq(D) /\ s \in Seq(InnerSet) /\ a \in TableAlgo
      /\ x = [algo |-> a, blob |-> pool, inners |-> s]
  BY DEF ArenaSet
<1> HIDE DEF a
<1>2. n \in Nat /\ DOMAIN s = 1..n /\ k \in 1..n
  BY <1>1
<1>3. y = Arena(a, pool, t)
  <2>1. y = [x EXCEPT !.inners = t]
    BY DEF RemoveInner
  <2> HIDE DEF t
  <2> QED
    BY <2>1, <1>1 DEF Arena
<1> HIDE DEF s, t, y
<1>4. t \in Seq(InnerSet) /\ Without(t, s, k)
  BY <1>1, <1>2, RemoveAtIs DEF t
<1>5. Len(t) = n - 1 /\ DOMAIN t = 1..(n - 1)
  <2>1. Len(t) = n - 1 /\ DOMAIN t = 1..Len(t)
    BY <1>4 DEF Without
  <2> QED
    BY <2>1
<1>6. /\ \A l \in 1..(k - 1) : t[l] = s[l]
      /\ \A l \in k..(n - 1) : t[l] = s[l + 1]
  BY <1>4 DEF Without
<1> HIDE DEF n
<1>7. ASSUME NEW l \in 1..(n - 1)
      PROVE  o(l) \in 1..n /\ o(l) # k /\ t[l] = s[o(l)]
  <2>1. CASE l < k
    <3>1. l \in 1..(k - 1) /\ l \in 1..n /\ l # k
      BY ONLY <2>1, <1>2, l \in 1..(n - 1)
    <3> QED
      BY <3>1, <2>1, <1>6
  <2>2. CASE ~(l < k)
    <3>1. l \in k..(n - 1) /\ l + 1 \in 1..n /\ l + 1 # k
      BY ONLY <2>2, <1>2, l \in 1..(n - 1)
    <3> QED
      BY <3>1, <2>2, <1>6
  <2> QED
    BY <2>1, <2>2
<1>8. \A l, m \in 1..(n - 1) : l # m => o(l) # o(m)
  BY ONLY <1>2
<1>9. ASSUME NEW m \in 1..n, m # k
      PROVE  \E l \in 1..(n - 1) : t[l] = s[m]
  <2>1. CASE m < k
    <3>1. m \in 1..(k - 1) /\ m \in 1..(n - 1)
      BY ONLY <2>1, <1>2, m \in 1..n
    <3> QED
      BY <3>1, <1>6
  <2>2. CASE ~(m < k)
    <3> DEFINE l == m - 1
    <3>1. l \in k..(n - 1) /\ l \in 1..(n - 1) /\ l + 1 = m
      BY ONLY <2>2, <1>2, m \in 1..n, <1>9
    <3> HIDE DEF l
    <3>2. t[l] = s[m]
      BY ONLY <3>1, <1>6
    <3> QED
      BY <3>1, <3>2
  <2> QED
    BY <2>1, <2>2
<1>10. y \in ArenaSet(D) /\ y.blob = pool /\ y.inners = t
  BY <1>1, <1>3, <1>4, ArenaIn
<1>11. /\ R \in Rows /\ DOMAIN R = 1..n /\ \A l \in 1..n : R[l] = s[l].frags
       /\ S \in Rows /\ DOMAIN S = 1..(n - 1) /\ \A l \in 1..(n - 1) : S[l] = t[l].frags
  <2>1. R \in Rows /\ (\A l \in DOMAIN s : R[l] = s[l].frags) /\ DOMAIN R = DOMAIN s
    BY <1>1, InnersAre DEF RowsOf
  <2>2. S \in Rows /\ (\A l \in DOMAIN t : S[l] = t[l].frags) /\ DOMAIN S = DOMAIN t
    BY <1>4, InnersAre DEF RowsOf
  <2> QED
    BY <2>1, <2>2, <1>2, <1>5
<1> HIDE DEF R, S
<1>12. ASSUME NEW l \in 1..(n - 1)
       PROVE  S[l] = R[o(l)]
  BY <1>7, <1>11
<1>13. Good(pool, R)
  BY DEF R, s
<1>14. Good(pool, S)
  <2>1. \A l \in DOMAIN R : FragsIn(pool, R[l]) /\ SelfMarked(R[l])
    BY <1>13 DEF Good, Pooled, Marked
  <2>2. \A l, m \in DOMAIN R : l # m => CrossMarked(R[l], R[m])
    BY <1>13 DEF Good, Marked
  <2> HIDE DEF o
  <2>3. \A l \in DOMAIN S : FragsIn(pool, S[l]) /\ SelfMarked(S[l])
    BY <2>1, <1>7, <1>11, <1>12
  <2>4. \A l, m \in DOMAIN S : l # m => CrossMarked(S[l], S[m])
    BY <2>2, <1>7, <1>8, <1>11, <1>12
  <2> QED
    BY <2>3, <2>4 DEF Good, Pooled, Marked
<1> HIDE DEF o
<1>15. \A l \in DOMAIN t, m \in DOMAIN s : t[l] = s[m] => InnerContent(y, l) = InnerContent(x, m)
  BY <1>10 DEF InnerContent, s
<1>16. \A l \in DOMAIN t : \E m \in DOMAIN s : m # k /\ t[l] = s[m] /\ InnerContent(y, l) = InnerContent(x, m)
  BY <1>2, <1>5, <1>7, <1>15
<1>17. \A m \in DOMAIN s : m # k => \E l \in DOMAIN t : t[l] = s[m] /\ InnerContent(y, l) = InnerContent(x, m)
  BY <1>2, <1>5, <1>9, <1>15
<1>18. Dropped(D, x, y, k)
  BY <1>4, <1>10, <1>14, <1>16, <1>17 DEF Dropped, S, s
<1> QED
  BY <1>18 DEF y

-----------------------------------------------------------------------------
(* Deduplication.                                                          *)

LEMMA InnerIs ==
    ASSUME NEW D, NEW x \in ArenaSet(D), Good(x.blob, RowsOf(x.inners)), NEW k \in DOMAIN x.inners
    PROVE  /\ InnerContent(x, k) \in Seq(Byte)
           /\ Len(InnerContent(x, k)) = LogicalLen(x.inners[k].frags)
           /\ x.inners[k].uid \in Uid /\ x.inners[k].algo \in Algo
           /\ x.inners[k].frags \in Seq(FragSet) /\ FragsIn(x.blob, x.inners[k].frags)
<1> DEFINE R == RowsOf(x.inners)
<1>1. x.blob \in Seq(D) /\ x.inners \in Seq(InnerSet)
  BY DEF ArenaSet
<1>2. /\ R \in Rows /\ R[k] = x.inners[k].frags /\ x.inners[k].uid \in Uid
      /\ x.inners[k].algo \in Algo
  BY <1>1, InnersAre
<1>3. k \in DOMAIN R /\ Pooled(x.blob, R)
  BY DEF RowsOf, Good
<1> HIDE DEF R
<1>4. R[k] \in Seq(FragSet) /\ FragsIn(x.blob, R[k])
  BY <1>2, <1>3, PooledIs
<1>5. /\ Content(x.blob, R[k]) \in Seq(Byte)
      /\ Len(Content(x.blob, R[k])) = LogicalLen(R[k])
  BY <1>1, <1>4, LogicalIs
<1> QED
  BY <1>2, <1>4, <1>5 DEF InnerContent

\* y holds copies of the first k partitions of x, and no bytes twice.
Copied(D, x, y, k) ==
    /\ y \in ArenaSet(D) /\ Good(y.blob, RowsOf(y.inners)) /\ Distinct(y.blob, RowsOf(y.inners))
    /\ Len(y.inners) = k
    /\ \A l \in 1..k :
        /\ y.inners[l].uid = x.inners[l].uid /\ y.inners[l].algo = x.inners[l].algo
        /\ InnerContent(y, l) = InnerContent(x, l)

LEMMA CopiedNext ==
    ASSUME NEW D, Byte \subseteq D, NEW x \in ArenaSet(D), Good(x.blob, RowsOf(x.inners)),
           NEW n \in Nat, NEW k \in DOMAIN x.inners, NEW j \in Nat, k = j + 1,
           NEW y, Copied(D, x, y, j)
    PROVE  Copied(D, x, AddInner(y, x.inners[k].uid, x.inners[k].algo, InnerContent(x, k), n), k)
<1> DEFINE c == InnerContent(x, k)  uid == x.inners[k].uid  algo == x.inners[k].algo
           z == AddInner(y, uid, algo, c, n)
<1>1. c \in Seq(Byte) /\ uid \in Uid /\ algo \in Algo
  BY InnerIs
<1>2. /\ y \in ArenaSet(D) /\ Good(y.blob, RowsOf(y.inners)) /\ Distinct(y.blob, RowsOf(y.inners))
      /\ Len(y.inners) = j /\ y.inners \in Seq(InnerSet)
      /\ \A l \in 1..j :
            /\ y.inners[l].uid = x.inners[l].uid /\ y.inners[l].algo = x.inners[l].algo
            /\ InnerContent(y, l) = InnerContent(x, l)
  BY DEF Copied, ArenaSet
<1> HIDE DEF c, uid, algo
<1>3. Gained(D, y, z, uid, algo, c)
  BY <1>1, <1>2, AddInnerIs
<1> HIDE DEF z
<1>4. /\ z \in ArenaSet(D) /\ Good(z.blob, RowsOf(z.inners)) /\ Len(z.inners) = k
      /\ Distinct(z.blob, RowsOf(z.inners))
      /\ \A l \in DOMAIN y.inners :
            /\ z.inners[l].uid = y.inners[l].uid /\ z.inners[l].algo = y.inners[l].algo
            /\ InnerContent(z, l) = InnerContent(y, l)
      /\ z.inners[k].uid = uid /\ z.inners[k].algo = algo /\ InnerContent(z, k) = c
  BY <1>2, <1>3 DEF Gained
<1>5. DOMAIN y.inners = 1..j
  BY <1>2
<1>6. \A l \in 1..k : l \in 1..j \/ l = k
  OBVIOUS
<1>7. ASSUME NEW l \in 1..k
      PROVE  /\ z.inners[l].uid = x.inners[l].uid /\ z.inners[l].algo = x.inners[l].algo
             /\ InnerContent(z, l) = InnerContent(x, l)
  <2>1. CASE l \in 1..j
    BY <2>1, <1>2, <1>4, <1>5
  <2>2. CASE l = k
    BY <2>2, <1>4 DEF c, uid, algo
  <2> QED
    BY <2>1, <2>2, <1>6
<1>8. Copied(D, x, z, k)
  BY <1>4, <1>7 DEF Copied
<1> QED
  BY <1>8 DEF z, c, uid, algo

CopyStep(g, x, n, k) ==
    AddInner(g, x.inners[k].uid, x.inners[k].algo, InnerContent(x, k), n)
CopiedBy(g, x, n) ==
    g = [k \in 0..Len(x.inners) |->
            IF k = 0 THEN EmptyArena(x.algo) ELSE CopyStep(g[k - 1], x, n, k)]

LEMMA EmptyIs ==
    ASSUME NEW D, NEW x, NEW a \in TableAlgo
    PROVE  Copied(D, x, EmptyArena(a), 0)
<1> DEFINE e == <<>>  y == Arena(a, e, e)
<1>1. EmptyArena(a) = y
  BY Zenon DEF EmptyArena
<1>2. e \in Seq(D) /\ e \in Seq(InnerSet) /\ Len(e) = 0 /\ DOMAIN e = {}
  OBVIOUS
<1>3. RowsOf(e) = e
  BY DEF RowsOf
<1> HIDE DEF e
<1>4. y \in ArenaSet(D) /\ y.blob = e /\ y.inners = e
  BY <1>2 DEF Arena, ArenaSet
<1> HIDE DEF y
<1>5. Good(e, e) /\ Distinct(e, e)
  BY <1>2 DEF Good, Pooled, Marked, Distinct
<1>6. Copied(D, x, y, 0)
  BY <1>2, <1>3, <1>4, <1>5 DEF Copied
<1> QED
  BY <1>1, <1>6

LEMMA CopiedSolution ==
    ASSUME NEW D, Byte \subseteq D, NEW x \in ArenaSet(D), Good(x.blob, RowsOf(x.inners)),
           NEW n \in Nat
    PROVE  \E g : CopiedBy(g, x, n)
<1> DEFINE m == Len(x.inners)
           A == {y \in ArenaSet(D) : Good(y.blob, RowsOf(y.inners))}
           F == [p \in (1..m) \X A |-> CopyStep(p[2], x, n, p[1])]
<1>1. x.inners \in Seq(InnerSet) /\ x.algo \in TableAlgo
  BY DEF ArenaSet
<1>2. m \in Nat /\ DOMAIN x.inners = 1..m
  BY <1>1
<1>3. ASSUME NEW k \in 1..m, NEW y \in A
      PROVE  CopyStep(y, x, n, k) \in A
  <2> DEFINE c == InnerContent(x, k)  uid == x.inners[k].uid  algo == x.inners[k].algo
  <2>1. c \in Seq(Byte) /\ uid \in Uid /\ algo \in Algo
    BY <1>2, InnerIs
  <2>2. y \in ArenaSet(D) /\ Good(y.blob, RowsOf(y.inners))
    OBVIOUS
  <2> DEFINE z == AddInner(y, uid, algo, c, n)
  <2>3. CopyStep(y, x, n, k) = z
    BY DEF CopyStep
  <2> HIDE DEF c, uid, algo
  <2>4. Gained(D, y, z, uid, algo, c)
    BY <2>1, <2>2, AddInnerIs
  <2> HIDE DEF z
  <2> QED
    BY <2>3, <2>4 DEF Gained
<1>4. EmptyArena(x.algo) \in A
  <2>1. Copied(D, x, EmptyArena(x.algo), 0)
    BY <1>1, EmptyIs
  <2> QED
    BY <2>1 DEF Copied
<1> HIDE DEF A, m
<1>5. Steps(F, m, A)
  BY <1>3 DEF Steps
<1>6. \A k \in 1..m, y \in A : F[<<k, y>>] = CopyStep(y, x, n, k)
  OBVIOUS
<1> HIDE DEF F
<1>7. PICK g : Solution(g, m, A, EmptyArena(x.algo), F)
  BY <1>2, <1>4, <1>5, Recursion
<1>8. g \in [0..m -> A] /\ g[0] = EmptyArena(x.algo) /\ \A i \in 1..m : g[i] = F[<<i, g[i - 1]>>]
  BY <1>7 DEF Solution
<1>9. ASSUME NEW k \in 0..m
      PROVE  g[k] = IF k = 0 THEN EmptyArena(x.algo) ELSE CopyStep(g[k - 1], x, n, k)
  <2>1. CASE k = 0
    BY <2>1, <1>8
  <2>2. CASE k # 0
    <3>1. k \in 1..m /\ k - 1 \in 0..m
      BY <2>2, <1>2
    <3>2. g[k] = F[<<k, g[k - 1]>>] /\ g[k - 1] \in A
      BY <3>1, <1>8
    <3>3. g[k] = CopyStep(g[k - 1], x, n, k)
      BY <3>1, <3>2, <1>6
    <3> QED
      BY <2>2, <3>3
  <2> QED
    BY <2>1, <2>2
<1>10. g = [k \in 0..m |-> g[k]]
  BY <1>8
<1>11. g = [k \in 0..m |-> IF k = 0 THEN EmptyArena(x.algo) ELSE CopyStep(g[k - 1], x, n, k)]
  BY <1>9, <1>10, Zenon
<1> QED
  BY <1>11 DEF m, CopiedBy

LEMMA DedupIs ==
    ASSUME NEW D, Byte \subseteq D, NEW x \in ArenaSet(D), Good(x.blob, RowsOf(x.inners)),
           NEW n \in Nat
    PROVE  Copied(D, x, Dedup(x, n), Len(x.inners))
<1> DEFINE m == Len(x.inners)
           c == CHOOSE c : c = [k \in 0..m |-> IF k = 0 THEN EmptyArena(x.algo)
                                ELSE AddInner(c[k - 1], x.inners[k].uid, x.inners[k].algo,
                                              InnerContent(x, k), n)]
           z == c[m]
           T == {k \in Nat : Copied(D, x, c[k], k)}
<1>1. Dedup(x, n) = z
  BY Zenon DEF Dedup
<1>2. \E g : CopiedBy(g, x, n)
  BY CopiedSolution
<1>3. c = [k \in 0..m |-> IF k = 0 THEN EmptyArena(x.algo)
                          ELSE AddInner(c[k - 1], x.inners[k].uid, x.inners[k].algo,
                                        InnerContent(x, k), n)]
  <2>1. PICK g : g = [k \in 0..m |-> IF k = 0 THEN EmptyArena(x.algo)
                          ELSE AddInner(g[k - 1], x.inners[k].uid, x.inners[k].algo,
                                        InnerContent(x, k), n)]
    BY <1>2 DEF CopiedBy, CopyStep
  <2> QED
    BY <2>1, Zenon
<1> HIDE DEF c
<1>4. m \in Nat /\ DOMAIN x.inners = 1..m
  <2>1. x.inners \in Seq(InnerSet)
    BY DEF ArenaSet
  <2> QED
    BY <2>1
<1> HIDE DEF m
<1>5. c[0] = EmptyArena(x.algo)
  <2>1. 0 \in 0..m
    BY <1>4
  <2> QED
    BY <1>3, <2>1, Zenon
<1>6. ASSUME NEW k \in 1..m
      PROVE  c[k] = AddInner(c[k - 1], x.inners[k].uid, x.inners[k].algo, InnerContent(x, k), n)
  <2>1. k \in 0..m /\ k # 0
    BY <1>4
  <2> QED
    BY <1>3, <2>1, Zenon
<1>7. 0 \in T
  <2>1. Copied(D, x, EmptyArena(x.algo), 0)
    BY EmptyIs DEF ArenaSet
  <2> QED
    BY <2>1, <1>5
<1>8. ASSUME NEW j \in 0..(m - 1), j \in T
      PROVE  j + 1 \in T
  <2> DEFINE k == j + 1
  <2>1. k \in 1..m /\ k - 1 = j /\ k \in Nat /\ j \in Nat /\ k = j + 1
    BY <1>4
  <2> HIDE DEF k
  <2>2. Copied(D, x, c[j], j)
    BY <1>8
  <2>3. Copied(D, x, AddInner(c[j], x.inners[k].uid, x.inners[k].algo, InnerContent(x, k), n), k)
    BY <2>1, <2>2, <1>4, CopiedNext
  <2>4. Copied(D, x, c[k], k)
    BY <2>1, <2>3, <1>6
  <2> QED
    BY <2>1, <2>4 DEF k
<1> HIDE DEF T
<1>9. 0..m \subseteq T
  BY <1>4, <1>7, <1>8, UpTo
<1>10. m \in T
  BY <1>4, <1>9
<1> QED
  BY <1>1, <1>10 DEF T, m

-----------------------------------------------------------------------------
(* The extents of an arena, one after the other.                           *)

ExtentSet == [offset : Nat, length : Nat \ {0}]

LEMMA ExtentIs ==
    ASSUME NEW f \in FragSet
    PROVE  /\ Extent(f) \in ExtentSet
           /\ Extent(f).offset = f.offset /\ Extent(f).length = f.length
BY FragIs DEF Extent, ExtentSet, FragSet

\* g lists the extents of the first k fragments, each once.
SeenStep(met, e) == IF e \in ToSet(met) THEN met ELSE Append(met, e)
SeenBy(g, frags) ==
    g = [k \in 0..Len(frags) |-> IF k = 0 THEN <<>> ELSE SeenStep(g[k - 1], Extent(frags[k]))]
OnceEach(es) == \A i, j \in DOMAIN es : es[i] = es[j] => i = j
SeenUpTo(es, frags, k) ==
    /\ es \in Seq(ExtentSet) /\ OnceEach(es)
    /\ \A i \in 1..k : \E j \in DOMAIN es : es[j] = Extent(frags[i])
    /\ \A j \in DOMAIN es : \E i \in 1..k : es[j] = Extent(frags[i])

LEMMA SeenNext ==
    ASSUME NEW frags, NEW k \in Nat, NEW m \in Nat, m = k + 1, NEW f \in FragSet, f = frags[m],
           NEW es, SeenUpTo(es, frags, k)
    PROVE  SeenUpTo(SeenStep(es, Extent(f)), frags, m)
<1> DEFINE e == Extent(f)  t == SeenStep(es, e)  n == Len(es)
<1>1. /\ es \in Seq(ExtentSet) /\ OnceEach(es)
      /\ \A i \in 1..k : \E j \in DOMAIN es : es[j] = Extent(frags[i])
      /\ \A j \in DOMAIN es : \E i \in 1..k : es[j] = Extent(frags[i])
  BY DEF SeenUpTo
<1>2. e \in ExtentSet
  BY ExtentIs
<1>3. \A i \in 1..m : i \in 1..k \/ i = m
  OBVIOUS
<1>4. (\A i \in 1..k : i \in 1..m) /\ m \in 1..m
  OBVIOUS
<1>5. e = Extent(frags[m])
  OBVIOUS
<1> HIDE DEF e
<1>6. CASE e \in ToSet(es)
  <2>1. t = es
    BY <1>6 DEF SeenStep
  <2>2. \E j \in DOMAIN es : es[j] = e
    BY <1>6 DEF ToSet
  <2>3. \A i \in 1..m : \E j \in DOMAIN es : es[j] = Extent(frags[i])
    BY <1>1, <1>3, <1>5, <2>2
  <2>4. \A j \in DOMAIN es : \E i \in 1..m : es[j] = Extent(frags[i])
    BY <1>1, <1>4
  <2> QED
    BY <2>1, <2>3, <2>4, <1>1 DEF SeenUpTo, e
<1>7. CASE e \notin ToSet(es)
  <2>1. t = Append(es, e)
    BY <1>7 DEF SeenStep
  <2>2. \A j \in DOMAIN es : es[j] # e
    BY <1>7 DEF ToSet
  <2> HIDE DEF t
  <2>3. /\ t \in Seq(ExtentSet) /\ DOMAIN t = 1..(n + 1) /\ n \in Nat /\ DOMAIN es = 1..n
        /\ t[n + 1] = e /\ \A j \in 1..n : t[j] = es[j]
    BY <1>1, <1>2, <2>1
  <2> HIDE DEF n
  <2>4. /\ \A j \in DOMAIN t : j \in DOMAIN es \/ j = n + 1
        /\ \A j \in DOMAIN es : j \in DOMAIN t
        /\ n + 1 \in DOMAIN t
    BY <2>3
  <2>5. OnceEach(t)
    BY <1>1, <2>2, <2>3, <2>4 DEF OnceEach
  <2>6. \A i \in 1..m : \E j \in DOMAIN t : t[j] = Extent(frags[i])
    BY <1>1, <1>3, <1>5, <2>3, <2>4
  <2>7. ASSUME NEW j \in DOMAIN t
        PROVE  \E i \in 1..m : t[j] = Extent(frags[i])
    <3>1. CASE j \in DOMAIN es
      <4>1. PICK i \in 1..k : es[j] = Extent(frags[i])
        BY <3>1, <1>1
      <4>2. i \in 1..m /\ t[j] = es[j]
        BY <3>1, <4>1, <1>4, <2>3
      <4> QED
        BY <4>1, <4>2
    <3>2. CASE j = n + 1
      BY <3>2, <1>4, <1>5, <2>3
    <3> QED
      BY <3>1, <3>2, <2>4
  <2> QED
    BY <2>3, <2>5, <2>6, <2>7 DEF SeenUpTo, t, e
<1> QED
  BY <1>6, <1>7

LEMMA SeenSolution ==
    ASSUME NEW frags \in Seq(FragSet)
    PROVE  \E g : SeenBy(g, frags)
<1> DEFINE m == Len(frags)  A == Seq(ExtentSet)  e == <<>>
           F == [p \in (1..m) \X A |-> SeenStep(p[2], Extent(frags[p[1]]))]
<1>1. m \in Nat /\ \A k \in 1..m : frags[k] \in FragSet
  OBVIOUS
<1>2. ASSUME NEW k \in 1..m, NEW y \in A
      PROVE  SeenStep(y, Extent(frags[k])) \in A
  <2>1. Extent(frags[k]) \in ExtentSet
    BY <1>1, ExtentIs
  <2> QED
    BY <2>1 DEF SeenStep
<1>3. e \in A
  OBVIOUS
<1> HIDE DEF A, m, e
<1>5. Steps(F, m, A)
  BY <1>2 DEF Steps
<1>6. \A k \in 1..m, y \in A : F[<<k, y>>] = SeenStep(y, Extent(frags[k]))
  OBVIOUS
<1> HIDE DEF F
<1>7. PICK g : Solution(g, m, A, e, F)
  BY <1>1, <1>3, <1>5, Recursion
<1>8. g \in [0..m -> A] /\ g[0] = e /\ \A i \in 1..m : g[i] = F[<<i, g[i - 1]>>]
  BY <1>7 DEF Solution
<1>9. ASSUME NEW k \in 0..m
      PROVE  g[k] = IF k = 0 THEN e ELSE SeenStep(g[k - 1], Extent(frags[k]))
  <2>1. CASE k = 0
    BY <2>1, <1>8
  <2>2. CASE k # 0
    <3>1. k \in 1..m /\ k - 1 \in 0..m
      BY <2>2, <1>1
    <3>2. g[k] = F[<<k, g[k - 1]>>] /\ g[k - 1] \in A
      BY <3>1, <1>8
    <3>3. g[k] = SeenStep(g[k - 1], Extent(frags[k]))
      BY <3>1, <3>2, <1>6
    <3> QED
      BY <2>2, <3>3
  <2> QED
    BY <2>1, <2>2
<1>10. g = [k \in 0..m |-> g[k]]
  BY <1>8
<1>11. g = [k \in 0..m |-> IF k = 0 THEN e ELSE SeenStep(g[k - 1], Extent(frags[k]))]
  BY <1>9, <1>10, Zenon
<1> QED
  BY <1>11 DEF m, e, SeenBy

LEMMA ExtentsSeen ==
    ASSUME NEW inners, NEW frags \in Seq(FragSet), frags = AllFrags(inners)
    PROVE  SeenUpTo(Extents(inners), frags, Len(frags))
<1> DEFINE m == Len(frags)
           c == CHOOSE c : c = [k \in 0..m |-> IF k = 0 THEN <<>>
                                ELSE LET e == Extent(frags[k])  met == c[k - 1]
                                     IN  IF e \in ToSet(met) THEN met ELSE Append(met, e)]
           z == c[m]
           T == {k \in Nat : SeenUpTo(c[k], frags, k)}
<1>1. Extents(inners) = z
  BY Zenon DEF Extents
<1>2. \E g : SeenBy(g, frags)
  BY SeenSolution
<1>3. c = [k \in 0..m |-> IF k = 0 THEN <<>>
                                ELSE LET e == Extent(frags[k])  met == c[k - 1]
                                     IN  IF e \in ToSet(met) THEN met ELSE Append(met, e)]
  <2>1. PICK g : g = [k \in 0..m |-> IF k = 0 THEN <<>>
                                ELSE LET e == Extent(frags[k])  met == g[k - 1]
                                     IN  IF e \in ToSet(met) THEN met ELSE Append(met, e)]
    BY <1>2 DEF SeenBy, SeenStep
  <2> QED
    BY <2>1, Zenon
<1> HIDE DEF c
<1>4. m \in Nat /\ \A k \in 1..m : frags[k] \in FragSet
  OBVIOUS
<1> HIDE DEF m
<1>5. c[0] = <<>>
  <2>1. 0 \in 0..m
    BY <1>4
  <2> QED
    BY <1>3, <2>1, Zenon
<1>6. ASSUME NEW k \in 1..m
      PROVE  c[k] = SeenStep(c[k - 1], Extent(frags[k]))
  <2>1. k \in 0..m /\ k # 0
    BY <1>4
  <2> QED
    BY <1>3, <2>1, Zenon DEF SeenStep
<1>7. 0 \in T
  <2> DEFINE e == <<>>
  <2>1. e \in Seq(ExtentSet) /\ DOMAIN e = {} /\ 1..0 = {}
    OBVIOUS
  <2> HIDE DEF e
  <2>2. SeenUpTo(e, frags, 0)
    BY <2>1 DEF SeenUpTo, OnceEach
  <2> QED
    BY <2>2, <1>5 DEF e
<1>8. ASSUME NEW j \in 0..(m - 1), j \in T
      PROVE  j + 1 \in T
  <2> DEFINE k == j + 1
  <2>1. k \in 1..m /\ k - 1 = j /\ k \in Nat /\ j \in Nat /\ k = j + 1
    BY <1>4
  <2> HIDE DEF k
  <2>2. SeenUpTo(c[j], frags, j)
    BY <1>8
  <2>3. SeenUpTo(SeenStep(c[j], Extent(frags[k])), frags, k)
    BY <2>1, <2>2, <1>4, SeenNext
  <2>4. SeenUpTo(c[k], frags, k)
    BY <2>1, <2>3, <1>6
  <2> QED
    BY <2>1, <2>4 DEF k
<1> HIDE DEF T
<1>9. 0..m \subseteq T
  BY <1>4, <1>7, <1>8, UpTo
<1>10. m \in T
  BY <1>4, <1>9
<1> QED
  BY <1>1, <1>10 DEF T, m

LEMMA AllFragsIs ==
    ASSUME NEW inners \in Seq(InnerSet)
    PROVE  AllFrags(inners) = FlattenSeq(RowsOf(inners)) /\ AllFrags(inners) \in Seq(FragSet)
<1>1. AllFrags(inners) = FlattenSeq(RowsOf(inners))
  BY DEF AllFrags, RowsOf
<1>2. RowsOf(inners) \in Rows
  BY InnersAre
<1>3. FlattenSeq(RowsOf(inners)) \in Seq(FragSet)
  BY <1>2, FlattenType DEF Rows
<1> QED
  BY <1>1, <1>3

\* Every extent of the rows R is one of es, once.
Listed(es, R) ==
    /\ es \in Seq(ExtentSet) /\ OnceEach(es)
    /\ \A k \in DOMAIN R : \A i \in DOMAIN R[k] : \E j \in DOMAIN es : es[j] = Extent(R[k][i])
    /\ \A j \in DOMAIN es : \E k \in DOMAIN R : \E i \in DOMAIN R[k] : es[j] = Extent(R[k][i])

LEMMA ExtentsAre ==
    ASSUME NEW inners \in Seq(InnerSet)
    PROVE  Listed(Extents(inners), RowsOf(inners))
<1> DEFINE es == Extents(inners)  R == RowsOf(inners)  frags == AllFrags(inners)  n == Len(frags)
<1>1. frags = FlattenSeq(R) /\ frags \in Seq(FragSet)
  BY AllFragsIs
<1>2. R \in Seq(Seq(FragSet))
  BY InnersAre DEF Rows
<1> HIDE DEF es, R, frags
<1>3. SeenUpTo(es, frags, n)
  BY <1>1, ExtentsSeen DEF es, frags
<1> HIDE DEF n
<1>4. /\ es \in Seq(ExtentSet) /\ OnceEach(es)
      /\ \A i \in 1..n : \E j \in DOMAIN es : es[j] = Extent(frags[i])
      /\ \A j \in DOMAIN es : \E i \in 1..n : es[j] = Extent(frags[i])
  BY <1>3 DEF SeenUpTo
<1>5. DOMAIN frags = 1..n
  BY <1>1 DEF n
<1>6. \A x \in 1..n : \E k \in DOMAIN R : \E i \in DOMAIN R[k] : frags[x] = R[k][i]
  <2>1. \A x \in DOMAIN FlattenSeq(R) : \E k \in DOMAIN R : \E i \in DOMAIN R[k] :
                x = Len(Upto(R, k - 1)) + i /\ FlattenSeq(R)[x] = R[k][i]
    BY <1>2, FlatPlaces
  <2> QED
    BY <2>1, <1>1, <1>5
<1>7. \A k \in DOMAIN R : \A i \in DOMAIN R[k] : \E x \in 1..n : frags[x] = R[k][i]
  <2>1. \A k \in DOMAIN R : \A i \in DOMAIN R[k] :
                /\ Len(Upto(R, k - 1)) + i \in DOMAIN FlattenSeq(R)
                /\ FlattenSeq(R)[Len(Upto(R, k - 1)) + i] = R[k][i]
    BY <1>2, FlatPlaces
  <2> QED
    BY <2>1, <1>1, <1>5
<1>8. ASSUME NEW k \in DOMAIN R, NEW i \in DOMAIN R[k]
      PROVE  \E j \in DOMAIN es : es[j] = Extent(R[k][i])
  <2>1. PICK x \in 1..n : frags[x] = R[k][i]
    BY <1>7
  <2> QED
    BY <2>1, <1>4
<1>9. ASSUME NEW j \in DOMAIN es
      PROVE  \E k \in DOMAIN R : \E i \in DOMAIN R[k] : es[j] = Extent(R[k][i])
  <2>1. PICK x \in 1..n : es[j] = Extent(frags[x])
    BY <1>4
  <2>2. PICK k \in DOMAIN R : \E i \in DOMAIN R[k] : frags[x] = R[k][i]
    BY <1>6
  <2> QED
    BY <2>1, <2>2
<1> QED
  BY <1>4, <1>8, <1>9 DEF Listed, es, R

LEMMA BeforeSame ==
    ASSUME NEW s, NEW t, NEW n \in Nat, Lengthy(s, n), \A j \in 1..n : t[j].length = s[j].length
    PROVE  \A k \in 0..n : Before(t, k) = Before(s, k)
<1>1. PICK h \in [0..n -> Nat] : Sums(h, s, n)
  BY SumsExist
<1>2. Lengthy(t, n)
  BY DEF Lengthy
<1>3. Sums(h, t, n)
  BY <1>1 DEF Sums
<1>4. ASSUME NEW k \in 0..n
      PROVE  Before(t, k) = Before(s, k)
  <2>1. Before(s, k) = h[k]
    BY <1>1, BeforeSums
  <2>2. Before(t, k) = h[k]
    BY <1>2, <1>3, BeforeSums
  <2> QED
    BY <2>1, <2>2
<1> QED
  BY <1>4

\* The bytes of the extents es of pool, one after the other.
InOrder(packed, pool, es) ==
    /\ packed \in Seq(Byte) /\ Len(packed) = Before(es, Len(es))
    /\ \A j \in 1..Len(es) : \A i \in 1..es[j].length :
        /\ Before(es, j - 1) + i \in 1..Len(packed)
        /\ packed[Before(es, j - 1) + i] = pool[es[j].offset + i]

LEMMA ExtentLengths ==
    ASSUME NEW es \in Seq(ExtentSet)
    PROVE  /\ Len(es) \in Nat /\ Lengthy(es, Len(es)) /\ DOMAIN es = 1..Len(es)
           /\ \A j \in 1..Len(es) : es[j].length \in Nat /\ es[j].length > 0 /\ es[j].offset \in Nat
<1> DEFINE n == Len(es)
<1>1. n \in Nat /\ DOMAIN es = 1..n /\ \A j \in 1..n : es[j] \in ExtentSet
  OBVIOUS
<1> HIDE DEF n
<1>2. \A j \in 1..n : es[j].length \in Nat /\ es[j].length > 0 /\ es[j].offset \in Nat
  BY <1>1 DEF ExtentSet
<1> QED
  BY <1>1, <1>2 DEF Lengthy, n

LEMMA PackedInOrder ==
    ASSUME NEW C, NEW pool \in Seq(C), NEW es \in Seq(ExtentSet),
           \A j \in DOMAIN es : InPool(pool, es[j])
    PROVE  InOrder(Content(pool, es), pool, es)
<1> DEFINE n == Len(es)  F == [j \in 1..n |-> Frag(es[j].offset, es[j].length, FALSE)]
           S == Slices(pool, F)  P == Content(pool, es)
<1>1. /\ n \in Nat /\ Lengthy(es, n) /\ DOMAIN es = 1..n
      /\ \A j \in 1..n : es[j].length \in Nat /\ es[j].length > 0 /\ es[j].offset \in Nat
  BY ExtentLengths
<1> HIDE DEF n
<1>2. \A j \in 1..n : /\ F[j] \in FragSet /\ F[j].offset = es[j].offset /\ F[j].length = es[j].length
  BY <1>1 DEF Frag, FragSet
<1>3. F = [j \in 1..n |-> F[j]] /\ DOMAIN F = 1..n
  OBVIOUS
<1> HIDE DEF F
<1>4. F \in Seq(FragSet) /\ Len(F) = n
  BY <1>1, <1>2, <1>3, FunSeq
<1>5. FragsIn(pool, F)
  BY <1>1, <1>2, <1>3 DEF FragsIn, InPool
<1>6. P = Content(pool, F)
  <2>1. DOMAIN F = DOMAIN es /\ \A k \in DOMAIN F : Slice(pool, F[k]) = Slice(pool, es[k])
    BY <1>1, <1>2, <1>3 DEF Slice
  <2> QED
    BY <2>1, ContentSame
<1>7. \A k \in 0..n : Before(F, k) = Before(es, k)
  BY <1>1, <1>2, BeforeSame
<1>8. /\ S \in Seq(Seq(Byte)) /\ Len(S) = n /\ P = FlattenSeq(S) /\ P \in Seq(Byte)
      /\ \A k \in 1..n : S[k] = Slice(pool, F[k])
  BY <1>4, <1>5, <1>6, SlicesAre
<1>9. \A k \in 0..n : Len(Upto(S, k)) = Before(es, k)
  BY <1>4, <1>5, <1>7, ContentLen
<1> HIDE DEF S, P
<1>10. Len(P) = Before(es, n)
  <2>1. Upto(S, n) = P
    BY <1>8, UptoAll
  <2>2. n \in 0..n
    BY <1>1
  <2> QED
    BY <2>1, <2>2, <1>9
<1>11. ASSUME NEW j \in 1..n, NEW i \in 1..es[j].length
       PROVE  /\ Before(es, j - 1) + i \in 1..Len(P)
              /\ P[Before(es, j - 1) + i] = pool[es[j].offset + i]
  <2>1. InPool(pool, F[j])
    BY <1>3, <1>5 DEF FragsIn
  <2>2. Len(S[j]) = es[j].length /\ S[j][i] = pool[es[j].offset + i]
    <3> DEFINE f == F[j]
    <3>1. f \in FragSet /\ f.offset = es[j].offset /\ f.length = es[j].length /\ InPool(pool, f)
      BY <2>1, <1>2
    <3>2. S[j] = Slice(pool, f)
      BY <1>8
    <3> HIDE DEF f
    <3>3. Len(Slice(pool, f)) = f.length /\ \A g \in 1..f.length : Slice(pool, f)[g] = pool[f.offset + g]
      BY <3>1, SliceIs
    <3> QED
      BY <3>1, <3>2, <3>3
  <2>3. /\ Len(Upto(S, j - 1)) + i \in 1..Len(FlattenSeq(S))
        /\ FlattenSeq(S)[Len(Upto(S, j - 1)) + i] = S[j][i]
    <3>1. j \in 1..Len(S) /\ i \in 1..Len(S[j]) /\ S \in Seq(Seq(Byte))
      BY <2>2, <1>8
    <3> QED
      BY ONLY <3>1, FlattenAt
  <2>4. j - 1 \in 0..n
    BY <1>1
  <2>5. Len(Upto(S, j - 1)) = Before(es, j - 1)
    BY <2>4, <1>9
  <2> QED
    BY <2>2, <2>3, <2>5, <1>8
<1> QED
  BY <1>8, <1>10, <1>11 DEF InOrder, P, n

\* new gives every extent of E a place in pool2, where its bytes are and no others'.
Placed(pool, pool2, E, new) ==
    /\ \A e \in E : /\ new[e] \in Nat /\ new[e] + e.length <= Len(pool2)
                    /\ \A i \in 1..e.length : pool2[new[e] + i] = pool[e.offset + i]
    /\ \A e, g \in E : e # g => new[e] + e.length <= new[g] \/ new[g] + g.length <= new[e]

\* Where Relocated puts the j-th extent.
LEMMA RelocatedAt ==
    ASSUME NEW inners, NEW base, NEW es, es = Extents(inners), OnceEach(es), NEW j \in DOMAIN es
    PROVE  es[j] \in ToSet(es) /\ Relocated(inners, base)[es[j]] = base + Before(es, j - 1)
<1> DEFINE k == CHOOSE k \in DOMAIN es : es[k] = es[j]
<1>1. es[j] \in ToSet(es)
  BY DEF ToSet
<1>2. k \in DOMAIN es /\ es[k] = es[j]
  BY Zenon
<1>3. k = j
  BY <1>2 DEF OnceEach
<1>4. Relocated(inners, base)[es[j]] = base + Before(es, k - 1)
  BY <1>1, Zenon DEF Relocated
<1> HIDE DEF k
<1> QED
  BY <1>1, <1>3, <1>4

LEMMA RelocatedPlaced ==
    ASSUME NEW inners, NEW es \in Seq(ExtentSet), es = Extents(inners), OnceEach(es),
           NEW pool, NEW pool2, NEW packed, InOrder(packed, pool, es), NEW base \in Nat,
           NEW w \in Nat, w = Len(pool2), base + Len(packed) <= w,
           \A i \in 1..Len(packed) : pool2[base + i] = packed[i]
    PROVE  Placed(pool, pool2, ToSet(es), Relocated(inners, base))
<1> DEFINE n == Len(es)  new == Relocated(inners, base)  h(k) == Before(es, k)  m == Len(packed)
<1>1. /\ n \in Nat /\ Lengthy(es, n) /\ DOMAIN es = 1..n
      /\ \A j \in 1..n : es[j].length \in Nat /\ es[j].length > 0 /\ es[j].offset \in Nat
  BY ExtentLengths
<1> HIDE DEF n
<1>2. (\A k \in 0..n : h(k) \in Nat) /\ \A k \in 1..n : h(k) = h(k - 1) + es[k].length
  BY <1>1, BeforeIs
<1>3. /\ m = h(n) /\ m \in Nat
      /\ \A j \in 1..n : \A i \in 1..es[j].length :
            /\ h(j - 1) + i \in 1..m
            /\ packed[h(j - 1) + i] = pool[es[j].offset + i]
  <2>1. packed \in Seq(Byte)
    BY DEF InOrder
  <2> QED
    BY <2>1 DEF InOrder, n
<1>4. \A j \in 1..n : new[es[j]] = base + h(j - 1)
  BY <1>1, RelocatedAt
<1>5. \A i \in 0..n : \A j \in i..n : h(i) <= h(j)
  BY <1>1, BeforeGrows
<1>6. base + m <= w /\ \A i \in 1..m : pool2[base + i] = packed[i]
  OBVIOUS
<1> HIDE DEF h, new, m
<1>7. \A e \in ToSet(es) : \E j \in 1..n : e = es[j]
  BY <1>1 DEF ToSet
<1>8. ASSUME NEW j \in 1..n
      PROVE  /\ new[es[j]] \in Nat /\ new[es[j]] + es[j].length <= w
             /\ new[es[j]] + es[j].length = base + h(j)
             /\ \A i \in 1..es[j].length : pool2[new[es[j]] + i] = pool[es[j].offset + i]
  <2> DEFINE l == es[j].length  o == h(j - 1)  p == h(j)  q == new[es[j]]
  <2>1. j - 1 \in 0..n /\ j \in 0..n /\ n \in j..n
    BY <1>1
  <2>2. o \in Nat /\ p = o + l /\ p <= m /\ l \in Nat /\ q = base + o /\ m \in Nat
    BY <2>1, <1>1, <1>2, <1>3, <1>4, <1>5
  <2>3. \A i \in 1..l : o + i \in 1..m /\ packed[o + i] = pool[es[j].offset + i]
    BY <1>3
  <2> HIDE DEF l, o, p, q
  <2>4. q \in Nat /\ q + l = base + p /\ q + l <= w
    <3>1. base + m <= w
      BY <1>6
    <3> QED
      BY ONLY <2>2, <3>1, base \in Nat, w \in Nat
  <2>5. ASSUME NEW i \in 1..l
        PROVE  pool2[q + i] = pool[es[j].offset + i]
    <3>1. q + i = base + (o + i)
      BY ONLY <2>2, i \in 1..l, base \in Nat
    <3> QED
      BY <3>1, <2>3, <1>6
  <2> QED
    BY <2>4, <2>5 DEF l, o, p, q
<1>9. ASSUME NEW i \in 1..n, NEW j \in 1..n, i < j
      PROVE  new[es[i]] + es[i].length <= new[es[j]]
  <2>1. i \in 0..n /\ j - 1 \in i..n
    BY <1>1, <1>9
  <2>2. h(i) <= h(j - 1)
    BY <2>1, <1>5
  <2>3. new[es[i]] + es[i].length = base + h(i) /\ new[es[j]] = base + h(j - 1)
    BY <1>4, <1>8
  <2>4. h(i) \in Nat /\ h(j - 1) \in Nat
    <3>1. j - 1 \in 0..n
      BY <1>1
    <3> QED
      BY <3>1, <2>1, <1>2
  <2> DEFINE p == h(i)  q == h(j - 1)
  <2> HIDE DEF p, q
  <2>5. base + p <= base + q
    BY <2>2, <2>4 DEF p, q
  <2> QED
    BY <2>3, <2>5 DEF p, q
<1>10. \A e \in ToSet(es) : /\ new[e] \in Nat /\ new[e] + e.length <= w
                            /\ \A i \in 1..e.length : pool2[new[e] + i] = pool[e.offset + i]
  BY <1>7, <1>8
<1>11. ASSUME NEW e \in ToSet(es), NEW g \in ToSet(es), e # g
       PROVE  new[e] + e.length <= new[g] \/ new[g] + g.length <= new[e]
  <2>1. PICK i \in 1..n : e = es[i]
    BY <1>7
  <2>2. PICK j \in 1..n : g = es[j]
    BY <1>7
  <2>3. i < j \/ j < i
    BY <2>1, <2>2, <1>1, <1>11
  <2> QED
    BY <2>1, <2>2, <2>3, <1>9
<1> QED
  BY <1>10, <1>11 DEF Placed, new

\* The rows S are the rows R with every fragment where new puts its extent.
MovedBy(R, S, new) ==
    /\ S \in Rows /\ DOMAIN S = DOMAIN R
    /\ \A k \in DOMAIN R : DOMAIN S[k] = DOMAIN R[k] /\ \A i \in DOMAIN R[k] :
        S[k][i].offset = new[Extent(R[k][i])] /\ S[k][i].length = R[k][i].length
\* ... with no flag lost on an extent that is referred to twice.
FlagsStay(R, S) ==
    \A k, l \in DOMAIN R : \A i \in DOMAIN R[k], j \in DOMAIN R[l] :
        (k # l \/ i # j) /\ Extent(R[k][i]) = Extent(R[l][j]) /\ R[k][i].shared => S[k][i].shared
SameSlices(pool, pool2, R, S) ==
    /\ \A k \in DOMAIN R : \A i \in DOMAIN R[k] : Slice(pool2, S[k][i]) = Slice(pool, R[k][i])
    /\ \A k \in DOMAIN R : Content(pool2, S[k]) = Content(pool, R[k])
ExtentsOf(R) == UNION {{Extent(R[k][i]) : i \in DOMAIN R[k]} : k \in DOMAIN R}

LEMMA MovedSlice ==
    ASSUME NEW C, NEW pool \in Seq(C), NEW C2, NEW pool2 \in Seq(C2), NEW f \in FragSet,
           InPool(pool, f), NEW g \in FragSet, g.length = f.length,
           g.offset + g.length <= Len(pool2),
           \A i \in 1..f.length : pool2[g.offset + i] = pool[f.offset + i]
    PROVE  InPool(pool2, g) /\ Slice(pool2, g) = Slice(pool, f)
<1> DEFINE l == f.length  u == Slice(pool, f)  v == Slice(pool2, g)
<1>1. InPool(pool2, g)
  BY DEF InPool
<1>2. u \in Seq(Byte) /\ Len(u) = l /\ \A i \in 1..l : u[i] = pool[f.offset + i]
  BY SliceIs
<1>3. v \in Seq(Byte) /\ Len(v) = g.length /\ \A i \in 1..g.length : v[i] = pool2[g.offset + i]
  BY <1>1, SliceIs
<1> HIDE DEF u, v
<1>4. Len(v) = l /\ \A i \in 1..l : v[i] = u[i]
  BY <1>2, <1>3
<1>5. l \in Nat
  BY FragIs
<1> HIDE DEF l
<1>6. v = u
  BY <1>2, <1>3, <1>4, SeqSame
<1> QED
  BY <1>1, <1>6 DEF u, v

LEMMA PlacedApart ==
    ASSUME NEW pool, NEW pool2, NEW E, NEW new, Placed(pool, pool2, E, new),
           NEW f \in FragSet, NEW g \in FragSet, Extent(f) \in E, Extent(g) \in E,
           NEW u \in FragSet, u.offset = new[Extent(f)], u.length = f.length,
           NEW v \in FragSet, v.offset = new[Extent(g)], v.length = g.length, Overlap(u, v)
    PROVE  Extent(f) = Extent(g)
<1> DEFINE d == Extent(f)  e == Extent(g)  o == u.offset  p == v.offset  l == f.length  m == g.length
<1>1. d.length = l /\ e.length = m
  BY ExtentIs
<1>2. o \in Nat /\ p \in Nat /\ l \in Nat /\ m \in Nat
  BY FragIs
<1>3. o < p + m /\ p < o + l
  BY DEF Overlap
<1>4. d # e => o + l <= p \/ p + m <= o
  <2> HIDE DEF d, e
  <2>1. d # e => new[d] + d.length <= new[e] \/ new[e] + e.length <= new[d]
    BY DEF Placed, d, e
  <2>2. new[d] = o /\ new[e] = p
    BY DEF d, e
  <2> QED
    BY <2>1, <2>2, <1>1
<1> HIDE DEF o, p, l, m, d, e
<1>5. d = e
  BY ONLY <1>2, <1>3, <1>4
<1> QED
  BY <1>5 DEF d, e

LEMMA ExtentsHere ==
    ASSUME NEW R, NEW k \in DOMAIN R, NEW i \in DOMAIN R[k]
    PROVE  Extent(R[k][i]) \in ExtentsOf(R)
BY DEF ExtentsOf

LEMMA MovedRows ==
    ASSUME NEW C, NEW pool \in Seq(C), NEW C2, NEW pool2 \in Seq(C2), NEW R \in Rows, Good(pool, R),
           NEW S, NEW new, NEW E, Placed(pool, pool2, E, new), ExtentsOf(R) \subseteq E,
           MovedBy(R, S, new), FlagsStay(R, S)
    PROVE  Good(pool2, S) /\ SameSlices(pool, pool2, R, S)
<1>1. /\ S \in Rows /\ DOMAIN S = DOMAIN R
      /\ \A k \in DOMAIN R : DOMAIN S[k] = DOMAIN R[k]
      /\ \A k \in DOMAIN R : \A i \in DOMAIN R[k] :
            S[k][i].offset = new[Extent(R[k][i])] /\ S[k][i].length = R[k][i].length
  BY DEF MovedBy
<1>2. \A k \in DOMAIN R : \A i \in DOMAIN R[k] : R[k][i] \in FragSet /\ S[k][i] \in FragSet
  BY <1>1, RowsAre
<1>3. \A k \in DOMAIN R : \A i \in DOMAIN R[k] : InPool(pool, R[k][i])
  BY DEF Good, Pooled, FragsIn
<1>4. \A k \in DOMAIN R : \A i \in DOMAIN R[k] : Extent(R[k][i]) \in E
  BY ExtentsHere
<1>5. ASSUME NEW k \in DOMAIN R, NEW i \in DOMAIN R[k]
      PROVE  InPool(pool2, S[k][i]) /\ Slice(pool2, S[k][i]) = Slice(pool, R[k][i])
  <2> DEFINE f == R[k][i]  g == S[k][i]  e == Extent(f)
  <2>1. f \in FragSet /\ g \in FragSet /\ InPool(pool, f) /\ e \in E
        /\ g.offset = new[e] /\ g.length = f.length
    BY <1>1, <1>2, <1>3, <1>4
  <2> HIDE DEF f, g
  <2>2. e.offset = f.offset /\ e.length = f.length
    BY <2>1, ExtentIs
  <2> HIDE DEF e
  <2>3. /\ new[e] + e.length <= Len(pool2)
        /\ \A j \in 1..e.length : pool2[new[e] + j] = pool[e.offset + j]
    BY <2>1 DEF Placed
  <2>4. g.offset + g.length <= Len(pool2)
        /\ \A j \in 1..f.length : pool2[g.offset + j] = pool[f.offset + j]
    BY <2>1, <2>2, <2>3
  <2>5. InPool(pool2, g) /\ Slice(pool2, g) = Slice(pool, f)
    BY <2>1, <2>4, MovedSlice
  <2> QED
    BY <2>5 DEF f, g
<1>6. ASSUME NEW k \in DOMAIN R, NEW l \in DOMAIN R, NEW i \in DOMAIN R[k], NEW j \in DOMAIN R[l],
             Overlap(S[k][i], S[l][j])
      PROVE  Extent(R[k][i]) = Extent(R[l][j])
  <2> DEFINE f == R[k][i]  g == R[l][j]  u == S[k][i]  v == S[l][j]
  <2>1. /\ f \in FragSet /\ g \in FragSet /\ u \in FragSet /\ v \in FragSet
        /\ Extent(f) \in E /\ Extent(g) \in E
        /\ u.offset = new[Extent(f)] /\ u.length = f.length
        /\ v.offset = new[Extent(g)] /\ v.length = g.length /\ Overlap(u, v)
    BY <1>1, <1>2, <1>4, <1>6
  <2> HIDE DEF f, g, u, v
  <2>2. Extent(f) = Extent(g)
    BY <2>1, PlacedApart
  <2> QED
    BY <2>2 DEF f, g
<1>7. ASSUME NEW k \in DOMAIN R, NEW l \in DOMAIN R, NEW i \in DOMAIN R[k], NEW j \in DOMAIN R[l],
             k # l \/ i # j, Overlap(S[k][i], S[l][j])
      PROVE  S[k][i].shared
  <2>1. Extent(R[k][i]) = Extent(R[l][j])
    BY <1>6, <1>7
  <2>2. Overlap(R[k][i], R[l][j])
    <3> DEFINE f == R[k][i]  g == R[l][j]
    <3>1. f.offset = g.offset /\ f.length = g.length
      BY <2>1 DEF Extent
    <3>2. g.offset \in Nat /\ g.length \in Nat /\ g.length > 0
      BY <1>2, FragIs
    <3> DEFINE o == g.offset  m == g.length
    <3>3. o < o + m
      <4> HIDE DEF o, m
      <4> QED
        BY <3>2 DEF o, m
    <3> QED
      BY <3>1, <3>3 DEF Overlap
  <2>3. R[k][i].shared
    <3>1. CASE k = l
      BY <3>1, <2>2, <1>7 DEF Good, Marked, SelfMarked
    <3>2. CASE k # l
      BY <3>2, <2>2 DEF Good, Marked, CrossMarked
    <3> QED
      BY <3>1, <3>2
  <2> QED
    BY <2>1, <2>3, <1>7 DEF FlagsStay
<1>8. \A k \in DOMAIN S : SelfMarked(S[k])
  <2> SUFFICES ASSUME NEW k \in DOMAIN S, NEW i \in DOMAIN S[k], NEW j \in DOMAIN S[k],
                      i # j, Overlap(S[k][i], S[k][j])
               PROVE  S[k][i].shared
    BY DEF SelfMarked
  <2> QED
    BY <1>1, <1>7
<1>9. \A k, l \in DOMAIN S : k # l => CrossMarked(S[k], S[l])
  <2> SUFFICES ASSUME NEW k \in DOMAIN S, NEW l \in DOMAIN S, k # l,
                      NEW i \in DOMAIN S[k], NEW j \in DOMAIN S[l], Overlap(S[k][i], S[l][j])
               PROVE  S[k][i].shared /\ S[l][j].shared
    BY DEF CrossMarked
  <2>1. Overlap(S[l][j], S[k][i])
    BY OverlapBoth
  <2> QED
    BY <2>1, <1>1, <1>7
<1>10. Pooled(pool2, S)
  BY <1>1, <1>5 DEF Pooled, FragsIn
<1>11. \A k \in DOMAIN R : Content(pool2, S[k]) = Content(pool, R[k])
  <2> SUFFICES ASSUME NEW k \in DOMAIN R
               PROVE  Content(pool2, S[k]) = Content(pool, R[k])
    OBVIOUS
  <2>1. \A i \in DOMAIN S[k] : Slice(pool2, S[k][i]) = Slice(pool, R[k][i])
    BY <1>1, <1>5
  <2> QED
    BY <2>1, <1>1, ContentSame
<1> QED
  BY <1>5, <1>8, <1>9, <1>10, <1>11 DEF Good, Marked, SameSlices

-----------------------------------------------------------------------------
(* compact: what is left is the extents that are in use, one after another.*)

\* An extent that two fragments refer to is nobody's own.
LEMMA NotPrivate ==
    ASSUME NEW inners \in Seq(InnerSet), NEW R, R = RowsOf(inners),
           NEW k \in DOMAIN R, NEW l \in DOMAIN R, NEW i \in DOMAIN R[k], NEW j \in DOMAIN R[l],
           k # l \/ i # j, Extent(R[k][i]) = Extent(R[l][j])
    PROVE  ~Private(inners, R[k][i])
<1>1. R \in Rows /\ AllFrags(inners) = FlattenSeq(R)
  BY InnersAre, AllFragsIs
<1>2. R \in Seq(Seq(FragSet))
  BY <1>1 DEF Rows
<1>20. Len(R) \in Nat /\ DOMAIN R = 1..Len(R)
  BY <1>1, RowsAre
<1> DEFINE x == Len(Upto(R, k - 1)) + i  y == Len(Upto(R, l - 1)) + j  all == AllFrags(inners)
<1>3. /\ x \in DOMAIN all /\ all[x] = R[k][i]
      /\ y \in DOMAIN all /\ all[y] = R[l][j]
  BY <1>1, <1>2, FlatPlaces
<1>4. k \in 1..Len(R) /\ l \in 1..Len(R) /\ k - 1 \in 0..Len(R) /\ l - 1 \in 0..Len(R)
  <2> DEFINE n == Len(R)
  <2>1. n \in Nat /\ k \in 1..n /\ l \in 1..n
    BY <1>20
  <2> HIDE DEF n
  <2>2. k - 1 \in 0..n /\ l - 1 \in 0..n
    BY ONLY <2>1
  <2> QED
    BY <2>1, <2>2 DEF n
<1>5. Len(Upto(R, k - 1)) \in Nat /\ Len(Upto(R, l - 1)) \in Nat
  BY <1>4, <1>2, UptoType
<1>6. i \in Nat /\ j \in Nat
  BY <1>1, RowsAre
<1>7. x # y
  <2>1. CASE k = l
    BY <2>1, <1>5, <1>6
  <2>2. CASE k < l
    <3>1. x < y
      BY <2>2, <1>2, PlacesDiffer
    <3>2. x \in Int /\ y \in Int
      BY <1>5, <1>6
    <3> HIDE DEF x, y
    <3> QED
      BY <3>1, <3>2
  <2>3. CASE l < k
    <3>1. y < x
      BY <2>3, <1>2, PlacesDiffer
    <3>2. x \in Int /\ y \in Int
      BY <1>5, <1>6
    <3> HIDE DEF x, y
    <3> QED
      BY <3>1, <3>2
  <2> QED
    BY <2>1, <2>2, <2>3, <1>4
<1> HIDE DEF x, y
<1> QED
  BY <1>3, <1>7 DEF Private

\* Where an extent goes and how it is marked.
MovedFrag(inners, new, f) ==
    Frag(new[Extent(f)], f.length, f.shared /\ ~Private(inners, f))
CompactRow(inners, new, r) == [j \in DOMAIN r |-> MovedFrag(inners, new, r[j])]
CompactInner(inners, new, p) == [p EXCEPT !.frags = CompactRow(inners, new, p.frags)]

LEMMA CompactParts ==
    ASSUME NEW x, NEW new, new = Relocated(x.inners, 0)
    PROVE  /\ Compact(x).blob = Packed(x)
           /\ Compact(x).inners =
                [k \in DOMAIN x.inners |-> CompactInner(x.inners, new, x.inners[k])]
BY DEF Compact, CompactInner, CompactRow, MovedFrag, Arena

\* What is there of an arena that a list of extents is laid out from.
LEMMA ExtentsPooled ==
    ASSUME NEW pool, NEW R \in Rows, Pooled(pool, R), NEW es, Listed(es, R)
    PROVE  /\ \A j \in DOMAIN es : InPool(pool, es[j])
           /\ ExtentsOf(R) \subseteq ToSet(es)
<1>1. ASSUME NEW j \in DOMAIN es
      PROVE  InPool(pool, es[j])
  <2>1. PICK k \in DOMAIN R : \E i \in DOMAIN R[k] : es[j] = Extent(R[k][i])
    BY DEF Listed
  <2>2. PICK i \in DOMAIN R[k] : es[j] = Extent(R[k][i])
    BY <2>1
  <2>3. R[k][i] \in FragSet /\ InPool(pool, R[k][i])
    BY PooledIs
  <2>4. es[j].offset = R[k][i].offset /\ es[j].length = R[k][i].length
    BY <2>2, <2>3, ExtentIs
  <2> QED
    BY <2>3, <2>4 DEF InPool
<1>2. ASSUME NEW e \in ExtentsOf(R)
      PROVE  e \in ToSet(es)
  <2>1. PICK k \in DOMAIN R : \E i \in DOMAIN R[k] : e = Extent(R[k][i])
    BY DEF ExtentsOf
  <2>2. \E j \in DOMAIN es : es[j] = e
    BY <2>1 DEF Listed
  <2> QED
    BY <2>2 DEF ToSet
<1> QED
  BY <1>1, <1>2

\* What is in the list of extents is somewhere in the file.
LEMMA LaidOut ==
    ASSUME NEW C, NEW pool \in Seq(C), NEW inners \in Seq(InnerSet), NEW R, R = RowsOf(inners),
           Good(pool, R), NEW es, es = Extents(inners), NEW packed, packed = Content(pool, es),
           NEW pool2, NEW w \in Nat, w = Len(pool2),
           NEW base \in Nat, base + Len(packed) <= w,
           \A i \in 1..Len(packed) : pool2[base + i] = packed[i]
    PROVE  /\ Listed(es, R) /\ InOrder(packed, pool, es)
           /\ Placed(pool, pool2, ToSet(es), Relocated(inners, base))
           /\ ExtentsOf(R) \subseteq ToSet(es)
<1>1. R \in Rows /\ Listed(es, R) /\ Pooled(pool, R)
  BY InnersAre, ExtentsAre DEF Good
<1>2. es \in Seq(ExtentSet) /\ OnceEach(es)
  BY <1>1 DEF Listed
<1>3. (\A j \in DOMAIN es : InPool(pool, es[j])) /\ ExtentsOf(R) \subseteq ToSet(es)
  BY <1>1, ExtentsPooled
<1>4. InOrder(packed, pool, es)
  BY <1>2, <1>3, PackedInOrder
<1>5. Placed(pool, pool2, ToSet(es), Relocated(inners, base))
  BY <1>2, <1>4, RelocatedPlaced
<1> QED
  BY <1>1, <1>3, <1>4, <1>5

LEMMA MovedFragIs ==
    ASSUME NEW inners, NEW new, NEW f \in FragSet, new[Extent(f)] \in Nat
    PROVE  /\ MovedFrag(inners, new, f) \in FragSet
           /\ MovedFrag(inners, new, f).offset = new[Extent(f)]
           /\ MovedFrag(inners, new, f).length = f.length
           /\ MovedFrag(inners, new, f).shared <=> f.shared /\ ~Private(inners, f)
<1>1. f.length \in Nat \ {0} /\ f.shared \in BOOLEAN
  BY DEF FragSet
<1> DEFINE o == new[Extent(f)]  s == f.shared /\ ~Private(inners, f)
<1>2. o \in Nat /\ s \in BOOLEAN
  BY <1>1
<1>3. MovedFrag(inners, new, f) = [offset |-> o, length |-> f.length, shared |-> s]
  BY DEF MovedFrag, Frag
<1> HIDE DEF o, s
<1>4. /\ MovedFrag(inners, new, f) \in FragSet
      /\ MovedFrag(inners, new, f).offset = o
      /\ MovedFrag(inners, new, f).length = f.length
      /\ MovedFrag(inners, new, f).shared = s
  BY <1>1, <1>2, <1>3 DEF FragSet
<1> QED
  BY <1>4 DEF o, s

LEMMA CompactRowIs ==
    ASSUME NEW inners, NEW new, NEW r \in Seq(FragSet),
           \A i \in DOMAIN r : new[Extent(r[i])] \in Nat
    PROVE  /\ CompactRow(inners, new, r) \in Seq(FragSet)
           /\ Len(CompactRow(inners, new, r)) = Len(r)
           /\ DOMAIN CompactRow(inners, new, r) = DOMAIN r
           /\ \A i \in DOMAIN r :
                CompactRow(inners, new, r)[i] = MovedFrag(inners, new, r[i])
<1> DEFINE s == CompactRow(inners, new, r)  m == Len(r)
<1>1. m \in Nat /\ DOMAIN r = 1..m /\ \A i \in DOMAIN r : r[i] \in FragSet
  BY FragsLengthy
<1>2. DOMAIN s = DOMAIN r /\ \A i \in DOMAIN r : s[i] = MovedFrag(inners, new, r[i])
  BY DEF CompactRow
<1>3. \A i \in 1..m : s[i] \in FragSet
  BY <1>1, <1>2, MovedFragIs
<1>4. s = [i \in 1..m |-> s[i]]
  BY <1>1, <1>2 DEF CompactRow
<1> HIDE DEF s, m
<1>5. s \in Seq(FragSet) /\ Len(s) = m /\ DOMAIN s = 1..m
  BY ONLY <1>1, <1>3, <1>4, FunSeq
<1> QED
  BY <1>1, <1>2, <1>5 DEF s, m

\* The fragments of a compacted arena, one by one.
Compacted(inners, new, q) ==
    /\ q \in Seq(InnerSet) /\ Len(q) = Len(inners) /\ DOMAIN q = DOMAIN inners
    /\ \A k \in DOMAIN inners :
        /\ q[k].uid = inners[k].uid /\ q[k].algo = inners[k].algo
        /\ Len(q[k].frags) = Len(inners[k].frags)
        /\ DOMAIN q[k].frags = DOMAIN inners[k].frags
        /\ \A i \in DOMAIN inners[k].frags :
            q[k].frags[i] = MovedFrag(inners, new, inners[k].frags[i])

LEMMA CompactedIs ==
    ASSUME NEW inners \in Seq(InnerSet), NEW new,
           \A k \in DOMAIN inners : \A i \in DOMAIN inners[k].frags :
                new[Extent(inners[k].frags[i])] \in Nat,
           NEW q, q = [k \in DOMAIN inners |-> CompactInner(inners, new, inners[k])]
    PROVE  Compacted(inners, new, q)
<1> DEFINE m == Len(inners)  row(k) == CompactRow(inners, new, inners[k].frags)
<1>1. m \in Nat /\ DOMAIN inners = 1..m
  BY InnersAre
<1>2. ASSUME NEW k \in DOMAIN inners
      PROVE  /\ q[k] \in InnerSet /\ q[k].uid = inners[k].uid /\ q[k].algo = inners[k].algo
             /\ q[k].frags = row(k)
             /\ Len(row(k)) = Len(inners[k].frags) /\ DOMAIN row(k) = DOMAIN inners[k].frags
             /\ \A i \in DOMAIN inners[k].frags :
                    row(k)[i] = MovedFrag(inners, new, inners[k].frags[i])
  <2>1. inners[k] \in InnerSet /\ inners[k].frags \in Seq(FragSet)
    BY InnersAre
  <2>2. /\ row(k) \in Seq(FragSet)
        /\ Len(row(k)) = Len(inners[k].frags) /\ DOMAIN row(k) = DOMAIN inners[k].frags
        /\ \A i \in DOMAIN inners[k].frags :
                row(k)[i] = MovedFrag(inners, new, inners[k].frags[i])
    <3> DEFINE r == inners[k].frags
    <3>1. r \in Seq(FragSet) /\ \A i \in DOMAIN r : new[Extent(r[i])] \in Nat
      BY <2>1
    <3> HIDE DEF r
    <3>2. /\ CompactRow(inners, new, r) \in Seq(FragSet)
          /\ Len(CompactRow(inners, new, r)) = Len(r)
          /\ DOMAIN CompactRow(inners, new, r) = DOMAIN r
          /\ \A i \in DOMAIN r :
                CompactRow(inners, new, r)[i] = MovedFrag(inners, new, r[i])
      BY <3>1, CompactRowIs
    <3> QED
      BY <3>2 DEF r
  <2>3. q[k] = [inners[k] EXCEPT !.frags = row(k)]
    BY DEF CompactInner
  <2>4. /\ q[k] \in InnerSet /\ q[k].uid = inners[k].uid /\ q[k].algo = inners[k].algo
        /\ q[k].frags = row(k)
    <3> DEFINE p == inners[k]  r == row(k)
    <3>1. p \in InnerSet /\ r \in Seq(FragSet)
      BY <2>1, <2>2
    <3>3. q[k] = [p EXCEPT !.frags = r]
      BY <2>3
    <3> HIDE DEF p, r
    <3>4. /\ [p EXCEPT !.frags = r] \in InnerSet
          /\ [p EXCEPT !.frags = r].uid = p.uid /\ [p EXCEPT !.frags = r].algo = p.algo
          /\ [p EXCEPT !.frags = r].frags = r
      BY ONLY <3>1, InnerWith, Zenon
    <3>2. q[k] \in InnerSet /\ q[k].uid = p.uid /\ q[k].algo = p.algo /\ q[k].frags = r
      BY ONLY <3>3, <3>4
    <3> QED
      BY <3>2 DEF p, r
  <2> QED
    BY <2>2, <2>4
<1> HIDE DEF row
<1>3. q = [k \in 1..m |-> q[k]] /\ \A k \in 1..m : q[k] \in InnerSet
  BY <1>1, <1>2
<1> HIDE DEF m
<1>4. q \in Seq(InnerSet) /\ Len(q) = m /\ DOMAIN q = 1..m
  BY ONLY <1>1, <1>3, FunSeq
<1> QED
  BY <1>1, <1>2, <1>4 DEF Compacted, m

\* A compacted list of inner partitions is the old one moved, with no flag lost.
LEMMA CompactMoves ==
    ASSUME NEW inners \in Seq(InnerSet), NEW R, R = RowsOf(inners), NEW new, NEW q,
           Compacted(inners, new, q), NEW S, S = RowsOf(q),
           \A k \in DOMAIN inners : \A i \in DOMAIN inners[k].frags :
                new[Extent(inners[k].frags[i])] \in Nat
    PROVE  MovedBy(R, S, new) /\ FlagsStay(R, S)
<1>1. /\ q \in Seq(InnerSet) /\ DOMAIN q = DOMAIN inners
      /\ \A k \in DOMAIN inners :
            /\ DOMAIN q[k].frags = DOMAIN inners[k].frags
            /\ \A i \in DOMAIN inners[k].frags :
                q[k].frags[i] = MovedFrag(inners, new, inners[k].frags[i])
  BY DEF Compacted
<1>2. R \in Rows /\ DOMAIN R = DOMAIN inners /\ \A k \in DOMAIN inners : R[k] = inners[k].frags
  BY InnersAre DEF RowsOf
<1>3. S \in Rows /\ DOMAIN S = DOMAIN R /\ \A k \in DOMAIN inners : S[k] = q[k].frags
  BY <1>1, <1>2, InnersAre DEF RowsOf
<1>4. \A k \in DOMAIN R : DOMAIN S[k] = DOMAIN R[k] /\ \A i \in DOMAIN R[k] :
        /\ R[k][i] \in FragSet /\ new[Extent(R[k][i])] \in Nat
        /\ S[k][i] = MovedFrag(inners, new, R[k][i])
  BY <1>1, <1>2, <1>3, RowsAre
<1>5. \A k \in DOMAIN R : \A i \in DOMAIN R[k] :
        /\ S[k][i].offset = new[Extent(R[k][i])]
        /\ S[k][i].length = R[k][i].length
        /\ S[k][i].shared <=> R[k][i].shared /\ ~Private(inners, R[k][i])
  BY <1>4, MovedFragIs
<1>6. MovedBy(R, S, new)
  BY <1>3, <1>4, <1>5 DEF MovedBy
<1>7. FlagsStay(R, S)
  <2> SUFFICES ASSUME NEW k \in DOMAIN R, NEW l \in DOMAIN R,
                      NEW i \in DOMAIN R[k], NEW j \in DOMAIN R[l],
                      k # l \/ i # j, Extent(R[k][i]) = Extent(R[l][j]), R[k][i].shared
               PROVE  S[k][i].shared
    BY DEF FlagsStay
  <2>1. ~Private(inners, R[k][i])
    BY NotPrivate
  <2> QED
    BY <2>1, <1>5
<1> QED
  BY <1>6, <1>7

\* What every operation that is only about the pool keeps.
Preserved(D, x, y) ==
    /\ y \in ArenaSet(D) /\ Good(y.blob, RowsOf(y.inners)) /\ Kept(x, y)
    /\ DOMAIN y.inners = DOMAIN x.inners

\* Everything a compacted arena is, and where it comes from.
CompactedFrom(x, y, es, new) ==
    /\ es = Extents(x.inners) /\ new = Relocated(x.inners, 0)
    /\ Listed(es, RowsOf(x.inners)) /\ InOrder(y.blob, x.blob, es)
    /\ Compacted(x.inners, new, y.inners)
    /\ MovedBy(RowsOf(x.inners), RowsOf(y.inners), new)

LEMMA CompactIs ==
    ASSUME NEW D, Byte \subseteq D, NEW x \in ArenaSet(D), Good(x.blob, RowsOf(x.inners)),
           NEW y, y = Compact(x)
    PROVE  /\ Preserved(D, x, y)
           /\ \E es, new : CompactedFrom(x, y, es, new)
<1> DEFINE inners == x.inners  pool == x.blob  R == RowsOf(inners)  es == Extents(inners)
           new == Relocated(inners, 0)  packed == Content(pool, es)  w == Len(packed)
           q == [k \in DOMAIN inners |-> CompactInner(inners, new, inners[k])]  S == RowsOf(q)
<1>1. pool \in Seq(D) /\ inners \in Seq(InnerSet) /\ Good(pool, R)
  BY DEF ArenaSet
<1>2. y.blob = packed /\ y.inners = q
  BY CompactParts DEF Packed
<1>3. y = Arena(x.algo, packed, q) /\ x.algo \in TableAlgo
  BY DEF ArenaSet, Compact, CompactInner, CompactRow, MovedFrag, Packed
<1> HIDE DEF inners, pool, R, es, new, packed, q, S
<1>4. w \in Nat /\ 0 + w <= w /\ \A i \in 1..w : packed[0 + i] = packed[i]
  <2>1. es \in Seq(ExtentSet) /\ \A j \in DOMAIN es : InPool(pool, es[j])
    <3>1. Listed(es, R) /\ R \in Rows /\ Pooled(pool, R)
      BY <1>1, ExtentsAre, InnersAre DEF es, R, Good
    <3> QED
      BY <3>1, ExtentsPooled DEF Listed
  <2>2. packed \in Seq(Byte)
    BY <2>1, <1>1, PackedInOrder DEF InOrder, packed
  <2>3. w \in Nat
    BY <2>2
  <2> HIDE DEF w
  <2> QED
    BY <2>3
<1>5. /\ Listed(es, R) /\ InOrder(packed, pool, es)
      /\ Placed(pool, packed, ToSet(es), new)
      /\ ExtentsOf(R) \subseteq ToSet(es)
  <2> DEFINE o == 0
  <2>1. o \in Nat /\ o + w <= w /\ \A i \in 1..w : packed[o + i] = packed[i]
    BY <1>4
  <2>2. new = Relocated(inners, o)
    BY DEF new
  <2> HIDE DEF o
  <2> QED
    BY <1>1, <1>4, <2>1, <2>2, LaidOut DEF R, es, packed
<1>6. R \in Rows /\ DOMAIN R = DOMAIN inners /\ \A k \in DOMAIN inners : R[k] = inners[k].frags
  BY <1>1, InnersAre DEF RowsOf, R
<1>7. \A k \in DOMAIN inners : \A i \in DOMAIN inners[k].frags :
            new[Extent(inners[k].frags[i])] \in Nat
  <2> SUFFICES ASSUME NEW k \in DOMAIN R, NEW i \in DOMAIN R[k]
               PROVE  new[Extent(R[k][i])] \in Nat
    BY <1>6
  <2>1. Extent(R[k][i]) \in ToSet(es)
    BY <1>5, ExtentsHere
  <2> QED
    BY <2>1, <1>5 DEF Placed
<1>8. Compacted(inners, new, q)
  BY <1>1, <1>7, CompactedIs DEF q
<1>9. MovedBy(R, S, new) /\ FlagsStay(R, S)
  BY <1>1, <1>7, <1>8, CompactMoves DEF R, S
<1>10. packed \in Seq(Byte) /\ packed \in Seq(D)
  BY <1>5 DEF InOrder
<1>11. Good(packed, S) /\ SameSlices(pool, packed, R, S)
  BY <1>1, <1>5, <1>6, <1>9, <1>10, MovedRows
<1>12. q \in Seq(InnerSet) /\ Len(q) = Len(inners) /\ DOMAIN q = DOMAIN inners
       /\ \A k \in DOMAIN inners : q[k].uid = inners[k].uid /\ q[k].algo = inners[k].algo
  BY <1>8 DEF Compacted
<1>13. y \in ArenaSet(D)
  BY <1>3, <1>10, <1>12, ArenaIn
<1>14. \A k \in DOMAIN inners : InnerContent(y, k) = InnerContent(x, k)
  <2> SUFFICES ASSUME NEW k \in DOMAIN inners
               PROVE  InnerContent(y, k) = InnerContent(x, k)
    OBVIOUS
  <2>1. InnerContent(x, k) = Content(pool, R[k])
    BY <1>6 DEF InnerContent, pool, inners
  <2>2. S[k] = q[k].frags
    BY <1>12 DEF S, RowsOf
  <2>3. InnerContent(y, k) = Content(packed, S[k])
    BY <1>2, <2>2 DEF InnerContent
  <2> QED
    BY <2>1, <2>3, <1>6, <1>11 DEF SameSlices
<1>15. Preserved(D, x, y)
  BY <1>2, <1>11, <1>12, <1>13, <1>14 DEF Preserved, Kept, S, inners
<1>16. CompactedFrom(x, y, es, new)
  BY <1>2, <1>5, <1>8, <1>9 DEF CompactedFrom, es, new, inners, R, S, pool
<1> QED
  BY <1>15, <1>16

\* Where a byte of a packed pool lies.
LEMMA ByteAt ==
    ASSUME NEW es \in Seq(ExtentSet), NEW n \in Nat, n < Before(es, Len(es))
    PROVE  \E j \in 1..Len(es) : Before(es, j - 1) <= n /\ n < Before(es, j - 1) + es[j].length
<1> DEFINE m == Len(es)  T == {j \in Nat : j <= m /\ n < Before(es, j)}
<1>1. m \in Nat /\ Lengthy(es, m) /\ \A j \in 1..m : es[j].length \in Nat
  BY ExtentLengths
<1>2. /\ Before(es, 0) = 0 /\ \A j \in 0..m : Before(es, j) \in Nat
      /\ \A j \in 1..m : Before(es, j) = Before(es, j - 1) + es[j].length
  BY <1>1, BeforeIs
<1>3. m \in T
  BY <1>1
<1>4. T \in SUBSET Nat /\ T # {}
  BY <1>3
<1> DEFINE j == Min(T)
<1>5. j \in T /\ \A t \in T : j <= t
  <2> HIDE DEF T
  <2> QED
    BY <1>4, MinOfNat
<1> HIDE DEF j
<1>6. j \in Nat /\ j <= m /\ n < Before(es, j)
  BY <1>5
<1>7. j # 0
  BY <1>2, <1>6
<1> DEFINE i == j - 1
<1>8. i \in Nat /\ i <= m /\ j \in 1..m /\ i < j
  BY <1>1, <1>6, <1>7
<1>9. i \notin T
  BY <1>5, <1>6, <1>8
<1>10. Before(es, i) <= n
  <2>1. Before(es, i) \in Nat
    BY <1>1, <1>2, <1>8
  <2> QED
    BY <2>1, <1>8, <1>9
<1>11. Before(es, j) = Before(es, i) + es[j].length
  BY <1>2, <1>8
<1> QED
  BY <1>6, <1>8, <1>10, <1>11

\* Every byte of the pool in use, SHARED only where a byte is.
Tight(pool, frags) ==
    /\ \A n \in 0..(Len(pool) - 1) :
            \E f \in ToSet(frags) : f.offset <= n /\ n < f.offset + f.length
    /\ \A i \in DOMAIN frags : frags[i].shared =>
            \E j \in DOMAIN frags \ {i} : Overlap(frags[i], frags[j])

LEMMA ExtentOverlap ==
    ASSUME NEW f \in FragSet, NEW g \in FragSet, f.offset = g.offset, f.length = g.length
    PROVE  Overlap(f, g)
<1> DEFINE o == g.offset  l == g.length
<1>1. o \in Nat /\ l \in Nat /\ l > 0 /\ f.offset = o /\ f.length = l
  BY FragIs
<1> HIDE DEF o, l
<1>2. o < o + l
  BY <1>1
<1> QED
  BY <1>1, <1>2 DEF Overlap, o, l

LEMMA CompactTight ==
    ASSUME NEW D, Byte \subseteq D, NEW x \in ArenaSet(D), Good(x.blob, RowsOf(x.inners)),
           NEW y, y = Compact(x)
    PROVE  Tight(y.blob, AllFrags(y.inners))
<1> DEFINE inners == x.inners  q == y.inners  R == RowsOf(inners)  S == RowsOf(q)
           old == AllFrags(inners)  frags == AllFrags(q)
<1>1. PICK es, new : CompactedFrom(x, y, es, new)
  BY CompactIs
<1>2. /\ es = Extents(inners) /\ new = Relocated(inners, 0)
      /\ Listed(es, R) /\ InOrder(y.blob, x.blob, es) /\ Compacted(inners, new, q)
      /\ MovedBy(R, S, new)
  BY <1>1 DEF CompactedFrom
<1>3. inners \in Seq(InnerSet) /\ q \in Seq(InnerSet)
  BY <1>2 DEF ArenaSet, Compacted
<1>4. R \in Rows /\ S \in Rows /\ DOMAIN S = DOMAIN R /\ Len(S) = Len(R)
      /\ DOMAIN R = DOMAIN inners /\ \A k \in DOMAIN inners : R[k] = inners[k].frags
  <2>1. R \in Rows /\ S \in Rows /\ Len(R) = Len(inners) /\ Len(S) = Len(q)
        /\ \A k \in DOMAIN inners : R[k] = inners[k].frags
    BY <1>3, InnersAre
  <2>2. DOMAIN S = DOMAIN q /\ DOMAIN R = DOMAIN inners
    BY DEF RowsOf
  <2>3. DOMAIN q = DOMAIN inners /\ Len(q) = Len(inners)
    BY <1>2 DEF Compacted
  <2> QED
    BY <2>1, <2>2, <2>3
<1>5. \A k \in DOMAIN R : S[k] = q[k].frags
  <2>1. DOMAIN q = DOMAIN inners
    BY <1>2 DEF Compacted
  <2> QED
    BY <2>1, <1>4 DEF RowsOf
<1>6. \A k \in DOMAIN R : \A i \in DOMAIN R[k] :
        /\ R[k][i] \in FragSet /\ S[k][i] \in FragSet /\ i \in DOMAIN S[k]
        /\ S[k][i].offset = new[Extent(R[k][i])] /\ S[k][i].length = R[k][i].length
        /\ S[k][i].shared => R[k][i].shared /\ ~Private(inners, R[k][i])
  <2> SUFFICES ASSUME NEW k \in DOMAIN R, NEW i \in DOMAIN R[k]
               PROVE  /\ R[k][i] \in FragSet /\ S[k][i] \in FragSet /\ i \in DOMAIN S[k]
                      /\ S[k][i].offset = new[Extent(R[k][i])] /\ S[k][i].length = R[k][i].length
                      /\ S[k][i].shared => R[k][i].shared /\ ~Private(inners, R[k][i])
    OBVIOUS
  <2>1. /\ i \in DOMAIN S[k] /\ R[k][i] \in FragSet /\ S[k][i] \in FragSet
        /\ S[k][i].offset = new[Extent(R[k][i])] /\ S[k][i].length = R[k][i].length
    BY <1>2, <1>4, RowsAre DEF MovedBy
  <2>2. S[k][i] = MovedFrag(inners, new, R[k][i])
    <3>1. R[k] = inners[k].frags /\ S[k] = q[k].frags /\ k \in DOMAIN inners
      BY <1>4, <1>5
    <3>2. \A l \in DOMAIN inners : \A j \in DOMAIN inners[l].frags :
                q[l].frags[j] = MovedFrag(inners, new, inners[l].frags[j])
      BY <1>2 DEF Compacted
    <3> HIDE DEF R, S, inners, q
    <3> QED
      BY <3>1, <3>2
  <2>3. S[k][i].shared => R[k][i].shared /\ ~Private(inners, R[k][i])
    <3> DEFINE f == R[k][i]
    <3>1. S[k][i] = MovedFrag(inners, new, f) /\ f \in FragSet /\ new[Extent(f)] \in Nat
      <4>1. S[k][i].offset \in Nat
        BY <2>1, FragIs
      <4> QED
        BY <2>1, <2>2, <4>1
    <3> HIDE DEF f, S
    <3>2. S[k][i].shared => f.shared /\ ~Private(inners, f)
      BY <3>1, MovedFragIs
    <3> QED
      BY <3>2 DEF f
  <2> QED
    BY <2>1, <2>3
<1>7. /\ old = FlattenSeq(R) /\ old \in Seq(FragSet)
      /\ frags = FlattenSeq(S) /\ frags \in Seq(FragSet)
  BY <1>3, AllFragsIs
<1>8. R \in Seq(Seq(FragSet)) /\ S \in Seq(Seq(FragSet))
  BY <1>4 DEF Rows
<1>9. SameShape(R, S)
  <2>1. \A k \in 1..Len(R) : Len(S[k]) = Len(R[k])
    BY <1>2, <1>4, <1>5, RowsAre DEF Compacted
  <2> QED
    BY <2>1, <1>4 DEF SameShape
<1>10. ASSUME NEW p \in DOMAIN frags
       PROVE  /\ p \in DOMAIN old /\ old[p] \in FragSet /\ frags[p] \in FragSet
              /\ frags[p].offset = new[Extent(old[p])] /\ frags[p].length = old[p].length
              /\ frags[p].shared => ~Private(inners, old[p])
  <2> HIDE DEF R, S, inners, q, frags, old
  <2>3. p \in DOMAIN FlattenSeq(S)
    BY <1>7
  <2>1. PICK k \in DOMAIN R : \E i \in DOMAIN R[k] :
            /\ k \in DOMAIN S /\ i \in DOMAIN S[k] /\ p \in DOMAIN FlattenSeq(R)
            /\ FlattenSeq(R)[p] = R[k][i] /\ FlattenSeq(S)[p] = S[k][i]
    BY ONLY <2>3, <1>8, <1>9, ShapePlaces
  <2>2. PICK i \in DOMAIN R[k] :
            p \in DOMAIN old /\ old[p] = R[k][i] /\ frags[p] = S[k][i]
    BY <2>1, <1>7
  <2> QED
    BY <2>2, <1>6
<1>11. ASSUME NEW p \in DOMAIN old
       PROVE  p \in DOMAIN frags
  <2>1. Len(frags) = Len(old)
    BY <1>7, <1>8, <1>9, ShapeUpto
  <2> QED
    BY <2>1, <1>7
<1>12. ASSUME NEW i \in DOMAIN frags, frags[i].shared
       PROVE  \E j \in DOMAIN frags \ {i} : Overlap(frags[i], frags[j])
  <2>1. ~Private(inners, old[i])
    BY <1>10, <1>12
  <2>2. \E r, s \in DOMAIN old : /\ Extent(old[r]) = Extent(old[i])
                                 /\ Extent(old[s]) = Extent(old[i]) /\ r # s
    BY <2>1 DEF Private
  <2>3. PICK r \in DOMAIN old : r # i /\ Extent(old[r]) = Extent(old[i])
    BY <2>2
  <2>4. r \in DOMAIN frags
    BY <1>11
  <2>5. /\ frags[r] \in FragSet /\ frags[i] \in FragSet
        /\ frags[r].offset = frags[i].offset /\ frags[r].length = frags[i].length
    <3>1. frags[r].offset = new[Extent(old[r])] /\ frags[i].offset = new[Extent(old[i])]
          /\ frags[r].length = old[r].length /\ frags[i].length = old[i].length
          /\ old[r] \in FragSet /\ old[i] \in FragSet
          /\ frags[r] \in FragSet /\ frags[i] \in FragSet
      BY <2>4, <1>10
    <3>2. old[r].length = old[i].length
      BY <2>3 DEF Extent
    <3> QED
      BY <3>1, <3>2, <2>3
  <2>6. Overlap(frags[i], frags[r])
    <3> DEFINE f == frags[i]  g == frags[r]
    <3>1. f \in FragSet /\ g \in FragSet /\ f.offset = g.offset /\ f.length = g.length
      BY <2>5
    <3> HIDE DEF f, g
    <3>2. Overlap(f, g)
      BY <3>1, ExtentOverlap
    <3> QED
      BY <3>2 DEF f, g
  <2> QED
    BY <2>3, <2>4, <2>6
<1>13. ASSUME NEW n \in 0..(Len(y.blob) - 1)
       PROVE  \E f \in ToSet(frags) : f.offset <= n /\ n < f.offset + f.length
  <2>1. es \in Seq(ExtentSet) /\ OnceEach(es)
    BY <1>2 DEF Listed
  <2>2. n \in Nat /\ n < Before(es, Len(es))
    <3> DEFINE w == Len(y.blob)
    <3>1. w \in Nat /\ w = Before(es, Len(es)) /\ n \in 0..(w - 1)
      BY <1>2, <1>13 DEF InOrder
    <3> HIDE DEF w
    <3>2. n \in Nat /\ n < w
      BY ONLY <3>1
    <3> QED
      BY <3>1, <3>2
  <2>3. PICK j \in 1..Len(es) :
            Before(es, j - 1) <= n /\ n < Before(es, j - 1) + es[j].length
    BY <2>1, <2>2, ByteAt
  <2>4. j \in DOMAIN es
    BY <2>1
  <2>5. PICK k \in DOMAIN R : \E i \in DOMAIN R[k] : es[j] = Extent(R[k][i])
    BY <2>4, <1>2 DEF Listed
  <2>6. PICK i \in DOMAIN R[k] : es[j] = Extent(R[k][i])
    BY <2>5
  <2>7. S[k][i].offset = new[es[j]] /\ S[k][i].length = R[k][i].length
    BY <1>6, <2>6
  <2>8. R[k][i].length = es[j].length
    BY <2>6 DEF Extent
  <2>9. new[es[j]] = 0 + Before(es, j - 1)
    <3> DEFINE o == 0
    <3>1. new = Relocated(inners, o)
      BY <1>2
    <3>3. es = Extents(inners)
      BY <1>2
    <3> HIDE DEF o, inners
    <3>2. Relocated(inners, o)[es[j]] = o + Before(es, j - 1)
      BY ONLY <3>3, <2>1, <2>4, RelocatedAt
    <3>4. new[es[j]] = o + Before(es, j - 1)
      BY <3>1, <3>2
    <3> QED
      BY <3>4 DEF o
  <2>10. Before(es, j - 1) \in Nat
    <3>1. Len(es) \in Nat /\ Lengthy(es, Len(es)) /\ j - 1 \in 0..Len(es)
      BY <2>1, ExtentLengths
    <3> QED
      BY <3>1, BeforeIs
  <2>11. S[k][i].offset <= n /\ n < S[k][i].offset + S[k][i].length
    BY <2>3, <2>7, <2>8, <2>9, <2>10
  <2>12. S[k][i] \in ToSet(frags)
    BY <1>4, <1>6, <1>7, <1>8, FlatMembers
  <2> QED
    BY <2>11, <2>12
<1> QED
  BY <1>12, <1>13 DEF Tight

-----------------------------------------------------------------------------
(* What to_bytes writes.  A chain of blocks: every block but the last one  *)
(* full, one cell of header before its entries.                            *)

Blocked(C, items, blocks) ==
    /\ blocks \in Seq(Seq(C)) /\ Len(blocks) \in Nat \ {0} /\ DOMAIN blocks = 1..Len(blocks)
    /\ FlattenSeq(blocks) = items
    /\ \A b \in 1..Len(blocks) :
        /\ blocks[b] \in Seq(C) /\ Len(blocks[b]) \in Nat
        /\ b < Len(blocks) => Len(blocks[b]) = MaxPerBlock

LEMMA NoBlocks ==
    ASSUME NEW C
    PROVE  Blocked(C, <<>>, <<<<>>>>)
<1> DEFINE D == Seq(C)  none == <<>>  s == <<none>>
<1>1. none \in D /\ Len(none) = 0
  OBVIOUS
<1> HIDE DEF D, none
<1>2. s \in Seq(D) /\ Len(s) = 1 /\ DOMAIN s = 1..1 /\ s[1] = none
  BY <1>1
<1> HIDE DEF s
<1>3. s \in Seq(Seq(C))
  BY <1>2 DEF D
<1>4. FlattenSeq(s) = none
  <2>1. Upto(s, 1) = Upto(s, 0) \o s[1]
    <3>1. 1 \in 1..Len(s)
      BY <1>2
    <3>2. Upto(s, 1) = Upto(s, 1 - 1) \o s[1]
      BY <3>1, <1>3, UptoNext
    <3>3. 1 - 1 = 0
      OBVIOUS
    <3> QED
      BY <3>2, <3>3
  <2>2. Upto(s, 1) = FlattenSeq(s)
    BY <1>2, <1>3, UptoAll
  <2>3. Upto(s, 0) = <<>>
    BY <1>3, UptoNone
  <2>4. <<>> \o none = none
    BY <1>1, EmptyLeft DEF D
  <2> QED
    BY <1>2, <2>1, <2>2, <2>3, <2>4
<1>5. \A b \in 1..Len(s) : b = 1 /\ s[b] \in D /\ Len(s[b]) = 0 /\ ~(b < Len(s))
  BY <1>1, <1>2
<1>6. Blocked(C, none, s)
  BY <1>2, <1>3, <1>4, <1>5 DEF Blocked, D
<1> QED
  BY <1>6 DEF s, none

LEMMA InBlocksAre ==
    ASSUME NEW C, NEW items \in Seq(C)
    PROVE  Blocked(C, items, InBlocks(items))
<1> DEFINE n == MaxPerBlock
<1>1. n \in Nat \ {0}
  BY MaxPerBlockAssumption
<1>2. CASE items = <<>>
  BY <1>2, NoBlocks DEF InBlocks
<1>3. CASE items # <<>>
  <2> DEFINE s == Chunks(items, n)
  <2> HIDE DEF n
  <2>1. PICK m \in Nat \ {0} : \E T \in [0..m -> Nat] :
                /\ Cuts(Chunks(items, n), items, m, T) /\ Regular(T, m, n)
                /\ DOMAIN Chunks(items, n) = 1..m
    BY <1>1, <1>3, ChunksCut
  <2>2. PICK T \in [0..m -> Nat] :
                /\ Cuts(Chunks(items, n), items, m, T) /\ Regular(T, m, n)
                /\ DOMAIN Chunks(items, n) = 1..m
    BY <2>1
  <2>3. s = [k \in 1..m |-> s[k]]
    BY <1>1, <1>3, <2>2 DEF Chunks
  <2>4. InBlocks(items) = s
    BY <1>3 DEF InBlocks, n
  <2> HIDE DEF s
  <2>5. Cuts(s, items, m, T) /\ Len(s) = m /\ DOMAIN s = 1..m
    BY <2>2 DEF s, Cuts
  <2>10. m \in Nat /\ T \in [0..m -> Nat] /\ Cuts(s, items, m, T)
    BY <2>5
  <2>11. CutParts(C, s, items, m, T)
    BY ONLY items \in Seq(C), <2>3, <2>10, CutsType
  <2>6. /\ s \in Seq(Seq(C))
        /\ \A k \in 1..m : s[k] \in Seq(C) /\ Len(s[k]) = T[k] - T[k - 1]
    BY <2>11 DEF CutParts
  <2>7. FlattenSeq(s) = items
    BY <2>5, <2>6, CutsFlatten
  <2>8. ASSUME NEW b \in 1..m
        PROVE  s[b] \in Seq(C) /\ Len(s[b]) \in Nat /\ (b < m => Len(s[b]) = n)
    <3> DEFINE p == T[b - 1]  q == T[b]
    <3>1. b - 1 \in 0..m /\ b \in 0..m
      OBVIOUS
    <3>2. p \in Nat /\ q \in Nat /\ Len(s[b]) = q - p /\ (b < m => q = p + n)
      BY <3>1, <2>2, <2>6 DEF Regular
    <3>5. s[b] \in Seq(C)
      BY <2>6
    <3>3. s[b] \in Seq(C) /\ Len(s[b]) \in Nat
      BY ONLY <3>5
    <3> HIDE DEF p, q
    <3>4. b < m => Len(s[b]) = n
      BY <3>2, <1>1
    <3> QED
      BY <3>3, <3>4
  <2>9. Blocked(C, items, s)
    BY <2>5, <2>6, <2>7, <2>8 DEF Blocked, n
  <2> QED
    BY <2>4, <2>9
<1> QED
  BY <1>2, <1>3

\* How many blocks there are is a matter of how many entries there are.
LEMMA SameBlocks ==
    ASSUME NEW C, NEW r \in Seq(C), NEW D, NEW s \in Seq(D), Len(r) = Len(s)
    PROVE  Len(InBlocks(r)) = Len(InBlocks(s))
<1>1. r = <<>> <=> s = <<>>
  OBVIOUS
<1>2. CASE r = <<>>
  BY <1>1, <1>2 DEF InBlocks
<1>3. CASE r # <<>>
  <2> DEFINE n == MaxPerBlock  m == (Len(r) + n - 1) \div n
             u == Chunks(r, n)  v == Chunks(s, n)
  <2>1. n \in Nat \ {0}
    BY MaxPerBlockAssumption
  <2>2. DOMAIN u = 1..m /\ DOMAIN v = 1..m
    BY <2>1, <1>1, <1>3 DEF Chunks
  <2>3. InBlocks(r) = u /\ InBlocks(s) = v
    BY <1>1, <1>3 DEF InBlocks
  <2>4. u \in Seq(Seq(C)) /\ v \in Seq(Seq(D))
    BY <2>1, ChunksAre
  <2> HIDE DEF u, v, m
  <2>5. Len(u) \in Nat /\ Len(v) \in Nat /\ 1..Len(u) = 1..m /\ 1..Len(v) = 1..m
    BY <2>2, <2>4
  <2> DEFINE p == Len(u)  q == Len(v)
  <2>6. p \in Nat /\ q \in Nat /\ 1..p = 1..q
    BY <2>5
  <2> HIDE DEF p, q
  <2>7. p = q
    BY ONLY <2>6
  <2> QED
    BY <2>3, <2>7 DEF p, q
<1> QED
  BY <1>2, <1>3

HeaderOf(start, blocks, b, algo) ==
    LET next == IF b < Len(blocks) THEN start + b * (MaxPerBlock + 1) ELSE 0
    IN  [next |-> next, count |-> Len(blocks[b]),
         algo |-> algo, hash |-> TableHash(algo, next, blocks[b])]
ChainCells(start, blocks, algo) ==
    [b \in DOMAIN blocks |-> <<HeaderOf(start, blocks, b, algo)>> \o blocks[b]]
CellSet(C, start, blocks, algo) ==
    C \cup {HeaderOf(start, blocks, b, algo) : b \in DOMAIN blocks}

LEMMA ChainCellsAre ==
    ASSUME NEW C, NEW items, NEW blocks, Blocked(C, items, blocks), NEW start, NEW algo,
           NEW E, E = CellSet(C, start, blocks, algo), NEW cells,
           cells = ChainCells(start, blocks, algo)
    PROVE  /\ cells \in Seq(Seq(E)) /\ Len(cells) = Len(blocks)
           /\ \A b \in 1..Len(blocks) :
                /\ cells[b] \in Seq(E) /\ Len(cells[b]) = 1 + Len(blocks[b])
                /\ cells[b][1] = HeaderOf(start, blocks, b, algo)
                /\ LiesAt(cells[b], 1, blocks[b])
<1> DEFINE m == Len(blocks)  H(b) == HeaderOf(start, blocks, b, algo)
<1>1. m \in Nat /\ DOMAIN blocks = 1..m /\ \A b \in 1..m : blocks[b] \in Seq(C)
  BY DEF Blocked
<1>2. cells = [b \in 1..m |-> <<H(b)>> \o blocks[b]]
  BY <1>1 DEF ChainCells
<1>3. C \subseteq E /\ \A b \in 1..m : H(b) \in E
  BY <1>1 DEF CellSet
<1> HIDE DEF m, H
<1>4. ASSUME NEW b \in 1..m
      PROVE  /\ cells[b] \in Seq(E) /\ Len(cells[b]) = 1 + Len(blocks[b])
             /\ cells[b][1] = H(b) /\ LiesAt(cells[b], 1, blocks[b])
  <2> DEFINE h == H(b)  s == blocks[b]  z == cells[b]
  <2>1. h \in E /\ s \in Seq(C)
    BY <1>1, <1>3
  <2>2. s \in Seq(E)
    BY <2>1, <1>3
  <2>3. OneBefore(z, h, s)
    BY <1>2 DEF OneBefore
  <2> HIDE DEF h, s, z
  <2>4. Headed(E, z, h, s)
    BY <2>1, <2>2, <2>3, OneThen
  <2> QED
    BY <2>4 DEF h, s, z, Headed
<1>5. cells = [b \in 1..m |-> cells[b]]
  BY <1>2
<1> DEFINE F == Seq(E)
<1>6. \A b \in 1..m : cells[b] \in F
  BY <1>4
<1> HIDE DEF F
<1>7. cells \in Seq(F) /\ Len(cells) = m
  BY ONLY <1>1, <1>5, <1>6, FunSeq
<1> QED
  BY <1>4, <1>7 DEF F, m, H

OffsetsAre(cells, blocks, n) ==
    /\ \A k \in 0..Len(blocks) : Len(Upto(cells, k)) = Len(Upto(blocks, k)) + k
    /\ \A k \in 0..(Len(blocks) - 1) : Len(Upto(cells, k)) = k * n

LEMMA ChainOffsets ==
    ASSUME NEW C, NEW items, NEW blocks, Blocked(C, items, blocks), NEW E, C \subseteq E,
           NEW cells \in Seq(Seq(E)), OneLonger(cells, blocks),
           NEW n, n = MaxPerBlock + 1
    PROVE  OffsetsAre(cells, blocks, n)
<1> DEFINE m == Len(blocks)
           T == {k \in Nat : k <= m => Len(Upto(cells, k)) = Len(Upto(blocks, k)) + k}
           U == {k \in Nat : k <= m - 1 => Len(Upto(cells, k)) = k * n}
<1>1. /\ m \in Nat \ {0} /\ m \in Nat /\ blocks \in Seq(Seq(C))
      /\ \A b \in 1..m : Len(blocks[b]) \in Nat
      /\ \A b \in 1..m : b < m => Len(blocks[b]) = MaxPerBlock
  BY DEF Blocked
<1>20. Len(cells) = m /\ \A b \in 1..m : Len(cells[b]) = 1 + Len(blocks[b])
  BY DEF OneLonger
<1>2. Upto(cells, 0) = <<>> /\ Upto(blocks, 0) = <<>>
  BY <1>1, UptoNone
<1>3. n \in Nat \ {0} /\ MaxPerBlock \in Nat
  BY MaxPerBlockAssumption
<1>4. \A k \in 0..m : Len(Upto(blocks, k)) \in Nat
  BY <1>1, UptoType
<1>5. ASSUME NEW k \in 0..(m - 1)
      PROVE  /\ k + 1 \in Nat /\ k + 1 \in 1..m
             /\ Len(Upto(cells, k + 1)) = Len(Upto(cells, k)) + (1 + Len(blocks[k + 1]))
             /\ Len(Upto(blocks, k + 1)) = Len(Upto(blocks, k)) + Len(blocks[k + 1])
  <2> DEFINE j == k + 1
  <2>1. j \in 1..m /\ j - 1 = k /\ j \in Nat
    BY <1>1
  <2> HIDE DEF j
  <2>2. Len(Upto(blocks, j)) = Len(Upto(blocks, j - 1)) + Len(blocks[j])
    BY <2>1, <1>1, UptoNext
  <2>3. j \in 1..Len(cells)
    BY <2>1, <1>20
  <2>4. Len(Upto(cells, j)) = Len(Upto(cells, j - 1)) + Len(cells[j])
    BY <2>3, UptoNext
  <2>5. Len(cells[j]) = 1 + Len(blocks[j])
    BY <2>1, <1>20
  <2> QED
    BY <2>1, <2>2, <2>4, <2>5 DEF j
<1>6. 0..m \subseteq T
  <2>1. 0 \in T
    BY <1>2
  <2>2. ASSUME NEW k \in 0..(m - 1), k \in T
        PROVE  k + 1 \in T
    <3> DEFINE p == Len(Upto(cells, k))  q == Len(Upto(blocks, k))  l == Len(blocks[k + 1])
    <3>1. k \in 0..m /\ k + 1 \in 1..m /\ k \in Nat
      BY <1>1
    <3>2. p = q + k /\ q \in Nat /\ l \in Nat
      BY <2>2, <3>1, <1>1, <1>4
    <3>3. Len(Upto(cells, k + 1)) = p + (1 + l) /\ Len(Upto(blocks, k + 1)) = q + l
      BY <1>5
    <3> HIDE DEF p, q, l
    <3>4. p + (1 + l) = (q + l) + (k + 1)
      BY <3>1, <3>2
    <3> QED
      BY <3>1, <3>3, <3>4
  <2> HIDE DEF T, m
  <2> QED
    BY <1>1, <2>1, <2>2, UpTo
<1>7. 0..(m - 1) \subseteq U
  <2> DEFINE v == m - 1
  <2>1. v \in Nat /\ v <= m
    BY <1>1
  <2>2. 0 \in U
    <3>1. 0 * n = 0
      BY <1>3, Multiple
    <3> QED
      BY <3>1, <1>2
  <2>3. ASSUME NEW k \in 0..(v - 1), k \in U
        PROVE  k + 1 \in U
    <3>1. k \in 0..(m - 1) /\ k \in Nat /\ k <= m - 1 /\ k + 1 < m
      <4>1. m \in Nat \ {0} /\ k \in 0..(m - 1 - 1)
        BY <1>1
      <4> HIDE DEF m
      <4> QED
        BY ONLY <4>1
    <3>2. Len(Upto(cells, k)) = k * n
      BY <2>3, <3>1
    <3>3. Len(Upto(cells, k + 1)) = k * n + (1 + Len(blocks[k + 1])) /\ k + 1 \in 1..m
      BY <1>5, <3>1, <3>2
    <3>4. Len(blocks[k + 1]) = MaxPerBlock
      BY <1>1, <3>1, <3>3
    <3>5. (k + 1) * n = k * n + n
      BY <1>3, <3>1, Multiple
    <3>6. Len(Upto(cells, k + 1)) = (k + 1) * n
      <4> DEFINE x == k * n  y == (k + 1) * n
      <4>1. y = x + n /\ x \in Nat /\ Len(Upto(cells, k + 1)) = x + (1 + MaxPerBlock)
        BY <3>1, <3>3, <3>4, <3>5, <1>3, Multiple
      <4> HIDE DEF x, y
      <4>2. Len(Upto(cells, k + 1)) = y
        BY <4>1, <1>3
      <4> QED
        BY <4>2 DEF y
    <3> QED
      BY <3>1, <3>6
  <2> HIDE DEF U, v
  <2>4. 0..v \subseteq U
    BY <2>1, <2>2, <2>3, UpTo
  <2> QED
    BY <2>4 DEF v
<1>8. \A k \in 0..m : k \in Nat /\ k <= m
  BY <1>1
<1>9. \A k \in 0..(m - 1) : k \in Nat /\ k <= m - 1
  BY <1>1
<1> QED
  BY <1>6, <1>7, <1>8, <1>9 DEF OffsetsAre

\* A chain, block by block.
ChainFrom(C, chain, start, blocks, algo) ==
    /\ chain \in Seq(CellSet(C, start, blocks, algo))
    /\ Len(blocks) <= Len(chain)
    /\ \A b \in 1..Len(blocks) : LET o == (b - 1) * (MaxPerBlock + 1) IN
        /\ o \in Nat /\ o + 1 \in 1..Len(chain)
        /\ chain[o + 1] = HeaderOf(start, blocks, b, algo)
        /\ LiesAt(chain, o + 1, blocks[b])

LEMMA ChainIs ==
    ASSUME NEW C, NEW items \in Seq(C), NEW blocks, blocks = InBlocks(items),
           NEW start, NEW algo, NEW chain, chain = BlockChain(start, items, algo)
    PROVE  /\ ChainFrom(C, chain, start, blocks, algo)
           /\ Len(chain) = Len(items) + Len(blocks)
<1> DEFINE E == CellSet(C, start, blocks, algo)  cells == ChainCells(start, blocks, algo)
           m == Len(blocks)  n == MaxPerBlock + 1
<1>1. Blocked(C, items, blocks)
  BY InBlocksAre
<1>2. chain = FlattenSeq(cells)
  BY DEF BlockChain, ChainCells, HeaderOf
<1>3. /\ cells \in Seq(Seq(E)) /\ Len(cells) = m
      /\ \A b \in 1..m :
            /\ cells[b] \in Seq(E) /\ Len(cells[b]) = 1 + Len(blocks[b])
            /\ cells[b][1] = HeaderOf(start, blocks, b, algo)
            /\ LiesAt(cells[b], 1, blocks[b])
  BY <1>1, ChainCellsAre
<1>4. C \subseteq E
  BY DEF CellSet
<1>5. /\ m \in Nat /\ blocks \in Seq(Seq(C)) /\ FlattenSeq(blocks) = items
      /\ \A b \in 1..m : Len(blocks[b]) \in Nat
  BY <1>1 DEF Blocked
<1> HIDE DEF E, cells
<1>6. /\ \A k \in 0..m : Len(Upto(cells, k)) = Len(Upto(blocks, k)) + k
      /\ \A k \in 0..(m - 1) : Len(Upto(cells, k)) = k * n
  <2>1. n = MaxPerBlock + 1
    OBVIOUS
  <2>2. cells \in Seq(Seq(E)) /\ OneLonger(cells, blocks)
    BY <1>3 DEF OneLonger
  <2> HIDE DEF n
  <2>3. OffsetsAre(cells, blocks, n)
    BY ONLY <1>1, <1>4, <2>1, <2>2, ChainOffsets
  <2> QED
    BY <2>3 DEF OffsetsAre
<1>7. chain \in Seq(E) /\ Len(chain) \in Nat
  BY <1>2, <1>3, FlattenType
<1>8. Len(chain) = Len(items) + m
  <2>1. Upto(cells, m) = chain /\ Upto(blocks, m) = items
    BY <1>2, <1>3, <1>5, UptoAll
  <2>2. m \in 0..m
    BY <1>5
  <2> QED
    BY <2>1, <2>2, <1>6
<1>9. ASSUME NEW b \in 1..m, NEW o, o = (b - 1) * n
      PROVE  /\ o \in Nat /\ o + 1 \in 1..Len(chain)
             /\ chain[o + 1] = HeaderOf(start, blocks, b, algo)
             /\ LiesAt(chain, o + 1, blocks[b])
  <2>1. b - 1 \in 0..(m - 1)
    BY <1>5
  <2>2. Len(Upto(cells, b - 1)) = o
    BY <2>1, <1>6, <1>9
  <2>3. LiesAt(chain, o, cells[b])
    BY <1>2, <1>3, <2>2, FlattenLies
  <2> DEFINE z == cells[b]  w == Len(blocks[b])
  <2>4. Len(z) = 1 + w /\ w \in Nat /\ z[1] = HeaderOf(start, blocks, b, algo)
        /\ LiesAt(z, 1, blocks[b])
    BY <1>3, <1>5
  <2> HIDE DEF z
  <2>5. o \in Nat /\ o + Len(z) <= Len(chain) /\ \A i \in 1..Len(z) : chain[o + i] = z[i]
    BY <2>3 DEF LiesAt, z
  <2> HIDE DEF w
  <2>6. 1 \in 1..Len(z) /\ o + 1 \in 1..Len(chain)
    BY <2>4, <2>5, <1>7
  <2>7. LiesAt(chain, o + 1, blocks[b])
    <3>1. Len(chain) \in Nat /\ Len(z) \in Nat /\ Len(blocks[b]) \in Nat /\ LiesAt(chain, o, z)
      BY <1>7, <2>3, <2>4 DEF z, w
    <3> QED
      BY <2>4, <3>1, LiesTwice
  <2> QED
    BY <2>4, <2>5, <2>6, <2>7
<1>10. m <= Len(chain)
  BY <1>5, <1>8
<1> HIDE DEF m, n
<1>11. \A b \in 1..m : LET o == (b - 1) * n IN
        /\ o \in Nat /\ o + 1 \in 1..Len(chain)
        /\ chain[o + 1] = HeaderOf(start, blocks, b, algo)
        /\ LiesAt(chain, o + 1, blocks[b])
  BY <1>9
<1> QED
  BY <1>7, <1>8, <1>10, <1>11 DEF ChainFrom, E, m, n

-----------------------------------------------------------------------------
(* ... and what the parser finds: it follows the links of a chain.         *)

WalkStep(bytes, met) ==
    LET off == Last(met) IN
    IF off # 0 /\ off + 1 \in DOMAIN bytes THEN Append(met, bytes[off + 1].next) ELSE met
WalkedBy(g, bytes, first) ==
    g = [k \in 0..Len(bytes) |-> IF k = 0 THEN <<first>> ELSE WalkStep(bytes, g[k - 1])]
LinkSet(bytes, first) == {first} \cup {bytes[i].next : i \in DOMAIN bytes}

LEMMA WalkStepIs ==
    ASSUME NEW bytes, NEW first, NEW w \in Seq(LinkSet(bytes, first)),
           NEW n \in Nat, Len(w) = n, NEW y, y = WalkStep(bytes, w)
    PROVE  /\ y \in Seq(LinkSet(bytes, first))
           /\ \A i \in 1..n : y[i] = w[i]
           /\ (w[n] # 0 /\ w[n] + 1 \in DOMAIN bytes) =>
                Len(y) = n + 1 /\ y[n + 1] = bytes[w[n] + 1].next
           /\ ~(w[n] # 0 /\ w[n] + 1 \in DOMAIN bytes) => y = w
<1> DEFINE V == LinkSet(bytes, first)  off == w[n]
<1>1. Last(w) = off
  BY DEF Last
<1>2. CASE off # 0 /\ off + 1 \in DOMAIN bytes
  <2> DEFINE e == bytes[off + 1].next
  <2>1. e \in V
    BY <1>2 DEF LinkSet
  <2>2. y = Append(w, e)
    BY <1>1, <1>2 DEF WalkStep
  <2> HIDE DEF V, e, off
  <2>3. w \in Seq(V)
    BY DEF V
  <2>4. y \in Seq(V) /\ Len(y) = n + 1 /\ y[n + 1] = e /\ \A i \in 1..n : y[i] = w[i]
    BY <2>1, <2>2, <2>3
  <2> QED
    BY <2>4, <1>2 DEF V, e, off
<1>3. CASE ~(off # 0 /\ off + 1 \in DOMAIN bytes)
  <2>1. y = w
    BY <1>1, <1>3 DEF WalkStep
  <2> QED
    BY <2>1, <1>3
<1> QED
  BY <1>2, <1>3

LEMMA WalkSolution ==
    ASSUME NEW C, NEW bytes \in Seq(C), NEW first
    PROVE  \E g : WalkedBy(g, bytes, first)
<1> DEFINE n == Len(bytes)  S == Seq(LinkSet(bytes, first))  s0 == <<first>>
           F == [p \in (1..n) \X S |-> WalkStep(bytes, p[2])]
<1>1. n \in Nat /\ s0 \in S
  BY DEF LinkSet
<1>2. ASSUME NEW w \in S
      PROVE  WalkStep(bytes, w) \in S
  <2>1. w \in Seq(LinkSet(bytes, first)) /\ Len(w) \in Nat
    OBVIOUS
  <2> QED
    BY <2>1, WalkStepIs
<1> HIDE DEF S, n, s0
<1>3. \A p \in (1..n) \X S : WalkStep(bytes, p[2]) \in S
  BY <1>2
<1>4. Steps(F, n, S)
  BY <1>3 DEF Steps
<1>5. \A i \in 1..n, w \in S : F[<<i, w>>] = WalkStep(bytes, w)
  OBVIOUS
<1> HIDE DEF F
<1>6. PICK g : Solution(g, n, S, s0, F)
  BY <1>1, <1>4, Recursion
<1>7. g \in [0..n -> S] /\ g[0] = s0 /\ \A i \in 1..n : g[i] = WalkStep(bytes, g[i - 1])
  <2>1. \A i \in 1..n : i - 1 \in 0..n
    BY <1>1
  <2> QED
    BY <1>5, <1>6, <2>1 DEF Solution
<1>8. g = [k \in 0..n |-> IF k = 0 THEN s0 ELSE WalkStep(bytes, g[k - 1])]
  <2>1. \A k \in 0..n : k = 0 \/ k \in 1..n
    BY <1>1
  <2>2. \A k \in 0..n : g[k] = IF k = 0 THEN s0 ELSE WalkStep(bytes, g[k - 1])
    BY <2>1, <1>7
  <2> QED
    BY <2>2, <1>7
<1> QED
  BY <1>8 DEF WalkedBy, n, s0

LEMMA WalkIs ==
    ASSUME NEW C, NEW bytes \in Seq(C), NEW first
    PROVE  \E g : WalkedBy(g, bytes, first) /\ WalkBlocks(bytes, first) = Front(g[Len(bytes)])
<1> DEFINE c == CHOOSE c : c = [k \in 0..Len(bytes) |->
                        IF k = 0 THEN <<first>> ELSE WalkStep(bytes, c[k - 1])]
<1>1. WalkBlocks(bytes, first) = Front(c[Len(bytes)])
  BY DEF WalkBlocks, WalkStep
<1>2. \E c1 : c1 = [k \in 0..Len(bytes) |->
                        IF k = 0 THEN <<first>> ELSE WalkStep(bytes, c1[k - 1])]
  <2>1. PICK g : WalkedBy(g, bytes, first)
    BY WalkSolution
  <2>2. g = [k \in 0..Len(bytes) |-> IF k = 0 THEN <<first>> ELSE WalkStep(bytes, g[k - 1])]
    BY <2>1 DEF WalkedBy
  <2> QED
    BY ONLY <2>2, Zenon
<1>3. c = [k \in 0..Len(bytes) |-> IF k = 0 THEN <<first>> ELSE WalkStep(bytes, c[k - 1])]
  BY <1>2, Zenon
<1> HIDE DEF c
<1>4. WalkedBy(c, bytes, first)
  BY <1>3 DEF WalkedBy
<1> QED
  BY <1>1, <1>4

\* A list of offsets that are linked, and what a walk has met after k steps.
Linked(bytes, offs, m) ==
    /\ \A b \in 1..m : offs[b] # 0 /\ offs[b] + 1 \in DOMAIN bytes
    /\ \A b \in 1..(m - 1) : bytes[offs[b] + 1].next = offs[b + 1]
Trail(bytes, first, offs, m, w, k) ==
    /\ w \in Seq(LinkSet(bytes, first)) /\ Len(w) \in Nat
    /\ k < m => Len(w) = k + 1 /\ \A i \in 1..(k + 1) : w[i] = offs[i]
    /\ k >= m =>
        /\ Len(w) >= m + 1 /\ w[m + 1] = bytes[offs[m] + 1].next
        /\ \A i \in 1..m : w[i] = offs[i]
        /\ w[m + 1] = 0 => Len(w) = m + 1

LEMMA TrailNext ==
    ASSUME NEW bytes, NEW first, NEW offs, NEW m \in Nat \ {0}, Linked(bytes, offs, m),
           NEW k \in Nat, NEW j \in Nat, j = k + 1, NEW w, Trail(bytes, first, offs, m, w, k)
    PROVE  Trail(bytes, first, offs, m, WalkStep(bytes, w), j)
<1> DEFINE y == WalkStep(bytes, w)  n == Len(w)  V == LinkSet(bytes, first)
<1>1. w \in Seq(V) /\ n \in Nat
  BY DEF Trail
<1>2. /\ y \in Seq(V) /\ \A i \in 1..n : y[i] = w[i]
      /\ (w[n] # 0 /\ w[n] + 1 \in DOMAIN bytes) =>
            Len(y) = n + 1 /\ y[n + 1] = bytes[w[n] + 1].next
      /\ ~(w[n] # 0 /\ w[n] + 1 \in DOMAIN bytes) => y = w
  BY <1>1, WalkStepIs
<1>3. Len(y) \in Nat
  BY <1>2
<1> HIDE DEF y, V
<1>4. CASE j < m
  <2>1. n = j /\ \A i \in 1..j : w[i] = offs[i]
    BY <1>4 DEF Trail
  <2>2. j \in 1..m /\ j \in 1..(m - 1)
    BY <1>4
  <2>3. w[n] = offs[j] /\ offs[j] # 0 /\ offs[j] + 1 \in DOMAIN bytes
        /\ bytes[offs[j] + 1].next = offs[j + 1]
    <3>1. j \in 1..j
      BY <2>2
    <3> QED
      BY <3>1, <2>1, <2>2 DEF Linked
  <2>4. Len(y) = j + 1 /\ y[j + 1] = offs[j + 1]
    BY <1>2, <2>1, <2>3
  <2>5. \A i \in 1..(j + 1) : i \in 1..j \/ i = j + 1
    OBVIOUS
  <2>6. \A i \in 1..(j + 1) : y[i] = offs[i]
    BY <1>2, <2>1, <2>4, <2>5
  <2> QED
    BY <1>2, <1>3, <1>4, <2>4, <2>6 DEF Trail, y, V
<1>5. CASE j = m
  <2>1. n = m /\ \A i \in 1..m : w[i] = offs[i]
    BY <1>5 DEF Trail
  <2>2. m \in 1..m
    OBVIOUS
  <2>3. w[n] = offs[m] /\ offs[m] # 0 /\ offs[m] + 1 \in DOMAIN bytes
    BY <2>1, <2>2 DEF Linked
  <2>4. Len(y) = m + 1 /\ y[m + 1] = bytes[offs[m] + 1].next
    BY <1>2, <2>1, <2>3
  <2>5. \A i \in 1..m : y[i] = offs[i]
    BY <1>2, <2>1
  <2> QED
    BY <1>2, <1>3, <1>5, <2>4, <2>5 DEF Trail, y, V
<1>6. CASE j > m
  <2>1. /\ n >= m + 1 /\ w[m + 1] = bytes[offs[m] + 1].next
        /\ \A i \in 1..m : w[i] = offs[i]
        /\ w[m + 1] = 0 => n = m + 1
    BY <1>6 DEF Trail
  <2>2. m + 1 \in 1..n /\ \A i \in 1..m : i \in 1..n
    BY <2>1, <1>1
  <2>3. y[m + 1] = bytes[offs[m] + 1].next /\ \A i \in 1..m : y[i] = offs[i]
    BY <1>2, <2>1, <2>2
  <2>4. Len(y) >= m + 1 /\ (y[m + 1] = 0 => Len(y) = m + 1)
    <3>1. CASE w[m + 1] = 0
      <4>1. w[n] = 0
        BY <2>1, <3>1
      <4> QED
        BY <1>2, <2>1, <4>1
    <3>2. CASE w[m + 1] # 0
      <4>1. y[m + 1] # 0
        BY <3>2, <2>1, <2>3
      <4>2. Len(y) >= m + 1
        BY <1>1, <1>2, <1>3, <2>1
      <4> QED
        BY <4>1, <4>2
    <3> QED
      BY <3>1, <3>2
  <2> QED
    BY <1>2, <1>3, <1>6, <2>3, <2>4 DEF Trail, y, V
<1> QED
  BY <1>4, <1>5, <1>6

LEMMA WalkReach ==
    ASSUME NEW C, NEW bytes \in Seq(C), NEW first, NEW offs, NEW m \in Nat \ {0}, m <= Len(bytes),
           offs[1] = first, Linked(bytes, offs, m), NEW t, t = WalkBlocks(bytes, first)
    PROVE  /\ t \in Seq(LinkSet(bytes, first)) /\ m <= Len(t) /\ Len(t) \in Nat
           /\ \A b \in 1..m : t[b] = offs[b]
           /\ bytes[offs[m] + 1].next = 0 => Len(t) = m
<1> DEFINE n == Len(bytes)
<1>1. n \in Nat
  OBVIOUS
<1>2. PICK g : WalkedBy(g, bytes, first) /\ t = Front(g[n])
  BY WalkIs
<1>3. g[0] = <<first>> /\ \A k \in 1..n : g[k] = WalkStep(bytes, g[k - 1])
  <2>1. g = [k \in 0..n |-> IF k = 0 THEN <<first>> ELSE WalkStep(bytes, g[k - 1])]
    BY <1>2 DEF WalkedBy
  <2>2. 0 \in 0..n /\ \A k \in 1..n : k \in 0..n /\ k # 0
    BY <1>1
  <2> QED
    BY <2>1, <2>2
<1> DEFINE T == {k \in Nat : k <= n => Trail(bytes, first, offs, m, g[k], k)}
<1>4. 0 \in T
  <2>1. first \in LinkSet(bytes, first)
    BY DEF LinkSet
  <2> DEFINE w == <<first>>  V == LinkSet(bytes, first)
  <2>2. w \in Seq(V) /\ Len(w) = 1 /\ w[1] = offs[1]
    BY <2>1
  <2>3. 0 < m /\ ~(0 >= m) /\ \A i \in 1..(0 + 1) : i = 1
    OBVIOUS
  <2> HIDE DEF w, V
  <2>4. Trail(bytes, first, offs, m, w, 0)
    BY <2>2, <2>3 DEF Trail, V
  <2> QED
    BY <2>4, <1>3 DEF w
<1>5. ASSUME NEW k \in 0..(n - 1), k \in T
      PROVE  k + 1 \in T
  <2> DEFINE j == k + 1
  <2>1. j \in Nat /\ k \in Nat /\ j \in 1..n /\ j - 1 = k /\ k <= n
    BY <1>1
  <2> HIDE DEF n
  <2>2. Trail(bytes, first, offs, m, g[k], k)
    BY <1>5, <2>1
  <2>3. Trail(bytes, first, offs, m, WalkStep(bytes, g[k]), j)
    BY <2>1, <2>2, TrailNext
  <2>4. g[j] = WalkStep(bytes, g[k])
    BY <2>1, <1>3
  <2> HIDE DEF j
  <2>5. j \in T
    BY <2>1, <2>3, <2>4
  <2> QED
    BY <2>5 DEF j
<1>6. n \in T
  <2> HIDE DEF T, n
  <2>1. 0..n \subseteq T
    BY <1>1, <1>4, <1>5, UpTo
  <2>2. n \in 0..n
    BY <1>1
  <2> QED
    BY <2>1, <2>2
<1> DEFINE w == g[n]  l == Len(w)  V == LinkSet(bytes, first)
<1>7. /\ w \in Seq(V) /\ l \in Nat /\ l >= m + 1 /\ w[m + 1] = bytes[offs[m] + 1].next
      /\ \A i \in 1..m : w[i] = offs[i]
      /\ w[m + 1] = 0 => l = m + 1
  <2>1. Trail(bytes, first, offs, m, w, n)
    BY <1>6
  <2>2. n >= m
    BY <1>1
  <2> HIDE DEF n, w
  <2> QED
    BY <2>1, <2>2 DEF Trail
<1> DEFINE e == l - 1
<1>8. t = SubSeq(w, 1, e)
  BY <1>2 DEF Front
<1>9. 1 \in Nat \ {0} /\ e \in 0..l /\ e \in Nat /\ m <= e
  BY <1>7
<1> HIDE DEF w, V, e, l
<1>10. /\ SubSeq(w, 1, e) \in Seq(V)
       /\ Len(SubSeq(w, 1, e)) = IF 1 <= e THEN e - 1 + 1 ELSE 0
       /\ \A i \in 1..Len(SubSeq(w, 1, e)) : SubSeq(w, 1, e)[i] = w[1 + i - 1]
  <2>1. e \in 0..Len(w)
    BY <1>9 DEF l
  <2> QED
    BY <1>7, <1>9, <2>1, SliceType
<1>11. t \in Seq(V) /\ Len(t) = e /\ \A i \in 1..e : t[i] = w[i]
  <2>1. \A i \in 1..e : 1 + i - 1 = i
    BY <1>9
  <2>2. e - 1 + 1 = e /\ 1 <= e
    BY <1>9
  <2> QED
    BY <1>8, <1>10, <2>1, <2>2
<1>12. \A b \in 1..m : t[b] = offs[b]
  <2>1. \A b \in 1..m : b \in 1..e
    BY <1>9
  <2> QED
    BY <1>7, <1>11, <2>1
<1>13. w[m + 1] = 0 => e = m
  BY <1>7 DEF e
<1> QED
  BY <1>7, <1>9, <1>11, <1>12, <1>13 DEF V

\* A chain that is walked from its start on.
WalkedChain(bytes, start, blocks, algo) ==
    /\ DOMAIN WalkBlocks(bytes, start) = 1..Len(blocks)
    /\ \A b \in 1..Len(blocks) : LET off == WalkBlocks(bytes, start)[b] IN
        /\ off = start + (b - 1) * (MaxPerBlock + 1) /\ off \in Nat \ {0}
        /\ off + 1 \in DOMAIN bytes /\ bytes[off + 1] = HeaderOf(start, blocks, b, algo)
        /\ LiesAt(bytes, off + 1, blocks[b]) /\ ItemsAt(bytes, off) = blocks[b]

\* The offset of block b is that of its header.
LEMMA BlockLies ==
    ASSUME NEW C, NEW items, NEW blocks, Blocked(C, items, blocks), NEW start \in Nat \ {0},
           NEW algo, NEW chain, ChainFrom(C, chain, start, blocks, algo),
           NEW D, NEW bytes \in Seq(D), LiesAt(bytes, start, chain),
           NEW b \in 1..Len(blocks), NEW off, off = start + (b - 1) * (MaxPerBlock + 1)
    PROVE  /\ off \in Nat \ {0} /\ off + 1 \in DOMAIN bytes
           /\ bytes[off + 1] = HeaderOf(start, blocks, b, algo)
           /\ LiesAt(bytes, off + 1, blocks[b]) /\ ItemsAt(bytes, off) = blocks[b]
<1> DEFINE o == (b - 1) * (MaxPerBlock + 1)  w == Len(chain)  l == Len(bytes)
           h == HeaderOf(start, blocks, b, algo)  blk == blocks[b]
<1>1. /\ o \in Nat /\ o + 1 \in 1..w /\ chain[o + 1] = h /\ LiesAt(chain, o + 1, blk)
      /\ w \in Nat
  BY DEF ChainFrom
<1>2. off = start + o
  OBVIOUS
<1>3. l \in Nat /\ DOMAIN bytes = 1..l /\ start + w <= l
      /\ \A i \in 1..w : bytes[start + i] = chain[i]
  BY DEF LiesAt
<1>4. blk \in Seq(C)
  BY DEF Blocked
<1>5. Len(blk) \in Nat
  BY <1>4
<1>6. h.count = Len(blk)
  BY DEF HeaderOf
<1> HIDE DEF o, h, blk
<1>7. LiesAt(bytes, start + (o + 1), blk)
  BY <1>1, <1>3, <1>5, LiesTwice DEF w, l
<1> HIDE DEF w, l
<1>8. off \in Nat \ {0} /\ off + 1 \in 1..l /\ start + (o + 1) = off + 1
  BY <1>1, <1>2, <1>3
<1>9. bytes[off + 1] = h
  BY <1>1, <1>3, <1>8
<1>10. LiesAt(bytes, off + 1, blk)
  BY <1>7, <1>8
<1>11. ItemsAt(bytes, off) = blk
  <2> DEFINE p == off + 1  x == off + 2  y == off + 1 + h.count
  <2>1. ItemsAt(bytes, off) = SubSeq(bytes, x, y)
    BY <1>9 DEF ItemsAt
  <2>2. x = p + 1 /\ y = p + Len(blk)
    BY <1>6, <1>8, <1>5
  <2>3. LiesAt(bytes, p, blk)
    BY <1>10
  <2> HIDE DEF p, x, y
  <2>4. SubSeq(bytes, x, y) = blk
    BY <2>2, <2>3, <1>4, SliceLies
  <2> QED
    BY <2>1, <2>4
<1> QED
  BY <1>3, <1>8, <1>9, <1>10, <1>11 DEF h, blk

LEMMA ChainWalked ==
    ASSUME NEW C, NEW items, NEW blocks, Blocked(C, items, blocks), NEW start \in Nat \ {0},
           NEW algo, NEW chain, ChainFrom(C, chain, start, blocks, algo),
           NEW D, NEW bytes \in Seq(D), LiesAt(bytes, start, chain)
    PROVE  WalkedChain(bytes, start, blocks, algo) /\ Walk(bytes, start) = items
<1> DEFINE n == MaxPerBlock + 1  m == Len(blocks)  t == WalkBlocks(bytes, start)
           offs == [b \in 1..m |-> start + (b - 1) * n]
<1>1. m \in Nat \ {0} /\ n \in Nat \ {0} /\ DOMAIN blocks = 1..m /\ FlattenSeq(blocks) = items
  BY MaxPerBlockAssumption DEF Blocked
<1>2. \A b \in 1..m : offs[b] = start + (b - 1) * (MaxPerBlock + 1)
  OBVIOUS
<1> HIDE DEF offs
<1>3. \A b \in 1..m :
        /\ offs[b] \in Nat \ {0} /\ offs[b] + 1 \in DOMAIN bytes
        /\ bytes[offs[b] + 1] = HeaderOf(start, blocks, b, algo)
        /\ LiesAt(bytes, offs[b] + 1, blocks[b]) /\ ItemsAt(bytes, offs[b]) = blocks[b]
  BY <1>2, BlockLies
<1>4. Linked(bytes, offs, m)
  <2>1. ASSUME NEW b \in 1..(m - 1)
        PROVE  bytes[offs[b] + 1].next = offs[b + 1]
    <3>1. b \in 1..m /\ b + 1 \in 1..m /\ b < m /\ (b + 1) - 1 = b
      BY <1>1
    <3>2. offs[b + 1] = start + b * n
      BY <3>1, <1>2
    <3>3. HeaderOf(start, blocks, b, algo).next = start + b * n
      BY <3>1 DEF HeaderOf
    <3> QED
      BY <3>1, <3>2, <3>3, <1>3
  <2> QED
    BY <2>1, <1>3 DEF Linked
<1>5. bytes[offs[m] + 1].next = 0
  <2>1. m \in 1..m /\ ~(m < m)
    BY <1>1
  <2>2. HeaderOf(start, blocks, m, algo).next = 0
    BY <2>1 DEF HeaderOf
  <2> QED
    BY <2>1, <2>2, <1>3
<1>6. offs[1] = start
  <2>1. 1 \in 1..m /\ 1 - 1 = 0 /\ 0 * n = 0
    BY <1>1, Multiple
  <2> QED
    BY <2>1, <1>2
<1>7. m <= Len(bytes)
  <2> DEFINE w == Len(chain)  l == Len(bytes)
  <2>1. m <= w /\ start + w <= l /\ l \in Nat /\ w \in Nat
    BY DEF ChainFrom, LiesAt
  <2> HIDE DEF w, l, m
  <2>2. m <= l
    BY <2>1, <1>1
  <2> QED
    BY <2>2 DEF l
<1>8. /\ t \in Seq(LinkSet(bytes, start)) /\ Len(t) = m
      /\ \A b \in 1..m : t[b] = offs[b]
  <2> HIDE DEF m, n, t
  <2>1. t = WalkBlocks(bytes, start)
    BY DEF t
  <2> QED
    BY <1>1, <1>4, <1>5, <1>6, <1>7, <2>1, WalkReach
<1>9. DOMAIN t = 1..m
  BY <1>8
<1> HIDE DEF t, m
<1>10. WalkedChain(bytes, start, blocks, algo)
  BY <1>2, <1>3, <1>8, <1>9 DEF WalkedChain, t, m
<1>11. Walk(bytes, start) = items
  <2>1. Walk(bytes, start) = FlattenSeq([k \in DOMAIN t |-> ItemsAt(bytes, t[k])])
    BY DEF Walk, t
  <2>2. \A k \in 1..m : ItemsAt(bytes, t[k]) = blocks[k]
    BY <1>3, <1>8
  <2>3. [k \in DOMAIN t |-> ItemsAt(bytes, t[k])] = [k \in 1..m |-> blocks[k]]
    BY <1>9, <2>2
  <2>4. blocks = [k \in 1..m |-> blocks[k]]
    <3>1. blocks \in Seq(Seq(C))
      BY DEF Blocked
    <3> QED
      BY <3>1, <1>1
  <2> QED
    BY <1>1, <2>1, <2>3, <2>4
<1> QED
  BY <1>10, <1>11

-----------------------------------------------------------------------------
(* The whole image of an arena.                                            *)

Placing(new, r) == [j \in DOMAIN r |-> [r[j] EXCEPT !.offset = new[Extent(r[j])]]]
StartOf(inners, base, k) ==
    base + Len(FlattenSeq([j \in 1..(k - 1) |-> BlockChain(0, inners[j].frags, "none")]))
EntryOf(x, base, k) ==
    [uid |-> x.inners[k].uid, start |-> StartOf(x.inners, base, k),
     used |-> LogicalLen(x.inners[k].frags), algo |-> x.inners[k].algo,
     hash |-> Hash(x.inners[k].algo, InnerContent(x, k))]
FragChain(inners, base, new, k) ==
    BlockChain(StartOf(inners, base, k), Placing(new, inners[k].frags), "none")
FragChains(inners, base, new) == [k \in DOMAIN inners |-> FragChain(inners, base, new, k)]
Entries(x, base) == [k \in DOMAIN x.inners |-> EntryOf(x, base, k)]
Heading(table, n) == [magic |-> "PDCP", table |-> table, used |-> table + n]

WholeImage(x) ==
    LET base == 1 + Len(Packed(x))
        table == StartOf(x.inners, base, Len(x.inners) + 1)
        chain == BlockChain(table, Entries(x, base), x.algo)
    IN  <<Heading(table, Len(chain))>> \o Packed(x)
            \o FlattenSeq(FragChains(x.inners, base, Relocated(x.inners, 1))) \o chain

LEMMA BytesAre ==
    ASSUME NEW x
    PROVE  ToBytes(x) = WholeImage(x)
BY DEF WholeImage, ToBytes, ExtentBase, Placing, StartOf, EntryOf, FragChain, FragChains, Entries,
       Heading

LEMMA PlacingIs ==
    ASSUME NEW new, NEW r \in Seq(FragSet), \A i \in DOMAIN r : new[Extent(r[i])] \in Nat
    PROVE  /\ Placing(new, r) \in Seq(FragSet) /\ Len(Placing(new, r)) = Len(r)
           /\ DOMAIN Placing(new, r) = DOMAIN r
           /\ \A i \in DOMAIN r :
                /\ Placing(new, r)[i].offset = new[Extent(r[i])]
                /\ Placing(new, r)[i].length = r[i].length
                /\ Placing(new, r)[i].shared = r[i].shared
<1> DEFINE s == Placing(new, r)  m == Len(r)
<1>1. m \in Nat /\ DOMAIN r = 1..m /\ \A i \in DOMAIN r : r[i] \in FragSet
  BY FragsLengthy
<1>2. ASSUME NEW i \in DOMAIN r
      PROVE  /\ s[i] \in FragSet /\ s[i].offset = new[Extent(r[i])]
             /\ s[i].length = r[i].length /\ s[i].shared = r[i].shared
  <2> DEFINE f == r[i]  o == new[Extent(f)]
  <2>1. f \in FragSet /\ o \in Nat
    BY <1>1
  <2>2. s[i] = [f EXCEPT !.offset = o]
    BY DEF Placing
  <2> HIDE DEF f, o, s
  <2>3. /\ [f EXCEPT !.offset = o] \in FragSet /\ [f EXCEPT !.offset = o].offset = o
        /\ [f EXCEPT !.offset = o].length = f.length /\ [f EXCEPT !.offset = o].shared = f.shared
    BY ONLY <2>1 DEF FragSet
  <2> QED
    BY <2>2, <2>3 DEF f, o
<1>3. s = [i \in 1..m |-> s[i]] /\ DOMAIN s = DOMAIN r
  BY <1>1 DEF Placing
<1> HIDE DEF s, m
<1>4. \A i \in 1..m : s[i] \in FragSet
  BY <1>1, <1>2
<1>5. s \in Seq(FragSet) /\ Len(s) = m
  BY ONLY <1>1, <1>3, <1>4, FunSeq
<1> QED
  BY <1>2, <1>3, <1>5 DEF s, m

LEMMA ChainLen ==
    ASSUME NEW C, NEW r \in Seq(C), NEW D, NEW s \in Seq(D), Len(r) = Len(s),
           NEW u, NEW v, NEW h
    PROVE  Len(BlockChain(u, r, h)) = Len(BlockChain(v, s, h))
<1>1. Len(BlockChain(u, r, h)) = Len(r) + Len(InBlocks(r))
  BY ChainIs
<1>2. Len(BlockChain(v, s, h)) = Len(s) + Len(InBlocks(s))
  BY ChainIs
<1> QED
  BY <1>1, <1>2, SameBlocks

\* Chains one after another: where each starts.
LEMMA ChainsAre ==
    ASSUME NEW inners \in Seq(InnerSet), NEW base \in Nat \ {0}, NEW new,
           \A k \in DOMAIN inners : \A i \in DOMAIN inners[k].frags :
                new[Extent(inners[k].frags[i])] \in Nat,
           NEW chains, chains = FragChains(inners, base, new)
    PROVE  /\ \E E : chains \in Seq(Seq(E))
           /\ Len(chains) = Len(inners)
           /\ \A k \in 1..(Len(inners) + 1) :
                /\ StartOf(inners, base, k) = base + Len(Upto(chains, k - 1))
                /\ StartOf(inners, base, k) \in Nat \ {0}
<1> DEFINE n == Len(inners)  row(k) == inners[k].frags
           A == [k \in 1..n |-> BlockChain(0, row(k), "none")]
           E == UNION {CellSet(FragSet, StartOf(inners, base, k),
                               InBlocks(Placing(new, row(k))), "none") : k \in 1..n}
           F == UNION {CellSet(FragSet, 0, InBlocks(row(k)), "none") : k \in 1..n}
           SE == Seq(E)  SF == Seq(F)
<1>1. n \in Nat /\ DOMAIN inners = 1..n /\ \A k \in 1..n : row(k) \in Seq(FragSet)
  BY InnersAre
<1>2. ASSUME NEW k \in 1..n
      PROVE  /\ chains[k] = FragChain(inners, base, new, k) /\ chains[k] \in SE
             /\ A[k] \in SF /\ Len(chains[k]) = Len(A[k])
  <2> DEFINE r == row(k)  s == Placing(new, r)  u == StartOf(inners, base, k)
  <2>1. r \in Seq(FragSet) /\ \A i \in DOMAIN r : new[Extent(r[i])] \in Nat
    BY <1>1
  <2>2. s \in Seq(FragSet) /\ Len(s) = Len(r)
    <3> HIDE DEF r
    <3> QED
      BY <2>1, PlacingIs
  <2>3. chains[k] = BlockChain(u, s, "none") /\ chains[k] = FragChain(inners, base, new, k)
    BY <1>1 DEF FragChains, FragChain
  <2>4. A[k] = BlockChain(0, r, "none")
    OBVIOUS
  <2>5. CellSet(FragSet, u, InBlocks(s), "none") \subseteq E
        /\ CellSet(FragSet, 0, InBlocks(r), "none") \subseteq F
    OBVIOUS
  <2> HIDE DEF A, E, F, r, s, u
  <2>6. ChainFrom(FragSet, chains[k], u, InBlocks(s), "none")
    BY <2>2, <2>3, ChainIs
  <2>7. ChainFrom(FragSet, A[k], 0, InBlocks(r), "none")
    BY <2>1, <2>4, ChainIs
  <2>8. chains[k] \in Seq(E) /\ A[k] \in Seq(F)
    <3> DEFINE X == CellSet(FragSet, u, InBlocks(s), "none")
               Y == CellSet(FragSet, 0, InBlocks(r), "none")
    <3>1. chains[k] \in Seq(X) /\ A[k] \in Seq(Y)
      BY <2>6, <2>7 DEF ChainFrom
    <3>2. X \subseteq E /\ Y \subseteq F
      BY <2>5
    <3> HIDE DEF X, Y
    <3> QED
      BY ONLY <3>1, <3>2
  <2>9. Len(chains[k]) = Len(A[k])
    <3>1. Len(s) = Len(r)
      BY <2>2
    <3> DEFINE h == "none"  v == 0
    <3> HIDE DEF h, v
    <3>3. r \in Seq(FragSet) /\ s \in Seq(FragSet)
      BY <2>1, <2>2
    <3>4. Len(BlockChain(u, s, h)) = Len(BlockChain(v, r, h))
      BY ONLY <3>1, <3>3, ChainLen
    <3>2. Len(BlockChain(u, s, "none")) = Len(BlockChain(0, r, "none"))
      BY <3>4 DEF h, v
    <3> QED
      BY <2>3, <2>4, <3>2
  <2> QED
    BY <2>3, <2>8, <2>9
<1>3. A = [k \in 1..n |-> A[k]] /\ chains = [k \in 1..n |-> chains[k]]
  BY <1>1 DEF FragChains
<1>20. \A k \in 1..n : A[k] = BlockChain(0, row(k), "none")
  OBVIOUS
<1> HIDE DEF A, SE, SF, n, row
<1>4. A \in Seq(SF) /\ Len(A) = n
  <2>1. \A k \in 1..n : A[k] \in SF
    BY <1>2
  <2> QED
    BY ONLY <1>1, <1>3, <2>1, FunSeq
<1>5. chains \in Seq(SE) /\ Len(chains) = n
  <2>1. \A k \in 1..n : chains[k] \in SE
    BY <1>2
  <2> QED
    BY ONLY <1>1, <1>3, <2>1, FunSeq
<1> HIDE DEF E, F
<1>6. A \in Seq(Seq(F)) /\ chains \in Seq(Seq(E))
  BY <1>4, <1>5 DEF SE, SF
<1>7. SameShape(A, chains)
  BY <1>2, <1>4, <1>5 DEF SameShape
<1>8. ASSUME NEW k \in 1..(n + 1)
      PROVE  StartOf(inners, base, k) = base + Len(Upto(chains, k - 1))
             /\ StartOf(inners, base, k) \in Nat \ {0}
  <2> DEFINE j == k - 1
  <2>1. j \in 0..n /\ \A i \in 1..j : i \in 1..n
    BY <1>1
  <2>2. [i \in 1..j |-> BlockChain(0, inners[i].frags, "none")] = SubSeq(A, 1, j)
    <3> DEFINE w == [i \in 1..j |-> BlockChain(0, inners[i].frags, "none")]
    <3> HIDE DEF j
    <3>1. \A i \in 1..j : w[i] = A[i]
      BY <2>1, <1>20 DEF row
    <3>2. w = [i \in 1..j |-> A[i]]
      BY <3>1
    <3>3. SubSeq(A, 1, j) = [i \in 1..j |-> A[i]]
      BY <2>1, <1>4
    <3> QED
      BY <3>2, <3>3
  <2>3. StartOf(inners, base, k) = base + Len(FlattenSeq([i \in 1..j |-> BlockChain(0, inners[i].frags, "none")]))
    BY DEF StartOf
  <2>4. StartOf(inners, base, k) = base + Len(Upto(A, j))
    BY <2>2, <2>3 DEF Upto
  <2> HIDE DEF j
  <2>5. Len(Upto(chains, j)) = Len(Upto(A, j))
    BY <2>1, <1>4, <1>6, <1>7, ShapeUpto
  <2>6. Len(Upto(chains, j)) \in Nat
    BY <2>1, <1>5, <1>6, UptoType
  <2>7. base + Len(Upto(chains, j)) \in Nat \ {0}
    BY <2>6
  <2> QED
    BY <2>4, <2>5, <2>7 DEF j
<1> QED
  BY <1>5, <1>6, <1>8 DEF n

LEMMA RelocatedNat ==
    ASSUME NEW inners \in Seq(InnerSet), NEW base \in Nat, NEW new, new = Relocated(inners, base)
    PROVE  \A k \in DOMAIN inners : \A i \in DOMAIN inners[k].frags :
                new[Extent(inners[k].frags[i])] \in Nat
<1> DEFINE R == RowsOf(inners)  es == Extents(inners)
<1>1. Listed(es, R) /\ DOMAIN R = DOMAIN inners /\ \A k \in DOMAIN inners : R[k] = inners[k].frags
  BY ExtentsAre DEF RowsOf
<1>2. es \in Seq(ExtentSet) /\ OnceEach(es)
  BY <1>1 DEF Listed
<1> SUFFICES ASSUME NEW k \in DOMAIN R, NEW i \in DOMAIN R[k]
             PROVE  new[Extent(R[k][i])] \in Nat
  BY <1>1
<1>3. PICK j \in DOMAIN es : es[j] = Extent(R[k][i])
  BY <1>1 DEF Listed
<1> HIDE DEF R, es
<1>4. es = Extents(inners)
  BY DEF es
<1>5. Relocated(inners, base)[es[j]] = base + Before(es, j - 1)
  BY <1>2, <1>4, RelocatedAt
<1>6. Len(es) \in Nat /\ Lengthy(es, Len(es)) /\ DOMAIN es = 1..Len(es)
  BY <1>2, ExtentLengths
<1>7. Before(es, j - 1) \in Nat
  <2>1. j - 1 \in 0..Len(es)
    <3> DEFINE m == Len(es)
    <3>1. m \in Nat /\ j \in 1..m
      BY <1>6
    <3> HIDE DEF m
    <3>2. j - 1 \in 0..m
      BY ONLY <3>1
    <3> QED
      BY <3>2 DEF m
  <2> QED
    BY <2>1, <1>6, BeforeIs
<1> QED
  BY <1>3, <1>5, <1>7

\* What is where in the image of an arena.
Imaged(x, bytes, base, new, table, entries, chain) ==
    /\ base = 1 + Len(Packed(x)) /\ base \in Nat \ {0}
    /\ new = Relocated(x.inners, 1)
    /\ table = StartOf(x.inners, base, Len(x.inners) + 1) /\ table \in Nat \ {0}
    /\ entries = Entries(x, base) /\ chain = BlockChain(table, entries, x.algo)
    /\ Len(bytes) \in Nat /\ Len(bytes) = table + Len(chain)
    /\ bytes[1] = Heading(table, Len(chain))
    /\ LiesAt(bytes, 1, Packed(x)) /\ LiesAt(bytes, table, chain)
    /\ \A k \in DOMAIN x.inners :
        /\ StartOf(x.inners, base, k) \in Nat \ {0}
        /\ LiesAt(bytes, StartOf(x.inners, base, k), FragChain(x.inners, base, new, k))

LEMMA ImageIs ==
    ASSUME NEW D, Byte \subseteq D, NEW x \in ArenaSet(D), Good(x.blob, RowsOf(x.inners)),
           NEW bytes, bytes = ToBytes(x)
    PROVE  /\ \E E : Byte \subseteq E /\ bytes \in Seq(E)
           /\ \E base, new, table, entries, chain :
                Imaged(x, bytes, base, new, table, entries, chain)
<1> DEFINE inners == x.inners  packed == Packed(x)  base == 1 + Len(packed)
           new == Relocated(inners, 1)  n == Len(inners)
           table == StartOf(inners, base, n + 1)  entries == Entries(x, base)
           chain == BlockChain(table, entries, x.algo)  chains == FragChains(inners, base, new)
           flat == FlattenSeq(chains)  head == Heading(table, Len(chain))  h == <<head>>
<1>1. inners \in Seq(InnerSet) /\ x.blob \in Seq(D)
  BY DEF ArenaSet
<1>2. bytes = h \o packed \o flat \o chain
  BY BytesAre DEF WholeImage
<1>3. packed \in Seq(Byte) /\ Len(packed) \in Nat
  <2> DEFINE es == Extents(inners)  R == RowsOf(inners)
  <2>1. R \in Rows /\ Listed(es, R) /\ Pooled(x.blob, R)
    BY <1>1, InnersAre, ExtentsAre DEF Good
  <2>2. es \in Seq(ExtentSet) /\ \A j \in DOMAIN es : InPool(x.blob, es[j])
    BY <2>1, ExtentsPooled DEF Listed
  <2>3. packed = Content(x.blob, es)
    BY DEF Packed
  <2> HIDE DEF es, packed
  <2>4. packed \in Seq(Byte)
    BY <1>1, <2>2, <2>3, PackedInOrder DEF InOrder
  <2> QED
    BY <2>4
<1> HIDE DEF packed
<1>4. base \in Nat \ {0} /\ base = 1 + Len(packed)
  BY <1>3
<1>5. n \in Nat /\ DOMAIN inners = 1..n
  BY <1>1, InnersAre
<1>6. \A k \in DOMAIN inners : \A i \in DOMAIN inners[k].frags :
            new[Extent(inners[k].frags[i])] \in Nat
  <2> DEFINE o == 1
  <2>1. o \in Nat /\ new = Relocated(inners, o)
    OBVIOUS
  <2> HIDE DEF o, new, inners
  <2> QED
    BY <1>1, <2>1, RelocatedNat
<1> HIDE DEF base, new, inners, n
<1>7. /\ \E E : chains \in Seq(Seq(E))
      /\ Len(chains) = n
      /\ \A k \in 1..(n + 1) :
            /\ StartOf(inners, base, k) = base + Len(Upto(chains, k - 1))
            /\ StartOf(inners, base, k) \in Nat \ {0}
  BY <1>1, <1>4, <1>6, ChainsAre DEF n
<1>8. PICK E1 : chains \in Seq(Seq(E1))
  BY <1>7
<1>9. table = base + Len(flat) /\ table \in Nat \ {0} /\ flat \in Seq(E1)
  <2>1. n + 1 \in 1..(n + 1) /\ (n + 1) - 1 = n
    BY <1>5
  <2>2. Upto(chains, n) = flat
    BY <1>7, <1>8, UptoAll
  <2>3. flat \in Seq(E1)
    BY <1>8, FlattenType
  <2> QED
    BY <1>7, <2>1, <2>2, <2>3
<1> HIDE DEF table
<1> DEFINE S == {entries[k] : k \in 1..n}  E2 == CellSet(S, table, InBlocks(entries), x.algo)
<1>10. chain \in Seq(E2)
  <2>1. DOMAIN entries = 1..n /\ entries = [k \in 1..n |-> entries[k]]
    BY <1>5 DEF Entries, inners
  <2>2. \A k \in 1..n : entries[k] \in S
    OBVIOUS
  <2> HIDE DEF entries, S
  <2>3. entries \in Seq(S)
    BY ONLY <1>5, <2>1, <2>2, FunSeq
  <2>4. ChainFrom(S, chain, table, InBlocks(entries), x.algo)
    BY <2>3, ChainIs
  <2> QED
    BY <2>4 DEF ChainFrom
<1> HIDE DEF E2, S
<1> DEFINE E == ((E1 \cup E2) \cup {head}) \cup Byte
<1>11. h \in Seq(E) /\ Len(h) = 1 /\ h[1] = head
  OBVIOUS
<1>12. E1 \subseteq E /\ E2 \subseteq E /\ Byte \subseteq E
  OBVIOUS
<1> HIDE DEF chain, flat, E, head, h, chains, entries
<1>13. packed \in Seq(E) /\ flat \in Seq(E) /\ chain \in Seq(E)
  BY ONLY <1>3, <1>9, <1>10, <1>12
<1>14. FourIn(E, bytes, h, packed, flat, chain)
  BY <1>2, <1>11, <1>13, FourLie
<1>15. /\ bytes \in Seq(E) /\ Len(bytes) = Len(h) + Len(packed) + Len(flat) + Len(chain)
       /\ LiesAt(bytes, 0, h) /\ LiesAt(bytes, Len(h), packed)
       /\ LiesAt(bytes, Len(h) + Len(packed), flat)
       /\ LiesAt(bytes, Len(h) + Len(packed) + Len(flat), chain)
  BY <1>14 DEF FourIn
<1>16. Len(flat) \in Nat /\ Len(chain) \in Nat /\ Len(bytes) \in Nat
  BY <1>13, <1>15
<1>17. Len(bytes) = table + Len(chain)
  BY <1>4, <1>9, <1>11, <1>15
<1>18. LiesAt(bytes, 1, packed) /\ LiesAt(bytes, base, flat) /\ LiesAt(bytes, table, chain)
  BY <1>4, <1>9, <1>11, <1>15
<1>19. bytes[1] = head
  <2>1. \A i \in 1..Len(h) : bytes[0 + i] = h[i]
    BY <1>15 DEF LiesAt
  <2>2. 1 \in 1..Len(h) /\ 0 + 1 = 1
    BY <1>11
  <2> QED
    BY <1>11, <2>1, <2>2
<1>20. ASSUME NEW k \in DOMAIN inners
       PROVE  /\ StartOf(inners, base, k) \in Nat \ {0}
              /\ LiesAt(bytes, StartOf(inners, base, k), FragChain(inners, base, new, k))
  <2>1. k \in 1..n /\ k \in 1..(n + 1)
    BY <1>5
  <2>2. StartOf(inners, base, k) = base + Len(Upto(chains, k - 1))
        /\ StartOf(inners, base, k) \in Nat \ {0}
    BY <1>7, <2>1
  <2>3. chains[k] = FragChain(inners, base, new, k)
    BY DEF chains, FragChains
  <2>4. k \in 1..Len(chains)
    BY <2>1, <1>7
  <2>5. LiesAt(flat, Len(Upto(chains, k - 1)), chains[k])
    BY <1>8, <2>4, FlattenLies DEF flat
  <2>6. chains[k] \in Seq(E1)
    BY <1>8, <2>4
  <2>7. Len(chains[k]) \in Nat
    BY <2>6
  <2>8. LiesAt(bytes, base + Len(Upto(chains, k - 1)), chains[k])
    BY <1>16, <1>18, <2>5, <2>7, LiesTwice
  <2> QED
    BY <2>2, <2>3, <2>8
<1>21. Imaged(x, bytes, base, new, table, entries, chain)
  BY <1>4, <1>9, <1>16, <1>17, <1>18, <1>19, <1>20
     DEF Imaged, base, new, table, entries, chain, head, inners, packed, n
<1> QED
  BY <1>12, <1>15, <1>21

\* The inner partitions a parser finds.
Replaced2(inners, new, q) ==
    /\ q \in Seq(InnerSet) /\ Len(q) = Len(inners) /\ DOMAIN q = DOMAIN inners
    /\ \A k \in DOMAIN inners :
        /\ q[k].uid = inners[k].uid /\ q[k].algo = inners[k].algo
        /\ q[k].frags = Placing(new, inners[k].frags)

LEMMA InnerMade ==
    ASSUME NEW uid \in Uid, NEW algo \in Algo, NEW frags \in Seq(FragSet)
    PROVE  /\ Inner(uid, algo, frags) \in InnerSet /\ Inner(uid, algo, frags).uid = uid
           /\ Inner(uid, algo, frags).algo = algo /\ Inner(uid, algo, frags).frags = frags
BY DEF Inner, InnerSet

EntriesListed(entries, x, base, S, n) ==
    /\ entries \in Seq(S) /\ Len(entries) = n /\ DOMAIN entries = 1..n
    /\ \A k \in 1..n : entries[k] = EntryOf(x, base, k)

LEMMA EntriesAre ==
    ASSUME NEW x, NEW inners \in Seq(InnerSet), inners = x.inners, NEW n, n = Len(inners),
           NEW base, NEW entries, entries = Entries(x, base)
    PROVE  \E S : EntriesListed(entries, x, base, S, n)
<1> DEFINE S == {entries[k] : k \in 1..n}
<1>0. n \in Nat /\ DOMAIN x.inners = 1..n
  BY InnersAre
<1>1. DOMAIN entries = 1..n /\ entries = [k \in 1..n |-> entries[k]]
      /\ \A k \in 1..n : entries[k] = EntryOf(x, base, k)
  BY <1>0 DEF Entries
<1>2. \A k \in 1..n : entries[k] \in S
  OBVIOUS
<1> HIDE DEF S
<1>3. entries \in Seq(S) /\ Len(entries) = n
  BY ONLY <1>0, <1>1, <1>2, FunSeq
<1>4. EntriesListed(entries, x, base, S, n)
  BY <1>1, <1>3 DEF EntriesListed
<1> QED
  BY <1>4

LEMMA ParsedIs ==
    ASSUME NEW D, NEW x \in ArenaSet(D), NEW E, NEW bytes \in Seq(E),
           NEW base, NEW new, NEW table, NEW entries, NEW chain,
           Imaged(x, bytes, base, new, table, entries, chain), NEW y, y = Parse(bytes)
    PROVE  /\ y.blob = bytes /\ y = Arena(x.algo, bytes, y.inners) /\ y.algo = x.algo
           /\ Replaced2(x.inners, new, y.inners)
           /\ WalkedChain(bytes, table, InBlocks(entries), x.algo)
           /\ \E S : Blocked(S, entries, InBlocks(entries))
<1> DEFINE inners == x.inners  n == Len(inners)  blocks == InBlocks(entries)  q == y.inners
<1>1. inners \in Seq(InnerSet)
  BY DEF ArenaSet
<1>2. n \in Nat /\ DOMAIN inners = 1..n /\ \A k \in DOMAIN inners :
        inners[k].uid \in Uid /\ inners[k].algo \in Algo /\ inners[k].frags \in Seq(FragSet)
  BY <1>1, InnersAre
<1>3. /\ table \in Nat \ {0} /\ entries = Entries(x, base)
      /\ chain = BlockChain(table, entries, x.algo) /\ LiesAt(bytes, table, chain)
      /\ bytes[1] = Heading(table, Len(chain)) /\ new = Relocated(inners, 1)
      /\ \A k \in DOMAIN inners :
            /\ StartOf(inners, base, k) \in Nat \ {0}
            /\ LiesAt(bytes, StartOf(inners, base, k), FragChain(inners, base, new, k))
  BY DEF Imaged
<1>a. inners = x.inners /\ n = Len(inners)
  OBVIOUS
<1> HIDE DEF blocks, inners, n
<1>b. \E S : EntriesListed(entries, x, base, S, n)
  <2>1. entries = Entries(x, base)
    BY <1>3
  <2> QED
    BY ONLY <1>1, <1>a, <2>1, EntriesAre
<1>c. PICK S : EntriesListed(entries, x, base, S, n)
  BY <1>b
<1>4. /\ entries \in Seq(S) /\ Len(entries) = n /\ DOMAIN entries = 1..n
      /\ \A k \in 1..n : entries[k] = EntryOf(x, base, k)
  BY <1>c DEF EntriesListed
<1>5. Blocked(S, entries, blocks) /\ ChainFrom(S, chain, table, blocks, x.algo)
  BY <1>3, <1>4, InBlocksAre, ChainIs DEF blocks
<1>6. WalkedChain(bytes, table, blocks, x.algo) /\ Walk(bytes, table) = entries
  <2> DEFINE h == x.algo
  <2>1. Blocked(S, entries, blocks) /\ ChainFrom(S, chain, table, blocks, h)
    BY <1>5
  <2> HIDE DEF h
  <2>2. WalkedChain(bytes, table, blocks, h) /\ Walk(bytes, table) = entries
    <3>1. table \in Nat \ {0} /\ LiesAt(bytes, table, chain) /\ bytes \in Seq(E)
      BY <1>3
    <3> QED
      BY ONLY <2>1, <3>1, ChainWalked
  <2> QED
    BY <2>2 DEF h
<1>7. bytes[1].table = table
  BY <1>3 DEF Heading
<1>8. \A k \in DOMAIN inners : \A i \in DOMAIN inners[k].frags :
            new[Extent(inners[k].frags[i])] \in Nat
  <2> DEFINE o == 1
  <2>1. o \in Nat /\ new = Relocated(inners, o)
    BY <1>3
  <2> HIDE DEF o
  <2> QED
    BY <1>1, <2>1, RelocatedNat
<1>9. ASSUME NEW k \in 1..n
      PROVE  /\ Placing(new, inners[k].frags) \in Seq(FragSet)
             /\ Walk(bytes, entries[k].start) = Placing(new, inners[k].frags)
             /\ entries[k].uid = inners[k].uid /\ entries[k].algo = inners[k].algo
  <2> DEFINE r == Placing(new, inners[k].frags)  u == StartOf(inners, base, k)  c == BlockChain(u, r, "none")
  <2>1. r \in Seq(FragSet)
    <3> DEFINE s == inners[k].frags
    <3>1. s \in Seq(FragSet) /\ \A i \in DOMAIN s : new[Extent(s[i])] \in Nat
      BY <1>2, <1>8
    <3> HIDE DEF s
    <3>2. Placing(new, s) \in Seq(FragSet)
      BY <3>1, PlacingIs
    <3> QED
      BY <3>2 DEF s
  <2>2. u \in Nat \ {0} /\ LiesAt(bytes, u, c)
    BY <1>2, <1>3 DEF FragChain
  <2> HIDE DEF r, u, c
  <2>3. Blocked(FragSet, r, InBlocks(r)) /\ ChainFrom(FragSet, c, u, InBlocks(r), "none")
    BY <2>1, InBlocksAre, ChainIs DEF c
  <2>4. Walk(bytes, u) = r
    <3> DEFINE h == "none"  blk == InBlocks(r)
    <3>1. Blocked(FragSet, r, blk) /\ ChainFrom(FragSet, c, u, blk, h)
      BY <2>3
    <3> HIDE DEF h, blk
    <3>2. u \in Nat \ {0} /\ LiesAt(bytes, u, c) /\ bytes \in Seq(E)
      BY <2>2
    <3> QED
      BY ONLY <3>1, <3>2, ChainWalked
  <2>5. entries[k].start = u /\ entries[k].uid = inners[k].uid /\ entries[k].algo = inners[k].algo
    BY <1>4 DEF EntryOf, u, inners
  <2> QED
    BY <2>1, <2>4, <2>5 DEF r
<1>d. bytes[table + 1].algo = x.algo
  <2> DEFINE h == x.algo  m == Len(blocks)
  <2>1. m \in Nat \ {0}
    BY <1>5 DEF Blocked
  <2> HIDE DEF m
  <2>2. 1 \in 1..m /\ table = table + (1 - 1) * (MaxPerBlock + 1)
    BY <2>1, <1>3, MaxPerBlockAssumption
  <2>3. bytes[table + 1] = HeaderOf(table, blocks, 1, h)
    BY <1>3, <1>5, <2>2, BlockLies DEF m
  <2> QED
    BY <2>3 DEF HeaderOf
<1>10. y = Arena(x.algo, bytes, [k \in 1..n |->
                Inner(entries[k].uid, entries[k].algo, Walk(bytes, entries[k].start))])
  BY <1>4, <1>6, <1>7, <1>d DEF Parse
<1>11. y.blob = bytes /\ y = Arena(x.algo, bytes, q) /\ y.algo = x.algo
       /\ q = [k \in 1..n |->
                Inner(entries[k].uid, entries[k].algo, Walk(bytes, entries[k].start))]
  BY <1>10 DEF Arena
<1> HIDE DEF q
<1>12. \A k \in 1..n :
        /\ q[k] \in InnerSet /\ q[k].uid = inners[k].uid /\ q[k].algo = inners[k].algo
        /\ q[k].frags = Placing(new, inners[k].frags)
  <2> SUFFICES ASSUME NEW k \in 1..n
               PROVE  /\ q[k] \in InnerSet /\ q[k].uid = inners[k].uid
                      /\ q[k].algo = inners[k].algo
                      /\ q[k].frags = Placing(new, inners[k].frags)
    OBVIOUS
  <2> DEFINE r == Placing(new, inners[k].frags)  u == inners[k].uid  v == inners[k].algo
  <2>1. q[k] = Inner(u, v, r) /\ u \in Uid /\ v \in Algo /\ r \in Seq(FragSet)
    BY <1>2, <1>9, <1>11
  <2> HIDE DEF r, u, v
  <2>2. q[k] \in InnerSet /\ q[k].uid = u /\ q[k].algo = v /\ q[k].frags = r
    BY <2>1, InnerMade
  <2> QED
    BY <2>2 DEF r, u, v
<1>13. q \in Seq(InnerSet) /\ Len(q) = n /\ DOMAIN q = 1..n
  <2>1. q = [k \in 1..n |-> q[k]] /\ \A k \in 1..n : q[k] \in InnerSet
    BY <1>11, <1>12
  <2> QED
    BY ONLY <1>2, <2>1, FunSeq
<1>14. Replaced2(inners, new, q)
  BY <1>2, <1>12, <1>13 DEF Replaced2, n
<1> QED
  BY <1>5, <1>6, <1>11, <1>14 DEF inners, q, blocks

\* The fragments of the image, in the new places.
LEMMA PlacedMoves ==
    ASSUME NEW inners \in Seq(InnerSet), NEW R, R = RowsOf(inners), NEW new, NEW q,
           Replaced2(inners, new, q), NEW S, S = RowsOf(q),
           \A k \in DOMAIN inners : \A i \in DOMAIN inners[k].frags :
                new[Extent(inners[k].frags[i])] \in Nat
    PROVE  MovedBy(R, S, new) /\ FlagsStay(R, S)
<1>1. R \in Rows /\ DOMAIN R = DOMAIN inners /\ \A k \in DOMAIN inners : R[k] = inners[k].frags
  BY InnersAre DEF RowsOf
<1>2. q \in Seq(InnerSet) /\ DOMAIN q = DOMAIN inners
      /\ \A k \in DOMAIN inners : q[k].frags = Placing(new, inners[k].frags)
  BY DEF Replaced2
<1>3. S \in Rows /\ DOMAIN S = DOMAIN R /\ \A k \in DOMAIN inners : S[k] = Placing(new, R[k])
  <2>1. S \in Rows /\ DOMAIN S = DOMAIN q /\ \A k \in DOMAIN q : S[k] = q[k].frags
    BY <1>2, InnersAre DEF RowsOf
  <2> QED
    BY <1>1, <1>2, <2>1
<1>4. ASSUME NEW k \in DOMAIN R
      PROVE  /\ DOMAIN S[k] = DOMAIN R[k]
             /\ \A i \in DOMAIN R[k] :
                    /\ S[k][i].offset = new[Extent(R[k][i])] /\ S[k][i].length = R[k][i].length
                    /\ S[k][i].shared = R[k][i].shared
  <2> DEFINE r == R[k]
  <2>1. r \in Seq(FragSet) /\ \A i \in DOMAIN r : new[Extent(r[i])] \in Nat
    BY <1>1, InnersAre
  <2>2. S[k] = Placing(new, r)
    BY <1>1, <1>3
  <2> HIDE DEF r
  <2>3. /\ DOMAIN S[k] = DOMAIN r
        /\ \A i \in DOMAIN r :
                /\ S[k][i].offset = new[Extent(r[i])] /\ S[k][i].length = r[i].length
                /\ S[k][i].shared = r[i].shared
    BY ONLY <2>1, <2>2, PlacingIs
  <2> QED
    BY <2>3 DEF r
<1>5. MovedBy(R, S, new)
  BY <1>3, <1>4 DEF MovedBy
<1>6. FlagsStay(R, S)
  BY <1>4 DEF FlagsStay
<1> QED
  BY <1>5, <1>6

\* Writing an arena and reading it again keeps every partition of it.
LEMMA ReopenIs ==
    ASSUME NEW D, NEW x \in ArenaSet(D), Good(x.blob, RowsOf(x.inners)),
           NEW E, NEW bytes \in Seq(E),
           NEW base, NEW new, NEW table, NEW entries, NEW chain,
           Imaged(x, bytes, base, new, table, entries, chain), NEW y, y = Parse(bytes)
    PROVE  Preserved(E, x, y)
<1> DEFINE inners == x.inners  pool == x.blob  R == RowsOf(inners)  es == Extents(inners)
           packed == Content(pool, es)  w == Len(bytes)  q == y.inners  S == RowsOf(q)
<1>1. pool \in Seq(D) /\ inners \in Seq(InnerSet) /\ Good(pool, R)
  BY DEF ArenaSet
<1>2. /\ y.blob = bytes /\ y = Arena(x.algo, bytes, q) /\ x.algo \in TableAlgo
      /\ Replaced2(inners, new, q)
  BY ParsedIs DEF ArenaSet
<1>3. new = Relocated(inners, 1) /\ LiesAt(bytes, 1, Packed(x)) /\ w \in Nat
  BY DEF Imaged
<1>4. Packed(x) = packed
  BY DEF Packed
<1> HIDE DEF inners, pool, R, es, packed, w, q, S
<1>5. /\ Listed(es, R) /\ InOrder(packed, pool, es)
      /\ Placed(pool, bytes, ToSet(es), new)
      /\ ExtentsOf(R) \subseteq ToSet(es)
  <2> DEFINE o == 1
  <2>1. o \in Nat /\ new = Relocated(inners, o) /\ LiesAt(bytes, o, packed)
    BY <1>3, <1>4
  <2> HIDE DEF o
  <2>2. o + Len(packed) <= w /\ \A i \in 1..Len(packed) : bytes[o + i] = packed[i]
    BY <2>1 DEF LiesAt, w
  <2> QED
    BY <1>1, <1>3, <2>1, <2>2, LaidOut DEF R, es, packed, w
<1>6. R \in Rows /\ DOMAIN R = DOMAIN inners /\ \A k \in DOMAIN inners : R[k] = inners[k].frags
  BY <1>1, InnersAre DEF RowsOf, R
<1>7. \A k \in DOMAIN inners : \A i \in DOMAIN inners[k].frags :
            new[Extent(inners[k].frags[i])] \in Nat
  <2> SUFFICES ASSUME NEW k \in DOMAIN R, NEW i \in DOMAIN R[k]
               PROVE  new[Extent(R[k][i])] \in Nat
    BY <1>6
  <2>1. Extent(R[k][i]) \in ToSet(es)
    BY <1>5, ExtentsHere
  <2> QED
    BY <2>1, <1>5 DEF Placed
<1>9. MovedBy(R, S, new) /\ FlagsStay(R, S)
  BY <1>1, <1>2, <1>7, PlacedMoves DEF R, S
<1>11. Good(bytes, S) /\ SameSlices(pool, bytes, R, S)
  BY <1>1, <1>5, <1>6, <1>9, MovedRows
<1>12. q \in Seq(InnerSet) /\ Len(q) = Len(inners) /\ DOMAIN q = DOMAIN inners
       /\ \A k \in DOMAIN inners : q[k].uid = inners[k].uid /\ q[k].algo = inners[k].algo
  BY <1>2 DEF Replaced2
<1>13. y \in ArenaSet(E)
  BY <1>2, <1>12, ArenaIn
<1>14. \A k \in DOMAIN inners : InnerContent(y, k) = InnerContent(x, k)
  <2> SUFFICES ASSUME NEW k \in DOMAIN inners
               PROVE  InnerContent(y, k) = InnerContent(x, k)
    OBVIOUS
  <2>1. InnerContent(x, k) = Content(pool, R[k])
    BY <1>6 DEF InnerContent, pool, inners
  <2>2. S[k] = q[k].frags
    BY <1>12 DEF S, RowsOf
  <2>3. InnerContent(y, k) = Content(bytes, S[k])
    BY <1>2, <2>2 DEF InnerContent, q
  <2> QED
    BY <1>6, <1>11, <2>1, <2>3 DEF SameSlices
<1> QED
  BY <1>2, <1>11, <1>12, <1>13, <1>14 DEF Preserved, Kept, S, q, inners

-----------------------------------------------------------------------------
(* What an arena holds, whatever its extents, and what each operation does *)
(* to that.                                                                *)

OnceUids(inners) == \A k, l \in DOMAIN inners : inners[k].uid = inners[l].uid => k = l

\* The invariant of one container.
HealthyIn(D, x) ==
    /\ Byte \subseteq D /\ x \in ArenaSet(D) /\ Good(x.blob, RowsOf(x.inners))
    /\ OnceUids(x.inners)
Healthy(x) == \E D : HealthyIn(D, x)

InnerHolds(x, v, g, c) ==
    \E l \in DOMAIN x.inners :
        x.inners[l].uid = v /\ x.inners[l].algo = g /\ InnerContent(x, l) = c

ArenaSame(x, y) == \A v, g, c : InnerHolds(y, v, g, c) <=> InnerHolds(x, v, g, c)
ArenaLoses(x, y, u) ==
    \A v, g, c : InnerHolds(y, v, g, c) <=> v # u /\ InnerHolds(x, v, g, c)
ArenaSets(x, y, u, h, d) ==
    \A v, g, c : InnerHolds(y, v, g, c) <=>
        (v # u /\ InnerHolds(x, v, g, c)) \/ (v = u /\ g = h /\ c = d)

LEMMA UidsHeld ==
    ASSUME NEW x, NEW v
    PROVE  v \in Uids(x) <=> \E g, c : InnerHolds(x, v, g, c)
BY DEF Uids, InnerHolds

LEMMA UidIndex ==
    ASSUME NEW x, OnceUids(x.inners), NEW v, v \in Uids(x)
    PROVE  /\ IndexOf(x, v) \in DOMAIN x.inners /\ x.inners[IndexOf(x, v)].uid = v
           /\ \A l \in DOMAIN x.inners : x.inners[l].uid = v => l = IndexOf(x, v)
<1>1. \E k \in DOMAIN x.inners : x.inners[k].uid = v
  BY DEF Uids
<1>2. IndexOf(x, v) \in DOMAIN x.inners /\ x.inners[IndexOf(x, v)].uid = v
  BY <1>1 DEF IndexOf
<1> QED
  BY <1>2 DEF OnceUids

LEMMA KeptSame ==
    ASSUME NEW x, NEW y, OnceUids(x.inners), DOMAIN y.inners = DOMAIN x.inners,
           \A l \in DOMAIN x.inners :
                /\ y.inners[l].uid = x.inners[l].uid /\ y.inners[l].algo = x.inners[l].algo
                /\ InnerContent(y, l) = InnerContent(x, l)
    PROVE  OnceUids(y.inners) /\ ArenaSame(x, y)
<1>1. OnceUids(y.inners)
  BY DEF OnceUids
<1>2. ASSUME NEW v, NEW g, NEW c
      PROVE  InnerHolds(y, v, g, c) <=> InnerHolds(x, v, g, c)
  BY DEF InnerHolds
<1> QED
  BY <1>1, <1>2 DEF ArenaSame

LEMMA PreservedHealthy ==
    ASSUME NEW D, NEW x, HealthyIn(D, x), NEW E, Byte \subseteq E, NEW y, Preserved(E, x, y)
    PROVE  HealthyIn(E, y) /\ ArenaSame(x, y)
<1>1. /\ OnceUids(x.inners) /\ DOMAIN y.inners = DOMAIN x.inners
      /\ \A l \in DOMAIN x.inners :
            /\ y.inners[l].uid = x.inners[l].uid /\ y.inners[l].algo = x.inners[l].algo
            /\ InnerContent(y, l) = InnerContent(x, l)
  BY DEF HealthyIn, Preserved, Kept
<1>2. OnceUids(y.inners) /\ ArenaSame(x, y)
  BY <1>1, KeptSame
<1> QED
  BY <1>2 DEF HealthyIn, Preserved

LEMMA HealthyEmpty ==
    ASSUME NEW a \in TableAlgo, NEW x, x = EmptyArena(a)
    PROVE  Healthy(x) /\ \A v, g, c : ~InnerHolds(x, v, g, c)
<1>1. Copied(Byte, x, x, 0)
  BY EmptyIs
<1>2. x.inners = <<>>
  BY DEF EmptyArena, Arena
<1>3. HealthyIn(Byte, x)
  BY <1>1, <1>2 DEF HealthyIn, Copied, OnceUids
<1> QED
  BY <1>2, <1>3 DEF Healthy, InnerHolds

LEMMA HealthyAdd ==
    ASSUME NEW x, Healthy(x), NEW uid \in Uid, uid \notin Uids(x), NEW algo \in Algo,
           NEW content \in Seq(Byte), NEW n \in Nat,
           NEW y, y = AddInner(x, uid, algo, content, n)
    PROVE  Healthy(y) /\ ArenaSets(x, y, uid, algo, content)
<1>1. PICK D : HealthyIn(D, x)
  BY DEF Healthy
<1>2. Byte \subseteq D /\ x \in ArenaSet(D) /\ Good(x.blob, RowsOf(x.inners))
  BY <1>1 DEF HealthyIn
<1>3. Gained(D, x, y, uid, algo, content)
  BY <1>2, AddInnerIs
<1> DEFINE m == Len(x.inners)  e == m + 1
<1>4. /\ m \in Nat /\ DOMAIN x.inners = 1..m /\ DOMAIN y.inners = 1..e
  <2>1. x.inners \in Seq(InnerSet) /\ y.inners \in Seq(InnerSet)
    BY <1>2, <1>3 DEF ArenaSet, Gained
  <2> QED
    BY <2>1, <1>3, InnersAre DEF Gained
<1>5. /\ \A l \in 1..m : /\ y.inners[l].uid = x.inners[l].uid
                         /\ y.inners[l].algo = x.inners[l].algo
                         /\ InnerContent(y, l) = InnerContent(x, l)
      /\ y.inners[e].uid = uid /\ y.inners[e].algo = algo /\ InnerContent(y, e) = content
  BY <1>3, <1>4 DEF Gained
<1> HIDE DEF m
<1>6. \A l \in 1..e : l \in 1..m \/ l = e
  BY <1>4
<1>7. 1..m \subseteq 1..e /\ e \in 1..e
  BY <1>4
<1> HIDE DEF e
<1>8. \A l \in 1..m : x.inners[l].uid # uid
  BY <1>4 DEF Uids
<1>9. OnceUids(y.inners)
  <2>1. \A i, j \in 1..m : x.inners[i].uid = x.inners[j].uid => i = j
    BY <1>1, <1>4 DEF OnceUids, HealthyIn
  <2> SUFFICES ASSUME NEW i \in 1..e, NEW j \in 1..e, y.inners[i].uid = y.inners[j].uid
               PROVE  i = j
    BY <1>4 DEF OnceUids
  <2> QED
    BY ONLY <1>5, <1>6, <1>8, <2>1, i \in 1..e, j \in 1..e, y.inners[i].uid = y.inners[j].uid
<1>10. ASSUME NEW v, NEW g, NEW c
       PROVE  InnerHolds(y, v, g, c) <=>
                (v # uid /\ InnerHolds(x, v, g, c)) \/ (v = uid /\ g = algo /\ c = content)
  BY <1>4, <1>5, <1>6, <1>7, <1>8 DEF InnerHolds
<1>11. HealthyIn(D, y)
  BY <1>2, <1>3, <1>9 DEF HealthyIn, Gained
<1> QED
  BY <1>10, <1>11 DEF Healthy, ArenaSets

LEMMA HealthyEdit ==
    ASSUME NEW x, Healthy(x), NEW uid \in Uids(x), NEW k, k = IndexOf(x, uid),
           NEW c, c = InnerContent(x, k), NEW pos \in Nat, NEW len \in Nat,
           NEW end, end = pos + len, end <= Len(c), NEW bytes \in Seq(Byte),
           NEW y, y = Edit(x, uid, pos, len, bytes)
    PROVE  /\ Healthy(y)
           /\ ArenaSets(x, y, uid, x.inners[k].algo, Changed(c, pos, end, bytes))
<1>1. PICK D : HealthyIn(D, x)
  BY DEF Healthy
<1>2. Byte \subseteq D /\ x \in ArenaSet(D) /\ Good(x.blob, RowsOf(x.inners)) /\ OnceUids(x.inners)
  BY <1>1 DEF HealthyIn
<1>3. /\ k \in DOMAIN x.inners /\ x.inners[k].uid = uid
      /\ \A l \in DOMAIN x.inners : x.inners[l].uid = uid => l = k
  BY <1>2, UidIndex
<1> DEFINE d == Changed(c, pos, end, bytes)
<1>4. Rewritten(D, x, y, k, d)
  BY <1>2, <1>3, EditIs
<1> HIDE DEF d
<1>5. /\ DOMAIN y.inners = DOMAIN x.inners
      /\ \A l \in DOMAIN x.inners :
        /\ y.inners[l].uid = x.inners[l].uid /\ y.inners[l].algo = x.inners[l].algo
        /\ InnerContent(y, l) = IF l = k THEN d ELSE InnerContent(x, l)
  BY <1>4 DEF Rewritten
<1>6. HealthyIn(D, y)
  BY <1>2, <1>4, <1>5 DEF HealthyIn, Rewritten, OnceUids
<1>7. ASSUME NEW v, NEW g, NEW e
      PROVE  InnerHolds(y, v, g, e) <=>
                (v # uid /\ InnerHolds(x, v, g, e))
                    \/ (v = uid /\ g = x.inners[k].algo /\ e = d)
  BY <1>3, <1>5 DEF InnerHolds
<1> QED
  BY <1>6, <1>7 DEF Healthy, ArenaSets, d

LEMMA HealthyRemove ==
    ASSUME NEW x, Healthy(x), NEW uid \in Uids(x), NEW y, y = RemoveInner(x, uid)
    PROVE  Healthy(y) /\ ArenaLoses(x, y, uid)
<1> DEFINE k == IndexOf(x, uid)
<1>1. PICK D : HealthyIn(D, x)
  BY DEF Healthy
<1>2. Byte \subseteq D /\ x \in ArenaSet(D) /\ Good(x.blob, RowsOf(x.inners)) /\ OnceUids(x.inners)
  BY <1>1 DEF HealthyIn
<1>3. /\ k \in DOMAIN x.inners /\ x.inners[k].uid = uid
      /\ \A l \in DOMAIN x.inners : x.inners[l].uid = uid => l = k
  BY <1>2, UidIndex
<1>4. Dropped(D, x, y, k)
  BY <1>2, <1>3, RemoveIs
<1> HIDE DEF k
<1>5. OnceUids(y.inners)
  <2> DEFINE m == Len(x.inners)  e == m - 1  X == x.inners  Y == y.inners
  <2>1. X \in Seq(InnerSet) /\ Y \in Seq(InnerSet)
    BY <1>2, <1>4 DEF ArenaSet, Dropped
  <2>2. m \in Nat /\ DOMAIN X = 1..m /\ DOMAIN Y = 1..e
    BY <2>1, <1>4, InnersAre DEF Dropped, Without
  <2>3. (\A l \in 1..(k - 1) : Y[l] = X[l]) /\ (\A l \in k..(m - 1) : Y[l] = X[l + 1])
    BY <1>4 DEF Dropped, Without
  <2>4. k \in 1..m /\ \A i, j \in 1..m : X[i].uid = X[j].uid => i = j
    BY <1>2, <1>3, <2>2 DEF OnceUids
  <2> HIDE DEF X, Y, m
  <2> SUFFICES ASSUME NEW i \in 1..e, NEW j \in 1..e, Y[i].uid = Y[j].uid
               PROVE  i = j
    BY <2>2 DEF OnceUids, Y
  <2> DEFINE f(l) == IF l < k THEN l ELSE l + 1
  <2>5. \A l \in 1..e : Y[l] = X[f(l)] /\ f(l) \in 1..m
    BY <2>2, <2>3, <2>4
  <2>6. f(i) = f(j)
    BY <2>4, <2>5
  <2> QED
    BY ONLY <2>2, <2>4, <2>6, i \in 1..e, j \in 1..e
<1>6. HealthyIn(D, y)
  BY <1>2, <1>4, <1>5 DEF HealthyIn, Dropped
<1>7. ASSUME NEW v, NEW g, NEW c
      PROVE  InnerHolds(y, v, g, c) <=> v # uid /\ InnerHolds(x, v, g, c)
  <2>1. /\ \A l \in DOMAIN y.inners : \E m \in DOMAIN x.inners :
            m # k /\ y.inners[l] = x.inners[m] /\ InnerContent(y, l) = InnerContent(x, m)
        /\ \A m \in DOMAIN x.inners : m # k => \E l \in DOMAIN y.inners :
            y.inners[l] = x.inners[m] /\ InnerContent(y, l) = InnerContent(x, m)
    BY <1>4 DEF Dropped
  <2>2. ASSUME InnerHolds(y, v, g, c)  PROVE v # uid /\ InnerHolds(x, v, g, c)
    BY <1>3, <2>1, <2>2 DEF InnerHolds
  <2>3. ASSUME v # uid, InnerHolds(x, v, g, c)  PROVE InnerHolds(y, v, g, c)
    BY <1>3, <2>1, <2>3 DEF InnerHolds
  <2> QED
    BY <2>2, <2>3
<1> QED
  BY <1>6, <1>7 DEF Healthy, ArenaLoses

LEMMA HealthyDedup ==
    ASSUME NEW x, Healthy(x), NEW n \in Nat, NEW y, y = Dedup(x, n)
    PROVE  Healthy(y) /\ ArenaSame(x, y) /\ Distinct(y.blob, RowsOf(y.inners))
<1>1. PICK D : HealthyIn(D, x)
  BY DEF Healthy
<1>2. Byte \subseteq D /\ x \in ArenaSet(D) /\ Good(x.blob, RowsOf(x.inners)) /\ OnceUids(x.inners)
  BY <1>1 DEF HealthyIn
<1>3. Copied(D, x, y, Len(x.inners))
  BY <1>2, DedupIs
<1>4. x.inners \in Seq(InnerSet) /\ y.inners \in Seq(InnerSet)
  BY <1>2, <1>3 DEF ArenaSet, Copied
<1>5. DOMAIN y.inners = DOMAIN x.inners /\ DOMAIN x.inners = 1..Len(x.inners)
  BY <1>3, <1>4, InnersAre DEF Copied
<1>6. \A l \in DOMAIN x.inners :
        /\ y.inners[l].uid = x.inners[l].uid /\ y.inners[l].algo = x.inners[l].algo
        /\ InnerContent(y, l) = InnerContent(x, l)
  BY <1>3, <1>5 DEF Copied
<1>7. OnceUids(y.inners) /\ ArenaSame(x, y)
  BY <1>2, <1>5, <1>6, KeptSame
<1>8. HealthyIn(D, y) /\ Distinct(y.blob, RowsOf(y.inners))
  BY <1>2, <1>3, <1>7 DEF HealthyIn, Copied
<1> QED
  BY <1>7, <1>8 DEF Healthy

LEMMA HealthyCompact ==
    ASSUME NEW x, Healthy(x), NEW y, y = Compact(x)
    PROVE  Healthy(y) /\ ArenaSame(x, y) /\ Tight(y.blob, AllFrags(y.inners))
<1>1. PICK D : HealthyIn(D, x)
  BY DEF Healthy
<1>2. Byte \subseteq D /\ x \in ArenaSet(D) /\ Good(x.blob, RowsOf(x.inners))
  BY <1>1 DEF HealthyIn
<1>3. Preserved(D, x, y) /\ Tight(y.blob, AllFrags(y.inners))
  BY <1>2, CompactIs, CompactTight
<1> QED
  BY <1>1, <1>2, <1>3, PreservedHealthy DEF Healthy

\* The arena that is written is read as one that holds the same.
LEMMA HealthyReopen ==
    ASSUME NEW x, Healthy(x), NEW y, y = Parse(ToBytes(x))
    PROVE  Healthy(y) /\ ArenaSame(x, y)
<1> DEFINE bytes == ToBytes(x)
<1>1. PICK D : HealthyIn(D, x)
  BY DEF Healthy
<1>2. Byte \subseteq D /\ x \in ArenaSet(D) /\ Good(x.blob, RowsOf(x.inners))
  BY <1>1 DEF HealthyIn
<1>3. /\ \E E : Byte \subseteq E /\ bytes \in Seq(E)
      /\ \E base, new, table, entries, chain : Imaged(x, bytes, base, new, table, entries, chain)
  BY <1>2, ImageIs
<1> HIDE DEF bytes
<1>4. PICK E : Byte \subseteq E /\ bytes \in Seq(E)
  BY <1>3
<1>5. PICK base, new, table, entries, chain : Imaged(x, bytes, base, new, table, entries, chain)
  BY <1>3
<1>6. Preserved(E, x, y)
  BY <1>2, <1>4, <1>5, ReopenIs DEF bytes
<1> QED
  BY <1>1, <1>4, <1>6, PreservedHealthy DEF Healthy

-----------------------------------------------------------------------------
(* The file: its partitions, which uid each has and holds, and what becomes *)
(* of that when one is added, changed or taken away.                        *)

PartOK(p) ==
    /\ p = [uid |-> p.uid, algo |-> p.algo, dcp |-> p.dcp, data |-> p.data]
    /\ p.dcp \in BOOLEAN
    /\ p.dcp => p.uid \in Containers /\ p.algo = "none" /\ Healthy(p.data)
    /\ ~p.dcp => p.uid \in Uid /\ p.algo \in Algo /\ p.data \in Seq(Byte)

Names(p) == {p.uid} \cup IF p.dcp THEN Uids(p.data) ELSE {}
Separate(p, q) == Names(p) \cap Names(q) = {}
ApartBut(ps, j) ==
    \A k, l \in DOMAIN ps : k # l /\ k # j /\ l # j => Separate(ps[k], ps[l])
Apart(ps) == \A k, l \in DOMAIN ps : k # l => Separate(ps[k], ps[l])
SomeSeq(ps) == \E C : ps \in Seq(C)
Typed(ps) == SomeSeq(ps) /\ \A k \in DOMAIN ps : PartOK(ps[k])

\* The inductive invariant: every partition is a plain one or a container whose
\* arena is healthy, and no uid of the file is given twice.
Filed(ps) == Typed(ps) /\ Apart(ps)

HeldAs(at, g, c) == [at |-> at, algo |-> g, content |-> c]
HoldsPart(p, v, r) ==
    \/ ~p.dcp /\ v = p.uid /\ r = HeldAs("top", p.algo, p.data)
    \/ p.dcp /\ \E g, c : InnerHolds(p.data, v, g, c) /\ r = HeldAs(p.uid, g, c)
Holds(ps, v, r) == \E k \in DOMAIN ps : HoldsPart(ps[k], v, r)

LEMMA HealthyUids ==
    ASSUME NEW x, Healthy(x)
    PROVE  /\ Uids(x) \subseteq Uid /\ OnceUids(x.inners)
           /\ \A v, g, c : InnerHolds(x, v, g, c) =>
                v \in Uids(x) /\ v \in Uid /\ g \in Algo /\ c \in Seq(Byte)
           /\ \A v, g, c, h, d :
                InnerHolds(x, v, g, c) /\ InnerHolds(x, v, h, d) => g = h /\ c = d
<1>1. PICK D : HealthyIn(D, x)
  BY DEF Healthy
<1>2. x \in ArenaSet(D) /\ Good(x.blob, RowsOf(x.inners)) /\ OnceUids(x.inners)
  BY <1>1 DEF HealthyIn
<1>3. \A k \in DOMAIN x.inners :
        /\ InnerContent(x, k) \in Seq(Byte) /\ x.inners[k].uid \in Uid /\ x.inners[k].algo \in Algo
  BY <1>2, InnerIs
<1>4. ASSUME NEW v, NEW g, NEW c, InnerHolds(x, v, g, c)
      PROVE  v \in Uids(x) /\ v \in Uid /\ g \in Algo /\ c \in Seq(Byte)
  BY <1>3, <1>4 DEF InnerHolds, Uids
<1>5. ASSUME NEW v, NEW g, NEW c, NEW h, NEW d, InnerHolds(x, v, g, c), InnerHolds(x, v, h, d)
      PROVE  g = h /\ c = d
  BY <1>2, <1>5 DEF InnerHolds, OnceUids
<1>6. Uids(x) \subseteq Uid
  BY <1>3 DEF Uids
<1> QED
  BY <1>2, <1>4, <1>5, <1>6

\* What a partition holds is named by it.
LEMMA PartNames ==
    ASSUME NEW p, PartOK(p)
    PROVE  /\ \A v, r : HoldsPart(p, v, r) => v \in Names(p) /\ v \in Uid
           /\ \A v \in Names(p) \cap Uid : \E r : HoldsPart(p, v, r)
           /\ \A v, r, s : HoldsPart(p, v, r) /\ HoldsPart(p, v, s) => r = s
           /\ Names(p) \subseteq Uid \cup Containers
<1>1. CASE p.dcp
  <2>1. p.uid \in Containers /\ Healthy(p.data) /\ p.uid \notin Uid
    BY <1>1, WriterAssumption DEF PartOK
  <2>2. Names(p) = {p.uid} \cup Uids(p.data)
    BY <1>1 DEF Names
  <2>3. \A v, r : HoldsPart(p, v, r) <=>
            \E g, c : InnerHolds(p.data, v, g, c) /\ r = HeldAs(p.uid, g, c)
    BY <1>1 DEF HoldsPart
  <2>4. /\ Uids(p.data) \subseteq Uid
        /\ \A v, g, c : InnerHolds(p.data, v, g, c) => v \in Uids(p.data) /\ v \in Uid
        /\ \A v, g, c, h, d :
            InnerHolds(p.data, v, g, c) /\ InnerHolds(p.data, v, h, d) => g = h /\ c = d
    BY <2>1, HealthyUids
  <2>5. ASSUME NEW v, NEW r, HoldsPart(p, v, r)
        PROVE  v \in Names(p) /\ v \in Uid
    BY <2>2, <2>3, <2>4, <2>5
  <2>6. ASSUME NEW v \in Names(p) \cap Uid  PROVE \E r : HoldsPart(p, v, r)
    <3>1. v \in Uids(p.data)
      BY <2>1, <2>2, <2>6
    <3>2. PICK g, c : InnerHolds(p.data, v, g, c)
      BY <3>1, UidsHeld
    <3> QED
      BY <2>3, <3>2
  <2>7. ASSUME NEW v, NEW r, NEW s, HoldsPart(p, v, r), HoldsPart(p, v, s)  PROVE r = s
    <3>1. PICK g, c : InnerHolds(p.data, v, g, c) /\ r = HeldAs(p.uid, g, c)
      BY <2>3, <2>7
    <3>2. PICK h, d : InnerHolds(p.data, v, h, d) /\ s = HeldAs(p.uid, h, d)
      BY <2>3, <2>7
    <3>3. g = h /\ c = d
      BY <2>4, <3>1, <3>2
    <3> QED
      BY <3>1, <3>2, <3>3
  <2> QED
    BY <2>1, <2>2, <2>4, <2>5, <2>6, <2>7
<1>2. CASE ~p.dcp
  BY <1>2 DEF PartOK, Names, HoldsPart
<1> QED
  BY <1>1, <1>2

LEMMA HoldsOnce ==
    ASSUME NEW ps, Filed(ps), NEW v, NEW r, Holds(ps, v, r), NEW s, Holds(ps, v, s)
    PROVE  r = s
<1>1. PICK k \in DOMAIN ps : HoldsPart(ps[k], v, r)
  BY DEF Holds
<1>2. PICK l \in DOMAIN ps : HoldsPart(ps[l], v, s)
  BY DEF Holds
<1>3. PartOK(ps[k]) /\ PartOK(ps[l])
  BY DEF Filed, Typed
<1>4. v \in Names(ps[k]) /\ v \in Names(ps[l])
  BY <1>1, <1>2, <1>3, PartNames
<1>5. k = l
  BY <1>4 DEF Filed, Apart, Separate
<1> QED
  BY <1>1, <1>2, <1>3, <1>5, PartNames

Grown(ps, qs, p) ==
    /\ DOMAIN qs = DOMAIN ps \cup {Len(ps) + 1} /\ Len(ps) + 1 \notin DOMAIN ps
    /\ \A k \in DOMAIN ps : qs[k] = ps[k]
    /\ qs[Len(ps) + 1] = p

LEMMA AppendIs ==
    ASSUME NEW ps, SomeSeq(ps), NEW p, NEW qs, qs = Append(ps, p)
    PROVE  SomeSeq(qs) /\ Grown(ps, qs, p)
<1>1. PICK C : ps \in Seq(C)
  BY DEF SomeSeq
<1> DEFINE E == C \cup {p}
<1>2. ps \in Seq(E) /\ p \in E
  BY <1>1, SeqNarrow
<1> HIDE DEF E
<1>3. qs \in Seq(E)
  BY <1>2
<1>4. Grown(ps, qs, p)
  BY <1>2 DEF Grown
<1> QED
  BY <1>3, <1>4 DEF SomeSeq

LEMMA FiledAppend ==
    ASSUME NEW ps, Filed(ps), NEW p, PartOK(p), \A k \in DOMAIN ps : Separate(p, ps[k]),
           NEW qs, qs = Append(ps, p)
    PROVE  /\ Filed(qs)
           /\ \A v, r : Holds(qs, v, r) <=> Holds(ps, v, r) \/ HoldsPart(p, v, r)
<1>1. SomeSeq(qs) /\ Grown(ps, qs, p)
  BY AppendIs DEF Filed, Typed
<1>2. Typed(qs)
  BY <1>1 DEF Typed, Grown, Filed
<1>3. Apart(qs)
  BY <1>1 DEF Apart, Grown, Filed, Separate
<1>4. ASSUME NEW v, NEW r
      PROVE  Holds(qs, v, r) <=> Holds(ps, v, r) \/ HoldsPart(p, v, r)
  BY <1>1 DEF Holds, Grown
<1> QED
  BY <1>2, <1>3, <1>4 DEF Filed

\* One container has other data.
Recast(ps, qs, k, z) == qs = [ps EXCEPT ![k].data = z]
WithData(ps, qs, k, z) ==
    /\ DOMAIN qs = DOMAIN ps /\ Len(qs) = Len(ps)
    /\ qs[k] = DcpContainer(ps[k].uid, z)
    /\ \A l \in DOMAIN ps : l # k => qs[l] = ps[l]

LEMMA DataWith ==
    ASSUME NEW U, NEW q \in [uid : U, algo : U, dcp : U, data : U], NEW z
    PROVE  [q EXCEPT !.data = z] = [uid |-> q.uid, algo |-> q.algo, dcp |-> q.dcp, data |-> z]
OBVIOUS

LEMMA WithDataIs ==
    ASSUME NEW ps, Typed(ps), NEW k \in DOMAIN ps, ps[k].dcp, NEW z, Healthy(z),
           NEW qs, qs = [ps EXCEPT ![k].data = z]
    PROVE  Typed(qs) /\ WithData(ps, qs, k, z)
<1> DEFINE p == DcpContainer(ps[k].uid, z)
<1>1. PICK C : ps \in Seq(C)
  BY DEF Typed, SomeSeq
<1>2. PartOK(ps[k])
  BY DEF Typed
<1>3. [ps[k] EXCEPT !.data = z] = p
  <2> DEFINE w == ps[k].uid  d == ps[k].data  q == ps[k]  g == "none"  t == TRUE
  <2>1. q = [uid |-> w, algo |-> g, dcp |-> t, data |-> d]
    BY <1>2 DEF PartOK
  <2> HIDE DEF w, d, q, g, t
  <2> DEFINE U == {w, g, t, d}
  <2>3. q \in [uid : U, algo : U, dcp : U, data : U]
        /\ q.uid = w /\ q.algo = g /\ q.dcp = t
    BY <2>1
  <2> HIDE DEF U
  <2>4. [q EXCEPT !.data = z] = [uid |-> q.uid, algo |-> q.algo, dcp |-> q.dcp, data |-> z]
    BY ONLY <2>3, DataWith
  <2>2. [q EXCEPT !.data = z] = [uid |-> w, algo |-> g, dcp |-> t, data |-> z]
    BY ONLY <2>3, <2>4, Zenon
  <2> QED
    BY <2>2 DEF DcpContainer, q, w, g, t
<1>4. PartOK(p)
  BY <1>2 DEF PartOK, DcpContainer
<1>5. qs = [ps EXCEPT ![k] = p]
  BY <1>3
<1> HIDE DEF p
<1> DEFINE E == C \cup {p}
<1>6. ps \in Seq(E) /\ p \in E
  BY <1>1, SeqNarrow
<1> HIDE DEF E
<1>7. qs \in Seq(E) /\ DOMAIN qs = DOMAIN ps /\ Len(qs) = Len(ps)
  BY <1>5, <1>6
<1>8. qs[k] = p /\ \A l \in DOMAIN ps : l # k => qs[l] = ps[l]
  BY <1>5
<1>9. Typed(qs)
  BY <1>4, <1>7, <1>8 DEF Typed, SomeSeq
<1> QED
  BY <1>7, <1>8, <1>9 DEF WithData, p

LEMMA BoxMade ==
    ASSUME NEW c, NEW z, NEW q, q = DcpContainer(c, z)
    PROVE  q.dcp /\ q.uid = c /\ q.data = z
BY DEF DcpContainer

HeldIn(x, at, v, r) == \E g, c : InnerHolds(x, v, g, c) /\ r = HeldAs(at, g, c)

LEMMA BoxIs ==
    ASSUME NEW p, p.dcp
    PROVE  /\ Names(p) = {p.uid} \cup Uids(p.data)
           /\ \A v, r : HoldsPart(p, v, r) <=> HeldIn(p.data, p.uid, v, r)
BY DEF Names, HoldsPart, HeldIn

SamePart(p, q) ==
    Names(q) = Names(p) /\ \A v, r : HoldsPart(q, v, r) <=> HoldsPart(p, v, r)
SetsPart(p, q, u, s) ==
    /\ Names(q) = Names(p) \cup {u}
    /\ \A v, r : HoldsPart(q, v, r) <=> (v # u /\ HoldsPart(p, v, r)) \/ (v = u /\ r = s)
LosesPart(p, q, u) ==
    /\ Names(q) = Names(p) \ {u}
    /\ \A v, r : HoldsPart(q, v, r) <=> v # u /\ HoldsPart(p, v, r)

LEMMA PartSame ==
    ASSUME NEW p, p.dcp, NEW z, ArenaSame(p.data, z), NEW q, q = DcpContainer(p.uid, z)
    PROVE  SamePart(p, q)
<1>1. q.dcp /\ q.uid = p.uid /\ q.data = z
  BY BoxMade
<1>2. Uids(z) = Uids(p.data)
  <2>1. \A v : v \in Uids(z) <=> v \in Uids(p.data)
    BY UidsHeld DEF ArenaSame
  <2> QED
    BY <2>1
<1>3. Names(q) = Names(p)
  BY <1>1, <1>2, BoxIs
<1>4. ASSUME NEW v, NEW r  PROVE HoldsPart(q, v, r) <=> HoldsPart(p, v, r)
  <2>1. HoldsPart(q, v, r) <=> HeldIn(z, p.uid, v, r)
    BY <1>1, BoxIs
  <2>2. HoldsPart(p, v, r) <=> HeldIn(p.data, p.uid, v, r)
    BY BoxIs
  <2> QED
    BY <2>1, <2>2 DEF HeldIn, ArenaSame
<1> QED
  BY <1>3, <1>4 DEF SamePart

LEMMA PartSets ==
    ASSUME NEW p, p.dcp, NEW z, NEW u, NEW h, NEW d, ArenaSets(p.data, z, u, h, d),
           NEW q, q = DcpContainer(p.uid, z)
    PROVE  SetsPart(p, q, u, HeldAs(p.uid, h, d))
<1>1. q.dcp /\ q.uid = p.uid /\ q.data = z
  BY BoxMade
<1>2. Uids(z) = Uids(p.data) \cup {u}
  <2>1. \A v : v \in Uids(z) <=> v \in Uids(p.data) \/ v = u
    BY UidsHeld DEF ArenaSets
  <2> QED
    BY <2>1
<1>3. Names(q) = Names(p) \cup {u}
  BY <1>1, <1>2, BoxIs
<1>4. ASSUME NEW v, NEW r
      PROVE  HoldsPart(q, v, r) <=>
                (v # u /\ HoldsPart(p, v, r)) \/ (v = u /\ r = HeldAs(p.uid, h, d))
  <2>1. HoldsPart(q, v, r) <=> HeldIn(z, p.uid, v, r)
    BY <1>1, BoxIs
  <2>2. HoldsPart(p, v, r) <=> HeldIn(p.data, p.uid, v, r)
    BY BoxIs
  <2> QED
    BY <2>1, <2>2 DEF HeldIn, ArenaSets
<1> QED
  BY <1>3, <1>4 DEF SetsPart

LEMMA PartLoses ==
    ASSUME NEW p, p.dcp, NEW z, NEW u, u # p.uid, ArenaLoses(p.data, z, u),
           NEW q, q = DcpContainer(p.uid, z)
    PROVE  LosesPart(p, q, u)
<1>1. q.dcp /\ q.uid = p.uid /\ q.data = z
  BY BoxMade
<1>2. Uids(z) = Uids(p.data) \ {u}
  <2>1. \A v : v \in Uids(z) <=> v \in Uids(p.data) /\ v # u
    BY UidsHeld DEF ArenaLoses
  <2> QED
    BY <2>1
<1>3. Names(q) = Names(p) \ {u}
  <2>1. Names(q) = {p.uid} \cup Uids(z) /\ Names(p) = {p.uid} \cup Uids(p.data)
    BY <1>1, BoxIs
  <2> QED
    BY <1>2, <2>1
<1>4. ASSUME NEW v, NEW r  PROVE HoldsPart(q, v, r) <=> v # u /\ HoldsPart(p, v, r)
  <2>1. HoldsPart(q, v, r) <=> HeldIn(z, p.uid, v, r)
    BY <1>1, BoxIs
  <2>2. HoldsPart(p, v, r) <=> HeldIn(p.data, p.uid, v, r)
    BY BoxIs
  <2> QED
    BY <2>1, <2>2 DEF HeldIn, ArenaLoses
<1> QED
  BY <1>3, <1>4 DEF LosesPart

SameHeld(ps, qs) == \A v, r : Holds(qs, v, r) <=> Holds(ps, v, r)
SetsHeld(ps, qs, u, s) ==
    \A v, r : Holds(qs, v, r) <=> (v # u /\ Holds(ps, v, r)) \/ (v = u /\ r = s)
LosesHeld(ps, qs, u) == \A v, r : Holds(qs, v, r) <=> v # u /\ Holds(ps, v, r)
Nowhere(ps, u) == \A l \in DOMAIN ps : u \notin Names(ps[l])

LEMMA FiledSame ==
    ASSUME NEW ps, Filed(ps), NEW k \in DOMAIN ps, ps[k].dcp, NEW z, Healthy(z),
           ArenaSame(ps[k].data, z), NEW qs, Recast(ps, qs, k, z)
    PROVE  Filed(qs) /\ WithData(ps, qs, k, z) /\ SameHeld(ps, qs)
<1>1. Typed(qs) /\ WithData(ps, qs, k, z)
  BY WithDataIs DEF Filed, Recast
<1>2. DOMAIN qs = DOMAIN ps /\ \A l \in DOMAIN ps : l # k => qs[l] = ps[l]
  BY <1>1 DEF WithData
<1>3. SamePart(ps[k], qs[k])
  BY <1>1, PartSame DEF WithData
<1>4. Apart(qs)
  BY <1>2, <1>3 DEF Apart, Separate, Filed, SamePart
<1>5. ASSUME NEW v, NEW r
      PROVE  Holds(qs, v, r) <=> Holds(ps, v, r)
  BY <1>2, <1>3 DEF Holds, SamePart
<1> QED
  BY <1>1, <1>4, <1>5 DEF Filed, SameHeld

NoneElse(ps, k, but, u) == \A l \in DOMAIN ps : l # k /\ l # but => u \notin Names(ps[l])
SetsBut(ps, qs, but, u, s) ==
    \A v, r : (\E l \in DOMAIN qs : l # but /\ HoldsPart(qs[l], v, r)) <=>
        \/ v # u /\ \E l \in DOMAIN ps : l # but /\ HoldsPart(ps[l], v, r)
        \/ v = u /\ r = s

\* A partition of a container is added or changed.  but is a place that is about to
\* go, 0 for none.
LEMMA FiledSets ==
    ASSUME NEW ps, Filed(ps), NEW k \in DOMAIN ps, ps[k].dcp, NEW z, Healthy(z),
           NEW u, NEW h, NEW d, ArenaSets(ps[k].data, z, u, h, d),
           NEW but, but # k, NoneElse(ps, k, but, u), NEW qs, Recast(ps, qs, k, z)
    PROVE  /\ Typed(qs) /\ WithData(ps, qs, k, z) /\ ApartBut(qs, but)
           /\ SetsBut(ps, qs, but, u, HeldAs(ps[k].uid, h, d))
<1> DEFINE s == HeldAs(ps[k].uid, h, d)
<1>1. Typed(qs) /\ WithData(ps, qs, k, z)
  BY WithDataIs DEF Filed, Recast
<1>2. SetsPart(ps[k], qs[k], u, s)
  BY <1>1, PartSets DEF WithData
<1>3. DOMAIN qs = DOMAIN ps /\ \A l \in DOMAIN ps : l # k => qs[l] = ps[l]
  BY <1>1 DEF WithData
<1> HIDE DEF s
<1>4. ApartBut(qs, but)
  BY <1>2, <1>3 DEF ApartBut, Apart, Separate, Filed, SetsPart, NoneElse
<1>7. \A l \in DOMAIN ps : l # k /\ l # but => \A r : ~HoldsPart(ps[l], u, r)
  BY PartNames DEF Filed, Typed, NoneElse
<1>8. ASSUME NEW v, NEW r
      PROVE  (\E l \in DOMAIN qs : l # but /\ HoldsPart(qs[l], v, r)) <=>
                \/ v # u /\ \E l \in DOMAIN ps : l # but /\ HoldsPart(ps[l], v, r)
                \/ v = u /\ r = s
  <2>1. HoldsPart(qs[k], v, r) <=> (v # u /\ HoldsPart(ps[k], v, r)) \/ (v = u /\ r = s)
    BY <1>2 DEF SetsPart
  <2>2. \A l \in DOMAIN ps : l # k /\ l # but /\ HoldsPart(ps[l], v, r) => v # u
    BY <1>7
  <2> HIDE DEF s
  <2> QED
    BY <1>3, <2>1, <2>2
<1> QED
  BY <1>1, <1>4, <1>8 DEF SetsBut, s

LEMMA FiledLoses ==
    ASSUME NEW ps, Filed(ps), NEW k \in DOMAIN ps, ps[k].dcp, NEW z, Healthy(z),
           NEW u, u \in Uid, u \in Uids(ps[k].data), ArenaLoses(ps[k].data, z, u),
           NEW qs, Recast(ps, qs, k, z)
    PROVE  /\ Filed(qs) /\ WithData(ps, qs, k, z)
           /\ Nowhere(qs, u)
           /\ LosesHeld(ps, qs, u)
<1>1. Typed(qs) /\ WithData(ps, qs, k, z)
  BY WithDataIs DEF Filed, Recast
<1>2. LosesPart(ps[k], qs[k], u)
  <2>1. ps[k].uid # u
    BY WriterAssumption DEF Filed, Typed, PartOK
  <2> QED
    BY <1>1, <2>1, PartLoses DEF WithData
<1>3. DOMAIN qs = DOMAIN ps /\ \A l \in DOMAIN ps : l # k => qs[l] = ps[l]
  BY <1>1 DEF WithData
<1>4. Apart(qs)
  BY <1>2, <1>3 DEF Apart, Separate, Filed, LosesPart
<1>5. \A l \in DOMAIN ps : l # k => u \notin Names(ps[l])
  <2>1. u \in Names(ps[k])
    BY BoxIs
  <2> QED
    BY <2>1 DEF Apart, Separate, Filed
<1>8. \A l \in DOMAIN ps : l # k => \A r : ~HoldsPart(ps[l], u, r)
  BY <1>5, PartNames DEF Filed, Typed
<1>9. ASSUME NEW v, NEW r
      PROVE  Holds(qs, v, r) <=> v # u /\ Holds(ps, v, r)
  BY <1>2, <1>3, <1>8 DEF Holds, LosesPart
<1> QED
  BY <1>1, <1>2, <1>3, <1>4, <1>5, <1>9 DEF Filed, LosesPart, LosesHeld, Nowhere

\* One partition is taken away; the others stay, each once.
Taken(ps, qs, j) ==
    \E f : /\ \A l \in DOMAIN qs : f[l] \in DOMAIN ps /\ f[l] # j /\ qs[l] = ps[f[l]]
           /\ \A l, m \in DOMAIN qs : f[l] = f[m] => l = m
           /\ \A m \in DOMAIN ps : m # j => \E l \in DOMAIN qs : f[l] = m

LEMMA RemovedIs ==
    ASSUME NEW ps, SomeSeq(ps), NEW j \in DOMAIN ps, NEW qs, qs = RemoveAt(ps, j)
    PROVE  SomeSeq(qs) /\ Taken(ps, qs, j)
<1> DEFINE m == Len(ps)  e == m - 1
<1>1. PICK C : ps \in Seq(C)
  BY DEF SomeSeq
<1>2. m \in Nat /\ DOMAIN ps = 1..m /\ j \in 1..m
  BY <1>1
<1>3. qs \in Seq(C) /\ Without(qs, ps, j)
  BY <1>1, <1>2, RemoveAtIs
<1>4. /\ DOMAIN qs = 1..e
      /\ \A l \in 1..(j - 1) : qs[l] = ps[l]
      /\ \A l \in j..e : qs[l] = ps[l + 1]
  BY <1>3 DEF Without
<1> HIDE DEF m
<1> DEFINE f == [l \in 1..e |-> IF l < j THEN l ELSE l + 1]
<1>5. \A l \in 1..e : f[l] \in 1..m /\ f[l] # j /\ qs[l] = ps[f[l]]
  BY <1>2, <1>4
<1>6. \A l, n \in 1..e : f[l] = f[n] => l = n
  BY <1>2
<1>7. ASSUME NEW n \in 1..m, n # j  PROVE \E l \in 1..e : f[l] = n
  <2>1. CASE n < j
    <3>1. n \in 1..e /\ f[n] = n
      BY <1>2, <2>1
    <3> QED
      BY <3>1
  <2>2. CASE n > j
    <3>1. n - 1 \in 1..e /\ f[n - 1] = n
      BY <1>2, <2>2
    <3> QED
      BY <3>1
  <2> QED
    BY <1>2, <1>7, <2>1, <2>2
<1> HIDE DEF f, e
<1>8. Taken(ps, qs, j)
  <2> DEFINE X == DOMAIN ps  Y == DOMAIN qs
  <2>1. X = 1..m /\ Y = 1..e
    BY <1>2, <1>4
  <2> HIDE DEF X, Y
  <2>2. /\ \A l \in Y : f[l] \in X /\ f[l] # j /\ qs[l] = ps[f[l]]
        /\ \A l, n \in Y : f[l] = f[n] => l = n
        /\ \A n \in X : n # j => \E l \in Y : f[l] = n
    BY ONLY <1>5, <1>6, <1>7, <2>1, Zenon
  <2>3. \E g : /\ \A l \in Y : g[l] \in X /\ g[l] # j /\ qs[l] = ps[g[l]]
               /\ \A l, n \in Y : g[l] = g[n] => l = n
               /\ \A n \in X : n # j => \E l \in Y : g[l] = n
    BY ONLY <2>2, Zenon
  <2> QED
    BY <2>3 DEF Taken, X, Y
<1> QED
  BY <1>3, <1>8 DEF SomeSeq

LEMMA FiledTaken ==
    ASSUME NEW ps, Typed(ps), NEW j \in DOMAIN ps, ApartBut(ps, j), NEW qs, qs = RemoveAt(ps, j)
    PROVE  /\ Filed(qs) /\ Taken(ps, qs, j)
           /\ \A v, r : Holds(qs, v, r) <=> \E l \in DOMAIN ps : l # j /\ HoldsPart(ps[l], v, r)
<1>1. SomeSeq(qs) /\ Taken(ps, qs, j)
  BY RemovedIs DEF Typed
<1>2. PICK f : /\ \A l \in DOMAIN qs : f[l] \in DOMAIN ps /\ f[l] # j /\ qs[l] = ps[f[l]]
               /\ \A l, m \in DOMAIN qs : f[l] = f[m] => l = m
               /\ \A m \in DOMAIN ps : m # j => \E l \in DOMAIN qs : f[l] = m
  BY <1>1 DEF Taken
<1>3. Typed(qs)
  BY <1>1, <1>2 DEF Typed
<1>4. Apart(qs)
  BY <1>2 DEF Apart, ApartBut
<1>5. ASSUME NEW v, NEW r
      PROVE  Holds(qs, v, r) <=> \E l \in DOMAIN ps : l # j /\ HoldsPart(ps[l], v, r)
  BY <1>2 DEF Holds
<1> QED
  BY <1>1, <1>3, <1>4, <1>5 DEF Filed

\* The partition that a uid names.
Place(ps, u) == CHOOSE j \in DOMAIN ps : ps[j].uid = u

LEMMA PlaceIs ==
    ASSUME NEW ps, Filed(ps), NEW k \in DOMAIN ps, NEW u, u = ps[k].uid
    PROVE  Place(ps, u) = k
<1>1. \A l \in DOMAIN ps : ps[l].uid = u => l = k
  BY DEF Filed, Apart, Separate, Names
<1> QED
  BY <1>1 DEF Place

LEMMA Position ==
    ASSUME Filed(parts), NEW k \in DOMAIN parts, NEW u, u = parts[k].uid
    PROVE  PositionOf(u) = k /\ ArenaOf(u) = parts[k].data
BY PlaceIs DEF PositionOf, ArenaOf, Place

LEMMA PresentIs ==
    ASSUME Filed(parts), NEW c \in Present
    PROVE  /\ PositionOf(c) \in DOMAIN parts /\ parts[PositionOf(c)].dcp
           /\ parts[PositionOf(c)].uid = c /\ c \in Containers
           /\ ArenaOf(c) = parts[PositionOf(c)].data /\ Healthy(ArenaOf(c))
<1>1. PICK k \in DOMAIN parts : parts[k].dcp /\ parts[k].uid = c
  BY DEF Present
<1>2. PositionOf(c) = k /\ ArenaOf(c) = parts[k].data
  BY <1>1, Position
<1>3. PartOK(parts[k])
  BY DEF Filed, Typed
<1> QED
  BY <1>1, <1>2, <1>3 DEF PartOK

LEMMA FreshIs ==
    ASSUME Filed(parts), NEW u
    PROVE  Fresh(u) <=> \A k \in DOMAIN parts : u \notin Names(parts[k])
<1>1. ASSUME Fresh(u), NEW k \in DOMAIN parts  PROVE u \notin Names(parts[k])
  <2>1. u # parts[k].uid
    BY <1>1 DEF Fresh, TopUids
  <2>2. CASE parts[k].dcp
    <3>1. parts[k].uid \in Present
      BY <2>2 DEF Present
    <3>2. ArenaOf(parts[k].uid) = parts[k].data
      BY Position
    <3>3. u \notin Uids(parts[k].data)
      BY <1>1, <3>1, <3>2 DEF Fresh
    <3> QED
      BY <2>1, <2>2, <3>3 DEF Names
  <2>3. CASE ~parts[k].dcp
    BY <2>1, <2>3 DEF Names
  <2> QED
    BY <2>2, <2>3
<1>2. ASSUME \A k \in DOMAIN parts : u \notin Names(parts[k])  PROVE Fresh(u)
  <2>1. u \notin TopUids
    BY <1>2 DEF TopUids, Names
  <2>2. ASSUME NEW c \in Present  PROVE u \notin Uids(ArenaOf(c))
    <3>1. PositionOf(c) \in DOMAIN parts /\ parts[PositionOf(c)].dcp
          /\ ArenaOf(c) = parts[PositionOf(c)].data
      BY <2>2, PresentIs
    <3> QED
      BY <1>2, <3>1 DEF Names
  <2> QED
    BY <2>1, <2>2 DEF Fresh
<1> QED
  BY <1>1, <1>2

LEMMA FreshSeparate ==
    ASSUME Filed(parts), NEW u, Fresh(u), NEW p, Names(p) = {u}, NEW k \in DOMAIN parts
    PROVE  Separate(p, parts[k])
BY FreshIs DEF Separate

\* A uid of a container is nowhere else.
LEMMA OnlyThere ==
    ASSUME NEW ps, Filed(ps), NEW k \in DOMAIN ps, NEW u \in Names(ps[k]), NEW l \in DOMAIN ps, l # k
    PROVE  u \notin Names(ps[l])
BY DEF Filed, Apart, Separate

-----------------------------------------------------------------------------
(* Every operation keeps the invariant, and what it does to the partitions.*)

LEMMA NotHeld ==
    ASSUME NEW ps, Filed(ps), NEW u, \A k \in DOMAIN ps : u \notin Names(ps[k]), NEW r
    PROVE  ~Holds(ps, u, r)
BY PartNames DEF Holds, Filed, Typed

LEMMA PlainIs ==
    ASSUME NEW u \in Uid, NEW g \in Algo, NEW c \in Seq(Byte), NEW p, p = Plain(u, g, c)
    PROVE  /\ PartOK(p) /\ Names(p) = {u} /\ ~p.dcp
           /\ \A v, r : HoldsPart(p, v, r) <=> v = u /\ r = HeldAs("top", g, c)
BY DEF PartOK, Plain, Names, HoldsPart

LEMMA AppendPlain ==
    ASSUME NEW ps, Filed(ps), NEW u \in Uid, NEW g \in Algo, NEW c \in Seq(Byte),
           \A k \in DOMAIN ps : u \notin Names(ps[k]),
           NEW qs, qs = Append(ps, Plain(u, g, c))
    PROVE  Filed(qs) /\ SetsHeld(ps, qs, u, HeldAs("top", g, c))
<1> DEFINE p == Plain(u, g, c)  s == HeldAs("top", g, c)
<1>1. PartOK(p) /\ Names(p) = {u} /\ \A v, r : HoldsPart(p, v, r) <=> v = u /\ r = s
  BY PlainIs
<1>2. qs = Append(ps, p)
  OBVIOUS
<1> HIDE DEF p, s
<1>3. \A k \in DOMAIN ps : Separate(p, ps[k])
  BY <1>1 DEF Separate
<1>4. Filed(qs) /\ \A v, r : Holds(qs, v, r) <=> Holds(ps, v, r) \/ HoldsPart(p, v, r)
  BY <1>1, <1>2, <1>3, FiledAppend
<1>5. \A r : ~Holds(ps, u, r)
  BY NotHeld
<1>6. SetsHeld(ps, qs, u, s)
  BY <1>1, <1>4, <1>5 DEF SetsHeld
<1> QED
  BY <1>4, <1>6 DEF s

LEMMA AddPlainIs ==
    ASSUME Filed(parts), NEW u \in Uid, NEW g \in Algo, NEW c \in Contents, Fresh(u),
           AddPlain(u, g, c)
    PROVE  Filed(parts') /\ SetsHeld(parts, parts', u, HeldAs("top", g, c))
<1>1. parts' = Append(parts, Plain(u, g, c)) /\ c \in Seq(Byte)
  BY WriterAssumption DEF AddPlain
<1>2. \A k \in DOMAIN parts : u \notin Names(parts[k])
  BY FreshIs
<1> QED
  BY <1>1, <1>2, AppendPlain

LEMMA AddContainerIs ==
    ASSUME Filed(parts), NEW c \in Containers, Fresh(c), NEW a \in TableAlgo, AddContainer(c, a)
    PROVE  Filed(parts') /\ SameHeld(parts, parts')
<1> DEFINE x == EmptyArena(a)  p == DcpContainer(c, x)
<1>1. parts' = Append(parts, p)
  BY DEF AddContainer
<1>2. Healthy(x) /\ \A v, g, d : ~InnerHolds(x, v, g, d)
  BY HealthyEmpty
<1> HIDE DEF x
<1>3. p.dcp /\ p.uid = c /\ p.data = x
  BY BoxMade
<1>4. PartOK(p)
  BY <1>2 DEF PartOK, DcpContainer
<1> HIDE DEF p
<1>5. Names(p) = {c} /\ \A v, r : ~HoldsPart(p, v, r)
  <2>1. Uids(x) = {}
    BY <1>2, UidsHeld
  <2> QED
    BY <1>2, <1>3, <2>1, BoxIs DEF HeldIn
<1>6. \A k \in DOMAIN parts : Separate(p, parts[k])
  BY <1>5, FreshSeparate
<1>7. Filed(parts') /\ \A v, r : Holds(parts', v, r) <=> Holds(parts, v, r) \/ HoldsPart(p, v, r)
  BY <1>1, <1>4, <1>6, FiledAppend
<1> QED
  BY <1>5, <1>7 DEF SameHeld

\* One container changed: FiledSets with no place to go.
LEMMA FiledChanged ==
    ASSUME NEW ps, Filed(ps), NEW k \in DOMAIN ps, ps[k].dcp, NEW z, Healthy(z),
           NEW u, NEW h, NEW d, ArenaSets(ps[k].data, z, u, h, d),
           \A l \in DOMAIN ps : l # k => u \notin Names(ps[l]),
           NEW qs, qs = [ps EXCEPT ![k].data = z]
    PROVE  Filed(qs) /\ WithData(ps, qs, k, z) /\ SetsHeld(ps, qs, u, HeldAs(ps[k].uid, h, d))
<1> DEFINE but == 0
<1>1. \A l \in DOMAIN ps : l # but
  BY DEF Filed, Typed, SomeSeq
<1> HIDE DEF but
<1>2. but # k /\ NoneElse(ps, k, but, u)
  BY <1>1 DEF NoneElse
<1>3. /\ Typed(qs) /\ WithData(ps, qs, k, z) /\ ApartBut(qs, but)
      /\ SetsBut(ps, qs, but, u, HeldAs(ps[k].uid, h, d))
  <2>1. but # k /\ Recast(ps, qs, k, z)
    BY <1>2 DEF Recast
  <2> QED
    BY ONLY <1>2, <2>1, Filed(ps), k \in DOMAIN ps, ps[k].dcp, Healthy(z),
            ArenaSets(ps[k].data, z, u, h, d), FiledSets
<1>4. DOMAIN qs = DOMAIN ps
  BY <1>3 DEF WithData
<1>5. Apart(qs)
  BY <1>1, <1>3, <1>4 DEF Apart, ApartBut
<1>6. SetsHeld(ps, qs, u, HeldAs(ps[k].uid, h, d))
  BY <1>1, <1>3, <1>4 DEF SetsHeld, SetsBut, Holds
<1> QED
  BY <1>3, <1>5, <1>6 DEF Filed

LEMMA AddPartitionIs ==
    ASSUME Filed(parts), NEW c \in Present, NEW u \in Uid, NEW g \in Algo, NEW d \in Contents,
           NEW n \in ChunkSizes, Fresh(u), AddPartition(c, u, g, d, n)
    PROVE  Filed(parts') /\ SetsHeld(parts, parts', u, HeldAs(c, g, d))
<1> DEFINE k == PositionOf(c)  x == parts[k].data  z == AddInner(x, u, g, d, n)
<1>1. k \in DOMAIN parts /\ parts[k].dcp /\ parts[k].uid = c /\ x = ArenaOf(c) /\ Healthy(x)
  BY PresentIs
<1>2. parts' = [parts EXCEPT ![k].data = z] /\ u \notin Uids(x)
  BY <1>1 DEF AddPartition
<1>3. d \in Seq(Byte) /\ n \in Nat
  BY WriterAssumption
<1> HIDE DEF k
<1>4. Healthy(z) /\ ArenaSets(x, z, u, g, d)
  <2> HIDE DEF x
  <2> QED
    BY <1>1, <1>2, <1>3, HealthyAdd
<1>5. \A l \in DOMAIN parts : l # k => u \notin Names(parts[l])
  BY FreshIs
<1> HIDE DEF z
<1> QED
  BY <1>1, <1>2, <1>4, <1>5, FiledChanged

\* What is in a container, found as the operations find it.
FoundIn(ps, c, u, k, x, j, g, d) ==
    /\ k \in DOMAIN ps /\ ps[k].dcp /\ ps[k].uid = c /\ x = ps[k].data /\ Healthy(x)
    /\ u \in Uid /\ j \in DOMAIN x.inners /\ g = x.inners[j].algo /\ d = InnerContent(x, j)
    /\ g \in Algo /\ d \in Seq(Byte) /\ Len(d) = LogicalLen(x.inners[j].frags)
    /\ Holds(ps, u, HeldAs(c, g, d))
    /\ \A l \in DOMAIN ps : l # k => u \notin Names(ps[l])

LEMMA Found ==
    ASSUME Filed(parts), NEW c \in Present, NEW u, u \in Uids(ArenaOf(c)),
           NEW k, k = PositionOf(c), NEW x, x = ArenaOf(c), NEW j, j = IndexOf(x, u),
           NEW g, g = x.inners[j].algo, NEW d, d = InnerContent(x, j)
    PROVE  FoundIn(parts, c, u, k, x, j, g, d)
<1>1. k \in DOMAIN parts /\ parts[k].dcp /\ parts[k].uid = c /\ x = parts[k].data /\ Healthy(x)
  BY PresentIs
<1>2. Uids(x) \subseteq Uid /\ OnceUids(x.inners)
  BY <1>1, HealthyUids
<1>3. j \in DOMAIN x.inners /\ x.inners[j].uid = u
  BY <1>2, UidIndex
<1>4. g \in Algo /\ d \in Seq(Byte) /\ Len(d) = LogicalLen(x.inners[j].frags)
  <2>1. PICK D : HealthyIn(D, x)
    BY <1>1 DEF Healthy
  <2>2. x \in ArenaSet(D) /\ Good(x.blob, RowsOf(x.inners))
    BY <2>1 DEF HealthyIn
  <2> QED
    BY <1>3, <2>2, InnerIs
<1>5. InnerHolds(x, u, g, d)
  BY <1>3 DEF InnerHolds
<1>6. Holds(parts, u, HeldAs(c, g, d))
  BY <1>1, <1>5 DEF Holds, HoldsPart
<1>7. u \in Names(parts[k])
  BY <1>1 DEF Names
<1>8. \A l \in DOMAIN parts : l # k => u \notin Names(parts[l])
  BY <1>1, <1>7, OnlyThere
<1> QED
  BY <1>1, <1>2, <1>3, <1>4, <1>6, <1>8 DEF FoundIn

LEMMA EditPartitionIs ==
    ASSUME Filed(parts), NEW c \in Present, NEW u, NEW pos \in Nat, NEW len \in Nat,
           NEW bytes \in Insertions, EditPartition(c, u, pos, len, bytes)
    PROVE  /\ Filed(parts')
           /\ \E g, d : /\ Holds(parts, u, HeldAs(c, g, d)) /\ d \in Seq(Byte)
                        /\ pos + len <= Len(d)
                        /\ SetsHeld(parts, parts', u,
                                    HeldAs(c, g, Changed(d, pos, pos + len, bytes)))
<1> DEFINE k == PositionOf(c)  x == ArenaOf(c)  z == Edit(x, u, pos, len, bytes)
           j == IndexOf(x, u)  g == x.inners[j].algo  d == InnerContent(x, j)
           end == pos + len  e == Changed(d, pos, end, bytes)
<1>1. /\ u \in Uids(x) /\ end <= LogicalLen(x.inners[j].frags)
      /\ parts' = [parts EXCEPT ![k].data = Edit(parts[k].data, u, pos, len, bytes)]
  BY DEF EditPartition
<1>2. FoundIn(parts, c, u, k, x, j, g, d)
  BY <1>1, Found
<1>3. bytes \in Seq(Byte)
  BY WriterAssumption
<1>4. parts' = [parts EXCEPT ![k].data = z]
  BY <1>1, <1>2 DEF FoundIn
<1>5. Healthy(x) /\ end <= Len(d)
  BY <1>1, <1>2 DEF FoundIn
<1> HIDE DEF k, x
<1>6. Healthy(z) /\ ArenaSets(x, z, u, g, e)
  <2>1. end = pos + len /\ j = IndexOf(x, u) /\ d = InnerContent(x, j)
    OBVIOUS
  <2> HIDE DEF j, d, end, g
  <2>2. Healthy(z) /\ ArenaSets(x, z, u, x.inners[j].algo, e)
    BY <1>1, <1>3, <1>5, <2>1, HealthyEdit
  <2> QED
    BY <2>2 DEF g
<1> HIDE DEF z, g, d, e, j
<1>7. Filed(parts') /\ SetsHeld(parts, parts', u, HeldAs(c, g, e))
  <2>1. /\ k \in DOMAIN parts /\ parts[k].dcp /\ parts[k].uid = c /\ x = parts[k].data
        /\ \A l \in DOMAIN parts : l # k => u \notin Names(parts[l])
    BY <1>2 DEF FoundIn
  <2> QED
    BY <1>4, <1>6, <2>1, FiledChanged
<1>8. Holds(parts, u, HeldAs(c, g, d)) /\ d \in Seq(Byte)
  BY <1>2 DEF FoundIn
<1> QED
  BY <1>5, <1>7, <1>8 DEF e

LEMMA RemovePartitionIs ==
    ASSUME Filed(parts), NEW c \in Present, NEW u, RemovePartition(c, u)
    PROVE  /\ Filed(parts') /\ LosesHeld(parts, parts', u)
           /\ \E g, d : Holds(parts, u, HeldAs(c, g, d))
<1> DEFINE k == PositionOf(c)  x == ArenaOf(c)  z == RemoveInner(x, u)
           j == IndexOf(x, u)  g == x.inners[j].algo  d == InnerContent(x, j)
<1>1. /\ u \in Uids(x)
      /\ parts' = [parts EXCEPT ![k].data = RemoveInner(parts[k].data, u)]
  BY DEF RemovePartition
<1>2. FoundIn(parts, c, u, k, x, j, g, d)
  BY <1>1, Found
<1>3. /\ k \in DOMAIN parts /\ parts[k].dcp /\ x = parts[k].data /\ Healthy(x) /\ u \in Uid
      /\ Holds(parts, u, HeldAs(c, g, d))
  BY <1>2 DEF FoundIn
<1>4. parts' = [parts EXCEPT ![k].data = z]
  BY <1>1, <1>3
<1> HIDE DEF k, x
<1>5. Healthy(z) /\ ArenaLoses(x, z, u)
  BY <1>1, <1>3, HealthyRemove
<1> HIDE DEF z
<1>6. Filed(parts') /\ LosesHeld(parts, parts', u)
  BY <1>1, <1>3, <1>4, <1>5, FiledLoses DEF Recast
<1> QED
  BY <1>3, <1>6

LEMMA PromoteIs ==
    ASSUME Filed(parts), NEW c \in Present, NEW u, Promote(c, u)
    PROVE  /\ Filed(parts')
           /\ \E g, d : /\ Holds(parts, u, HeldAs(c, g, d))
                        /\ SetsHeld(parts, parts', u, HeldAs("top", g, d))
<1> DEFINE k == PositionOf(c)  x == ArenaOf(c)  z == RemoveInner(x, u)
           j == IndexOf(x, u)  g == x.inners[j].algo  d == InnerContent(x, j)
           ms == [parts EXCEPT ![k].data = z]
<1>1. /\ u \in Uids(x)
      /\ parts' = Append([parts EXCEPT ![k].data = RemoveInner(parts[k].data, u)], Plain(u, g, d))
  BY DEF Promote
<1>2. FoundIn(parts, c, u, k, x, j, g, d)
  BY <1>1, Found
<1>3. /\ k \in DOMAIN parts /\ parts[k].dcp /\ x = parts[k].data /\ Healthy(x) /\ u \in Uid
      /\ Holds(parts, u, HeldAs(c, g, d)) /\ g \in Algo /\ d \in Seq(Byte)
  BY <1>2 DEF FoundIn
<1>4. parts' = Append(ms, Plain(u, g, d))
  BY <1>1, <1>3
<1> HIDE DEF k, x, j, g, d
<1>5. Healthy(z) /\ ArenaLoses(x, z, u)
  BY <1>1, <1>3, HealthyRemove
<1> HIDE DEF z
<1>b. Recast(parts, ms, k, z)
  BY DEF Recast
<1> HIDE DEF ms
<1>6. Filed(ms) /\ Nowhere(ms, u) /\ LosesHeld(parts, ms, u)
  BY <1>1, <1>3, <1>5, <1>b, FiledLoses
<1>7. Filed(parts') /\ SetsHeld(ms, parts', u, HeldAs("top", g, d))
  BY <1>3, <1>4, <1>6, AppendPlain DEF Nowhere
<1>8. SetsHeld(parts, parts', u, HeldAs("top", g, d))
  <2> DEFINE s == HeldAs("top", g, d)
  <2> HIDE DEF s
  <2> SUFFICES SetsHeld(parts, parts', u, s)
    BY DEF s
  <2>1. SetsHeld(ms, parts', u, s)
    BY <1>7 DEF s
  <2> QED
    BY <1>6, <2>1 DEF SetsHeld, LosesHeld
<1> QED
  BY <1>3, <1>7, <1>8

LEMMA DemoteIs ==
    ASSUME Filed(parts), NEW c \in Present, NEW u, Demote(c, u)
    PROVE  /\ Filed(parts')
           /\ \E g, d : /\ Holds(parts, u, HeldAs("top", g, d))
                        /\ SetsHeld(parts, parts', u, HeldAs(c, g, d))
<1> DEFINE k == PositionOf(c)  x == ArenaOf(c)  j == PositionOf(u)
           g == parts[j].algo  d == parts[j].data  o == 0
           z == AddInner(x, u, g, d, o)  ms == [parts EXCEPT ![k].data = z]
<1>1. /\ u \in TopUids \ Present /\ u \notin Uids(x)
      /\ parts' = RemoveAt([parts EXCEPT ![k].data = AddInner(parts[k].data, u, g, d, 0)], j)
  BY DEF Demote
<1>2. k \in DOMAIN parts /\ parts[k].dcp /\ parts[k].uid = c /\ x = parts[k].data /\ Healthy(x)
  BY PresentIs
<1>3. j \in DOMAIN parts /\ ~parts[j].dcp /\ parts[j].uid = u
  <2>1. PICK l \in DOMAIN parts : parts[l].uid = u
    BY <1>1 DEF TopUids
  <2>2. j = l
    BY <2>1, Position
  <2> QED
    BY <1>1, <2>1, <2>2 DEF Present
<1>4. u \in Uid /\ g \in Algo /\ d \in Seq(Byte)
  BY <1>3 DEF Filed, Typed, PartOK
<1>5. parts' = RemoveAt(ms, j) /\ o \in Nat
  BY <1>1, <1>2
<1> HIDE DEF k, x, o
<1>6. Holds(parts, u, HeldAs("top", g, d))
  BY <1>3 DEF Holds, HoldsPart
<1>a. \A l \in DOMAIN parts : l # j => u \notin Names(parts[l])
  <2>1. u \in Names(parts[j])
    BY <1>3 DEF Names
  <2> QED
    BY <1>3, <2>1, OnlyThere
<1> HIDE DEF g, d, j
<1>7. Healthy(z) /\ ArenaSets(x, z, u, g, d)
  BY <1>1, <1>2, <1>4, <1>5, HealthyAdd
<1> HIDE DEF z
<1>8. j # k /\ NoneElse(parts, k, j, u)
  BY <1>2, <1>3, <1>a DEF NoneElse
<1> DEFINE s == HeldAs(c, g, d)
<1>9. /\ Typed(ms) /\ WithData(parts, ms, k, z) /\ ApartBut(ms, j)
      /\ SetsBut(parts, ms, j, u, s)
  <2>1. Recast(parts, ms, k, z) /\ ArenaSets(parts[k].data, z, u, g, d)
    BY <1>2, <1>7 DEF Recast
  <2> HIDE DEF ms
  <2>2. /\ Typed(ms) /\ WithData(parts, ms, k, z) /\ ApartBut(ms, j)
        /\ SetsBut(parts, ms, j, u, HeldAs(parts[k].uid, g, d))
    <3>1. k \in DOMAIN parts /\ parts[k].dcp /\ Healthy(z)
      BY <1>2, <1>7
    <3>2. j # k /\ NoneElse(parts, k, j, u)
      BY <1>8
    <3> QED
      BY ONLY <2>1, <3>1, <3>2, Filed(parts), FiledSets
  <2> QED
    BY <1>2, <2>2
<1> HIDE DEF ms, s
<1>10. DOMAIN ms = DOMAIN parts
  BY <1>9 DEF WithData
<1>11. Filed(parts') /\ \A v, r :
            Holds(parts', v, r) <=> \E l \in DOMAIN ms : l # j /\ HoldsPart(ms[l], v, r)
  BY <1>3, <1>5, <1>9, <1>10, FiledTaken
<1>12. \A v, r : HoldsPart(parts[j], v, r) => v = u
  BY <1>3 DEF HoldsPart
<1>13. SetsHeld(parts, parts', u, s)
  BY <1>9, <1>11, <1>12 DEF SetsHeld, SetsBut, Holds
<1> QED
  BY <1>6, <1>11, <1>13 DEF s

\* Deduplication and compaction: the arena of the container, and nothing else.
LEMMA KeepsHeld ==
    ASSUME Filed(parts), NEW c \in Present, NEW x, x = ArenaOf(c), NEW z, Healthy(z),
           ArenaSame(x, z), NEW k, k = PositionOf(c), parts' = [parts EXCEPT ![k].data = z]
    PROVE  Filed(parts') /\ SameHeld(parts, parts') /\ ArenaOf(c)' = z
<1>1. k \in DOMAIN parts /\ parts[k].dcp /\ parts[k].uid = c /\ x = parts[k].data /\ Healthy(x)
  BY PresentIs
<1>2. Filed(parts') /\ WithData(parts, parts', k, z) /\ SameHeld(parts, parts')
  BY <1>1, FiledSame DEF Recast
<1>3. k \in DOMAIN parts' /\ parts'[k].uid = c /\ parts'[k].data = z
  BY <1>1, <1>2 DEF WithData, DcpContainer
<1>4. Place(parts', c) = k
  BY <1>2, <1>3, PlaceIs
<1>5. ArenaOf(c)' = z
  BY <1>3, <1>4 DEF ArenaOf, PositionOf, Place
<1> QED
  BY <1>2, <1>5

LEMMA DedupContainerIs ==
    ASSUME Filed(parts), NEW c \in Present, NEW n \in ChunkSizes, DedupContainer(c, n),
           NEW z, z = Dedup(ArenaOf(c), n)
    PROVE  /\ Filed(parts') /\ SameHeld(parts, parts') /\ ArenaOf(c)' = z
           /\ Healthy(z) /\ Distinct(z.blob, RowsOf(z.inners))
<1> DEFINE k == PositionOf(c)  x == ArenaOf(c)
<1>1. n \in Nat
  BY WriterAssumption
<1>2. Healthy(x)
  BY PresentIs
<1>3. parts' = [parts EXCEPT ![k].data = z]
  BY DEF DedupContainer, ArenaOf
<1>4. z = Dedup(x, n)
  OBVIOUS
<1> HIDE DEF x, k
<1>5. Healthy(z) /\ ArenaSame(x, z) /\ Distinct(z.blob, RowsOf(z.inners))
  BY <1>1, <1>2, <1>4, HealthyDedup
<1>6. Filed(parts') /\ SameHeld(parts, parts') /\ ArenaOf(c)' = z
  BY <1>3, <1>5, KeepsHeld DEF x, k
<1> QED
  BY <1>5, <1>6

LEMMA DefragIs ==
    ASSUME Filed(parts), NEW c \in Present, Defrag(c), NEW z, z = Compact(ArenaOf(c))
    PROVE  /\ Filed(parts') /\ SameHeld(parts, parts') /\ ArenaOf(c)' = z
           /\ Tight(z.blob, AllFrags(z.inners))
<1> DEFINE k == PositionOf(c)  x == ArenaOf(c)
<1>1. Healthy(x)
  BY PresentIs
<1>2. parts' = [parts EXCEPT ![k].data = z]
  BY DEF Defrag, ArenaOf
<1>3. z = Compact(x)
  OBVIOUS
<1> HIDE DEF x, k
<1>4. Healthy(z) /\ ArenaSame(x, z) /\ Tight(z.blob, AllFrags(z.inners))
  BY <1>1, <1>3, HealthyCompact
<1>5. Filed(parts') /\ SameHeld(parts, parts') /\ ArenaOf(c)' = z
  BY <1>2, <1>4, KeepsHeld DEF x, k
<1> QED
  BY <1>4, <1>5

\* What is read of what is written, partition by partition.
ReloadedPart(p) ==
    [uid |-> p.uid, algo |-> p.algo, dcp |-> p.dcp,
     data |-> IF p.dcp THEN Parse(ToBytes(p.data)) ELSE p.data]

LEMMA ReloadIs ==
    ASSUME NEW qs, qs = Load(ToImage)
    PROVE  qs = [k \in DOMAIN parts |-> ReloadedPart(parts[k])]
<1>1. /\ DOMAIN ToImage = DOMAIN parts
      /\ \A k \in DOMAIN parts :
            /\ ToImage[k].uid = parts[k].uid /\ ToImage[k].algo = parts[k].algo
            /\ ToImage[k].dcp = parts[k].dcp
            /\ ToImage[k].data = IF parts[k].dcp THEN ToBytes(parts[k].data) ELSE parts[k].data
  BY DEF ToImage
<1> DEFINE image == ToImage
<1>2. qs = [k \in DOMAIN image |->
            [uid |-> image[k].uid, algo |-> image[k].algo, dcp |-> image[k].dcp,
             data |-> IF image[k].dcp THEN Parse(image[k].data) ELSE image[k].data]]
  BY DEF Load
<1>3. /\ DOMAIN image = DOMAIN parts
      /\ \A k \in DOMAIN parts :
            /\ image[k].uid = parts[k].uid /\ image[k].algo = parts[k].algo
            /\ image[k].dcp = parts[k].dcp
            /\ image[k].data = IF parts[k].dcp THEN ToBytes(parts[k].data) ELSE parts[k].data
  BY <1>1
<1> HIDE DEF image
<1>4. ASSUME NEW k \in DOMAIN parts
      PROVE  ReloadedPart(parts[k]) =
                [uid |-> image[k].uid, algo |-> image[k].algo, dcp |-> image[k].dcp,
                 data |-> IF image[k].dcp THEN Parse(image[k].data) ELSE image[k].data]
  <2>1. CASE parts[k].dcp
    BY <1>3, <2>1 DEF ReloadedPart
  <2>2. CASE ~parts[k].dcp
    BY <1>3, <2>2 DEF ReloadedPart
  <2> QED
    BY <2>1, <2>2
<1> QED
  BY <1>2, <1>3, <1>4

LEMMA PartReloaded ==
    ASSUME NEW p, PartOK(p), NEW q, q = ReloadedPart(p)
    PROVE  PartOK(q) /\ SamePart(p, q) /\ q.uid = p.uid
<1>1. CASE p.dcp
  <2> DEFINE z == Parse(ToBytes(p.data))
  <2>1. Healthy(p.data) /\ p.uid \in Containers /\ p.algo = "none" /\ p.dcp = TRUE
    BY <1>1 DEF PartOK
  <2>2. Healthy(z) /\ ArenaSame(p.data, z)
    BY <2>1, HealthyReopen
  <2>3. q = DcpContainer(p.uid, z)
    BY <1>1, <2>1 DEF ReloadedPart, DcpContainer
  <2> HIDE DEF z
  <2>4. SamePart(p, q)
    BY <1>1, <2>2, <2>3, PartSame
  <2>5. PartOK(q)
    BY <2>1, <2>2, <2>3 DEF PartOK, DcpContainer
  <2> QED
    BY <2>3, <2>4, <2>5 DEF DcpContainer
<1>2. CASE ~p.dcp
  <2>1. q = p
    <3>1. p = [uid |-> p.uid, algo |-> p.algo, dcp |-> p.dcp, data |-> p.data]
      BY DEF PartOK
    <3>2. q = [uid |-> p.uid, algo |-> p.algo, dcp |-> p.dcp, data |-> p.data]
      BY <1>2 DEF ReloadedPart
    <3> QED
      BY <3>1, <3>2
  <2> QED
    BY <2>1 DEF SamePart
<1> QED
  BY <1>1, <1>2

LEMMA ReopenFileIs ==
    ASSUME Filed(parts), NEW qs, qs = Load(ToImage)
    PROVE  Filed(qs) /\ SameHeld(parts, qs) /\ DOMAIN qs = DOMAIN parts
           /\ \A k \in DOMAIN parts : qs[k] = ReloadedPart(parts[k]) /\ SamePart(parts[k], qs[k])
<1> DEFINE n == Len(parts)  S == {ReloadedPart(parts[k]) : k \in DOMAIN parts}
<1>1. DOMAIN qs = DOMAIN parts /\ qs = [k \in DOMAIN parts |-> qs[k]]
      /\ \A k \in DOMAIN parts : qs[k] = ReloadedPart(parts[k])
  BY ReloadIs
<1>2. \A k \in DOMAIN parts : PartOK(qs[k]) /\ SamePart(parts[k], qs[k])
  BY <1>1, PartReloaded DEF Filed, Typed
<1>3. n \in Nat /\ DOMAIN parts = 1..n
  BY DEF Filed, Typed, SomeSeq
<1>4. \A k \in 1..n : qs[k] \in S
  BY <1>1, <1>3
<1>5. qs = [k \in 1..n |-> qs[k]]
  BY <1>1, <1>3
<1> HIDE DEF n, S
<1>6. qs \in Seq(S)
  BY ONLY <1>3, <1>4, <1>5, FunSeq
<1>7. Typed(qs)
  BY <1>1, <1>2, <1>6 DEF Typed, SomeSeq
<1>8. Apart(qs)
  BY <1>1, <1>2 DEF Apart, Separate, SamePart, Filed
<1>9. SameHeld(parts, qs)
  BY <1>1, <1>2 DEF SameHeld, Holds, SamePart
<1> QED
  BY <1>1, <1>2, <1>7, <1>8, <1>9 DEF Filed

LEMMA InitFiled ==
    ASSUME Init
    PROVE  Filed(parts) /\ \A v, r : ~Holds(parts, v, r)
<1>1. CASE parts = <<>>
  <2>1. parts \in Seq({}) /\ DOMAIN parts = {}
    BY <1>1
  <2> QED
    BY <2>1 DEF Filed, Typed, SomeSeq, Apart, Holds
<1>2. CASE \E c \in Containers, a \in TableAlgo : parts = <<DcpContainer(c, EmptyArena(a))>>
  <2>1. PICK c \in Containers, a \in TableAlgo : parts = <<DcpContainer(c, EmptyArena(a))>>
    BY <1>2
  <2> DEFINE x == EmptyArena(a)  p == DcpContainer(c, x)
  <2>2. Healthy(x) /\ \A v, g, d : ~InnerHolds(x, v, g, d)
    BY HealthyEmpty
  <2> HIDE DEF x
  <2>3. p.dcp /\ p.uid = c /\ p.data = x
    BY BoxMade
  <2>4. PartOK(p)
    BY <2>2 DEF PartOK, DcpContainer
  <2>5. parts = <<p>>
    BY <2>1 DEF x
  <2> HIDE DEF p
  <2>6. parts \in Seq({p}) /\ DOMAIN parts = {1} /\ parts[1] = p
    BY <2>5
  <2>7. \A v, r : ~HoldsPart(p, v, r)
    BY <2>2, <2>3, BoxIs DEF HeldIn
  <2>8. Typed(parts)
    <3>1. SomeSeq(parts)
      BY <2>6 DEF SomeSeq
    <3>2. \A k \in DOMAIN parts : PartOK(parts[k])
      BY <2>4, <2>6
    <3> QED
      BY <3>1, <3>2 DEF Typed
  <2>9. Apart(parts)
    BY <2>6 DEF Apart
  <2> QED
    BY <2>6, <2>7, <2>8, <2>9 DEF Filed, Holds
<1> QED
  BY <1>1, <1>2 DEF Init

\* Next keeps the invariant.
LEMMA NextFiled ==
    ASSUME Filed(parts), Next
    PROVE  Filed(parts')
<1>1. CASE \E uid \in Uid, algo \in Algo, content \in Contents :
            Fresh(uid) /\ AddPlain(uid, algo, content)
  BY <1>1, AddPlainIs
<1>2. CASE \E c \in Containers, a \in TableAlgo : Fresh(c) /\ AddContainer(c, a)
  BY <1>2, AddContainerIs
<1>3. ASSUME NEW c \in Present, NEW uid \in Uid, NEW algo \in Algo, NEW content \in Contents,
             NEW n \in ChunkSizes, Fresh(uid), AddPartition(c, uid, algo, content, n)
      PROVE  Filed(parts')
  BY <1>3, AddPartitionIs
<1>4. ASSUME NEW c \in Present, NEW uid \in Uid, NEW pos \in Nat, NEW len \in Nat,
             NEW bytes \in Insertions, EditPartition(c, uid, pos, len, bytes)
      PROVE  Filed(parts')
  BY <1>4, EditPartitionIs
<1>5. ASSUME NEW c \in Present, NEW uid \in Uid,
             RemovePartition(c, uid) \/ Promote(c, uid) \/ Demote(c, uid)
      PROVE  Filed(parts')
  BY <1>5, RemovePartitionIs, PromoteIs, DemoteIs
<1>6. ASSUME NEW c \in Present, NEW n \in ChunkSizes, DedupContainer(c, n)
      PROVE  Filed(parts')
  BY <1>6, DedupContainerIs
<1>7. ASSUME NEW c \in Present, Defrag(c)  PROVE Filed(parts')
  BY <1>7, DefragIs
<1>8. CASE Reopen
  BY <1>8, ReopenFileIs DEF Reopen
<1> QED
  BY <1>1, <1>2, <1>3, <1>4, <1>5, <1>6, <1>7, <1>8 DEF Next

LEMMA FiledAlways == MCSpec => []Filed(parts)
<1>1. MCInit => Filed(parts)
  BY InitFiled DEF MCInit
<1>2. Filed(parts) /\ [MCNext]_mcvars => Filed(parts)'
  BY NextFiled DEF MCNext, mcvars, vars
<1> QED
  BY <1>1, <1>2, PTL DEF MCSpec

-----------------------------------------------------------------------------
(* The properties of one arena, from its invariant.                        *)

LEMMA HealthyRows ==
    ASSUME NEW x, Healthy(x), NEW R, R = RowsOf(x.inners)
    PROVE  /\ x.inners \in Seq(InnerSet) /\ R \in Rows /\ Good(x.blob, R)
           /\ \E D : x.blob \in Seq(D)
           /\ AllFrags(x.inners) = FlattenSeq(R)
<1>1. PICK D : HealthyIn(D, x)
  BY DEF Healthy
<1>2. x \in ArenaSet(D) /\ Good(x.blob, R)
  BY <1>1 DEF HealthyIn
<1>3. x.inners \in Seq(InnerSet) /\ x.blob \in Seq(D)
  BY <1>2 DEF ArenaSet
<1> QED
  BY <1>2, <1>3, InnersAre, AllFragsIs

FragTyped(pool, f) ==
    /\ f.offset \in Nat /\ f.length \in Nat \ {0} /\ f.shared \in BOOLEAN
    /\ f.offset + f.length <= Len(pool)
    /\ ToSet(Slice(pool, f)) \subseteq Byte

LEMMA HealthyTyped ==
    ASSUME NEW x, Healthy(x), NEW f \in ToSet(AllFrags(x.inners))
    PROVE  FragTyped(x.blob, f)
<1> DEFINE R == RowsOf(x.inners)  pool == x.blob
<1>1. /\ R \in Rows /\ Good(pool, R) /\ \E D : pool \in Seq(D)
      /\ AllFrags(x.inners) = FlattenSeq(R)
  BY HealthyRows
<1>2. f \in ToSet(FlattenSeq(R))
  BY <1>1
<1> HIDE DEF R, pool
<1>3. \E k \in DOMAIN R : \E i \in DOMAIN R[k] : f = R[k][i]
  BY <1>1, <1>2, FlatMembers DEF Rows
<1>4. f \in FragSet /\ InPool(pool, f)
  BY <1>1, <1>3, RowsAre DEF Good, Pooled, FragsIn
<1>5. PICK D : pool \in Seq(D)
  BY <1>1
<1>6. Slice(pool, f) \in Seq(Byte)
  BY <1>4, <1>5, SliceIs
<1>7. ToSet(Slice(pool, f)) \subseteq Byte
  <2> DEFINE s == Slice(pool, f)
  <2> HIDE DEF s
  <2>1. s \in Seq(Byte) => ToSet(s) \subseteq Byte
    BY DEF ToSet
  <2> QED
    BY <1>6, <2>1 DEF s
<1>8. f.offset + f.length <= Len(pool)
  BY <1>4 DEF InPool
<1>9. f.offset \in Nat /\ f.length \in Nat \ {0} /\ f.shared \in BOOLEAN
  BY <1>4 DEF FragSet
<1> QED
  BY <1>7, <1>8, <1>9 DEF FragTyped, pool

LEMMA HealthyMarked ==
    ASSUME NEW x, Healthy(x), NEW frags, frags = AllFrags(x.inners),
           NEW i \in DOMAIN frags, NEW j \in DOMAIN frags, i # j, Overlap(frags[i], frags[j])
    PROVE  frags[i].shared
<1> DEFINE R == RowsOf(x.inners)
<1>1. R \in Seq(Seq(FragSet)) /\ Marked(R) /\ frags = FlattenSeq(R)
  BY HealthyRows DEF Good, Rows
<1> HIDE DEF R
<1>2. PICK k \in DOMAIN R : \E u \in DOMAIN R[k] :
            i = Len(Upto(R, k - 1)) + u /\ frags[i] = R[k][u]
  BY <1>1, FlatPlaces
<1>3. PICK l \in DOMAIN R : \E v \in DOMAIN R[l] :
            j = Len(Upto(R, l - 1)) + v /\ frags[j] = R[l][v]
  BY <1>1, FlatPlaces
<1>4. PICK u \in DOMAIN R[k] : i = Len(Upto(R, k - 1)) + u /\ frags[i] = R[k][u]
  BY <1>2
<1>5. PICK v \in DOMAIN R[l] : j = Len(Upto(R, l - 1)) + v /\ frags[j] = R[l][v]
  BY <1>3
<1>6. Overlap(R[k][u], R[l][v])
  BY <1>4, <1>5
<1>7. CASE k = l
  <2>1. u # v
    BY <1>4, <1>5, <1>7
  <2> QED
    BY <1>1, <1>4, <1>6, <1>7, <2>1 DEF Marked, SelfMarked
<1>8. CASE k # l
  BY <1>1, <1>4, <1>6, <1>8 DEF Marked, CrossMarked
<1> QED
  BY <1>7, <1>8

LEMMA ArenasHealthy ==
    ASSUME Filed(parts), NEW x \in Arenas
    PROVE  Healthy(x)
BY PresentIs DEF Arenas

\* Every fragment of every container is some bytes of content in its pool, whatever
\* the operations of arena.rs have done to it: never none, never outside, never the
\* header or a table of the arena it was read from.
THEOREM FragmentsInPool == MCSpec => []TypeOK
<1>1. Filed(parts) => TypeOK
  <2> SUFFICES ASSUME Filed(parts), NEW x \in Arenas, NEW f \in ToSet(AllFrags(x.inners))
               PROVE  /\ f.offset \in Nat /\ f.length \in Nat \ {0} /\ f.shared \in BOOLEAN
                      /\ f.offset + f.length <= Len(x.blob)
                      /\ ToSet(Slice(x.blob, f)) \subseteq Byte
    BY DEF TypeOK
  <2> QED
    BY ArenasHealthy, HealthyTyped DEF FragTyped
<1> QED
  BY <1>1, FiledAlways, PTL

\* Rule F1 of the format (8.4) after any calls of add_inner, the edits, remove,
\* promote, demote, dedup, compact and reopening: two fragments that have a byte of
\* the pool in common are both marked SHARED.
THEOREM SharingIsMarked == MCSpec => []SharedMarked
<1>1. Filed(parts) => SharedMarked
  <2> SUFFICES ASSUME Filed(parts), NEW x \in Arenas, NEW frags, frags = AllFrags(x.inners),
                      NEW i \in DOMAIN frags, NEW j \in DOMAIN frags,
                      i # j, Overlap(frags[i], frags[j])
               PROVE  frags[i].shared
    BY DEF SharedMarked
  <2> QED
    BY ArenasHealthy, HealthyMarked
<1> QED
  BY <1>1, FiledAlways, PTL

\* The steps that are called compact and dedup.
LEMMA MaintenanceSteps ==
    ASSUME Next, NEW d
    PROVE  /\ call' = [op |-> "compact", on |-> d] => Defrag(d)
           /\ call' = [op |-> "dedup", on |-> d] => \E n \in ChunkSizes : DedupContainer(d, n)
<1> DEFINE P(op) == op # "compact" /\ op # "dedup"
<1>0. [op |-> "compact", on |-> d].op = "compact" /\ [op |-> "dedup", on |-> d].op = "dedup"
      /\ [op |-> "compact", on |-> d].on = d /\ [op |-> "dedup", on |-> d].on = d
  OBVIOUS
<1>1. CASE \E uid \in Uid, algo \in Algo, content \in Contents :
            Fresh(uid) /\ AddPlain(uid, algo, content)
  <2>1. call'.op = "add"
    BY <1>1 DEF AddPlain
  <2> QED
    BY <1>0, <2>1
<1>2. CASE \E c \in Containers, a \in TableAlgo : Fresh(c) /\ AddContainer(c, a)
  <2>1. call'.op = "container"
    BY <1>2 DEF AddContainer
  <2> QED
    BY <1>0, <2>1
<1>3. ASSUME NEW c \in Present, NEW uid, NEW algo, NEW content, NEW n,
             AddPartition(c, uid, algo, content, n)
      PROVE  call'.op = "add"
  BY <1>3 DEF AddPartition
<1>4. ASSUME NEW c \in Present, NEW uid, NEW pos, NEW len, NEW bytes,
             EditPartition(c, uid, pos, len, bytes)
      PROVE  call'.op = "edit"
  BY <1>4 DEF EditPartition
<1>5. ASSUME NEW c \in Present, NEW uid,
             RemovePartition(c, uid) \/ Promote(c, uid) \/ Demote(c, uid)
      PROVE  call'.op = "remove" \/ call'.op = "move"
  BY <1>5 DEF RemovePartition, Promote, Demote
<1>6. CASE \E c \in Present : \E n \in ChunkSizes : DedupContainer(c, n)
  <2>1. PICK c \in Present : \E n \in ChunkSizes : DedupContainer(c, n)
    BY <1>6
  <2>2. call'.op = "dedup" /\ call'.on = c
    BY <2>1 DEF DedupContainer
  <2> QED
    BY <1>0, <2>1, <2>2
<1>7. CASE \E c \in Present : Defrag(c)
  <2>1. PICK c \in Present : Defrag(c)
    BY <1>7
  <2>2. call'.op = "compact" /\ call'.on = c
    BY <2>1 DEF Defrag
  <2> QED
    BY <1>0, <2>1, <2>2
<1>8. CASE Reopen
  <2>1. call'.op = "reopen"
    BY <1>8 DEF Reopen
  <2> QED
    BY <1>0, <2>1
<1>9. CASE \E c \in Present, uid \in Uid :
        \/ \E algo \in Algo, content \in Contents, n \in ChunkSizes :
                AddPartition(c, uid, algo, content, n)
        \/ \E pos, len, bytes : EditPartition(c, uid, pos, len, bytes)
        \/ RemovePartition(c, uid) \/ Promote(c, uid) \/ Demote(c, uid)
  <2>1. call'.op \in {"add", "edit", "remove", "move"}
    BY <1>3, <1>4, <1>5, <1>9
  <2> QED
    BY <1>0, <2>1
<1> QED
  BY <1>1, <1>2, <1>6, <1>7, <1>8, <1>9 DEF Next

\* What compact promises, on every file: no byte of the new pool is unused, and
\* SHARED stays exactly where it is due (rule F2).
THEOREM CompactionIsTight == MCSpec => CompactionNormalises
<1> DEFINE A == \A d \in Present : call' = [op |-> "compact", on |-> d] =>
                    LET new == ArenaOf(d)'
                        frags == AllFrags(new.inners)
                    IN  /\ \A n \in 0..(Len(new.blob) - 1) :
                                \E f \in ToSet(frags) : f.offset <= n /\ n < f.offset + f.length
                        /\ \A i \in DOMAIN frags : frags[i].shared =>
                                \E j \in DOMAIN frags \ {i} : Overlap(frags[i], frags[j])
<1>1. Filed(parts) /\ [MCNext]_mcvars => [A]_mcvars
  <2> SUFFICES ASSUME Filed(parts), MCNext, NEW d \in Present,
                      call' = [op |-> "compact", on |-> d]
               PROVE  Tight(ArenaOf(d)'.blob, AllFrags(ArenaOf(d)'.inners))
    BY DEF Tight
  <2>1. Defrag(d)
    BY MaintenanceSteps DEF MCNext
  <2>2. \A z : z = Compact(ArenaOf(d)) =>
            ArenaOf(d)' = z /\ Tight(z.blob, AllFrags(z.inners))
    BY <2>1, DefragIs
  <2> QED
    BY <2>2
<1>2. MCSpec => [][A]_mcvars
  BY <1>1, FiledAlways, PTL DEF MCSpec
<1> QED
  BY <1>2 DEF CompactionNormalises

\* What dedup promises, on every file and for every chunk size: no two chunks of the
\* container hold the same bytes twice.
THEOREM DedupIsComplete == MCSpec => DedupComplete
<1> DEFINE A == \A d \in Present : call' = [op |-> "dedup", on |-> d] =>
                    LET new == ArenaOf(d)' IN
                    \A f, g \in ToSet(AllFrags(new.inners)) :
                        Slice(new.blob, f) = Slice(new.blob, g) => Extent(f) = Extent(g)
<1>1. Filed(parts) /\ [MCNext]_mcvars => [A]_mcvars
  <2> SUFFICES ASSUME Filed(parts), MCNext, NEW d \in Present,
                      call' = [op |-> "dedup", on |-> d], NEW z, z = ArenaOf(d)',
                      NEW f \in ToSet(AllFrags(z.inners)), NEW g \in ToSet(AllFrags(z.inners)),
                      Slice(z.blob, f) = Slice(z.blob, g)
               PROVE  Extent(f) = Extent(g)
    OBVIOUS
  <2>1. PICK n \in ChunkSizes : DedupContainer(d, n)
    BY MaintenanceSteps DEF MCNext
  <2>2. \A y : y = Dedup(ArenaOf(d), n) =>
            ArenaOf(d)' = y /\ Healthy(y) /\ Distinct(y.blob, RowsOf(y.inners))
    BY <2>1, DedupContainerIs
  <2>3. Healthy(z) /\ Distinct(z.blob, RowsOf(z.inners))
    BY <2>2
  <2> DEFINE R == RowsOf(z.inners)
  <2>4. R \in Seq(Seq(FragSet)) /\ AllFrags(z.inners) = FlattenSeq(R)
    BY <2>3, HealthyRows DEF Rows
  <2> HIDE DEF R
  <2>5. /\ \E k \in DOMAIN R : \E i \in DOMAIN R[k] : f = R[k][i]
        /\ \E k \in DOMAIN R : \E i \in DOMAIN R[k] : g = R[k][i]
    BY <2>4, FlatMembers
  <2> QED
    BY <2>3, <2>5 DEF Distinct, R
<1>2. MCSpec => [][A]_mcvars
  BY <1>1, FiledAlways, PTL DEF MCSpec
<1> QED
  BY <1>2 DEF DedupComplete

-----------------------------------------------------------------------------
(* The writer implements the store: what its user sees is what is held.    *)

IsView(st, ps) ==
    /\ st = [u \in DOMAIN st |-> st[u]]
    /\ DOMAIN st = {u \in Uid : \E r : Holds(ps, u, r)}
    /\ \A u \in Uid : \A r : Holds(ps, u, r) => st[u] = r

LEMMA PartOfHeld ==
    ASSUME Filed(parts), NEW u \in Uid, ~Fresh(u)
    PROVE  Holds(parts, u, PartOf(u))
<1>1. CASE u \in TopUids
  <2>1. PICK k \in DOMAIN parts : parts[k].uid = u
    BY <1>1 DEF TopUids
  <2>2. PositionOf(u) = k
    BY <2>1, Position
  <2>3. ~parts[k].dcp
    BY <2>1, WriterAssumption DEF Filed, Typed, PartOK
  <2>4. PartOf(u) = HeldAs("top", parts[k].algo, parts[k].data)
    BY <1>1, <2>2 DEF PartOf, HeldAs
  <2> QED
    BY <2>1, <2>3, <2>4 DEF Holds, HoldsPart
<1>2. CASE u \notin TopUids
  <2> DEFINE d == CHOOSE d \in Present : u \in Uids(ArenaOf(d))
             x == ArenaOf(d)  k == IndexOf(x, u)
             g == x.inners[k].algo  e == InnerContent(x, k)  j == PositionOf(d)
  <2>1. \E c \in Present : u \in Uids(ArenaOf(c))
    BY <1>2 DEF Fresh
  <2>2. d \in Present /\ u \in Uids(ArenaOf(d))
    BY <2>1
  <2>3. PartOf(u) = HeldAs(d, g, e)
    BY <1>2 DEF PartOf, HeldAs
  <2> HIDE DEF d
  <2>4. FoundIn(parts, d, u, j, x, k, g, e)
    BY <2>2, Found
  <2> QED
    BY <2>3, <2>4 DEF FoundIn
<1> QED
  BY <1>1, <1>2

LEMMA SeenIs == Filed(parts) => IsView(Seen, parts)
<1> SUFFICES ASSUME Filed(parts)  PROVE IsView(Seen, parts)
  OBVIOUS
<1>1. /\ DOMAIN Seen = {v \in Uid : ~Fresh(v)} /\ Seen = [u \in DOMAIN Seen |-> Seen[u]]
      /\ \A u \in Uid : ~Fresh(u) => Seen[u] = PartOf(u)
  BY DEF Seen
<1>2. ASSUME NEW u \in Uid  PROVE ~Fresh(u) <=> \E r : Holds(parts, u, r)
  <2>1. ASSUME Fresh(u), NEW r  PROVE ~Holds(parts, u, r)
    BY <2>1, FreshIs, NotHeld
  <2> QED
    BY <2>1, PartOfHeld
<1>3. DOMAIN Seen = {u \in Uid : \E r : Holds(parts, u, r)}
  BY <1>1, <1>2
<1>4. ASSUME NEW u \in Uid, NEW r, Holds(parts, u, r)  PROVE Seen[u] = r
  <2>1. ~Fresh(u) /\ Seen[u] = PartOf(u)
    BY <1>1, <1>2, <1>4
  <2>2. Holds(parts, u, PartOf(u))
    BY <2>1, PartOfHeld
  <2> QED
    BY <1>4, <2>1, <2>2, HoldsOnce
<1> HIDE DEF Seen
<1> QED
  BY <1>1, <1>3, <1>4 DEF IsView

LEMMA ViewNext == (Filed(parts) => IsView(Seen, parts))'
<1>1. Filed(parts) => IsView(Seen, parts)
  BY SeenIs
<1> QED
  BY <1>1, PTL

LEMMA ViewSame ==
    ASSUME NEW ps, NEW qs, NEW st, NEW tt, IsView(st, ps), IsView(tt, qs), SameHeld(ps, qs)
    PROVE  tt = st
<1>1. DOMAIN tt = DOMAIN st
  BY DEF IsView, SameHeld
<1>2. \A u \in DOMAIN st : tt[u] = st[u]
  BY DEF IsView, SameHeld
<1> QED
  BY <1>1, <1>2 DEF IsView

PutIn(st, tt, u, s) == tt = [v \in DOMAIN st \cup {u} |-> IF v = u THEN s ELSE st[v]]

LEMMA ViewSets ==
    ASSUME NEW ps, NEW qs, NEW st, NEW tt, IsView(st, ps), IsView(tt, qs),
           NEW u \in Uid, NEW s, SetsHeld(ps, qs, u, s)
    PROVE  PutIn(st, tt, u, s)
<1>1. DOMAIN tt = DOMAIN st \cup {u}
  <2>1. ASSUME NEW v \in Uid
        PROVE  (\E r : Holds(qs, v, r)) <=> v = u \/ \E r : Holds(ps, v, r)
    BY DEF SetsHeld
  <2> QED
    BY <2>1 DEF IsView
<1>2. Holds(qs, u, s)
  BY DEF SetsHeld
<1>3. tt[u] = s
  BY <1>2 DEF IsView
<1>4. \A v \in DOMAIN st : v # u => tt[v] = st[v]
  BY DEF IsView, SetsHeld
<1>5. tt = [v \in DOMAIN tt |-> tt[v]]
  BY DEF IsView
<1> QED
  BY <1>1, <1>3, <1>4, <1>5 DEF PutIn

LEMMA ViewLoses ==
    ASSUME NEW ps, NEW qs, NEW st, NEW tt, IsView(st, ps), IsView(tt, qs),
           NEW u, LosesHeld(ps, qs, u)
    PROVE  tt = [v \in DOMAIN st \ {u} |-> st[v]]
<1>1. DOMAIN tt = DOMAIN st \ {u}
  BY DEF IsView, LosesHeld
<1>2. \A v \in DOMAIN st : v # u => tt[v] = st[v]
  BY DEF IsView, LosesHeld
<1>3. tt = [v \in DOMAIN tt |-> tt[v]]
  BY DEF IsView
<1> QED
  BY <1>1, <1>2, <1>3

LEMMA ViewHas ==
    ASSUME NEW ps, NEW st, IsView(st, ps), NEW u \in Uid, NEW s, Holds(ps, u, s)
    PROVE  u \in DOMAIN st /\ st[u] = s
BY DEF IsView

LEMMA HeldWith ==
    ASSUME NEW U, NEW q \in [at : U, algo : U, content : U], NEW z
    PROVE  /\ [q EXCEPT !.content = z] = [at |-> q.at, algo |-> q.algo, content |-> z]
           /\ [q EXCEPT !.at = z] = [at |-> z, algo |-> q.algo, content |-> q.content]
OBVIOUS

LEMMA HeldIs ==
    ASSUME NEW c, NEW g, NEW d, NEW q, q = HeldAs(c, g, d), NEW z
    PROVE  /\ q.at = c /\ q.algo = g /\ q.content = d
           /\ [q EXCEPT !.content = z] = HeldAs(c, g, z)
           /\ [q EXCEPT !.at = z] = HeldAs(z, g, d)
<1> DEFINE U == {c, g, d}
<1>1. q \in [at : U, algo : U, content : U] /\ q.at = c /\ q.algo = g /\ q.content = d
  BY DEF HeldAs
<1> HIDE DEF U
<1>2. /\ [q EXCEPT !.content = z] = [at |-> q.at, algo |-> q.algo, content |-> z]
      /\ [q EXCEPT !.at = z] = [at |-> z, algo |-> q.algo, content |-> q.content]
  BY ONLY <1>1, HeldWith
<1> QED
  BY <1>1, <1>2 DEF HeldAs

\* One step of the store, for each kind of operation.
LEMMA StoreAdds ==
    ASSUME Filed(parts), IsView(store, parts), IsView(store', parts'),
           NEW u \in Uid, Fresh(u), NEW place \in Containers \cup {"top"}, NEW g \in Algo,
           NEW d \in Contents, SetsHeld(parts, parts', u, HeldAs(place, g, d)),
           call' = [op |-> "add", uid |-> u, at |-> place, content |-> d]
    PROVE  Store!Next
<1>1. u \notin DOMAIN store
  <2>1. \A r : ~Holds(parts, u, r)
    BY FreshIs, NotHeld
  <2> QED
    BY <2>1 DEF IsView
<1>2. PutIn(store, store', u, HeldAs(place, g, d))
  BY ViewSets
<1>3. Store!Put(u, [at |-> place, algo |-> g, content |-> d])
  BY <1>2 DEF PutIn, HeldAs, Store!Put
<1>4. Store!Add(u, place, g, d)
  BY <1>1, <1>3 DEF Store!Add
<1> QED
  BY <1>4 DEF Store!Next, Store!Top

LEMMA StoreEdits ==
    ASSUME IsView(store, parts), IsView(store', parts'),
           NEW u \in Uid, NEW c \in Containers, NEW g, NEW d \in Seq(Byte),
           Holds(parts, u, HeldAs(c, g, d)), NEW pos \in Nat, NEW len \in Nat,
           pos + len <= Len(d), NEW bytes \in Insertions,
           SetsHeld(parts, parts', u, HeldAs(c, g, Changed(d, pos, pos + len, bytes))),
           call' = [op |-> "edit", uid |-> u, pos |-> pos, len |-> len, bytes |-> bytes]
    PROVE  Store!Next
<1> DEFINE e == Changed(d, pos, pos + len, bytes)
<1>1. u \in DOMAIN store /\ store[u] = HeldAs(c, g, d)
  BY ViewHas
<1>2. PutIn(store, store', u, HeldAs(c, g, e))
  BY ViewSets
<1>3. store[u].at = c /\ store[u].content = d /\ [store[u] EXCEPT !.content = e] = HeldAs(c, g, e)
  <2> HIDE DEF e
  <2> QED
    BY <1>1, HeldIs
<1>4. [store[u] EXCEPT !.content =
            SubSeq(store[u].content, 1, pos) \o bytes
                \o SubSeq(store[u].content, pos + len + 1, Len(store[u].content))]
        = HeldAs(c, g, e)
  BY <1>3 DEF Changed
<1>5. Store!Put(u, [store[u] EXCEPT !.content =
            SubSeq(store[u].content, 1, pos) \o bytes
                \o SubSeq(store[u].content, pos + len + 1, Len(store[u].content))])
  <2> DEFINE s == HeldAs(c, g, e)
  <2>1. PutIn(store, store', u, s)
    BY <1>2
  <2> HIDE DEF s
  <2> QED
    BY <1>4, <2>1 DEF PutIn, Store!Put, s
<1>6. store[u].at # "top"
  BY <1>3, WriterAssumption
<1>7. Store!Edit(u, pos, len, bytes)
  BY <1>1, <1>3, <1>5, <1>6 DEF Store!Edit, Store!Top
<1>8. pos \in 0..Len(store[u].content) /\ len \in 0..Len(store[u].content)
  <2>1. Len(d) \in Nat
    OBVIOUS
  <2> QED
    BY <1>3, <2>1
<1> QED
  BY <1>1, <1>7, <1>8 DEF Store!Next

LEMMA StoreRemoves ==
    ASSUME IsView(store, parts), IsView(store', parts'),
           NEW u \in Uid, NEW c \in Containers, NEW g, NEW d,
           Holds(parts, u, HeldAs(c, g, d)), LosesHeld(parts, parts', u),
           call' = [op |-> "remove", uid |-> u]
    PROVE  Store!Next
<1>1. u \in DOMAIN store /\ store[u] = HeldAs(c, g, d)
  BY ViewHas
<1>2. store[u].at # "top"
  BY <1>1, WriterAssumption DEF HeldAs
<1>3. store' = [v \in DOMAIN store \ {u} |-> store[v]]
  BY ViewLoses
<1> QED
  BY <1>1, <1>2, <1>3 DEF Store!Next, Store!Remove, Store!Top

LEMMA StoreMoves ==
    ASSUME IsView(store, parts), IsView(store', parts'),
           NEW u \in Uid, NEW from, NEW to,
           (from \in Containers /\ to = "top") \/ (from = "top" /\ to \in Containers),
           NEW g, NEW d, Holds(parts, u, HeldAs(from, g, d)),
           SetsHeld(parts, parts', u, HeldAs(to, g, d)),
           call' = [op |-> "move", uid |-> u, to |-> to]
    PROVE  Store!Next
<1>1. u \in DOMAIN store /\ store[u] = HeldAs(from, g, d)
  BY ViewHas
<1>2. PutIn(store, store', u, HeldAs(to, g, d))
  BY ViewSets
<1>3. store[u].at = from /\ [store[u] EXCEPT !.at = to] = HeldAs(to, g, d)
  BY <1>1, HeldIs
<1>4. Store!Put(u, [store[u] EXCEPT !.at = to])
  <2> DEFINE s == HeldAs(to, g, d)
  <2>1. PutIn(store, store', u, s)
    BY <1>2
  <2> HIDE DEF s
  <2> QED
    BY <1>3, <2>1 DEF PutIn, Store!Put, s
<1>5. Store!Move(u, from, to)
  BY <1>1, <1>3, <1>4 DEF Store!Move
<1> QED
  BY <1>5 DEF Store!Next, Store!Top

LEMMA StoreKeeps ==
    ASSUME IsView(store, parts), IsView(store', parts'), SameHeld(parts, parts'),
           \/ call' \in [op : {"container", "dedup", "compact"}, on : Containers]
           \/ call' = [op |-> "reopen"]
    PROVE  Store!Next
<1>1. store' = store
  BY ViewSame
<1> QED
  BY <1>1 DEF Store!Next, Store!Maintain

LEMMA StoreStep ==
    ASSUME Filed(parts), IsView(store, parts), IsView(store', parts'), Next
    PROVE  Store!Next
<1>0. \A c \in Present : c \in Containers
  BY PresentIs
<1>1. ASSUME NEW u \in Uid, NEW g \in Algo, NEW d \in Contents, Fresh(u), AddPlain(u, g, d)
      PROVE  Store!Next
  <2> DEFINE place == "top"
  <2>1. SetsHeld(parts, parts', u, HeldAs(place, g, d))
    BY <1>1, AddPlainIs
  <2>2. call' = [op |-> "add", uid |-> u, at |-> place, content |-> d]
        /\ place \in Containers \cup {"top"}
    BY <1>1 DEF AddPlain
  <2> HIDE DEF place
  <2> QED
    BY <1>1, <2>1, <2>2, StoreAdds
<1>2. ASSUME NEW c \in Containers, Fresh(c), NEW a \in TableAlgo, AddContainer(c, a)
      PROVE  Store!Next
  <2>1. SameHeld(parts, parts')
    BY <1>2, AddContainerIs
  <2>2. call' \in [op : {"container", "dedup", "compact"}, on : Containers]
    BY <1>2 DEF AddContainer
  <2> QED
    BY <2>1, <2>2, StoreKeeps
<1>3. ASSUME NEW c \in Present, NEW u \in Uid, NEW g \in Algo, NEW d \in Contents,
             NEW n \in ChunkSizes, Fresh(u), AddPartition(c, u, g, d, n)
      PROVE  Store!Next
  <2>1. SetsHeld(parts, parts', u, HeldAs(c, g, d))
    BY <1>3, AddPartitionIs
  <2>2. call' = [op |-> "add", uid |-> u, at |-> c, content |-> d]
        /\ c \in Containers \cup {"top"}
    BY <1>0, <1>3 DEF AddPartition
  <2> QED
    BY <1>3, <2>1, <2>2, StoreAdds
<1>4. ASSUME NEW c \in Present, NEW u \in Uid, NEW pos \in Nat, NEW len \in Nat,
             NEW bytes \in Insertions, EditPartition(c, u, pos, len, bytes)
      PROVE  Store!Next
  <2>1. PICK g, d : /\ Holds(parts, u, HeldAs(c, g, d)) /\ d \in Seq(Byte)
                    /\ pos + len <= Len(d)
                    /\ SetsHeld(parts, parts', u,
                                HeldAs(c, g, Changed(d, pos, pos + len, bytes)))
    BY <1>4, EditPartitionIs
  <2>2. call' = [op |-> "edit", uid |-> u, pos |-> pos, len |-> len, bytes |-> bytes]
        /\ c \in Containers
    BY <1>0, <1>4 DEF EditPartition
  <2> QED
    BY <2>1, <2>2, StoreEdits
<1>5. ASSUME NEW c \in Present, NEW u \in Uid, RemovePartition(c, u)  PROVE Store!Next
  <2>1. LosesHeld(parts, parts', u) /\ \E g, d : Holds(parts, u, HeldAs(c, g, d))
    BY <1>5, RemovePartitionIs
  <2>2. call' = [op |-> "remove", uid |-> u] /\ c \in Containers
    BY <1>0, <1>5 DEF RemovePartition
  <2> QED
    BY <2>1, <2>2, StoreRemoves
<1>6. ASSUME NEW c \in Present, NEW u \in Uid, Promote(c, u)  PROVE Store!Next
  <2> DEFINE to == "top"
  <2>1. PICK g, d : Holds(parts, u, HeldAs(c, g, d))
                    /\ SetsHeld(parts, parts', u, HeldAs(to, g, d))
    BY <1>6, PromoteIs
  <2>2. call' = [op |-> "move", uid |-> u, to |-> to] /\ c \in Containers /\ to = "top"
    BY <1>0, <1>6 DEF Promote
  <2> HIDE DEF to
  <2> QED
    BY <2>1, <2>2, StoreMoves
<1>7. ASSUME NEW c \in Present, NEW u \in Uid, Demote(c, u)  PROVE Store!Next
  <2> DEFINE from == "top"
  <2>1. PICK g, d : Holds(parts, u, HeldAs(from, g, d))
                    /\ SetsHeld(parts, parts', u, HeldAs(c, g, d))
    BY <1>7, DemoteIs
  <2>2. call' = [op |-> "move", uid |-> u, to |-> c] /\ c \in Containers /\ from = "top"
    BY <1>0, <1>7 DEF Demote
  <2> HIDE DEF from
  <2> QED
    BY <2>1, <2>2, StoreMoves
<1>8. ASSUME NEW c \in Present, NEW n \in ChunkSizes, DedupContainer(c, n)  PROVE Store!Next
  <2>1. SameHeld(parts, parts')
    BY <1>8, DedupContainerIs
  <2>2. call' \in [op : {"container", "dedup", "compact"}, on : Containers]
    BY <1>0, <1>8 DEF DedupContainer
  <2> QED
    BY <2>1, <2>2, StoreKeeps
<1>9. ASSUME NEW c \in Present, Defrag(c)  PROVE Store!Next
  <2>1. SameHeld(parts, parts')
    BY <1>9, DefragIs
  <2>2. call' \in [op : {"container", "dedup", "compact"}, on : Containers]
    BY <1>0, <1>9 DEF Defrag
  <2> QED
    BY <2>1, <2>2, StoreKeeps
<1>10. CASE Reopen
  <2>1. SameHeld(parts, parts')
    BY <1>10, ReopenFileIs DEF Reopen
  <2> QED
    BY <1>10, <2>1, StoreKeeps DEF Reopen
<1> QED
  BY <1>1, <1>2, <1>3, <1>4, <1>5, <1>6, <1>7, <1>8, <1>9, <1>10 DEF Next

\* Whatever bytes partitions share, the writer is a store of them: every operation
\* changes the partition it names and no other; moving one, dedup, compact, and
\* writing the file and reading it again change no content and no algorithm.
THEOREM DcpIsAStore == MCSpec => IsAStore
<1> DEFINE Inv == Filed(parts) /\ IsView(store, parts)
<1>1. MCInit => Inv /\ Store!Init
  <2> SUFFICES ASSUME MCInit  PROVE Inv /\ Store!Init
    OBVIOUS
  <2>1. Filed(parts) /\ store = Seen /\ call = [op |-> "new"] /\ \A v, r : ~Holds(parts, v, r)
    BY InitFiled DEF MCInit, Init
  <2>2. IsView(store, parts)
    BY <2>1, SeenIs
  <2>3. store = [u \in {} |-> "top"]
    BY <2>1, <2>2 DEF IsView
  <2> QED
    BY <2>1, <2>2, <2>3 DEF Store!Init, Store!Top
<1>2. Inv /\ [MCNext]_mcvars => Inv' /\ [Store!Next]_<<store, call>>
  <2>1. CASE UNCHANGED mcvars
    BY <2>1 DEF mcvars, vars
  <2>2. ASSUME Inv, MCNext  PROVE Inv' /\ Store!Next
    <3>1. Filed(parts')
      BY <2>2, NextFiled DEF MCNext
    <3>2. IsView(Seen', parts')
      BY <3>1, ViewNext
    <3>3. IsView(store', parts')
      BY <2>2, <3>2 DEF MCNext
    <3> QED
      BY <2>2, <3>1, <3>3, StoreStep DEF MCNext
  <2> QED
    BY <2>1, <2>2
<1> QED
  BY <1>1, <1>2, PTL DEF MCSpec, IsAStore, Store!Spec

-----------------------------------------------------------------------------
(* What is written is accepted, and a reader finds in it what it was made  *)
(* from.                                                                   *)

LEMMA TablesMatch ==
    ASSUME NEW bytes, NEW table, bytes[1].table = table, NEW blocks, NEW a,
           WalkedChain(bytes, table, blocks, a)
    PROVE  InnerTablesVerify(bytes)
<1> DEFINE W == WalkBlocks(bytes, table)
<1>1. ASSUME NEW off \in ToSet(W)
      PROVE  bytes[off + 1].hash
                = TableHash(bytes[off + 1].algo, bytes[off + 1].next, ItemsAt(bytes, off))
  <2>1. PICK b \in 1..Len(blocks) : off = W[b]
    BY DEF WalkedChain, ToSet
  <2>2. bytes[off + 1] = HeaderOf(table, blocks, b, a) /\ ItemsAt(bytes, off) = blocks[b]
    BY <2>1 DEF WalkedChain
  <2>3. /\ HeaderOf(table, blocks, b, a).hash
            = TableHash(a, HeaderOf(table, blocks, b, a).next, blocks[b])
        /\ HeaderOf(table, blocks, b, a).algo = a
    BY DEF HeaderOf
  <2> QED
    BY <2>2, <2>3
<1> QED
  BY <1>1 DEF InnerTablesVerify

\* The image of an arena is one that the reader accepts.
LEMMA ArenaAccepted ==
    ASSUME NEW x, Healthy(x), NEW bytes, bytes = ToBytes(x)
    PROVE  ArenaVerifies(bytes)
<1> DEFINE y == Parse(bytes)
<1>1. PICK D : Byte \subseteq D /\ x \in ArenaSet(D) /\ Good(x.blob, RowsOf(x.inners))
  BY DEF Healthy, HealthyIn
<1>2. /\ \E E : Byte \subseteq E /\ bytes \in Seq(E)
      /\ \E base, new, table, entries, chain : Imaged(x, bytes, base, new, table, entries, chain)
  BY <1>1, ImageIs
<1>3. PICK E : Byte \subseteq E /\ bytes \in Seq(E)
  BY <1>2
<1>4. PICK base, new, table, entries, chain : Imaged(x, bytes, base, new, table, entries, chain)
  BY <1>2
<1>5. y.blob = bytes /\ WalkedChain(bytes, table, InBlocks(entries), x.algo)
  BY <1>1, <1>3, <1>4, ParsedIs
<1>6. Healthy(y)
  BY HealthyReopen
<1>7. bytes[1] = Heading(table, Len(chain)) /\ Len(bytes) = table + Len(chain)
  BY <1>4 DEF Imaged
<1>8. bytes[1].magic = "PDCP" /\ bytes[1].table = table /\ bytes[1].used = Len(bytes)
  BY <1>7 DEF Heading
<1> HIDE DEF y
<1>9. InnerTablesVerify(bytes)
  BY <1>5, <1>8, TablesMatch
<1>10. ASSUME NEW f \in ToSet(AllFrags(y.inners))
       PROVE  f.offset + f.length <= bytes[1].used
  <2>1. FragTyped(y.blob, f)
    BY <1>6, HealthyTyped
  <2> QED
    BY <1>5, <1>8, <2>1 DEF FragTyped
<1>11. ParseOK(bytes)
  BY <1>8, <1>10 DEF ParseOK, y
<1>12. ASSUME NEW k \in DOMAIN y.inners
       PROVE  LET info == InnerInfo(y, k)  content == InnerContent(y, k) IN
              Len(content) = info.used /\ Hash(info.algo, content) = info.hash
  <2>1. PICK C : y \in ArenaSet(C) /\ Good(y.blob, RowsOf(y.inners))
    BY <1>6 DEF Healthy, HealthyIn
  <2>2. Len(InnerContent(y, k)) = LogicalLen(y.inners[k].frags)
    BY <2>1, InnerIs
  <2> QED
    BY <2>2 DEF InnerInfo
<1> QED
  BY <1>9, <1>11, <1>12 DEF ArenaVerifies, y

\* What a reader lists of one partition of an image, and of all of them.
Located(at, y, k) ==
    [container |-> at, info |-> InnerInfo(y, k), content |-> InnerContent(y, k)]
ListOf(q) ==
    IF q.dcp THEN [k \in DOMAIN Parse(q.data).inners |-> Located(q.uid, Parse(q.data), k)]
    ELSE <<>>
Listings(image) == [k \in DOMAIN image |-> ListOf(image[k])]

LEMMA InnersListed ==
    ASSUME NEW image
    PROVE  InnerPartitions(image) = FlattenSeq(Listings(image))
<1> DEFINE L == [k \in DOMAIN image |->
                    IF image[k].dcp
                    THEN [i \in DOMAIN Parse(image[k].data).inners |->
                            [container |-> image[k].uid, info |-> InnerInfo(Parse(image[k].data), i),
                             content |-> InnerContent(Parse(image[k].data), i)]]
                    ELSE <<>>]
<1>1. InnerPartitions(image) = FlattenSeq(L)
  BY Zenon DEF InnerPartitions
<1>2. L = Listings(image)
  BY DEF Listings, ListOf, Located
<1> QED
  BY <1>1, <1>2, Zenon

\* r lists exactly what the container p holds, and nothing of a plain partition.
ListRight(p, r) ==
    /\ \A i \in DOMAIN r :
        /\ p.dcp /\ r[i].info.uid \in Uid /\ r[i].info.uid \in Names(p)
        /\ HoldsPart(p, r[i].info.uid, HeldAs(r[i].container, r[i].info.algo, r[i].content))
    /\ \A i, j \in DOMAIN r : r[i].info.uid = r[j].info.uid => i = j
    /\ p.dcp => \A v \in Names(p) \cap Uid : \E i \in DOMAIN r : r[i].info.uid = v

LEMMA ListIs ==
    ASSUME NEW p, PartOK(p), NEW q, q.uid = p.uid, q.dcp = p.dcp,
           q.data = IF p.dcp THEN ToBytes(p.data) ELSE p.data, NEW r, r = ListOf(q)
    PROVE  SomeSeq(r) /\ ListRight(p, r)
<1>1. CASE ~p.dcp
  <2>1. r = <<>>
    BY <1>1 DEF ListOf
  <2>2. r \in Seq({}) /\ DOMAIN r = {}
    BY <2>1
  <2> QED
    BY <1>1, <2>2 DEF SomeSeq, ListRight
<1>2. CASE p.dcp
  <2> DEFINE y == Parse(q.data)  n == Len(y.inners)  S == {Located(p.uid, y, k) : k \in 1..n}
  <2>1. Healthy(p.data) /\ q.data = ToBytes(p.data) /\ p.uid \in Containers
    BY <1>2 DEF PartOK
  <2>2. Healthy(y) /\ ArenaSame(p.data, y)
    BY <2>1, HealthyReopen
  <2>3. y.inners \in Seq(InnerSet) /\ OnceUids(y.inners)
    BY <2>2, HealthyRows, HealthyUids
  <2>4. n \in Nat /\ DOMAIN y.inners = 1..n
    BY <2>3
  <2>5. r = [k \in DOMAIN y.inners |-> Located(q.uid, y, k)]
    BY <1>2 DEF ListOf
  <2> HIDE DEF y, n
  <2>6. DOMAIN r = 1..n /\ \A k \in 1..n : r[k] = Located(p.uid, y, k)
    BY <2>4, <2>5
  <2>7. \A k \in 1..n : r[k] \in S
    BY <2>6
  <2>8. r = [k \in 1..n |-> r[k]]
    BY <2>4, <2>5
  <2> HIDE DEF S
  <2>9. r \in Seq(S)
    BY ONLY <2>4, <2>7, <2>8, FunSeq
  <2>10. \A k \in 1..n : /\ r[k].container = p.uid /\ r[k].info.uid = y.inners[k].uid
                         /\ r[k].info.algo = y.inners[k].algo /\ r[k].content = InnerContent(y, k)
    BY <2>6 DEF Located, InnerInfo
  <2>11. ASSUME NEW k \in 1..n
         PROVE  InnerHolds(p.data, r[k].info.uid, r[k].info.algo, r[k].content)
    <3>1. InnerHolds(y, r[k].info.uid, r[k].info.algo, r[k].content)
      BY <2>4, <2>10 DEF InnerHolds
    <3> QED
      BY <2>2, <3>1 DEF ArenaSame
  <2>12. Names(p) = {p.uid} \cup Uids(p.data)
    BY <1>2, BoxIs
  <2>13. ASSUME NEW k \in DOMAIN r
         PROVE  /\ r[k].info.uid \in Uid /\ r[k].info.uid \in Names(p)
                /\ HoldsPart(p, r[k].info.uid, HeldAs(r[k].container, r[k].info.algo, r[k].content))
    <3>1. InnerHolds(p.data, r[k].info.uid, r[k].info.algo, r[k].content) /\ r[k].container = p.uid
      BY <2>6, <2>10, <2>11
    <3>2. r[k].info.uid \in Uids(p.data) /\ r[k].info.uid \in Uid
      BY <2>1, <3>1, HealthyUids
    <3>3. HeldIn(p.data, p.uid, r[k].info.uid, HeldAs(r[k].container, r[k].info.algo, r[k].content))
      BY <3>1 DEF HeldIn
    <3>4. HoldsPart(p, r[k].info.uid, HeldAs(r[k].container, r[k].info.algo, r[k].content))
      BY <1>2, <3>3, BoxIs
    <3> QED
      BY <2>12, <3>2, <3>4
  <2>14. ASSUME NEW i \in DOMAIN r, NEW j \in DOMAIN r, r[i].info.uid = r[j].info.uid
         PROVE  i = j
    BY <2>3, <2>4, <2>6, <2>10, <2>14 DEF OnceUids
  <2>15. ASSUME NEW v \in Names(p) \cap Uid
         PROVE  \E i \in DOMAIN r : r[i].info.uid = v
    <3>1. v \in Uids(p.data)
      BY <2>1, <2>12, WriterAssumption
    <3>2. PICK g, c : InnerHolds(p.data, v, g, c)
      BY <3>1, UidsHeld
    <3>3. InnerHolds(y, v, g, c)
      BY <2>2, <3>2 DEF ArenaSame
    <3> QED
      BY <2>4, <2>6, <2>10, <3>3 DEF InnerHolds
  <2> QED
    BY <1>2, <2>9, <2>13, <2>14, <2>15 DEF SomeSeq, ListRight
<1> QED
  BY <1>1, <1>2

\* image is what is written of the partitions ps.
ImageOf(image, ps) ==
    /\ SomeSeq(image) /\ DOMAIN image = DOMAIN ps
    /\ \A k \in DOMAIN ps :
        /\ image[k].uid = ps[k].uid /\ image[k].algo = ps[k].algo /\ image[k].dcp = ps[k].dcp
        /\ image[k].data = IF ps[k].dcp THEN ToBytes(ps[k].data) ELSE ps[k].data
        /\ image[k].hash = Hash(image[k].algo, image[k].data)

LEMMA ToImageIs ==
    ASSUME Filed(parts)
    PROVE  ImageOf(ToImage, parts)
<1> DEFINE m == ToImage  n == Len(parts)  S == {m[k] : k \in DOMAIN parts}
<1>1. /\ DOMAIN m = DOMAIN parts /\ m = [k \in DOMAIN parts |-> m[k]]
      /\ \A k \in DOMAIN parts :
            /\ m[k].uid = parts[k].uid /\ m[k].algo = parts[k].algo /\ m[k].dcp = parts[k].dcp
            /\ m[k].data = IF parts[k].dcp THEN ToBytes(parts[k].data) ELSE parts[k].data
            /\ m[k].hash = Hash(m[k].algo, m[k].data)
  BY DEF ToImage
<1>2. n \in Nat /\ DOMAIN parts = 1..n
  BY DEF Filed, Typed, SomeSeq
<1> HIDE DEF m, n
<1>3. m = [k \in 1..n |-> m[k]] /\ \A k \in 1..n : m[k] \in S
  BY <1>1, <1>2
<1> HIDE DEF S
<1>4. m \in Seq(S)
  BY ONLY <1>2, <1>3, FunSeq
<1>5. ImageOf(m, parts)
  BY <1>1, <1>4 DEF ImageOf, SomeSeq
<1> QED
  BY <1>5 DEF m

\* L is a listing for each of the partitions ps.
ListingOf(ps, L) ==
    /\ DOMAIN L = DOMAIN ps /\ \E C : L \in Seq(Seq(C))
    /\ \A k \in DOMAIN ps : ListRight(ps[k], L[k])

LEMMA ListingsAre ==
    ASSUME NEW ps, Typed(ps), NEW image, ImageOf(image, ps), NEW L, L = Listings(image)
    PROVE  ListingOf(ps, L)
<1> DEFINE n == Len(ps)  C == UNION {{L[k][i] : i \in DOMAIN L[k]} : k \in 1..n}
<1>1. n \in Nat /\ DOMAIN ps = 1..n
  BY DEF Typed, SomeSeq
<1>2. DOMAIN L = DOMAIN ps /\ L = [k \in DOMAIN ps |-> L[k]] /\ \A k \in DOMAIN ps : L[k] = ListOf(image[k])
  BY DEF Listings, ImageOf
<1>3. ASSUME NEW k \in DOMAIN ps
      PROVE  SomeSeq(L[k]) /\ ListRight(ps[k], L[k])
  BY <1>2, ListIs DEF ImageOf, Typed
<1>4. ASSUME NEW k \in 1..n
      PROVE  L[k] \in Seq(C)
  <2>1. PICK D : L[k] \in Seq(D)
    BY <1>1, <1>3 DEF SomeSeq
  <2>2. \A i \in 1..Len(L[k]) : L[k][i] \in C
    <3>1. DOMAIN L[k] = 1..Len(L[k])
      BY <2>1
    <3> QED
      BY <3>1
  <2> HIDE DEF C
  <2> QED
    BY <2>1, <2>2, SeqNarrow
<1> HIDE DEF C, n
<1>5. L = [k \in 1..n |-> L[k]]
  BY <1>1, <1>2
<1> DEFINE S == Seq(C)
<1>6. \A k \in 1..n : L[k] \in S
  BY <1>4
<1> HIDE DEF S
<1>7. L \in Seq(S)
  BY ONLY <1>1, <1>5, <1>6, FunSeq
<1> QED
  BY <1>2, <1>3, <1>7 DEF ListingOf, S

LEMMA ListedWhere ==
    ASSUME NEW ps, NEW L, ListingOf(ps, L), NEW F, F = FlattenSeq(L), NEW a \in DOMAIN F
    PROVE  \E k \in DOMAIN ps : \E i \in DOMAIN L[k] : a = Len(Upto(L, k - 1)) + i /\ F[a] = L[k][i]
<1>1. PICK C : L \in Seq(Seq(C))
  BY DEF ListingOf
<1>2. DOMAIN L = DOMAIN ps
  BY DEF ListingOf
<1> QED
  BY <1>1, <1>2, FlatPlaces

LEMMA ListedThere ==
    ASSUME NEW ps, NEW L, ListingOf(ps, L), NEW F, F = FlattenSeq(L),
           NEW k \in DOMAIN ps, NEW i \in DOMAIN L[k]
    PROVE  \E a \in DOMAIN F : F[a] = L[k][i]
<1>1. PICK C : L \in Seq(Seq(C))
  BY DEF ListingOf
<1>2. DOMAIN L = DOMAIN ps
  BY DEF ListingOf
<1>3. Len(Upto(L, k - 1)) + i \in DOMAIN F /\ F[Len(Upto(L, k - 1)) + i] = L[k][i]
  BY <1>1, <1>2, FlatPlaces
<1> QED
  BY <1>3

\* No uid is listed twice, and none that a partition of the file has itself.
LEMMA ListedOnce ==
    ASSUME NEW ps, Filed(ps), NEW L, ListingOf(ps, L), NEW F, F = FlattenSeq(L)
    PROVE  /\ \A a, b \in DOMAIN F : F[a].info.uid = F[b].info.uid => a = b
           /\ \A a \in DOMAIN F : \A k \in DOMAIN ps : F[a].info.uid # ps[k].uid
<1>1. ASSUME NEW a \in DOMAIN F, NEW b \in DOMAIN F, F[a].info.uid = F[b].info.uid
      PROVE  a = b
  <2>1. PICK k \in DOMAIN ps : \E i \in DOMAIN L[k] : a = Len(Upto(L, k - 1)) + i /\ F[a] = L[k][i]
    BY ListedWhere
  <2>2. PICK i \in DOMAIN L[k] : a = Len(Upto(L, k - 1)) + i /\ F[a] = L[k][i]
    BY <2>1
  <2>3. PICK l \in DOMAIN ps : \E j \in DOMAIN L[l] : b = Len(Upto(L, l - 1)) + j /\ F[b] = L[l][j]
    BY ListedWhere
  <2>4. PICK j \in DOMAIN L[l] : b = Len(Upto(L, l - 1)) + j /\ F[b] = L[l][j]
    BY <2>3
  <2>5. L[k][i].info.uid \in Names(ps[k]) /\ L[l][j].info.uid \in Names(ps[l])
    BY <2>2, <2>4 DEF ListingOf, ListRight
  <2>6. k = l
    BY <1>1, <2>2, <2>4, <2>5, OnlyThere
  <2>7. i = j
    BY <1>1, <2>2, <2>4, <2>6 DEF ListingOf, ListRight
  <2> QED
    BY <2>2, <2>4, <2>6, <2>7
<1>2. ASSUME NEW a \in DOMAIN F, NEW k \in DOMAIN ps, F[a].info.uid = ps[k].uid
      PROVE  FALSE
  <2>1. PICK l \in DOMAIN ps : \E j \in DOMAIN L[l] : a = Len(Upto(L, l - 1)) + j /\ F[a] = L[l][j]
    BY ListedWhere
  <2>2. PICK j \in DOMAIN L[l] : F[a] = L[l][j]
    BY <2>1
  <2>3. ps[l].dcp /\ L[l][j].info.uid \in Names(ps[l]) /\ L[l][j].info.uid \in Uid
    BY <2>2 DEF ListingOf, ListRight
  <2>4. ps[k].uid \in Names(ps[k])
    BY DEF Names
  <2>5. k = l
    BY <1>2, <2>2, <2>3, <2>4, OnlyThere
  <2>6. ps[l].uid \in Containers
    BY <2>3 DEF Filed, Typed, PartOK
  <2> QED
    BY <1>2, <2>2, <2>3, <2>5, <2>6, WriterAssumption
<1> QED
  BY <1>1, <1>2

LEMMA TopOnce ==
    ASSUME NEW ps, Filed(ps), NEW k \in DOMAIN ps, NEW l \in DOMAIN ps, ps[k].uid = ps[l].uid
    PROVE  k = l
<1>1. ps[k].uid \in Names(ps[k]) /\ ps[l].uid \in Names(ps[l])
  BY DEF Names
<1> QED
  BY <1>1, OnlyThere

\* The uids of the file and of its containers, one after the other.
LEMMA UidsInjective ==
    ASSUME NEW ps, Filed(ps), NEW image, ImageOf(image, ps), NEW L, ListingOf(ps, L),
           NEW F, F = FlattenSeq(L)
    PROVE  IsInjective([k \in DOMAIN image |-> image[k].uid] \o [k \in DOMAIN F |-> F[k].info.uid])
<1> DEFINE x == [k \in DOMAIN image |-> image[k].uid]  y == [k \in DOMAIN F |-> F[k].info.uid]
           m == Len(ps)  n == Len(F)  z == x \o y
           S == {ps[k].uid : k \in DOMAIN ps} \cup {F[k].info.uid : k \in DOMAIN F}
<1>1. m \in Nat /\ DOMAIN ps = 1..m
  BY DEF Filed, Typed, SomeSeq
<1>2. n \in Nat /\ DOMAIN F = 1..n
  <2>1. PICK C : L \in Seq(Seq(C))
    BY DEF ListingOf
  <2>2. F \in Seq(C)
    BY <2>1, FlattenType
  <2> QED
    BY <2>2
<1>3. x = [k \in 1..m |-> x[k]] /\ \A k \in 1..m : x[k] = ps[k].uid /\ x[k] \in S
  BY <1>1 DEF ImageOf
<1>4. y = [k \in 1..n |-> y[k]] /\ \A k \in 1..n : y[k] = F[k].info.uid /\ y[k] \in S
  BY <1>2
<1> HIDE DEF x, y, m, n, S
<1>5. x \in Seq(S) /\ Len(x) = m
  BY ONLY <1>1, <1>3, FunSeq
<1>6. y \in Seq(S) /\ Len(y) = n
  BY ONLY <1>2, <1>4, FunSeq
<1>7. z \in Seq(S) /\ Concatenated(z, x, y)
  BY <1>5, <1>6, ConcatIs
<1>8. z \in Seq(S) /\ Len(z) = m + n /\ (\A i \in 1..m : z[i] = ps[i].uid)
      /\ \A i \in 1..n : z[m + i] = F[i].info.uid
  BY <1>3, <1>4, <1>5, <1>6, <1>7 DEF Concatenated
<1> HIDE DEF z
<1>9. ASSUME NEW a \in DOMAIN z
      PROVE  (a \in 1..m) \/ (a - m \in 1..n /\ a = m + (a - m))
  BY <1>1, <1>2, <1>8
<1>10. /\ \A a, b \in DOMAIN F : F[a].info.uid = F[b].info.uid => a = b
       /\ \A a \in DOMAIN F : \A k \in DOMAIN ps : F[a].info.uid # ps[k].uid
  BY ListedOnce
<1>11. ASSUME NEW a \in DOMAIN z, NEW b \in DOMAIN z, z[a] = z[b]
       PROVE  a = b
  <2> DEFINE i == a - m  j == b - m
  <2>1. (a \in 1..m) \/ (i \in 1..n /\ a = m + i)
    BY <1>9
  <2>2. (b \in 1..m) \/ (j \in 1..n /\ b = m + j)
    BY <1>9
  <2> HIDE DEF i, j
  <2>3. CASE a \in 1..m /\ b \in 1..m
    BY <1>1, <1>8, <1>11, <2>3, TopOnce
  <2>4. CASE a \in 1..m /\ j \in 1..n /\ b = m + j
    <3>1. a \in DOMAIN ps /\ z[a] = ps[a].uid
      BY <1>1, <1>8, <2>4, Zenon
    <3>2. j \in DOMAIN F /\ z[b] = F[j].info.uid
      BY <1>2, <1>8, <2>4, Zenon
    <3> QED
      BY <1>10, <1>11, <3>1, <3>2, Zenon
  <2>5. CASE i \in 1..n /\ a = m + i /\ b \in 1..m
    <3>1. b \in DOMAIN ps /\ z[b] = ps[b].uid
      BY <1>1, <1>8, <2>5, Zenon
    <3>2. i \in DOMAIN F /\ z[a] = F[i].info.uid
      BY <1>2, <1>8, <2>5, Zenon
    <3> QED
      BY <1>10, <1>11, <3>1, <3>2, Zenon
  <2>6. CASE i \in 1..n /\ a = m + i /\ j \in 1..n /\ b = m + j
    <3>1. i \in DOMAIN F /\ z[a] = F[i].info.uid
      BY <1>2, <1>8, <2>6, Zenon
    <3>2. j \in DOMAIN F /\ z[b] = F[j].info.uid
      BY <1>2, <1>8, <2>6, Zenon
    <3>3. i = j
      BY <1>10, <1>11, <3>1, <3>2, Zenon
    <3> QED
      BY <2>6, <3>3, Zenon
  <2> QED
    BY <2>1, <2>2, <2>3, <2>4, <2>5, <2>6
<1>12. IsInjective(z)
  BY <1>11 DEF IsInjective
<1> QED
  BY <1>12 DEF z, x, y

LEMMA ImageAccepted ==
    ASSUME NEW ps, Filed(ps), NEW image, ImageOf(image, ps)
    PROVE  ImageVerifies(image)
<1> DEFINE L == Listings(image)  F == FlattenSeq(L)
<1>1. ListingOf(ps, L)
  BY ListingsAre DEF Filed
<1>2. InnerPartitions(image) = F
  BY InnersListed
<1> HIDE DEF L
<1>3. IsInjective([k \in DOMAIN image |-> image[k].uid] \o [k \in DOMAIN F |-> F[k].info.uid])
  BY <1>1, UidsInjective
<1> HIDE DEF F
<1>4. ASSUME NEW p \in Range(image)
      PROVE  Hash(p.algo, p.data) = p.hash /\ (p.dcp => ArenaVerifies(p.data))
  <2>1. PICK k \in DOMAIN ps : p = image[k]
    BY DEF Range, ImageOf
  <2>2. p.hash = Hash(p.algo, p.data)
    BY <2>1 DEF ImageOf
  <2>3. ASSUME p.dcp
        PROVE  ArenaVerifies(p.data)
    <3>1. ps[k].dcp /\ p.data = ToBytes(ps[k].data)
      BY <2>1, <2>3 DEF ImageOf
    <3>2. Healthy(ps[k].data)
      BY <3>1 DEF Filed, Typed, PartOK
    <3> QED
      BY <3>1, <3>2, ArenaAccepted
  <2> QED
    BY <2>2, <2>3
<1> QED
  BY <1>2, <1>3, <1>4 DEF ImageVerifies

\* Every uid is found where it is held, with what is held; any other is not found.
LEMMA FoundThere ==
    ASSUME NEW ps, Filed(ps), NEW image, ImageOf(image, ps), NEW u \in Uid
    PROVE  /\ \A r : Holds(ps, u, r) => Resolved(image, u) = {r}
           /\ (\A r : ~Holds(ps, u, r)) => Resolved(image, u) = {}
<1> DEFINE L == Listings(image)  F == FlattenSeq(L)
           top == Under(u, image)  within == Within(u, F)
           p == image[Min(top)]  l == F[Min(within)]
<1>1. ListingOf(ps, L)
  BY ListingsAre DEF Filed
<1>2. InnerPartitions(image) = F
  BY InnersListed
<1>3. Resolved(image, u) =
        IF top # {} THEN {HeldAs("top", p.algo, p.data)}
        ELSE IF within = {} THEN {} ELSE {HeldAs(l.container, l.info.algo, l.content)}
  BY <1>2 DEF Resolved, HeldAs
<1> HIDE DEF L
<1>4. top = {k \in DOMAIN ps : ps[k].uid = u} /\ within = {a \in DOMAIN F : F[a].info.uid = u}
  BY DEF Under, Within, ImageOf
<1>5. top \subseteq Nat /\ within \subseteq Nat
  <2>1. PICK C : L \in Seq(Seq(C))
    BY <1>1 DEF ListingOf
  <2>2. F \in Seq(C)
    BY <2>1, FlattenType
  <2>3. DOMAIN F \subseteq Nat
    BY <2>2
  <2>4. DOMAIN ps \subseteq Nat
    BY DEF Filed, Typed, SomeSeq
  <2> HIDE DEF F, top, within
  <2> QED
    BY <1>4, <2>3, <2>4
<1> HIDE DEF F, top, within
<1>6. ASSUME top # {}
      PROVE  Holds(ps, u, HeldAs("top", p.algo, p.data))
  <2>1. Min(top) \in top
    BY <1>5, <1>6, MinOfNat
  <2> DEFINE k == Min(top)
  <2>2. k \in DOMAIN ps /\ ps[k].uid = u
    BY <1>4, <2>1
  <2> HIDE DEF k
  <2>3. ~ps[k].dcp
    BY <2>2, WriterAssumption DEF Filed, Typed, PartOK
  <2>4. image[k].algo = ps[k].algo /\ image[k].data = ps[k].data
    BY <2>2, <2>3 DEF ImageOf
  <2>5. Holds(ps, u, HeldAs("top", image[k].algo, image[k].data))
    BY <2>2, <2>3, <2>4 DEF Holds, HoldsPart
  <2> QED
    BY <2>5 DEF k
<1>7. ASSUME within # {}
      PROVE  Holds(ps, u, HeldAs(l.container, l.info.algo, l.content))
  <2>1. Min(within) \in within
    BY <1>5, <1>7, MinOfNat
  <2> DEFINE a == Min(within)
  <2>2. a \in DOMAIN F /\ F[a].info.uid = u
    BY <1>4, <2>1
  <2> HIDE DEF a
  <2>3. PICK k \in DOMAIN ps : \E i \in DOMAIN L[k] : a = Len(Upto(L, k - 1)) + i /\ F[a] = L[k][i]
    BY <1>1, <2>2, ListedWhere DEF F
  <2>4. PICK i \in DOMAIN L[k] : F[a] = L[k][i]
    BY <2>3
  <2>5. ListRight(ps[k], L[k])
    BY <1>1 DEF ListingOf
  <2>6. HoldsPart(ps[k], u, HeldAs(F[a].container, F[a].info.algo, F[a].content))
    BY <2>2, <2>4, <2>5 DEF ListRight
  <2>7. Holds(ps, u, HeldAs(F[a].container, F[a].info.algo, F[a].content))
    BY <2>6 DEF Holds
  <2> QED
    BY <2>7 DEF a
<1>8. ASSUME NEW r, Holds(ps, u, r)
      PROVE  top # {} \/ within # {}
  <2>1. PICK k \in DOMAIN ps : HoldsPart(ps[k], u, r)
    BY <1>8 DEF Holds
  <2>2. PartOK(ps[k])
    BY DEF Filed, Typed
  <2>3. u \in Names(ps[k])
    BY <2>1, <2>2, PartNames
  <2>4. CASE ~ps[k].dcp
    <3>1. ps[k].uid = u
      BY <2>1, <2>4 DEF HoldsPart
    <3> QED
      BY <1>4, <3>1
  <2>5. CASE ps[k].dcp
    <3>1. PICK i \in DOMAIN L[k] : L[k][i].info.uid = u
      BY <1>1, <2>3, <2>5 DEF ListingOf, ListRight
    <3>2. PICK a \in DOMAIN F : F[a] = L[k][i]
      BY <1>1, ListedThere DEF F
    <3> QED
      BY <1>4, <3>1, <3>2
  <2> QED
    BY <2>4, <2>5
<1> HIDE DEF p, l
<1>9. ASSUME NEW r, Holds(ps, u, r)
      PROVE  Resolved(image, u) = {r}
  <2>1. CASE top # {}
    <3>1. r = HeldAs("top", p.algo, p.data)
      BY <1>6, <1>9, <2>1, HoldsOnce
    <3> QED
      BY <1>3, <2>1, <3>1
  <2>2. CASE top = {}
    <3>1. within # {}
      BY <1>8, <1>9, <2>2
    <3>2. r = HeldAs(l.container, l.info.algo, l.content)
      BY <1>7, <1>9, <3>1, HoldsOnce
    <3> QED
      BY <1>3, <2>2, <3>1, <3>2
  <2> QED
    BY <2>1, <2>2
<1>10. ASSUME \A r : ~Holds(ps, u, r)
       PROVE  Resolved(image, u) = {}
  BY <1>3, <1>6, <1>7, <1>10
<1> QED
  BY <1>9, <1>10

\* The user's view of the file is always that of its partitions.
LEMMA ViewAlways == MCSpec => [](Filed(parts) /\ IsView(store, parts))
<1> DEFINE Inv == Filed(parts) /\ IsView(store, parts)
<1>1. MCInit => Inv
  BY InitFiled, SeenIs DEF MCInit
<1>2. Inv /\ [MCNext]_mcvars => Inv'
  <2>1. CASE UNCHANGED mcvars
    BY <2>1 DEF mcvars, vars
  <2>2. ASSUME Inv, MCNext  PROVE Inv'
    <3>1. Filed(parts')
      BY <2>2, NextFiled DEF MCNext
    <3>2. IsView(Seen', parts')
      BY <3>1, ViewNext
    <3> QED
      BY <2>2, <3>1, <3>2 DEF MCNext
  <2> QED
    BY <2>1, <2>2
<1> QED
  BY <1>1, <1>2, PTL DEF MCSpec

\* What is written at any time is accepted by the reader, which finds every partition
\* where it is and with its content, and no other.
THEOREM WrittenVerifies == MCSpec => []AlwaysVerifies
<1>1. Filed(parts) /\ IsView(store, parts) => AlwaysVerifies
  <2> SUFFICES ASSUME Filed(parts), IsView(store, parts)
               PROVE  AlwaysVerifies
    OBVIOUS
  <2> DEFINE image == ToImage
  <2>1. ImageOf(image, parts)
    BY ToImageIs
  <2> HIDE DEF image
  <2>2. ImageVerifies(image)
    BY <2>1, ImageAccepted
  <2>3. ASSUME NEW u \in Uid
        PROVE  Resolved(image, u) = IF Fresh(u) THEN {} ELSE {store[u]}
    <3>1. CASE Fresh(u)
      <4>1. \A k \in DOMAIN parts : u \notin Names(parts[k])
        BY <3>1, FreshIs
      <4>2. \A r : ~Holds(parts, u, r)
        BY <4>1, NotHeld
      <4> QED
        BY <2>1, <3>1, <4>2, FoundThere
    <3>2. CASE ~Fresh(u)
      <4>1. Holds(parts, u, PartOf(u))
        BY <3>2, PartOfHeld
      <4>2. store[u] = PartOf(u)
        BY <4>1 DEF IsView
      <4> QED
        BY <2>1, <3>2, <4>1, <4>2, FoundThere
    <3> QED
      BY <3>1, <3>2
  <2> QED
    BY <2>2, <2>3 DEF AlwaysVerifies, image
<1> QED
  BY <1>1, ViewAlways, PTL

-----------------------------------------------------------------------------
(* The inner table is protected: what is changed in a block of it leaves   *)
(* that block in the walk, and its hash as it was.                         *)

\* g is bytes with r for the i-th cell.
Damaged(g, bytes, i, r) ==
    /\ Len(g) = Len(bytes) /\ DOMAIN g = DOMAIN bytes /\ g[i] = r
    /\ \A j \in DOMAIN bytes : j # i => g[j] = bytes[j]
    /\ \E D : g \in Seq(D)

LEMMA DamagedIs ==
    ASSUME NEW E, NEW bytes \in Seq(E), NEW i \in DOMAIN bytes, NEW r, NEW g,
           g = [bytes EXCEPT ![i] = r]
    PROVE  Damaged(g, bytes, i, r)
<1> DEFINE D == E \cup {r}
<1>1. bytes \in Seq(D) /\ r \in D
  BY SeqNarrow
<1> HIDE DEF D
<1>2. g \in Seq(D) /\ Len(g) = Len(bytes) /\ DOMAIN g = DOMAIN bytes
  BY <1>1
<1>3. g[i] = r /\ \A j \in DOMAIN bytes : j # i => g[j] = bytes[j]
  OBVIOUS
<1> QED
  BY <1>2, <1>3 DEF Damaged

LEMMA HeaderWith ==
    ASSUME NEW U, NEW q \in [next : U, count : U, algo : U, hash : U], NEW z
    PROVE  /\ [q EXCEPT !.next = z]
                = [next |-> z, count |-> q.count, algo |-> q.algo, hash |-> q.hash]
           /\ [q EXCEPT !.count = z]
                = [next |-> q.next, count |-> z, algo |-> q.algo, hash |-> q.hash]
OBVIOUS

LEMMA EntryWith ==
    ASSUME NEW U, NEW q \in [uid : U, start : U, used : U, algo : U, hash : U], NEW z
    PROVE  [q EXCEPT !.start = z].start = z
OBVIOUS

\* The bytes hold an inner table of these blocks, with hashes that verify.
HasStart(e) ==
    /\ \E U : e \in [uid : U, start : U, used : U, algo : U, hash : U]
    /\ e.start \in Nat
InnerTable(bytes, table, blocks) ==
    /\ \E E : bytes \in Seq(E)
    /\ table \in Nat \ {0} /\ bytes[1].table = table
    /\ Len(blocks) \in Nat /\ Len(blocks) <= Len(bytes)
    /\ \E a : a # "none" /\ WalkedChain(bytes, table, blocks, a)
    /\ \A b \in 1..Len(blocks) :
        /\ \E C : blocks[b] \in Seq(C)
        /\ \A i \in 1..Len(blocks[b]) : HasStart(blocks[b][i])

\* The b-th block of the inner table, at off, as it was written.
HashOf(next, blk) == <<<<next, blk>>>>
TableHeader(next, n, a, blk) ==
    [next |-> next, count |-> n, algo |-> a, hash |-> HashOf(next, blk)]
TableBlock(bytes, blocks, b, off, next, n, a) ==
    /\ off \in Nat \ {0} /\ off + 1 \in DOMAIN bytes /\ n = Len(blocks[b])
    /\ bytes[off + 1] = TableHeader(next, n, a, blocks[b]) /\ a # "none"
    /\ LiesAt(bytes, off + 1, blocks[b])

LEMMA TableBlockIs ==
    ASSUME NEW bytes, NEW table, NEW blocks, InnerTable(bytes, table, blocks),
           NEW b \in 1..Len(blocks), NEW off, off = WalkBlocks(bytes, table)[b]
    PROVE  \E next, a : /\ TableBlock(bytes, blocks, b, off, next, Len(blocks[b]), a)
                        /\ b < Len(blocks) => next = table + b * (MaxPerBlock + 1)
<1> DEFINE next == IF b < Len(blocks) THEN table + b * (MaxPerBlock + 1) ELSE 0
<1>1. PICK a : a # "none" /\ WalkedChain(bytes, table, blocks, a)
  BY DEF InnerTable
<1>2. HeaderOf(table, blocks, b, a) = TableHeader(next, Len(blocks[b]), a, blocks[b])
  BY <1>1 DEF HeaderOf, TableHash, Hash, HashOf, TableHeader
<1>3. TableBlock(bytes, blocks, b, off, next, Len(blocks[b]), a)
  BY <1>1, <1>2 DEF WalkedChain, TableBlock
<1> QED
  BY <1>3

LEMMA RowsBelow ==
    ASSUME NEW x \in Nat, NEW y \in Nat, x + 1 <= y, NEW M \in Nat
    PROVE  x * M + M <= y * M
<1> DEFINE d == y - (x + 1)
<1>1. d \in Nat /\ y = x + 1 + d
  OBVIOUS
<1> HIDE DEF d
<1>2. y * M = x * M + M + d * M
  BY <1>1
<1>3. d * M >= 0
  BY <1>1
<1> QED
  BY <1>1, <1>2, <1>3

LEMMA TableOffsets ==
    ASSUME NEW bytes, NEW table, NEW blocks, InnerTable(bytes, table, blocks),
           NEW w, w = WalkBlocks(bytes, table)
    PROVE  \A c \in 1..Len(blocks) : /\ w[c] = table + (c - 1) * (MaxPerBlock + 1)
                                     /\ w[c] \in Nat \ {0} /\ w[c] + 1 \in DOMAIN bytes
BY DEF InnerTable, WalkedChain

\* A walk of damaged bytes comes to the block as long as the links before it are whole.
Untouched(g, bytes, w, b) == \A c \in 1..(b - 1) : g[w[c] + 1].next = bytes[w[c] + 1].next

LEMMA StillReached ==
    ASSUME NEW bytes, NEW table, NEW blocks, InnerTable(bytes, table, blocks),
           NEW b \in 1..Len(blocks), NEW w, w = WalkBlocks(bytes, table),
           NEW i, NEW r, NEW g, Damaged(g, bytes, i, r), Untouched(g, bytes, w, b)
    PROVE  w[b] \in ToSet(WalkBlocks(g, table))
<1> DEFINE M == MaxPerBlock + 1  t == WalkBlocks(g, table)
<1>1. PICK D : g \in Seq(D)
  BY DEF Damaged
<1>2. M \in Nat \ {0} /\ b \in Nat \ {0} /\ b <= Len(g) /\ Len(blocks) \in Nat
  BY MaxPerBlockAssumption DEF InnerTable, Damaged
<1>3. \A c \in 1..b : /\ w[c] = table + (c - 1) * M /\ w[c] \in Nat \ {0}
                      /\ w[c] + 1 \in DOMAIN g
  <2>1. DOMAIN g = DOMAIN bytes /\ \A c \in 1..b : c \in 1..Len(blocks)
    BY <1>2 DEF Damaged
  <2> QED
    BY <2>1, TableOffsets
<1>4. ASSUME NEW c \in 1..(b - 1)
      PROVE  g[w[c] + 1].next = w[c + 1]
  <2>1. c \in 1..Len(blocks) /\ c < Len(blocks) /\ c + 1 \in 1..b /\ (c + 1) - 1 = c
    BY <1>2
  <2>2. PICK next, a : /\ TableBlock(bytes, blocks, c, w[c], next, Len(blocks[c]), a)
                       /\ c < Len(blocks) => next = table + c * (MaxPerBlock + 1)
    BY <2>1, TableBlockIs
  <2>3. bytes[w[c] + 1].next = next
    BY <2>2 DEF TableBlock, TableHeader
  <2>4. w[c + 1] = table + c * M
    BY <1>3, <2>1
  <2> QED
    BY <2>1, <2>2, <2>3, <2>4 DEF Untouched
<1> HIDE DEF M
<1>5. w[1] = table
  <2>1. 1 \in 1..b /\ 1 - 1 = 0 /\ 0 * M = 0 /\ table \in Nat
    BY <1>2 DEF InnerTable
  <2> QED
    BY <1>3, <2>1
<1>6. Linked(g, w, b)
  BY <1>3, <1>4 DEF Linked
<1>7. /\ t \in Seq(LinkSet(g, table)) /\ b <= Len(t) /\ Len(t) \in Nat
      /\ \A c \in 1..b : t[c] = w[c]
  BY <1>1, <1>2, <1>5, <1>6, WalkReach
<1> HIDE DEF t
<1>8. b \in DOMAIN t /\ t[b] = w[b]
  BY <1>2, <1>7
<1> QED
  BY <1>8 DEF ToSet, t

\* The damage to block b is noticed there.
HeadOrFirst(i, off) == i \in {off + 1, off + 2}
HashWrong(g, off) ==
    LET h == g[off + 1] IN
    h.algo # "none" /\ h.hash # TableHash(h.algo, h.next, ItemsAt(g, off))

LEMMA HashDiffers ==
    ASSUME NEW g, NEW off, NEW next, NEW blk, g[off + 1].algo # "none",
           g[off + 1].hash = HashOf(next, blk),
           g[off + 1].next # next \/ ItemsAt(g, off) # blk
    PROVE  HashWrong(g, off)
<1> DEFINE a == g[off + 1].algo  m == g[off + 1].next  s == ItemsAt(g, off)
<1>1. TableHash(a, m, s) = <<<<m, s>>>>
  BY DEF TableHash, Hash
<1> HIDE DEF m, s
<1>2. <<<<m, s>>>> # <<<<next, blk>>>>
  BY DEF m, s
<1> QED
  BY <1>1, <1>2 DEF HashWrong, HashOf, m, s

LEMMA NoticedAt ==
    ASSUME NEW bytes, NEW table, NEW blocks, InnerTable(bytes, table, blocks),
           NEW b \in 1..Len(blocks), NEW off, off = WalkBlocks(bytes, table)[b],
           NEW i \in DOMAIN bytes, HeadOrFirst(i, off), NEW r,
           NEW g, Damaged(g, bytes, i, r), HashWrong(g, off)
    PROVE  ~InnerTablesVerify(g)
<1> DEFINE w == WalkBlocks(bytes, table)  M == MaxPerBlock + 1
<1>1. table \in Nat \ {0} /\ bytes[1].table = table /\ Len(blocks) \in Nat /\ M \in Nat \ {0}
  BY MaxPerBlockAssumption DEF InnerTable
<1>2. \A c \in 1..Len(blocks) : w[c] = table + (c - 1) * M /\ w[c] \in Nat \ {0} /\ w[c] + 1 \in DOMAIN bytes
  BY TableOffsets
<1>3. 1 \in DOMAIN bytes /\ 1 # i
  <2>1. DOMAIN bytes = 1..Len(bytes) /\ Len(bytes) \in Nat
    BY DEF InnerTable
  <2>2. off \in Nat \ {0} /\ off + 1 \in 1..Len(bytes)
    BY <1>2, <2>1
  <2>3. i = off + 1 \/ i = off + 2
    BY DEF HeadOrFirst
  <2> DEFINE n == Len(bytes)
  <2> HIDE DEF n
  <2>4. 1 \in 1..n /\ 1 # i
    BY ONLY <2>1, <2>2, <2>3 DEF n
  <2> QED
    BY <2>1, <2>4 DEF n
<1>4. g[1].table = table
  BY <1>1, <1>3 DEF Damaged
<1> HIDE DEF w
<1>5. ASSUME NEW c \in 1..(b - 1)
      PROVE  g[w[c] + 1].next = bytes[w[c] + 1].next
  <2>1. c \in 1..Len(blocks) /\ c - 1 \in Nat /\ b - 1 \in Nat /\ (c - 1) + 1 <= b - 1
    BY <1>1
  <2>2. w[c] = table + (c - 1) * M /\ w[b] = table + (b - 1) * M /\ w[c] + 1 \in DOMAIN bytes
    BY <1>2, <2>1
  <2>3. (c - 1) * M + M <= (b - 1) * M
    <3> DEFINE x == c - 1  y == b - 1
    <3>1. x \in Nat /\ y \in Nat /\ x + 1 <= y /\ M \in Nat
      BY <1>1, <2>1
    <3> HIDE DEF x, y, M
    <3>2. x * M + M <= y * M
      BY ONLY <3>1, RowsBelow
    <3> QED
      BY <3>2 DEF x, y
  <2> DEFINE x == (c - 1) * M  y == (b - 1) * M
  <2>4. x \in Int /\ y \in Int
    BY <1>1, <2>1
  <2> HIDE DEF x, y, M
  <2>5. w[c] + 1 < w[b] + 1 /\ w[c] + 1 \in Int /\ w[b] \in Int
    BY <1>1, <2>2, <2>3, <2>4 DEF x, y
  <2>6. w[c] + 1 # i
    <3>1. i \in {off + 1, off + 2} /\ off = w[b]
      BY DEF HeadOrFirst, w
    <3> DEFINE u == w[c]
    <3> HIDE DEF u
    <3>2. u + 1 < off + 1 /\ u + 1 \in Int /\ off \in Int
      BY <2>5, <3>1 DEF u
    <3>3. u + 1 # i
      BY ONLY <3>1, <3>2
    <3> QED
      BY <3>3 DEF u
  <2> QED
    BY <2>2, <2>6 DEF Damaged
<1>6. off \in ToSet(WalkBlocks(g, table))
  <2>1. Untouched(g, bytes, w, b)
    BY <1>5 DEF Untouched
  <2> QED
    BY <2>1, StillReached DEF w
<1> QED
  BY <1>4, <1>6 DEF InnerTablesVerify, HashWrong

\* A link that is cut.
LEMMA CutLinkNoticed ==
    ASSUME NEW bytes, NEW table, NEW blocks, InnerTable(bytes, table, blocks),
           NEW b \in 1..Len(blocks), NEW off, off = WalkBlocks(bytes, table)[b],
           bytes[off + 1].next # 0, NEW g, g = [bytes EXCEPT ![off + 1].next = 0]
    PROVE  ~InnerTablesVerify(g)
<1> DEFINE i == off + 1  q == bytes[i]  n == Len(blocks[b])  blk == blocks[b]  r == [q EXCEPT !.next = 0]
<1>1. PICK next, a : TableBlock(bytes, blocks, b, off, next, n, a)
  BY TableBlockIs
<1> HIDE DEF blk
<1>2. i \in DOMAIN bytes /\ q = TableHeader(next, n, a, blk) /\ a # "none"
  BY <1>1 DEF TableBlock, blk
<1>3. q.next = next /\ q.hash = HashOf(next, blk) /\ q.algo = a
  BY <1>2 DEF TableHeader
<1>4. r = [next |-> 0, count |-> q.count, algo |-> q.algo, hash |-> q.hash]
  <2> DEFINE U == {next, n, a, HashOf(next, blk)}
  <2>1. q \in [next : U, count : U, algo : U, hash : U]
    BY <1>2 DEF TableHeader
  <2> HIDE DEF U, q
  <2> QED
    BY <2>1, HeaderWith
<1>5. g = [bytes EXCEPT ![i] = r]
  OBVIOUS
<1>6. PICK E : bytes \in Seq(E)
  BY DEF InnerTable
<1> HIDE DEF r, q, i
<1>7. Damaged(g, bytes, i, r)
  BY <1>2, <1>5, <1>6, DamagedIs
<1>8. g[i].next = 0 /\ g[i].hash = HashOf(next, blk) /\ g[i].algo = a
  BY <1>3, <1>4, <1>7 DEF Damaged
<1>9. next # 0
  BY <1>3 DEF q, i
<1>10. HashWrong(g, off)
  BY <1>2, <1>8, <1>9, HashDiffers DEF i
<1>11. HeadOrFirst(i, off)
  BY DEF i, HeadOrFirst
<1> QED
  BY <1>2, <1>7, <1>10, <1>11, NoticedAt

\* An entry that is lost.
LEMMA CutCountNoticed ==
    ASSUME NEW bytes, NEW table, NEW blocks, InnerTable(bytes, table, blocks),
           NEW b \in 1..Len(blocks), NEW off, off = WalkBlocks(bytes, table)[b],
           bytes[off + 1].count > 0, NEW g, g = [bytes EXCEPT ![off + 1].count = @ - 1]
    PROVE  ~InnerTablesVerify(g)
<1> DEFINE i == off + 1  q == bytes[i]  n == Len(blocks[b])  blk == blocks[b]  r == [q EXCEPT !.count = q.count - 1]
           y == off + 1 + (n - 1)
<1>1. PICK next, a : TableBlock(bytes, blocks, b, off, next, n, a)
  BY TableBlockIs
<1> HIDE DEF blk
<1>2. /\ i \in DOMAIN bytes /\ q = TableHeader(next, n, a, blk) /\ a # "none"
      /\ off \in Nat \ {0} /\ off + 1 + n <= Len(bytes)
  BY <1>1 DEF TableBlock, LiesAt, blk
<1>3. q.next = next /\ q.count = n /\ q.hash = HashOf(next, blk) /\ q.algo = a
  BY <1>2 DEF TableHeader
<1>4. r = [next |-> q.next, count |-> n - 1, algo |-> q.algo, hash |-> q.hash]
  <2> DEFINE U == {next, n, a, HashOf(next, blk)}
  <2>1. q \in [next : U, count : U, algo : U, hash : U]
    BY <1>2 DEF TableHeader
  <2> HIDE DEF U, q
  <2> QED
    BY <1>3, <2>1, HeaderWith
<1>5. g = [bytes EXCEPT ![i] = r]
  OBVIOUS
<1>6. PICK E : bytes \in Seq(E)
  BY DEF InnerTable
<1>7. PICK C : blocks[b] \in Seq(C)
  BY DEF InnerTable
<1>8. n \in Nat \ {0}
  <2>1. n \in Nat
    BY <1>7
  <2>2. n > 0
    BY <1>3
  <2> QED
    BY <2>1, <2>2
<1> HIDE DEF r, q, i, n
<1>9. Damaged(g, bytes, i, r)
  BY <1>2, <1>5, <1>6, DamagedIs
<1>10. g[i].next = next /\ g[i].count = n - 1 /\ g[i].hash = HashOf(next, blk) /\ g[i].algo = a
  BY <1>3, <1>4, <1>9 DEF Damaged
<1>11. PICK D : g \in Seq(D) /\ Len(g) = Len(bytes)
  BY <1>9 DEF Damaged
<1> DEFINE x == off + 2
<1>12. x \in Nat \ {0} /\ y \in 0..Len(g) /\ (IF x <= y THEN y - x + 1 ELSE 0) = n - 1
  <2> DEFINE m == Len(bytes)
  <2>1. off \in Nat \ {0} /\ off + 1 + n <= m /\ n \in Nat \ {0} /\ m \in Nat
    BY <1>2, <1>6, <1>8
  <2> HIDE DEF m
  <2>2. x \in Nat \ {0} /\ y \in 0..m /\ (IF x <= y THEN y - x + 1 ELSE 0) = n - 1
    BY ONLY <2>1
  <2> QED
    BY <1>11, <2>2 DEF m
<1> HIDE DEF x, y
<1>13. Len(SubSeq(g, x, y)) = n - 1
  BY <1>11, <1>12, SliceType
<1>14. ItemsAt(g, off) = SubSeq(g, x, y)
  BY <1>10 DEF ItemsAt, x, y, i
<1>15. ItemsAt(g, off) # blocks[b]
  <2>1. Len(ItemsAt(g, off)) = n - 1
    BY <1>13, <1>14
  <2>2. n = Len(blocks[b])
    BY DEF n
  <2> DEFINE s == ItemsAt(g, off)  z == blocks[b]
  <2> HIDE DEF s, z
  <2>3. Len(s) = n - 1 /\ n = Len(z)
    BY <2>1, <2>2 DEF s, z
  <2>4. s # z
    BY ONLY <1>8, <2>3
  <2> QED
    BY <2>4 DEF s, z
<1>16. HashWrong(g, off)
  <2>1. /\ g[off + 1].algo # "none" /\ g[off + 1].hash = HashOf(next, blk)
        /\ ItemsAt(g, off) # blk
    BY <1>2, <1>10, <1>15 DEF i, blk
  <2> QED
    BY ONLY <2>1, HashDiffers
<1>17. HeadOrFirst(i, off)
  BY DEF i, HeadOrFirst
<1> QED
  BY <1>2, <1>9, <1>16, <1>17, NoticedAt

\* An entry that sends the reader elsewhere.
LEMMA SentElsewhereNoticed ==
    ASSUME NEW bytes, NEW table, NEW blocks, InnerTable(bytes, table, blocks),
           NEW b \in 1..Len(blocks), NEW off, off = WalkBlocks(bytes, table)[b],
           bytes[off + 1].count > 0, NEW g, g = [bytes EXCEPT ![off + 2].start = @ + 1]
    PROVE  ~InnerTablesVerify(g)
<1> DEFINE i == off + 2  h == bytes[off + 1]  q == bytes[i]  n == Len(blocks[b])  blk == blocks[b]
           r == [q EXCEPT !.start = q.start + 1]
<1>1. PICK next, a : TableBlock(bytes, blocks, b, off, next, n, a)
  BY TableBlockIs
<1> HIDE DEF blk
<1>2. /\ off + 1 \in DOMAIN bytes /\ h = TableHeader(next, n, a, blk) /\ a # "none"
      /\ off \in Nat \ {0} /\ off + 1 + n <= Len(bytes)
      /\ \A s \in 1..n : bytes[off + 1 + s] = blocks[b][s]
  BY <1>1 DEF TableBlock, LiesAt, blk
<1>3. h.next = next /\ h.count = n /\ h.hash = HashOf(next, blk) /\ h.algo = a
  BY <1>2 DEF TableHeader
<1>4. g = [bytes EXCEPT ![i] = r]
  OBVIOUS
<1>5. PICK E : bytes \in Seq(E)
  BY DEF InnerTable
<1>6. PICK C : blocks[b] \in Seq(C)
  BY DEF InnerTable
<1>7. n \in Nat \ {0}
  <2>1. n \in Nat
    BY <1>6
  <2>2. n > 0
    BY <1>3
  <2> QED
    BY <2>1, <2>2
<1> HIDE DEF r, h, n
<1>8. 1 \in 1..n /\ i = off + 1 + 1 /\ i \in DOMAIN bytes /\ i # off + 1
  BY <1>2, <1>5, <1>7
<1>9. q = blocks[b][1] /\ HasStart(blocks[b][1])
  BY <1>2, <1>8 DEF InnerTable, n
<1>10. r.start = q.start + 1 /\ q.start \in Nat
  <2>1. PICK U : q \in [uid : U, start : U, used : U, algo : U, hash : U]
    BY <1>9 DEF HasStart
  <2>2. q.start \in Nat
    BY <1>9 DEF HasStart
  <2> HIDE DEF q
  <2> DEFINE z == q.start + 1
  <2> HIDE DEF z
  <2>3. [q EXCEPT !.start = z].start = z
    BY <2>1, EntryWith
  <2> QED
    BY <2>2, <2>3 DEF r, z
<1> HIDE DEF q, i
<1>11. Damaged(g, bytes, i, r)
  BY <1>4, <1>5, <1>8, DamagedIs
<1>12. g[off + 1] = h /\ g[i] = r
  BY <1>2, <1>8, <1>11 DEF Damaged, h
<1>13. PICK D : g \in Seq(D) /\ Len(g) = Len(bytes)
  BY <1>11 DEF Damaged
<1> DEFINE x == off + 2  y == off + 1 + n
<1>14. x \in Nat \ {0} /\ y \in 0..Len(g) /\ x <= y /\ y - x + 1 = n
  <2> DEFINE m == Len(bytes)
  <2>1. off \in Nat \ {0} /\ off + 1 + n <= m /\ n \in Nat \ {0} /\ m \in Nat
    BY <1>2, <1>5, <1>7
  <2> HIDE DEF m
  <2>2. x \in Nat \ {0} /\ y \in 0..m /\ x <= y /\ y - x + 1 = n
    BY ONLY <2>1
  <2> QED
    BY <1>13, <2>2 DEF m
<1> HIDE DEF x, y
<1> DEFINE s == SubSeq(g, x, y)
<1>15. Len(s) = n /\ \A k \in 1..Len(s) : s[k] = g[x + k - 1]
  BY <1>13, <1>14, SliceType
<1> HIDE DEF s
<1>16. s[1] = r
  <2>1. 1 \in 1..Len(s) /\ x + 1 - 1 = i
    BY <1>8, <1>14, <1>15 DEF x, i
  <2> QED
    BY <1>12, <1>15, <2>1
<1>17. ItemsAt(g, off) = s
  <2>1. g[off + 1].count = n
    BY <1>3, <1>12
  <2> QED
    BY <2>1 DEF ItemsAt, s, x, y
<1>18. s # blocks[b]
  BY <1>9, <1>10, <1>16
<1>19. HashWrong(g, off)
  <2>1. /\ g[off + 1].algo # "none" /\ g[off + 1].hash = HashOf(next, blk)
        /\ ItemsAt(g, off) # blk
    BY <1>2, <1>3, <1>12, <1>17, <1>18 DEF blk
  <2> QED
    BY ONLY <2>1, HashDiffers
<1>20. HeadOrFirst(i, off)
  BY DEF i, HeadOrFirst
<1> QED
  BY <1>8, <1>11, <1>19, <1>20, NoticedAt

\* The image of an arena holds its inner table.
LEMMA EntryStarts ==
    ASSUME NEW x, NEW base, NEW k, StartOf(x.inners, base, k) \in Nat
    PROVE  HasStart(EntryOf(x, base, k))
<1> DEFINE e == EntryOf(x, base, k)  U == {e.uid, e.start, e.used, e.algo, e.hash}
           a == x.inners[k].uid  b == StartOf(x.inners, base, k)
           c == LogicalLen(x.inners[k].frags)  d == x.inners[k].algo
           h == Hash(x.inners[k].algo, InnerContent(x, k))
<1>1. e = [uid |-> a, start |-> b, used |-> c, algo |-> d, hash |-> h] /\ b \in Nat
  BY DEF EntryOf
<1> HIDE DEF e, a, b, c, d, h
<1>2. e.start \in Nat /\ e \in [uid : U, start : U, used : U, algo : U, hash : U]
  BY ONLY <1>1 DEF U
<1> HIDE DEF U
<1> QED
  BY <1>2 DEF HasStart, e

LEMMA InnerTableIs ==
    ASSUME NEW x, Healthy(x), NEW bytes, bytes = ToBytes(x)
    PROVE  /\ Parse(bytes).algo = x.algo
           /\ x.algo # "none" => \E table, blocks : InnerTable(bytes, table, blocks)
<1>1. PICK D : Byte \subseteq D /\ x \in ArenaSet(D) /\ Good(x.blob, RowsOf(x.inners))
  BY DEF Healthy, HealthyIn
<1>2. /\ \E E : Byte \subseteq E /\ bytes \in Seq(E)
      /\ \E base, new, table, entries, chain : Imaged(x, bytes, base, new, table, entries, chain)
  BY <1>1, ImageIs
<1>3. PICK E : Byte \subseteq E /\ bytes \in Seq(E)
  BY <1>2
<1>4. PICK base, new, table, entries, chain : Imaged(x, bytes, base, new, table, entries, chain)
  BY <1>2
<1> DEFINE y == Parse(bytes)
<1>5. WalkedChain(bytes, table, InBlocks(entries), x.algo) /\ y.algo = x.algo
  BY <1>1, <1>3, <1>4, ParsedIs
<1> HIDE DEF y
<1> DEFINE h == x.algo
<1> DEFINE inners == x.inners  n == Len(inners)  blocks == InBlocks(entries)
<1>6. /\ table \in Nat \ {0} /\ entries = Entries(x, base)
      /\ chain = BlockChain(table, entries, h)
      /\ bytes[1] = Heading(table, Len(chain)) /\ Len(bytes) = table + Len(chain)
      /\ \A k \in DOMAIN inners : StartOf(inners, base, k) \in Nat
  BY <1>4 DEF Imaged
<1>7. inners \in Seq(InnerSet) /\ n \in Nat /\ DOMAIN inners = 1..n
  BY <1>1, InnersAre DEF ArenaSet
<1>8. PICK S : EntriesListed(entries, x, base, S, n)
  BY <1>6, <1>7, EntriesAre
<1>9. entries \in Seq(S) /\ Len(entries) = n /\ \A k \in 1..n : entries[k] = EntryOf(x, base, k)
  BY <1>8 DEF EntriesListed
<1> DEFINE T == {e \in S : HasStart(e)}
<1>10. entries \in Seq(T)
  <2>1. \A k \in 1..n : HasStart(entries[k])
    BY <1>6, <1>7, <1>9, EntryStarts
  <2>2. \A k \in 1..Len(entries) : entries[k] \in T
    BY <1>9, <2>1
  <2> HIDE DEF T
  <2> QED
    BY <1>9, <2>2, SeqNarrow
<1>11. \A e \in T : HasStart(e)
  OBVIOUS
<1> HIDE DEF T, inners, n, blocks, h
<1>12. Blocked(T, entries, blocks)
  BY <1>10, InBlocksAre DEF blocks
<1>13. ChainFrom(T, chain, table, blocks, h)
  BY <1>6, <1>10, ChainIs DEF blocks
<1>14. Len(blocks) \in Nat /\ Len(blocks) <= Len(chain) /\ chain \in Seq(CellSet(T, table, blocks, h))
  BY <1>12, <1>13 DEF Blocked, ChainFrom
<1>15. Len(blocks) <= Len(bytes)
  <2>1. Len(chain) \in Nat
    BY <1>14
  <2> DEFINE l == Len(chain)  w == Len(bytes)  m == Len(blocks)
  <2>2. l \in Nat /\ w = table + l /\ m <= l /\ m \in Nat /\ table \in Nat \ {0}
    BY <1>6, <1>14, <2>1
  <2> HIDE DEF l, w, m
  <2>3. m <= w
    BY ONLY <2>2
  <2> QED
    BY <2>3 DEF m, w
<1>16. ASSUME NEW b \in 1..Len(blocks)
       PROVE  /\ \E C : blocks[b] \in Seq(C)
              /\ \A i \in 1..Len(blocks[b]) : HasStart(blocks[b][i])
  <2>1. blocks[b] \in Seq(T)
    BY <1>12 DEF Blocked
  <2> QED
    BY <1>11, <2>1
<1>17. bytes[1].table = table
  BY <1>6 DEF Heading
<1>18. ASSUME h # "none"  PROVE InnerTable(bytes, table, blocks)
  BY <1>3, <1>5, <1>6, <1>14, <1>15, <1>16, <1>17, <1>18 DEF InnerTable, blocks, h
<1> QED
  BY <1>5, <1>18 DEF y, h

\* What TablesProtected asks of one block.
Noticed(bytes, off) ==
    /\ bytes[off + 1].next # 0 => ~InnerTablesVerify([bytes EXCEPT ![off + 1].next = 0])
    /\ bytes[off + 1].count > 0 =>
        /\ ~InnerTablesVerify([bytes EXCEPT ![off + 1].count = @ - 1])
        /\ ~InnerTablesVerify([bytes EXCEPT ![off + 2].start = @ + 1])

\* Every arena is read with the hash algorithm it is written with, and if that verifies,
\* every block of the inner table is covered by its hash: a link that is cut, a count
\* that is one less and an entry that sends the reader elsewhere are each noticed, in
\* whatever block and however many there are.
THEOREM InnerTablesProtected == MCSpec => []TablesProtected
<1>1. Filed(parts) => TablesProtected
  <2> SUFFICES ASSUME Filed(parts), NEW x \in Arenas, NEW bytes, bytes = ToBytes(x)
               PROVE  /\ Parse(bytes).algo = x.algo
                      /\ x.algo # "none" =>
                            \A off \in ToSet(WalkBlocks(bytes, bytes[1].table)) :
                                Noticed(bytes, off)
    BY DEF TablesProtected, Noticed
  <2>1. /\ Parse(bytes).algo = x.algo
        /\ x.algo # "none" => \E table, blocks : InnerTable(bytes, table, blocks)
    BY ArenasHealthy, InnerTableIs
  <2>2. ASSUME x.algo # "none", NEW off \in ToSet(WalkBlocks(bytes, bytes[1].table))
        PROVE  Noticed(bytes, off)
    <3>1. PICK table, blocks : InnerTable(bytes, table, blocks)
      BY <2>1, <2>2
    <3>2. bytes[1].table = table /\ DOMAIN WalkBlocks(bytes, table) = 1..Len(blocks)
      BY <3>1 DEF InnerTable, WalkedChain
    <3>3. PICK b \in 1..Len(blocks) : off = WalkBlocks(bytes, table)[b]
      BY <2>2, <3>2 DEF ToSet
    <3>4. ASSUME bytes[off + 1].next # 0
          PROVE  ~InnerTablesVerify([bytes EXCEPT ![off + 1].next = 0])
      BY <3>1, <3>3, <3>4, CutLinkNoticed
    <3>5. ASSUME bytes[off + 1].count > 0
          PROVE  ~InnerTablesVerify([bytes EXCEPT ![off + 1].count = @ - 1])
      BY <3>1, <3>3, <3>5, CutCountNoticed
    <3>6. ASSUME bytes[off + 1].count > 0
          PROVE  ~InnerTablesVerify([bytes EXCEPT ![off + 2].start = @ + 1])
      BY <3>1, <3>3, <3>6, SentElsewhereNoticed
    <3> QED
      BY <3>4, <3>5, <3>6 DEF Noticed
  <2> QED
    BY <2>1, <2>2
<1> QED
  BY <1>1, FiledAlways, PTL
=============================================================================
