--------------------------- MODULE PcfRecordsProofs ---------------------------
(***************************************************************************)
(* What the low-level operators of PcfRecords do to a file, for every file *)
(* and every list of writes.                                               *)
(***************************************************************************)
EXTENDS PcfRecords, DataInduction, FiniteSetTheorems

-----------------------------------------------------------------------------
(* Writes.                                                                 *)

\* A list of one-cell writes, each at the place after the one before it.
InRow(ws, e) == \A i \in DOMAIN ws : ws[i][1] = e + i - 1

\* r is f with the first k of these writes done.
Written(r, f, ws, e, k) ==
    /\ Len(r) = IF k = 0 \/ e + k <= Len(f) THEN Len(f) ELSE e + k
    /\ \A o \in 0..(Len(r) - 1) :
        r[o + 1] = IF e <= o /\ o < e + k THEN ws[o - e + 1][2]
                   ELSE IF o < Len(f) THEN f[o + 1] ELSE Zero

\* r is f with one cell written.
OneWritten(r, f, off, cell) ==
    /\ Len(r) = IF off < Len(f) THEN Len(f) ELSE off + 1
    /\ \A o \in 0..(Len(r) - 1) :
        r[o + 1] = IF o = off THEN cell ELSE IF o < Len(f) THEN f[o + 1] ELSE Zero

LEMMA WriteAtIs ==
    ASSUME NEW C, Zero \in C, NEW f \in Seq(C), NEW off \in Nat, NEW cell \in C
    PROVE  WriteAt(f, off, cell) \in Seq(C) /\ OneWritten(WriteAt(f, off, cell), f, off, cell)
<1>1. CASE off < Len(f)
  BY <1>1 DEF WriteAt, OneWritten
<1>2. CASE ~(off < Len(f))
  <2> DEFINE zero == Zero  gap == [i \in 1..(off - Len(f)) |-> zero]  tail == gap \o <<cell>>
             r == (f \o gap) \o <<cell>>
  <2>1. gap \in Seq(C) /\ Len(gap) = off - Len(f) /\ \A i \in 1..(off - Len(f)) : gap[i] = zero
    <3> HIDE DEF zero
    <3>1. off - Len(f) \in Nat /\ zero \in C
      BY <1>2 DEF zero
    <3> QED
      BY <3>1
  <2>2. WriteAt(f, off, cell) = r
    BY <1>2 DEF WriteAt
  <2> HIDE DEF gap, zero
  <2>3. /\ f \o gap \in Seq(C) /\ Len(f \o gap) = off
        /\ \A i \in 1..off : (f \o gap)[i] = IF i <= Len(f) THEN f[i] ELSE zero
    BY <1>2, <2>1
  <2>4. r \in Seq(C) /\ Len(r) = off + 1
        /\ \A i \in 1..(off + 1) : r[i] = IF i <= off THEN (f \o gap)[i] ELSE cell
    <3> DEFINE b == f \o gap
    <3>1. b \in Seq(C) /\ Len(b) = off
      BY <2>3
    <3> HIDE DEF b
    <3>2. b \o <<cell>> \in Seq(C) /\ Len(b \o <<cell>>) = off + 1
          /\ \A i \in 1..(off + 1) : (b \o <<cell>>)[i] = IF i <= off THEN b[i] ELSE cell
      BY <3>1
    <3> QED
      BY <3>2 DEF b
  <2> HIDE DEF r
  <2>5. ASSUME NEW o \in 0..(Len(r) - 1)
        PROVE  r[o + 1] = IF o = off THEN cell ELSE IF o < Len(f) THEN f[o + 1] ELSE zero
    <3>1. o + 1 \in 1..(off + 1) /\ o \in 0..off /\ Len(f) \in Nat
      BY <2>4
    <3>2. CASE o = off
      BY <3>1, <3>2, <2>4
    <3>3. CASE o # off
      <4> DEFINE b == f \o gap
      <4>1. o + 1 \in 1..off
        BY <3>1, <3>3
      <4>2. r[o + 1] = b[o + 1]
        <5>1. \A i \in 1..(off + 1) : r[i] = IF i <= off THEN b[i] ELSE cell
          BY <2>4
        <5> HIDE DEF b
        <5> QED
          BY <5>1, <4>1, <3>1
      <4>3. b[o + 1] = IF o + 1 <= Len(f) THEN f[o + 1] ELSE zero
        BY <4>1, <2>3
      <4> HIDE DEF b
      <4> QED
        BY <4>1, <4>2, <4>3, <3>1, <3>3
    <3> QED
      BY <3>2, <3>3
  <2>6. \A o \in 0..(Len(r) - 1) :
            r[o + 1] = IF o = off THEN cell ELSE IF o < Len(f) THEN f[o + 1] ELSE Zero
    BY <2>5, Zenon DEF zero
  <2>7. Len(r) = IF off < Len(f) THEN Len(f) ELSE off + 1
    BY <1>2, <2>4
  <2>8. OneWritten(r, f, off, cell)
    BY <2>6, <2>7, Zenon DEF OneWritten
  <2> QED
    BY <2>2, <2>4, <2>8
<1> QED
  BY <1>1, <1>2

\* One more write.
LEMMA WrittenNext ==
    ASSUME NEW C, Zero \in C, NEW f \in Seq(C), NEW ws \in Seq(Nat \X C), NEW e \in Nat,
           InRow(ws, e), NEW r \in Seq(C), NEW k \in 0..(Len(ws) - 1), Written(r, f, ws, e, k)
    PROVE  Written(WriteAt(r, ws[k + 1][1], ws[k + 1][2]), f, ws, e, k + 1)
<1> DEFINE n == Len(ws)  off == e + k  cell == ws[k + 1][2]
           q == WriteAt(r, off, cell)  lf == Len(f)  lr == Len(r)
<1>1. k + 1 \in DOMAIN ws /\ ws[k + 1] \in Nat \X C
  OBVIOUS
<1>2. ws[k + 1][1] = off /\ off \in Nat /\ cell \in C
  BY <1>1 DEF InRow
<1>3. /\ q \in Seq(C) /\ Len(q) = IF off < lr THEN lr ELSE off + 1
      /\ \A o \in 0..(Len(q) - 1) :
            q[o + 1] = IF o = off THEN cell ELSE IF o < lr THEN r[o + 1] ELSE Zero
  <2> HIDE DEF off, cell
  <2>1. q \in Seq(C) /\ OneWritten(q, r, off, cell)
    BY <1>2, WriteAtIs
  <2> QED
    BY <2>1, Zenon DEF OneWritten
<1>4. /\ lr = IF k = 0 \/ off <= lf THEN lf ELSE off
      /\ \A o \in 0..(lr - 1) :
            r[o + 1] = IF e <= o /\ o < off THEN ws[o - e + 1][2]
                       ELSE IF o < lf THEN f[o + 1] ELSE Zero
  BY DEF Written
<1>5. lf \in Nat /\ lr \in Nat /\ k \in Nat /\ k + 1 # 0
  OBVIOUS
<1> DEFINE lq == Len(q)
<1> HIDE DEF q, lf, lr, lq
<1>6. lq = IF e + (k + 1) <= lf THEN lf ELSE e + (k + 1)
  <2> USE DEF off
  <2> QED
    BY <1>3, <1>4, <1>5 DEF lq
<1>7. ASSUME NEW o \in 0..(lq - 1)
      PROVE  q[o + 1] = IF e <= o /\ o < e + (k + 1) THEN ws[o - e + 1][2]
                        ELSE IF o < lf THEN f[o + 1] ELSE Zero
  <2>0. o \in Nat /\ o < lq
    BY <1>5, <1>6
  <2>1. q[o + 1] = IF o = off THEN cell ELSE IF o < lr THEN r[o + 1] ELSE Zero
    BY <1>3 DEF lq
  <2>2. CASE o = off
    <3>1. o - e + 1 = k + 1 /\ e <= o /\ o < e + (k + 1)
      BY <2>2, <1>5
    <3>2. q[o + 1] = ws[k + 1][2]
      BY <2>1, <2>2
    <3> QED
      BY <3>1, <3>2
  <2>3. CASE o # off /\ o < lr
    <3>1. o \in 0..(lr - 1)
      BY <2>3, <2>0, <1>5
    <3>2. r[o + 1] = IF e <= o /\ o < off THEN ws[o - e + 1][2]
                     ELSE IF o < lf THEN f[o + 1] ELSE Zero
      BY <1>4, <3>1
    <3>3. q[o + 1] = r[o + 1]
      BY <2>1, <2>3
    <3>4. o < off <=> o < e + (k + 1)
      BY <2>3, <2>0, <1>5
    <3> QED
      BY <3>2, <3>3, <3>4
  <2>4. CASE o # off /\ ~(o < lr)
    <3>1. q[o + 1] = Zero
      BY <2>1, <2>4
    <3>2. ~(o < lf)
      BY <2>4, <2>0, <1>4, <1>5
    <3>3. ~(e <= o /\ o < e + (k + 1))
      BY <2>4, <2>0, <1>4, <1>5, <1>6
    <3> QED
      BY <3>1, <3>2, <3>3
  <2> QED
    BY <2>2, <2>3, <2>4
<1>8. Written(q, f, ws, e, k + 1)
  BY <1>5, <1>6, <1>7 DEF Written, lq, lf
<1> QED
  BY <1>2, <1>8 DEF q

\* Apply is all of the writes, one after the other.
LEMMA ApplyInRow ==
    ASSUME NEW C, Zero \in C, NEW f \in Seq(C), NEW ws \in Seq(Nat \X C), NEW e \in Nat,
           InRow(ws, e)
    PROVE  Apply(f, ws) \in Seq(C) /\ Written(Apply(f, ws), f, ws, e, Len(ws))
<1> DEFINE D == Seq(C)  n == Len(ws)
           F == [p \in (1..n) \X D |-> WriteAt(p[2], ws[p[1]][1], ws[p[1]][2])]
           h == CHOOSE h : h = [k \in 0..n |-> IF k = 0 THEN f
                                               ELSE WriteAt(h[k - 1], ws[k][1], ws[k][2])]
<1>1. n \in Nat /\ f \in D /\ n \in 0..n
  OBVIOUS
<1>2. ASSUME NEW i \in 1..n, NEW x \in D
      PROVE  WriteAt(x, ws[i][1], ws[i][2]) \in D
  <2>1. ws[i] \in Nat \X C
    OBVIOUS
  <2>2. ws[i][1] \in Nat /\ ws[i][2] \in C
    BY <2>1
  <2> QED
    BY <2>2, WriteAtIs
<1>3. \A i \in 1..n, x \in D : F[<<i, x>>] = WriteAt(x, ws[i][1], ws[i][2])
  OBVIOUS
<1>4. Steps(F, n, D)
  <2> HIDE DEF D, n
  <2>1. \A p \in (1..n) \X D : WriteAt(p[2], ws[p[1]][1], ws[p[1]][2]) \in D
    BY <1>2
  <2>2. F \in [(1..n) \X D -> D]
    BY <2>1
  <2> QED
    BY <2>2, Zenon DEF Steps
<1>5. Apply(f, ws) = h[n]
  BY Zenon DEF Apply
<1> HIDE DEF F, D, h, n
<1>6. PICK g : Solution(g, n, D, f, F)
  BY <1>1, <1>4, Recursion
<1>7. g \in [0..n -> D] /\ g[0] = f /\ \A i \in 1..n : g[i] = F[<<i, g[i - 1]>>]
  BY <1>6, Zenon DEF Solution
<1>8. ASSUME NEW i \in 1..n
      PROVE  g[i] = WriteAt(g[i - 1], ws[i][1], ws[i][2])
  <2>1. i - 1 \in 0..n
    BY <1>1
  <2>2. g[i - 1] \in D
    BY <2>1, <1>7
  <2> QED
    BY <2>2, <1>3, <1>7, Zenon
<1>9. h = [k \in 0..n |-> IF k = 0 THEN f ELSE WriteAt(h[k - 1], ws[k][1], ws[k][2])]
  <2>1. ASSUME NEW k \in 0..n
        PROVE  g[k] = IF k = 0 THEN f ELSE WriteAt(g[k - 1], ws[k][1], ws[k][2])
    <3>1. k = 0 \/ k \in 1..n
      BY <1>1
    <3>2. CASE k = 0
      BY <3>2, <1>7, Zenon
    <3>3. CASE k # 0
      BY <3>1, <3>3, <1>8, Zenon
    <3> QED
      BY <3>2, <3>3
  <2>2. g = [k \in 0..n |-> IF k = 0 THEN f ELSE WriteAt(g[k - 1], ws[k][1], ws[k][2])]
    BY <2>1, <1>7, Zenon
  <2> QED
    BY <2>2, Zenon DEF h
<1> DEFINE S == {k \in Nat : h[k] \in D /\ Written(h[k], f, ws, e, k)}
<1>10. 0 \in S
  <2>1. 0 \in 0..n
    BY <1>1
  <2>2. h[0] = f
    BY <2>1, <1>9, Zenon
  <2>3. Written(f, f, ws, e, 0)
    BY DEF Written
  <2> QED
    BY <2>2, <2>3, <1>1
<1>11. ASSUME NEW k \in 0..(n - 1), k \in S
       PROVE  k + 1 \in S
  <2>1. k + 1 \in 1..n /\ k + 1 \in 0..n /\ (k + 1) - 1 = k /\ k + 1 # 0 /\ k + 1 \in Nat
    BY <1>1
  <2>2. h[k + 1] = WriteAt(h[(k + 1) - 1], ws[k + 1][1], ws[k + 1][2])
    BY <2>1, <1>9, Zenon
  <2>3. h[k + 1] = WriteAt(h[k], ws[k + 1][1], ws[k + 1][2])
    BY <2>1, <2>2, Zenon
  <2>4. h[k] \in D /\ Written(h[k], f, ws, e, k)
    BY <1>11
  <2>5. h[k + 1] \in D
    BY <2>1, <2>3, <2>4, <1>2, Zenon
  <2>6. Written(h[k + 1], f, ws, e, k + 1)
    <3>1. h[k] \in Seq(C) /\ k \in 0..(Len(ws) - 1)
      BY <2>4 DEF D, n
    <3>2. Written(WriteAt(h[k], ws[k + 1][1], ws[k + 1][2]), f, ws, e, k + 1)
      BY <2>4, <3>1, WrittenNext
    <3> QED
      BY <3>2, <2>3, Zenon
  <2> QED
    BY <2>1, <2>5, <2>6, Zenon
<1> HIDE DEF S
<1>12. 0..n \subseteq S
  BY <1>1, <1>10, <1>11, UpTo
<1>13. h[n] \in D /\ Written(h[n], f, ws, e, n)
  BY <1>1, <1>12 DEF S
<1> QED
  BY <1>5, <1>13, Zenon DEF D, n

-----------------------------------------------------------------------------
(* Lists of writes that follow one another.                                *)

LEMMA WriteCellsInRow ==
    ASSUME NEW C, NEW e \in Nat, NEW cells \in Seq(C)
    PROVE  /\ WriteCells(e, cells) \in Seq(Nat \X C)
           /\ Len(WriteCells(e, cells)) = Len(cells)
           /\ InRow(WriteCells(e, cells), e)
           /\ \A i \in 1..Len(cells) : WriteCells(e, cells)[i] = <<e + i - 1, cells[i]>>
<1>1. \A i \in DOMAIN cells : <<e + i - 1, cells[i]>> \in Nat \X C
  OBVIOUS
<1>2. WriteCells(e, cells) \in Seq(Nat \X C)
  BY <1>1 DEF WriteCells
<1>3. DOMAIN cells = 1..Len(cells) /\ Len(cells) \in Nat
  OBVIOUS
<1>4. Len(WriteCells(e, cells)) = Len(cells)
  BY <1>3 DEF WriteCells
<1>5. \A i \in 1..Len(cells) : WriteCells(e, cells)[i] = <<e + i - 1, cells[i]>>
  BY <1>3 DEF WriteCells
<1>6. DOMAIN WriteCells(e, cells) = 1..Len(cells)
  BY <1>3 DEF WriteCells
<1>7. InRow(WriteCells(e, cells), e)
  BY <1>5, <1>6 DEF InRow
<1> QED
  BY <1>2, <1>4, <1>5, <1>7

\* One run after another is one run.
Joins(z, x, y) == z = x \o y

LEMMA WriteCellsConcat ==
    ASSUME NEW C, NEW e \in Nat, NEW x \in Seq(C), NEW y \in Seq(C)
    PROVE  Joins(WriteCells(e, x \o y), WriteCells(e, x), WriteCells(e + Len(x), y))
<1> DEFINE z == x \o y  wx == WriteCells(e, x)  wy == WriteCells(e + Len(x), y)
           wz == WriteCells(e, z)  P == Nat \X C
<1>1. /\ z \in Seq(C) /\ Len(z) = Len(x) + Len(y)
      /\ \A i \in 1..Len(z) : z[i] = IF i <= Len(x) THEN x[i] ELSE y[i - Len(x)]
  OBVIOUS
<1>2. Len(x) \in Nat /\ Len(y) \in Nat /\ e + Len(x) \in Nat
  OBVIOUS
<1> HIDE DEF z
<1>3. wx \in Seq(P) /\ Len(wx) = Len(x) /\ \A i \in 1..Len(x) : wx[i] = <<e + i - 1, x[i]>>
  BY WriteCellsInRow
<1>4. wy \in Seq(P) /\ Len(wy) = Len(y) /\ \A i \in 1..Len(y) : wy[i] = <<e + Len(x) + i - 1, y[i]>>
  BY <1>2, WriteCellsInRow
<1>5. wz \in Seq(P) /\ Len(wz) = Len(z) /\ \A i \in 1..Len(z) : wz[i] = <<e + i - 1, z[i]>>
  BY <1>1, WriteCellsInRow
<1> HIDE DEF wx, wy, wz, P
<1>6. /\ wx \o wy \in Seq(P) /\ Len(wx \o wy) = Len(z)
      /\ \A i \in 1..Len(z) : (wx \o wy)[i] = IF i <= Len(x) THEN wx[i] ELSE wy[i - Len(x)]
  BY <1>1, <1>2, <1>3, <1>4
<1> DEFINE w == wx \o wy
<1>7. w \in Seq(P) /\ Len(w) = Len(z)
      /\ \A i \in 1..Len(z) : w[i] = IF i <= Len(x) THEN wx[i] ELSE wy[i - Len(x)]
  BY <1>6
<1> HIDE DEF w
<1>8. ASSUME NEW i \in 1..Len(z)
      PROVE  w[i] = wz[i]
  <2>1. CASE i <= Len(x)
    <3>1. i \in 1..Len(x)
      BY <2>1, <1>2
    <3> QED
      BY <3>1, <1>1, <1>3, <1>5, <1>7, <2>1
  <2>2. CASE ~(i <= Len(x))
    <3> DEFINE j == i - Len(x)
    <3>1. j \in 1..Len(y) /\ e + Len(x) + j - 1 = e + i - 1
      BY <2>2, <1>1, <1>2
    <3>2. z[i] = y[j] /\ w[i] = wy[j]
      BY <1>1, <1>7, <2>2
    <3>3. wy[j] = <<e + Len(x) + j - 1, y[j]>>
      BY <1>4, <3>1
    <3> HIDE DEF j
    <3> QED
      BY <1>5, <3>1, <3>2, <3>3
  <2> QED
    BY <2>1, <2>2
<1>9. w = wz
  BY <1>5, <1>7, <1>8
<1> QED
  BY <1>9, Zenon DEF w, wx, wy, wz, z, Joins

\* The cells of a block.
BlockCells(next, algo, es) ==
    <<BlockCell(Len(es), next, algo, TableHash(algo, next, es))>> \o es

LEMMA WriteBlockIs ==
    ASSUME NEW C, NEW off \in Nat, NEW next, NEW algo, NEW es \in Seq(C),
           BlockCell(Len(es), next, algo, TableHash(algo, next, es)) \in C
    PROVE  /\ WriteBlock(off, next, algo, es) = WriteCells(off, BlockCells(next, algo, es))
           /\ BlockCells(next, algo, es) \in Seq(C)
           /\ Len(BlockCells(next, algo, es)) = Len(es) + 1
           /\ BlockCells(next, algo, es)[1] =
                BlockCell(Len(es), next, algo, TableHash(algo, next, es))
           /\ \A i \in 1..Len(es) : BlockCells(next, algo, es)[i + 1] = es[i]
<1> DEFINE b == BlockCell(Len(es), next, algo, TableHash(algo, next, es))
<1>1. b \in C
  OBVIOUS
<1>2. WriteBlock(off, next, algo, es) = <<<<off, b>>>> \o WriteCells(off + TableHeaderSize, es)
  BY Zenon DEF WriteBlock
<1>3. BlockCells(next, algo, es) = <<b>> \o es
  BY Zenon DEF BlockCells
<1> HIDE DEF b
<1>4. WriteCells(off, <<b>>) = <<<<off, b>>>>
  <2>1. WriteCells(off, <<b>>) = [i \in 1..1 |-> <<off + i - 1, <<b>>[i]>>]
    BY DEF WriteCells
  <2>2. off + 1 - 1 = off
    OBVIOUS
  <2> QED
    BY <2>1, <2>2
<1>5. <<b>> \in Seq(C) /\ Len(<<b>>) = 1
  BY <1>1
<1>6. WriteCells(off, <<b>>) \o WriteCells(off + Len(<<b>>), es) = WriteCells(off, <<b>> \o es)
  <2> DEFINE h == <<b>>
  <2>1. h \in Seq(C)
    BY <1>5
  <2> HIDE DEF h
  <2>2. Joins(WriteCells(off, h \o es), WriteCells(off, h), WriteCells(off + Len(h), es))
    BY <2>1, WriteCellsConcat
  <2> QED
    BY <2>2, Zenon DEF h, Joins
<1>7. WriteBlock(off, next, algo, es) = WriteCells(off, BlockCells(next, algo, es))
  BY <1>2, <1>3, <1>4, <1>5, <1>6, Zenon DEF TableHeaderSize
<1>8. /\ <<b>> \o es \in Seq(C) /\ Len(<<b>> \o es) = Len(es) + 1
      /\ (<<b>> \o es)[1] = b /\ \A i \in 1..Len(es) : (<<b>> \o es)[i + 1] = es[i]
  BY <1>1
<1> QED
  BY <1>3, <1>7, <1>8, Zenon DEF b

\* Runs of writes, each where the one before it ends, are one run.
Runs(m, e, s) ==
    /\ Len(m) = Len(s)
    /\ \A k \in 1..Len(s) : m[k] = WriteCells(e + Len(Upto(s, k - 1)), s[k])

LEMMA WriteCellsFlatten ==
    ASSUME NEW C, NEW e \in Nat, NEW s \in Seq(Seq(C)), NEW m \in Seq(Seq(Nat \X C)),
           Runs(m, e, s)
    PROVE  FlattenSeq(m) = WriteCells(e, FlattenSeq(s))
<1> DEFINE n == Len(s)  g == [k \in 0..n |-> WriteCells(e, Upto(s, k))]
<1>1. n \in Nat /\ n \in 0..n /\ 0 \in 0..n
  OBVIOUS
<1>2. g[0] = <<>>
  <2>1. Upto(s, 0) = <<>>
    BY UptoNone
  <2>2. WriteCells(e, <<>>) = <<>>
    BY DEF WriteCells
  <2>3. g[0] = WriteCells(e, Upto(s, 0))
    BY <1>1
  <2> QED
    BY <2>1, <2>2, <2>3, Zenon
<1>3. ASSUME NEW k \in 1..n
      PROVE  g[k] = g[k - 1] \o m[k]
  <2> DEFINE x == Upto(s, k - 1)  y == s[k]
  <2>1. k \in 0..n /\ k - 1 \in 0..n
    OBVIOUS
  <2>2. x \in Seq(C) /\ y \in Seq(C)
    BY <2>1, UptoType
  <2>3. Upto(s, k) = x \o y
    BY UptoNext
  <2>4. m[k] = WriteCells(e + Len(x), y)
    BY Zenon DEF Runs
  <2>5. g[k] = WriteCells(e, Upto(s, k)) /\ g[k - 1] = WriteCells(e, x)
    BY <2>1
  <2> HIDE DEF x, y, g, n
  <2>6. Joins(WriteCells(e, x \o y), WriteCells(e, x), WriteCells(e + Len(x), y))
    BY <2>2, WriteCellsConcat
  <2> QED
    BY <2>3, <2>4, <2>5, <2>6, Zenon DEF Joins
<1>4. g[n] = WriteCells(e, FlattenSeq(s))
  <2>1. Upto(s, n) = FlattenSeq(s)
    BY UptoAll
  <2>2. g[n] = WriteCells(e, Upto(s, n))
    BY <1>1
  <2> QED
    BY <2>1, <2>2, Zenon
<1>5. n = Len(m)
  BY DEF Runs
<1> HIDE DEF g, n
<1>6. Grows(g, m, n)
  BY <1>2, <1>3, Zenon DEF Grows
<1>7. FlattenSeq(m) = g[n]
  BY <1>1, <1>5, <1>6, FlattenIs
<1> QED
  BY <1>4, <1>7, Zenon

\* r is f with the first k of the cells written, the first of them at e.
Overlaid(r, f, cells, e, k) ==
    /\ Len(r) = IF k = 0 \/ e + k <= Len(f) THEN Len(f) ELSE e + k
    /\ \A o \in 0..(Len(r) - 1) :
        r[o + 1] = IF e <= o /\ o < e + k THEN cells[o - e + 1]
                   ELSE IF o < Len(f) THEN f[o + 1] ELSE Zero

LEMMA ApplyCells ==
    ASSUME NEW C, Zero \in C, NEW f \in Seq(C), NEW e \in Nat, NEW cells \in Seq(C),
           NEW k \in 0..Len(cells)
    PROVE  /\ Apply(f, SubSeq(WriteCells(e, cells), 1, k)) \in Seq(C)
           /\ Overlaid(Apply(f, SubSeq(WriteCells(e, cells), 1, k)), f, cells, e, k)
<1> DEFINE w == WriteCells(e, cells)  ws == SubSeq(w, 1, k)  P == Nat \X C  r == Apply(f, ws)
<1>1. /\ w \in Seq(P) /\ Len(w) = Len(cells)
      /\ \A i \in 1..Len(cells) : w[i] = <<e + i - 1, cells[i]>>
  BY WriteCellsInRow
<1>2. k \in Nat /\ k <= Len(cells)
  OBVIOUS
<1> HIDE DEF w, P
<1>3. /\ ws \in Seq(P) /\ Len(ws) = k /\ DOMAIN ws = 1..k
      /\ \A i \in 1..k : ws[i] = w[i]
  BY <1>1, <1>2
<1> HIDE DEF ws
<1>4. \A i \in 1..k : ws[i] = <<e + i - 1, cells[i]>>
  <2>1. \A i \in 1..k : i \in 1..Len(cells)
    BY <1>2
  <2> QED
    BY <1>1, <1>3, <2>1
<1>5. InRow(ws, e)
  BY <1>3, <1>4 DEF InRow
<1>6. r \in Seq(C) /\ Written(r, f, ws, e, Len(ws))
  BY <1>3, <1>5, ApplyInRow DEF P
<1> HIDE DEF r
<1>7. /\ Len(r) = IF k = 0 \/ e + k <= Len(f) THEN Len(f) ELSE e + k
      /\ \A o \in 0..(Len(r) - 1) :
            r[o + 1] = IF e <= o /\ o < e + k THEN ws[o - e + 1][2]
                       ELSE IF o < Len(f) THEN f[o + 1] ELSE Zero
  BY <1>3, <1>6 DEF Written
<1>8. ASSUME NEW o \in 0..(Len(r) - 1)
      PROVE  r[o + 1] = IF e <= o /\ o < e + k THEN cells[o - e + 1]
                        ELSE IF o < Len(f) THEN f[o + 1] ELSE Zero
  <2>1. CASE e <= o /\ o < e + k
    <3>1. o \in Nat
      <4>1. Len(r) \in Nat
        BY <1>6
      <4> QED
        BY <4>1
    <3>2. o - e + 1 \in 1..k
      BY <1>2, <2>1, <3>1
    <3>3. ws[o - e + 1][2] = cells[o - e + 1]
      BY <1>4, <3>2
    <3> QED
      BY <1>7, <2>1, <3>3
  <2>2. CASE ~(e <= o /\ o < e + k)
    BY <1>7, <2>2
  <2> QED
    BY <2>1, <2>2
<1>9. Overlaid(r, f, cells, e, k)
  BY <1>7, <1>8, Zenon DEF Overlaid
<1> QED
  BY <1>6, <1>9, Zenon DEF r, ws, w

-----------------------------------------------------------------------------
(* The walk along a chain of blocks.                                       *)

\* The cell of the file f at the offset o.
At(f, o) == f[o + 1]

\* The offsets w are linked from the first to the last, which is 0.
Chained(f, w, r) ==
    /\ w[r + 1] = 0
    /\ \A i \in 1..r : w[i] # 0 /\ BlockReadable(f, w[i]) /\ BlockAt(f, w[i]).next = w[i + 1]

\* The same, except that the walk may also stop at an offset where no block can be read.
Stops(f, w, r) ==
    /\ w[r + 1] = 0 \/ ~BlockReadable(f, w[r + 1])
    /\ \A i \in 1..r : w[i] # 0 /\ BlockReadable(f, w[i]) /\ BlockAt(f, w[i]).next = w[i + 1]

\* The part of w met after n steps of r.
Met(w, r, n) == SubSeq(w, 1, IF n < r THEN n + 1 ELSE r + 1)

LEMMA MetStep ==
    ASSUME NEW w \in Seq(Nat), NEW r \in Nat, Len(w) = r + 1, NEW n \in Nat \ {0}
    PROVE  /\ n <= r => /\ Last(Met(w, r, n - 1)) = w[n]
                        /\ Met(w, r, n) = Append(Met(w, r, n - 1), w[n + 1])
           /\ n > r => /\ Last(Met(w, r, n - 1)) = w[r + 1]
                       /\ Met(w, r, n) = Met(w, r, n - 1)
<1>1. CASE n <= r
  <2>1. Met(w, r, n - 1) = SubSeq(w, 1, n) /\ Met(w, r, n) = SubSeq(w, 1, n + 1)
    <3>1. CASE n < r
      BY <3>1 DEF Met
    <3>2. CASE n = r
      BY <3>2 DEF Met
    <3>3. n < r \/ n = r
      BY <1>1
    <3> QED
      BY <3>1, <3>2, <3>3, Zenon
  <2>2. SubSeq(w, 1, n) \in Seq(Nat) /\ Len(SubSeq(w, 1, n)) = n /\ SubSeq(w, 1, n)[n] = w[n]
    <3>1. n \in 0..Len(w) /\ 1 \in Nat \ {0} /\ 1 <= n /\ n - 1 + 1 = n /\ n \in 1..n /\ 1 + n - 1 = n
      BY <1>1
    <3>2. /\ SubSeq(w, 1, n) \in Seq(Nat) /\ Len(SubSeq(w, 1, n)) = n
          /\ \A i \in 1..Len(SubSeq(w, 1, n)) : SubSeq(w, 1, n)[i] = w[1 + i - 1]
      BY <3>1, SliceType
    <3> QED
      BY <3>1, <3>2, Zenon
  <2>3. SubSeq(w, 1, n + 1) = Append(SubSeq(w, 1, n), w[n + 1])
    BY <1>1
  <2>4. Last(SubSeq(w, 1, n)) = w[n]
    BY <2>2, Zenon DEF Last
  <2>5. ~(n > r)
    BY <1>1
  <2> QED
    BY <2>1, <2>3, <2>4, <2>5, Zenon
<1>2. CASE n > r
  <2>1. Met(w, r, n - 1) = SubSeq(w, 1, r + 1) /\ Met(w, r, n) = SubSeq(w, 1, r + 1)
    BY <1>2 DEF Met
  <2>2. SubSeq(w, 1, r + 1) = w
    OBVIOUS
  <2>3. ~(n <= r) /\ w[Len(w)] = w[r + 1]
    BY <1>2
  <2> QED
    BY <2>1, <2>2, <2>3, Zenon DEF Last
<1> QED
  BY <1>1, <1>2

LEMMA WalkStops ==
    ASSUME NEW f, NEW w \in Seq(Nat), NEW r \in Nat, Len(w) = r + 1, r <= Len(f),
           Len(f) \in Nat, Stops(f, w, r)
    PROVE  Walk(f, w[1]) = w
<1> DEFINE m == Len(f)
           step(met) == IF Last(met) # 0 /\ BlockReadable(f, Last(met))
                        THEN Append(met, BlockAt(f, Last(met)).next) ELSE met
           h == CHOOSE h : h = [n \in 0..m |-> IF n = 0 THEN <<w[1]>> ELSE step(h[n - 1])]
           g == [n \in 0..m |-> Met(w, r, n)]
<1>1. Walk(f, w[1]) = h[m]
  BY Zenon DEF Walk
<1>2. g[0] = <<w[1]>> /\ 0 \in 0..m /\ m \in 0..m
  <2>1. 0 \in 0..m
    OBVIOUS
  <2>2. Met(w, r, 0) = SubSeq(w, 1, 1)
    BY DEF Met
  <2>3. SubSeq(w, 1, 1) = <<w[1]>>
    <3>1. 1 \in 0..Len(w)
      OBVIOUS
    <3>2. /\ SubSeq(w, 1, 1) \in Seq(Nat) /\ Len(SubSeq(w, 1, 1)) = 1
          /\ \A i \in 1..Len(SubSeq(w, 1, 1)) : SubSeq(w, 1, 1)[i] = w[1 + i - 1]
      BY <3>1, SliceType
    <3> DEFINE s == SubSeq(w, 1, 1)
    <3> HIDE DEF s
    <3>3. s \in Seq(Nat) /\ Len(s) = 1 /\ s[1] = w[1]
      BY <3>2 DEF s
    <3>4. s = <<w[1]>>
      BY <3>3
    <3> QED
      BY <3>4 DEF s
  <2> QED
    BY <2>1, <2>2, <2>3
<1>3. ASSUME NEW n \in 1..m
      PROVE  g[n] = step(g[n - 1])
  <2>1. n \in Nat \ {0} /\ n - 1 \in 0..m /\ n \in 0..m
    OBVIOUS
  <2> DEFINE x == Met(w, r, n - 1)
  <2>2. g[n] = Met(w, r, n) /\ g[n - 1] = x
    BY <2>1
  <2>3. CASE n <= r
    <3>1. Last(x) = w[n] /\ Met(w, r, n) = Append(x, w[n + 1])
      BY <2>1, <2>3, MetStep
    <3>2. n \in 1..r
      BY <2>3
    <3>3. w[n] # 0 /\ BlockReadable(f, w[n]) /\ BlockAt(f, w[n]).next = w[n + 1]
      BY <3>2 DEF Stops
    <3> HIDE DEF x, g
    <3> QED
      BY <2>2, <3>1, <3>3
  <2>4. CASE n > r
    <3>1. Last(x) = w[r + 1] /\ Met(w, r, n) = x
      BY <2>1, <2>4, MetStep
    <3>2. w[r + 1] = 0 \/ ~BlockReadable(f, w[r + 1])
      BY DEF Stops
    <3> HIDE DEF x, g
    <3> QED
      BY <2>2, <3>1, <3>2
  <2> QED
    BY <2>3, <2>4
<1>4. g = [n \in 0..m |-> IF n = 0 THEN <<w[1]>> ELSE step(g[n - 1])]
  <2>1. ASSUME NEW n \in 0..m
        PROVE  Met(w, r, n) = IF n = 0 THEN <<w[1]>> ELSE step(g[n - 1])
    <3>1. g[n] = Met(w, r, n)
      OBVIOUS
    <3>2. CASE n = 0
      BY <3>1, <3>2, <1>2, Zenon
    <3>3. CASE n # 0
      <4>1. n \in 1..m
        BY <3>3
      <4> HIDE DEF g, step
      <4> QED
        BY <3>1, <3>3, <4>1, <1>3, Zenon
    <3> QED
      BY <3>2, <3>3
  <2> QED
    BY <2>1, Zenon
<1> HIDE DEF g, step, m
<1>5. h = [n \in 0..m |-> IF n = 0 THEN <<w[1]>> ELSE step(h[n - 1])]
  BY <1>4, Zenon DEF h
<1> HIDE DEF h
<1> DEFINE S == {n \in Nat : h[n] = g[n]}
<1>6. 0 \in S
  <2>1. h[0] = <<w[1]>>
    BY <1>2, <1>5, Zenon
  <2> QED
    BY <1>2, <2>1
<1>7. \A k \in 0..(m - 1) : k \in S => k + 1 \in S
  <2>1. ASSUME NEW k \in 0..(m - 1), k \in S
        PROVE  k + 1 \in S
    <3>1. k + 1 \in 1..m /\ k + 1 \in 0..m /\ (k + 1) - 1 = k /\ k + 1 # 0 /\ k + 1 \in Nat
      BY DEF m
    <3>2. h[k + 1] = step(h[(k + 1) - 1])
      BY <3>1, <1>5, Zenon
    <3>3. g[k + 1] = step(g[(k + 1) - 1])
      BY <3>1, <1>3
    <3>4. h[k] = g[k]
      BY <2>1
    <3>5. h[k + 1] = g[k + 1]
      BY <3>1, <3>2, <3>3, <3>4, Zenon
    <3> QED
      BY <3>1, <3>5
  <2> QED
    BY <2>1
<1>8. m \in S
  <2>1. m \in Nat
    BY DEF m
  <2> HIDE DEF S
  <2>2. 0..m \subseteq S
    BY <1>6, <1>7, <2>1, UpTo
  <2> QED
    BY <2>2, <1>2
<1>9. g[m] = w
  <2>1. Met(w, r, m) = SubSeq(w, 1, r + 1)
    BY DEF Met, m
  <2>2. SubSeq(w, 1, r + 1) = w
    OBVIOUS
  <2> QED
    BY <1>2, <2>1, <2>2 DEF g
<1> QED
  BY <1>1, <1>8, <1>9

LEMMA WalkIs ==
    ASSUME NEW f, NEW w \in Seq(Nat), NEW r \in Nat, Len(w) = r + 1, r <= Len(f),
           Len(f) \in Nat, Chained(f, w, r)
    PROVE  Walk(f, w[1]) = w
<1>1. Stops(f, w, r)
  BY Zenon DEF Chained, Stops
<1> QED
  BY <1>1, WalkStops

-----------------------------------------------------------------------------
(* One list of writes after another.                                       *)

\* h is the file after each of the first n writes.
Does(h, f, ws, n) ==
    h[0] = f /\ \A k \in 1..n : h[k] = WriteAt(h[k - 1], ws[k][1], ws[k][2])

Trace(h, C, f, ws) ==
    h \in [0..Len(ws) -> Seq(C)] /\ Does(h, f, ws, Len(ws)) /\ Apply(f, ws) = h[Len(ws)]

LEMMA ApplySteps ==
    ASSUME NEW C, Zero \in C, NEW f \in Seq(C), NEW ws \in Seq(Nat \X C)
    PROVE  \E h : Trace(h, C, f, ws)
<1> DEFINE D == Seq(C)  n == Len(ws)
           F == [p \in (1..n) \X D |-> WriteAt(p[2], ws[p[1]][1], ws[p[1]][2])]
           h == CHOOSE h : h = [k \in 0..n |-> IF k = 0 THEN f
                                               ELSE WriteAt(h[k - 1], ws[k][1], ws[k][2])]
<1>1. n \in Nat /\ f \in D /\ n \in 0..n
  OBVIOUS
<1>2. ASSUME NEW i \in 1..n, NEW x \in D
      PROVE  WriteAt(x, ws[i][1], ws[i][2]) \in D
  <2>1. ws[i] \in Nat \X C
    OBVIOUS
  <2>2. ws[i][1] \in Nat /\ ws[i][2] \in C
    BY <2>1
  <2> QED
    BY <2>2, WriteAtIs
<1>3. \A i \in 1..n, x \in D : F[<<i, x>>] = WriteAt(x, ws[i][1], ws[i][2])
  OBVIOUS
<1>4. Steps(F, n, D)
  <2> HIDE DEF D
  <2>1. \A p \in (1..n) \X D : WriteAt(p[2], ws[p[1]][1], ws[p[1]][2]) \in D
    BY <1>2
  <2>2. F \in [(1..n) \X D -> D]
    BY <2>1
  <2> QED
    BY <2>2, Zenon DEF Steps
<1>5. Apply(f, ws) = h[n]
  BY Zenon DEF Apply
<1> HIDE DEF F, D, h, n
<1>6. PICK g : Solution(g, n, D, f, F)
  BY <1>1, <1>4, Recursion
<1>7. g \in [0..n -> D] /\ g[0] = f /\ \A i \in 1..n : g[i] = F[<<i, g[i - 1]>>]
  BY <1>6, Zenon DEF Solution
<1>8. ASSUME NEW i \in 1..n
      PROVE  g[i] = WriteAt(g[i - 1], ws[i][1], ws[i][2])
  <2>1. i - 1 \in 0..n
    BY <1>1
  <2>2. g[i - 1] \in D
    BY <2>1, <1>7
  <2> QED
    BY <2>2, <1>3, <1>7, Zenon
<1>9. ASSUME NEW k \in 0..n
      PROVE  g[k] = IF k = 0 THEN f ELSE WriteAt(g[k - 1], ws[k][1], ws[k][2])
  <2>1. k = 0 \/ k \in 1..n
    BY <1>1
  <2>2. CASE k = 0
    BY <2>2, <1>7, Zenon
  <2>3. CASE k # 0
    BY <2>1, <2>3, <1>8, Zenon
  <2> QED
    BY <2>2, <2>3
<1>10. g = [k \in 0..n |-> IF k = 0 THEN f ELSE WriteAt(g[k - 1], ws[k][1], ws[k][2])]
  BY <1>7, <1>9, Zenon
<1>11. h = [k \in 0..n |-> IF k = 0 THEN f ELSE WriteAt(h[k - 1], ws[k][1], ws[k][2])]
  BY <1>10, Zenon DEF h
<1>12. h[0] = f
  <2>1. 0 \in 0..n
    BY <1>1
  <2> QED
    BY <1>11, <2>1, Zenon
<1>13. ASSUME NEW i \in 1..n
       PROVE  h[i] = WriteAt(h[i - 1], ws[i][1], ws[i][2])
  <2>1. i \in 0..n /\ i # 0
    BY <1>1
  <2> QED
    BY <1>11, <2>1, Zenon
<1>14. Does(h, f, ws, n)
  BY <1>12, <1>13, Zenon DEF Does
<1> DEFINE S == {k \in Nat : h[k] \in D}
<1>15. 0 \in S
  BY <1>1, <1>12
<1>16. ASSUME NEW k \in 0..(n - 1), k \in S
       PROVE  k + 1 \in S
  <2>1. k + 1 \in 1..n /\ (k + 1) - 1 = k /\ k + 1 \in Nat
    BY <1>1
  <2>2. h[k + 1] = WriteAt(h[k], ws[k + 1][1], ws[k + 1][2])
    BY <2>1, <1>13
  <2>3. h[k] \in D
    BY <1>16
  <2>4. h[k + 1] \in D
    BY <2>1, <2>2, <2>3, <1>2, Zenon
  <2> QED
    BY <2>1, <2>4
<1> HIDE DEF S
<1>17. 0..n \subseteq S
  BY <1>1, <1>15, <1>16, UpTo
<1>18. \A k \in 0..n : h[k] \in D
  BY <1>17 DEF S
<1>19. h \in [0..n -> D]
  <2>1. h = [k \in 0..n |-> h[k]]
    BY <1>11, Zenon
  <2> QED
    BY <1>18, <2>1, Zenon
<1> QED
  BY <1>5, <1>14, <1>19, Zenon DEF D, n, Trace

\* The writes y are done on the file that the writes x leave.
InTurn(C, f, x, y) ==
    Apply(f, x) \in Seq(C) /\ Apply(f, x \o y) = Apply(Apply(f, x), y)

LEMMA ApplyConcat ==
    ASSUME NEW C, Zero \in C, NEW f \in Seq(C), NEW x \in Seq(Nat \X C), NEW y \in Seq(Nat \X C)
    PROVE  InTurn(C, f, x, y)
<1> DEFINE P == Nat \X C  z == x \o y  n == Len(x)  m == Len(y)  l == n + m
           g == Apply(f, x)
<1>1. n \in Nat /\ m \in Nat /\ l \in Nat /\ n \in 0..n
  OBVIOUS
<1>2. /\ z \in Seq(P) /\ Len(z) = l /\ \A i \in 1..n : z[i] = x[i]
      /\ \A i \in 1..m : z[n + i] = y[i]
  <2>1. x \in Seq(P) /\ y \in Seq(P)
    OBVIOUS
  <2> HIDE DEF P
  <2>2. z \in Seq(P) /\ Concatenated(z, x, y)
    BY <2>1, ConcatIs
  <2> QED
    BY <2>2 DEF Concatenated
<1>3. z \in Seq(Nat \X C) /\ l = Len(z)
  BY <1>2
<1> HIDE DEF z, l, n, m
<1>4. PICK hz : hz \in [0..l -> Seq(C)] /\ Does(hz, f, z, l) /\ Apply(f, z) = hz[l]
  <2>1. \E h : Trace(h, C, f, z)
    BY <1>3, ApplySteps
  <2> QED
    BY <1>3, <2>1, Zenon DEF Trace
<1>5. PICK hx : hx \in [0..n -> Seq(C)] /\ Does(hx, f, x, n) /\ g = hx[n]
  <2>1. \E h : Trace(h, C, f, x)
    BY ApplySteps
  <2> QED
    BY <2>1, Zenon DEF Trace, n
<1>6. g \in Seq(C)
  BY <1>1, <1>5
<1> HIDE DEF g
<1>7. PICK hy : hy \in [0..m -> Seq(C)] /\ Does(hy, g, y, m) /\ Apply(g, y) = hy[m]
  <2>1. \E h : Trace(h, C, g, y)
    BY <1>6, ApplySteps
  <2> QED
    BY <2>1, Zenon DEF Trace, m
<1>8. l = n + m
  BY DEF l
<1> DEFINE S == {k \in Nat : hz[k] = hx[k]}  T == {k \in Nat : hz[n + k] = hy[k]}
<1>9. 0 \in S
  BY <1>4, <1>5 DEF Does
<1>10. ASSUME NEW k \in 0..(n - 1), k \in S
       PROVE  k + 1 \in S
  <2>1. k + 1 \in 1..n /\ k + 1 \in 1..l /\ (k + 1) - 1 = k /\ k + 1 \in Nat
    BY <1>1, <1>8
  <2>2. hz[k + 1] = WriteAt(hz[k], z[k + 1][1], z[k + 1][2])
    BY <2>1, <1>4, Zenon DEF Does
  <2>3. hx[k + 1] = WriteAt(hx[k], x[k + 1][1], x[k + 1][2])
    BY <2>1, <1>5, Zenon DEF Does
  <2>4. z[k + 1] = x[k + 1] /\ hz[k] = hx[k]
    BY <2>1, <1>2, <1>10
  <2> QED
    BY <2>1, <2>2, <2>3, <2>4
<1> HIDE DEF S
<1>11. 0..n \subseteq S
  BY <1>1, <1>9, <1>10, UpTo
<1>12. hz[n] = g
  BY <1>1, <1>5, <1>11 DEF S
<1>13. 0 \in T
  BY <1>1, <1>7, <1>12 DEF Does
<1>14. ASSUME NEW k \in 0..(m - 1), k \in T
       PROVE  k + 1 \in T
  <2> DEFINE j == n + k + 1
  <2>1. /\ k + 1 \in 1..m /\ j \in 1..l /\ (k + 1) - 1 = k /\ k + 1 \in Nat
        /\ j - 1 = n + k /\ j = n + (k + 1)
    BY <1>1, <1>8
  <2> HIDE DEF j
  <2>2. hz[j] = WriteAt(hz[n + k], z[j][1], z[j][2])
    BY <2>1, <1>4, Zenon DEF Does
  <2>3. hy[k + 1] = WriteAt(hy[k], y[k + 1][1], y[k + 1][2])
    BY <2>1, <1>7, Zenon DEF Does
  <2>4. z[j] = y[k + 1] /\ hz[n + k] = hy[k]
    BY <2>1, <1>2, <1>14
  <2>5. hz[j] = hy[k + 1]
    BY <2>2, <2>3, <2>4, Zenon
  <2> QED
    BY <2>1, <2>5
<1> HIDE DEF T
<1>15. 0..m \subseteq T
  BY <1>1, <1>13, <1>14, UpTo
<1>16. hz[l] = hy[m]
  <2>1. m \in T
    BY <1>1, <1>15
  <2> QED
    BY <1>8, <2>1 DEF T
<1> QED
  BY <1>4, <1>6, <1>7, <1>16, Zenon DEF g, z, InTurn

-----------------------------------------------------------------------------
(* What a file holds.  Each cell has an owner: the file header, a table    *)
(* block, a partition or a trailer.  A region is owned cell by cell, so    *)
(* that two regions of different owners cannot overlap.                    *)

OfHeader == <<"header", 0>>
OfTrailer == <<"trailer", 0>>
OfBlock(off) == <<"block", off>>
OfPart(u) == <<"part", u>>

\* All n cells from off on are of this owner.
Owned(own, owner, off, n) == \A o \in off..(off + n - 1) : own[o] = owner

\* A table block as it was written, with its live entries es.
BlockHeld(f, own, off, next, algo, es) ==
    /\ off \in Nat \ {0} /\ off + Len(es) < Len(f)
    /\ At(f, off) = BlockCell(Len(es), next, algo, TableHash(algo, next, es))
    /\ \A i \in 1..Len(es) : At(f, off + i) = es[i] /\ es[i].t = "ent"
    /\ Owned(own, OfBlock(off), off, Len(es) + 1)

\* An entry as add_partition makes it: all its fields, and no other.
IsEntry(e) == e = Entry(Raw, e.uid, e.start, e.max, e.used, e.algo, e.hash)

\* A table is the sequence of its blocks: where each is, and the entries in it.
Tables(C) == Seq([offset : Nat \ {0}, algo : {"None", "Sha256"}, entries : Seq(C)])
Successor(B, i) == IF i < Len(B) THEN B[i + 1].offset ELSE 0

BlocksHeld(f, own, B) ==
    \A i \in 1..Len(B) : BlockHeld(f, own, B[i].offset, Successor(B, i), B[i].algo, B[i].entries)
BlocksApart(B) == \A i, j \in 1..Len(B) : B[i].offset = B[j].offset => i = j
UidsApart(B) ==
    \A i, j \in 1..Len(B) : \A s \in 1..Len(B[i].entries), t \in 1..Len(B[j].entries) :
        B[i].entries[s].uid = B[j].entries[t].uid => i = j /\ s = t

LEMMA BlockRead ==
    ASSUME NEW C, NEW f \in Seq(C), NEW own, NEW off, NEW next, NEW algo, NEW es \in Seq(C),
           BlockHeld(f, own, off, next, algo, es)
    PROVE  /\ BlockReadable(f, off) /\ BlockAt(f, off) = At(f, off) /\ BlockAt(f, off).next = next
           /\ EntriesAt(f, off) = es
<1> DEFINE c == Len(es)  b == BlockCell(c, next, algo, TableHash(algo, next, es))
<1>1. /\ off \in Nat \ {0} /\ off + c < Len(f) /\ c \in Nat
      /\ At(f, off) = b /\ \A i \in 1..c : At(f, off + i) = es[i] /\ es[i].t = "ent"
  BY DEF BlockHeld
<1>2. b.t = "blk" /\ b.count = c /\ b.next = next
  BY DEF BlockCell
<1> HIDE DEF c, b
<1>3. BlockAt(f, off) = b
  BY <1>1, <1>2 DEF BlockAt, At
<1>4. off \in 0..(Len(f) - 1)
  BY <1>1
<1>5. BlockParses(f, off)
  BY <1>1, <1>2, <1>4 DEF BlockParses, At
<1>6. \A i \in 1..c : EntryCell(f, off, i) = es[i]
  <2>1. ASSUME NEW i \in 1..c
        PROVE  off + TableHeaderSize + i = (off + i) + 1
    BY <1>1 DEF TableHeaderSize
  <2> QED
    BY <1>1, <2>1, Zenon DEF EntryCell, At
<1>7. \A i \in 1..c : es[i].t = "ent"
  BY <1>1
<1>8. BlockReadable(f, off)
  <2>1. off + TableHeaderSize + BlockAt(f, off).count <= Len(f)
    BY <1>1, <1>2, <1>3 DEF TableHeaderSize
  <2>2. \A i \in 1..BlockAt(f, off).count : EntryCell(f, off, i).t \in {"ent", "zero"}
    BY <1>2, <1>3, <1>6, <1>7
  <2> QED
    BY <1>5, <2>1, <2>2 DEF BlockReadable
<1>9. EntriesAt(f, off) = es
  <2>1. EntriesAt(f, off) = [i \in 1..c |->
            IF EntryCell(f, off, i).t = "ent" THEN EntryCell(f, off, i) ELSE NilEntry]
    BY <1>2, <1>3, Zenon DEF EntriesAt
  <2>2. \A i \in 1..c :
            (IF EntryCell(f, off, i).t = "ent" THEN EntryCell(f, off, i) ELSE NilEntry) = es[i]
    BY <1>6, <1>7
  <2>3. EntriesAt(f, off) = [i \in 1..c |-> es[i]]
    BY <2>1, <2>2, Zenon
  <2>4. [i \in 1..c |-> es[i]] = es
    BY DEF c
  <2> QED
    BY <2>3, <2>4
<1> QED
  BY <1>1, <1>2, <1>3, <1>8, <1>9

\* The offsets the walk along the table meets.
OffsetRow(B) == [i \in 1..(Len(B) + 1) |-> IF i <= Len(B) THEN B[i].offset ELSE 0]

LEMMA OffsetRowIs ==
    ASSUME NEW B, Len(B) \in Nat, \A i \in 1..Len(B) : B[i].offset \in Nat \ {0}
    PROVE  /\ OffsetRow(B) \in Seq(Nat) /\ Len(OffsetRow(B)) = Len(B) + 1
           /\ OffsetRow(B)[Len(B) + 1] = 0
           /\ \A i \in 1..Len(B) : OffsetRow(B)[i] = B[i].offset /\ OffsetRow(B)[i + 1] = Successor(B, i)
<1> DEFINE w == OffsetRow(B)  n == Len(B)  m == n + 1
<1>1. n \in Nat /\ m \in Nat /\ m = n + 1 /\ ~(m <= n)
  OBVIOUS
<1>2. \A i \in 1..m : (IF i <= n THEN B[i].offset ELSE 0) \in Nat
  BY <1>1
<1>3. w = [i \in 1..m |-> IF i <= n THEN B[i].offset ELSE 0]
  BY Zenon DEF OffsetRow
<1> HIDE DEF w, n, m
<1>4. w \in Seq(Nat) /\ Len(w) = m
  BY <1>1, <1>2, <1>3
<1>5. w[m] = 0
  BY <1>1, <1>3
<1>6. ASSUME NEW i \in 1..n
      PROVE  w[i] = B[i].offset /\ w[i + 1] = IF i < n THEN B[i + 1].offset ELSE 0
  <2> DEFINE j == i + 1
  <2>1. i \in 1..m /\ i <= n /\ j \in 1..m /\ (j <= n <=> i < n)
    BY <1>1
  <2> HIDE DEF j
  <2>2. w[i] = B[i].offset /\ w[j] = IF i < n THEN B[j].offset ELSE 0
    BY <1>3, <2>1
  <2> QED
    BY <2>2 DEF j
<1> QED
  BY <1>4, <1>5, <1>6, Zenon DEF w, n, m, Successor

-----------------------------------------------------------------------------
(* Writing in a region.                                                    *)

\* From f to g only cells of this owner changed, and no other than OfTrailer wrote a
\* trailer.
CellsDiffer(f, g, own, owner) ==
    /\ Len(f) <= Len(g)
    /\ \A o \in 0..(Len(f) - 1) : own[o] # owner => At(g, o) = At(f, o)
    /\ owner # OfTrailer =>
        \A o \in 0..(Len(g) - 1) :
            (o < Len(f) /\ At(g, o) = At(f, o)) \/ At(g, o).t # "trl"

\* The cells are in g from off on, and g is as long as that makes it.
Wrote(f, g, off, cells) ==
    /\ Len(g) = IF Len(cells) = 0 \/ off + Len(cells) <= Len(f) THEN Len(f) ELSE off + Len(cells)
    /\ \A i \in 1..Len(cells) : At(g, off + i - 1) = cells[i]

LEMMA CellsWritten ==
    ASSUME NEW C, Zero \in C, NEW f \in Seq(C), NEW off \in Nat, NEW cells \in Seq(C),
           NEW own, NEW owner, Owned(own, owner, off, Len(cells)),
           \A i \in 1..Len(cells) : cells[i].t # "trl",
           NEW g, g = Apply(f, WriteCells(off, cells))
    PROVE  g \in Seq(C) /\ CellsDiffer(f, g, own, owner) /\ Wrote(f, g, off, cells)
<1> DEFINE n == Len(cells)  w == WriteCells(off, cells)  lf == Len(f)  lg == Len(g)
<1>1. w \in Seq(Nat \X C) /\ Len(w) = n
  BY WriteCellsInRow
<1>2. SubSeq(w, 1, n) = w
  <2> HIDE DEF w
  <2> QED
    BY <1>1
<1>3. n \in 0..n /\ n \in Nat /\ lf \in Nat
  OBVIOUS
<1>4. g \in Seq(C) /\ Overlaid(g, f, cells, off, n)
  BY <1>2, <1>3, ApplyCells
<1>5. lg \in Nat
  BY <1>4
<1> HIDE DEF n, w, lf, lg
<1>6. /\ lg = IF n = 0 \/ off + n <= lf THEN lf ELSE off + n
      /\ \A o \in 0..(lg - 1) :
            At(g, o) = IF off <= o /\ o < off + n THEN cells[o - off + 1]
                       ELSE IF o < lf THEN At(f, o) ELSE Zero
  BY <1>4, Zenon DEF Overlaid, lf, lg, At
<1>7. \A i \in 1..n : At(g, off + i - 1) = cells[i]
  <2>1. ASSUME NEW i \in 1..n
        PROVE  At(g, off + i - 1) = cells[i]
    <3> DEFINE o == off + i - 1
    <3>1. o \in 0..(lg - 1) /\ off <= o /\ o < off + n /\ o - off + 1 = i
      BY <1>3, <1>6
    <3> HIDE DEF o
    <3>2. At(g, o) = cells[o - off + 1]
      BY <1>6, <3>1
    <3> QED
      BY <3>1, <3>2 DEF o
  <2> QED
    BY <2>1
<1>8. \A o \in 0..(lf - 1) : own[o] # owner => At(g, o) = At(f, o)
  <2>1. ASSUME NEW o \in 0..(lf - 1), own[o] # owner
        PROVE  At(g, o) = At(f, o)
    <3>1. o \in 0..(lg - 1) /\ o < lf
      BY <1>3, <1>5, <1>6
    <3>2. ~(off <= o /\ o < off + n)
      <4>1. \A x \in off..(off + n - 1) : own[x] = owner
        BY DEF Owned, n
      <4>2. o \notin off..(off + n - 1)
        BY <2>1, <4>1
      <4> QED
        BY <1>3, <4>2
    <3> QED
      BY <1>6, <3>1, <3>2
  <2> QED
    BY <2>1
<1>9. \A o \in 0..(lg - 1) : (o < lf /\ At(g, o) = At(f, o)) \/ At(g, o).t # "trl"
  <2>1. ASSUME NEW o \in 0..(lg - 1)
        PROVE  (o < lf /\ At(g, o) = At(f, o)) \/ At(g, o).t # "trl"
    <3>1. CASE off <= o /\ o < off + n
      <4>1. o - off + 1 \in 1..n
        BY <1>3, <1>5, <3>1
      <4>2. At(g, o) = cells[o - off + 1]
        BY <1>6, <3>1
      <4>3. cells[o - off + 1].t # "trl"
        BY <4>1 DEF n
      <4> QED
        BY <4>2, <4>3
    <3>2. CASE ~(off <= o /\ o < off + n) /\ o < lf
      BY <1>6, <3>2
    <3>3. CASE ~(off <= o /\ o < off + n) /\ ~(o < lf)
      <4>1. At(g, o) = Zero
        BY <1>6, <3>3
      <4> QED
        BY <4>1 DEF Zero
    <3> QED
      BY <3>1, <3>2, <3>3
  <2> QED
    BY <2>1
<1>10. lf <= lg
  BY <1>3, <1>6
<1>11. CellsDiffer(f, g, own, owner)
  BY <1>8, <1>9, <1>10, Zenon DEF CellsDiffer, lf, lg
<1>12. Wrote(f, g, off, cells)
  BY <1>6, <1>7, Zenon DEF Wrote, lf, lg, n
<1> QED
  BY <1>4, <1>11, <1>12

\* What the others own is as it was.
LEMMA BlockKept ==
    ASSUME NEW f, NEW g, NEW own, NEW owner, CellsDiffer(f, g, own, owner), Len(f) \in Nat, Len(g) \in Nat,
           NEW off, NEW next, NEW algo, NEW es, BlockHeld(f, own, off, next, algo, es),
           OfBlock(off) # owner, Len(es) \in Nat
    PROVE  BlockHeld(g, own, off, next, algo, es)
<1> DEFINE n == Len(es)
<1>1. /\ off \in Nat \ {0} /\ off + n < Len(f)
      /\ At(f, off) = BlockCell(n, next, algo, TableHash(algo, next, es))
      /\ \A i \in 1..n : At(f, off + i) = es[i] /\ es[i].t = "ent"
      /\ \A o \in off..(off + (n + 1) - 1) : own[o] = OfBlock(off)
  BY DEF BlockHeld, Owned
<1>2. Len(f) <= Len(g) /\ \A o \in 0..(Len(f) - 1) : own[o] # owner => At(g, o) = At(f, o)
  BY DEF CellsDiffer
<1> HIDE DEF n
<1>3. n \in Nat
  BY DEF n
<1>4. \A o \in off..(off + n) : At(g, o) = At(f, o)
  <2>1. ASSUME NEW o \in off..(off + n)
        PROVE  At(g, o) = At(f, o)
    <3>1. o \in 0..(Len(f) - 1) /\ o \in off..(off + (n + 1) - 1)
      BY <1>1, <1>3
    <3>2. own[o] = OfBlock(off)
      BY <1>1, <3>1
    <3> QED
      BY <1>2, <3>1, <3>2
  <2> QED
    BY <2>1
<1>5. off + n < Len(g)
  BY <1>1, <1>2, <1>3
<1>6. At(g, off) = At(f, off)
  <2>1. off \in off..(off + n)
    BY <1>1, <1>3
  <2> QED
    BY <1>4, <2>1
<1>7. \A i \in 1..n : At(g, off + i) = es[i] /\ es[i].t = "ent"
  <2>1. \A i \in 1..n : off + i \in off..(off + n)
    BY <1>1, <1>3
  <2> QED
    BY <1>1, <1>4, <2>1
<1> QED
  BY <1>1, <1>5, <1>6, <1>7, Zenon DEF BlockHeld, Owned, n

\* The same cells at the same places make the same data.
LEMMA SameSlice ==
    ASSUME NEW C, NEW f \in Seq(C), NEW D, NEW g \in Seq(D), NEW st \in Nat, NEW n \in Nat,
           st + n <= Len(f), st + n <= Len(g),
           \A o \in st..(st + n - 1) : At(g, o) = At(f, o)
    PROVE  SubSeq(g, st + 1, st + n) = SubSeq(f, st + 1, st + n)
<1> DEFINE x == st + 1  y == st + n  p == SubSeq(f, x, y)  q == SubSeq(g, x, y)
<1>1. x \in Nat \ {0} /\ y \in 0..Len(f) /\ y \in 0..Len(g)
  OBVIOUS
<1>2. /\ p \in Seq(C) /\ Len(p) = IF x <= y THEN y - x + 1 ELSE 0
      /\ \A i \in 1..Len(p) : p[i] = f[x + i - 1]
  <2> HIDE DEF x, y
  <2> QED
    BY <1>1, SliceType
<1>3. /\ q \in Seq(D) /\ Len(q) = IF x <= y THEN y - x + 1 ELSE 0
      /\ \A i \in 1..Len(q) : q[i] = g[x + i - 1]
  <2> HIDE DEF x, y
  <2> QED
    BY <1>1, SliceType
<1>4. (IF x <= y THEN y - x + 1 ELSE 0) = n
  OBVIOUS
<1> HIDE DEF p, q
<1>5. Len(p) = n /\ Len(q) = n
  BY <1>2, <1>3, <1>4
<1>6. \A i \in 1..n : p[i] = q[i]
  <2>1. ASSUME NEW i \in 1..n
        PROVE  p[i] = q[i]
    <3>1. st + i - 1 \in st..(st + n - 1) /\ x + i - 1 = (st + i - 1) + 1
      OBVIOUS
    <3>2. At(g, st + i - 1) = At(f, st + i - 1)
      BY <3>1
    <3> DEFINE o == st + i - 1
    <3>3. g[o + 1] = f[o + 1]
      BY <3>2 DEF At
    <3>4. x + i - 1 = o + 1
      BY <3>1
    <3> HIDE DEF o, x
    <3> QED
      BY <1>2, <1>3, <1>5, <3>3, <3>4
  <2> QED
    BY <2>1
<1>7. p = q
  BY <1>2, <1>3, <1>5, <1>6
<1> QED
  BY <1>7 DEF p, q

\* The owners of the cells before lim are the same.
SameOwners(own, own2, lim) == \A o \in 0..(lim - 1) : own2[o] = own[o]

LEMMA BlockOwned ==
    ASSUME NEW f, Len(f) \in Nat, NEW own, NEW own2, NEW lim \in Nat, Len(f) <= lim,
           SameOwners(own, own2, lim), NEW off, NEW next, NEW algo, NEW es,
           BlockHeld(f, own, off, next, algo, es), Len(es) \in Nat
    PROVE  BlockHeld(f, own2, off, next, algo, es)
<1> DEFINE n == Len(es)
<1>1. off \in Nat \ {0} /\ off + n < Len(f) /\ \A o \in off..(off + (n + 1) - 1) : own[o] = OfBlock(off)
  BY DEF BlockHeld, Owned
<1>2. \A o \in off..(off + (n + 1) - 1) : own2[o] = OfBlock(off)
  <2>1. n \in Nat
    OBVIOUS
  <2> HIDE DEF n
  <2>2. \A o \in off..(off + (n + 1) - 1) : o \in 0..(lim - 1)
    BY <1>1, <2>1
  <2> QED
    BY <1>1, <2>2 DEF SameOwners
<1> QED
  BY <1>2, Zenon DEF BlockHeld, Owned, n

LEMMA TablesGrow ==
    ASSUME NEW C, NEW D, C \subseteq D, NEW B \in Tables(C)
    PROVE  B \in Tables(D)
<1> DEFINE R == [offset : Nat \ {0}, algo : {"None", "Sha256"}, entries : Seq(C)]
           Q == [offset : Nat \ {0}, algo : {"None", "Sha256"}, entries : Seq(D)]
<1>1. R \subseteq Q
  <2>1. Seq(C) \subseteq Seq(D)
    OBVIOUS
  <2> DEFINE S == Seq(C)  T == Seq(D)
  <2> HIDE DEF S, T
  <2>2. [offset : Nat \ {0}, algo : {"None", "Sha256"}, entries : S]
            \subseteq [offset : Nat \ {0}, algo : {"None", "Sha256"}, entries : T]
    BY <2>1 DEF S, T
  <2> QED
    BY <2>2 DEF S, T
<1>2. B \in Seq(R)
  BY DEF Tables
<1> HIDE DEF R, Q
<1>3. B \in Seq(Q)
  BY <1>1, <1>2
<1> QED
  BY <1>3 DEF Tables, Q

\* The table with other entries in its k-th block.
Put(B, k, es) == [B EXCEPT ![k] = [offset |-> B[k].offset, algo |-> B[k].algo, entries |-> es]]

LEMMA PutIs ==
    ASSUME NEW C, NEW B \in Tables(C), NEW k \in 1..Len(B), NEW es \in Seq(C)
    PROVE  /\ Put(B, k, es) \in Tables(C) /\ Len(Put(B, k, es)) = Len(B)
           /\ \A i \in 1..Len(B) : /\ Put(B, k, es)[i].offset = B[i].offset
                                   /\ Put(B, k, es)[i].algo = B[i].algo
                                   /\ Successor(Put(B, k, es), i) = Successor(B, i)
                                   /\ Put(B, k, es)[i].entries = IF i = k THEN es ELSE B[i].entries
<1> DEFINE R == [offset : Nat \ {0}, algo : {"None", "Sha256"}, entries : Seq(C)]
           r == [offset |-> B[k].offset, algo |-> B[k].algo, entries |-> es]
           P == Put(B, k, es)
<1>1. B \in Seq(R)
  BY DEF Tables
<1>2. r \in R
  <2>1. B[k] \in R
    <3> HIDE DEF R
    <3> QED
      BY <1>1
  <2> QED
    BY <2>1
<1>3. r.offset = B[k].offset /\ r.algo = B[k].algo /\ r.entries = es
  OBVIOUS
<1>4. P = [B EXCEPT ![k] = r]
  BY Zenon DEF Put
<1> HIDE DEF R, r, P
<1>5. P \in Seq(R) /\ Len(P) = Len(B) /\ Len(B) \in Nat
  BY <1>1, <1>2, <1>4
<1>6. \A i \in 1..Len(B) : P[i] = IF i = k THEN r ELSE B[i]
  BY <1>1, <1>4
<1>7. \A i \in 1..Len(B) : P[i].offset = B[i].offset /\ P[i].algo = B[i].algo
                           /\ P[i].entries = IF i = k THEN es ELSE B[i].entries
  BY <1>3, <1>6
<1>8. ASSUME NEW i \in 1..Len(B)
      PROVE  Successor(P, i) = Successor(B, i)
  <2>1. CASE i < Len(B)
    <3>1. i + 1 \in 1..Len(B)
      BY <1>5, <2>1
    <3> QED
      BY <1>5, <1>7, <2>1, <3>1 DEF Successor
  <2>2. CASE ~(i < Len(B))
    BY <1>5, <2>2 DEF Successor
  <2> QED
    BY <2>1, <2>2
<1> QED
  BY <1>5, <1>7, <1>8 DEF P, R, Tables

\* The table with one block more.
Grown(B, r) == Append(B, r)
ExtendedRow(off, algo, es) == [offset |-> off, algo |-> algo, entries |-> es]

\* P is the table B and a last, m-th block.
Extends(C, P, B, m, off, algo, es) ==
    /\ P \in Tables(C) /\ Len(P) = m /\ Len(B) \in Nat
    /\ P[m].offset = off /\ P[m].algo = algo /\ P[m].entries = es /\ Successor(P, m) = 0
    /\ \A i \in 1..Len(B) : /\ P[i] = B[i]
                            /\ Successor(P, i) = IF i = Len(B) THEN off ELSE Successor(B, i)

LEMMA GrownIs ==
    ASSUME NEW C, NEW B \in Tables(C), NEW off \in Nat \ {0}, NEW algo \in {"None", "Sha256"},
           NEW es \in Seq(C), NEW P, P = Grown(B, ExtendedRow(off, algo, es)), NEW m, m = Len(B) + 1
    PROVE  Extends(C, P, B, m, off, algo, es)
<1> DEFINE R == [offset : Nat \ {0}, algo : {"None", "Sha256"}, entries : Seq(C)]
           r == ExtendedRow(off, algo, es)
<1>1. B \in Seq(R)
  BY DEF Tables
<1>2. r \in R /\ r.offset = off /\ r.algo = algo /\ r.entries = es
  BY DEF ExtendedRow
<1>3. P = Append(B, r)
  BY Zenon DEF Grown
<1> HIDE DEF R, r
<1>4. /\ P \in Seq(R) /\ Len(P) = m /\ Len(B) \in Nat /\ P[m] = r
      /\ \A i \in 1..Len(B) : P[i] = B[i]
  BY <1>1, <1>2, <1>3
<1>5. Successor(P, m) = 0
  BY <1>4 DEF Successor
<1>6. ASSUME NEW i \in 1..Len(B)
      PROVE  Successor(P, i) = IF i = Len(B) THEN off ELSE Successor(B, i)
  <2>1. CASE i = Len(B)
    <3>1. i < Len(P) /\ i + 1 = m
      BY <1>4, <2>1
    <3>2. P[i + 1].offset = off
      BY <1>2, <1>4, <3>1
    <3> QED
      BY <2>1, <3>1, <3>2, Zenon DEF Successor
  <2>2. CASE i # Len(B)
    <3> DEFINE j == i + 1
    <3>1. i < Len(P) /\ i < Len(B) /\ j \in 1..Len(B)
      BY <1>4, <2>2
    <3> HIDE DEF j
    <3>2. P[j] = B[j]
      BY <1>4, <3>1
    <3> QED
      BY <2>2, <3>1, <3>2, Zenon DEF Successor, j
  <2> QED
    BY <2>1, <2>2
<1> QED
  BY <1>2, <1>4, <1>5, <1>6, Zenon DEF R, Tables, Extends

NoneAt(B, at) == \A i \in 1..Len(B) : B[i].offset # at
\* The write of the link: block n of the table, with its new next pointer.
LinkCell(B, n, at) ==
    BlockCell(Len(B[n].entries), at, B[n].algo, TableHash(B[n].algo, at, B[n].entries))
LinkWrites(B, n, at) == WriteBlock(B[n].offset, at, B[n].algo, B[n].entries)
-----------------------------------------------------------------------------
(* Where a reader starts.                                                  *)

\* The trailer at o names the head h, and none follows it.
LastTrailer(f, own, o, h) ==
    /\ At(f, o) = TrailerCell(h) /\ own[o] = OfTrailer /\ h < o
    /\ \A x \in (o + 1)..(Len(f) - 1) : At(f, x).t # "trl"

HeadIs(f, own, h) ==
    /\ Len(f) > 0 /\ own[0] = OfHeader /\ At(f, 0).t = "hdr"
    /\ \/ At(f, 0).pto = h
       \/ At(f, 0).pto = Sentinel /\ \E o \in 1..(Len(f) - 1) : LastTrailer(f, own, o, h)

LEMMA HeadParsed ==
    ASSUME NEW C, NEW f \in Seq(C), NEW own, NEW h \in Nat \ {0}, HeadIs(f, own, h),
           BlockParses(f, h)
    PROVE  HeaderReadable(f) /\ ResolveHead(f) = h
<1>1. /\ Len(f) > 0 /\ Len(f) \in Nat /\ At(f, 0) = f[1] /\ f[1].t = "hdr" /\ f # <<>>
  BY DEF HeadIs, At
<1>2. h # Sentinel
  BY DEF Sentinel
<1>3. CASE At(f, 0).pto = h
  BY <1>1, <1>2, <1>3 DEF HeaderReadable, ResolveHead
<1>4. CASE At(f, 0).pto = Sentinel /\ \E o \in 1..(Len(f) - 1) : LastTrailer(f, own, o, h)
  <2>1. PICK o \in 1..(Len(f) - 1) : LastTrailer(f, own, o, h)
    BY <1>4
  <2>2. /\ f[o + 1] = TrailerCell(h) /\ h < o
        /\ \A x \in (o + 1)..(Len(f) - 1) : f[x + 1].t # "trl"
    BY <2>1 DEF LastTrailer, At
  <2>3. f[o + 1].t = "trl" /\ f[o + 1].head = h
    BY <2>2 DEF TrailerCell
  <2>4. BlockParses(f, h)
    OBVIOUS
  <2>5. o \in Trailers(f)
    <3>1. o \in 0..(Len(f) - 1) /\ f[o + 1].head + TableHeaderSize <= o
      BY <1>1, <2>2, <2>3 DEF TableHeaderSize
    <3>2. BlockParses(f, f[o + 1].head)
      BY <2>3, <2>4, Zenon
    <3> QED
      BY <2>3, <3>1, <3>2, Zenon DEF Trailers
  <2>6. \A x \in Trailers(f) : x \in 0..(Len(f) - 1) /\ f[x + 1].t = "trl"
    BY Zenon DEF Trailers
  <2> DEFINE T == Trailers(f)
  <2> HIDE DEF T
  <2>7. \A x \in T : x <= o
    <3>1. ASSUME NEW x \in T, ~(x <= o)
          PROVE  FALSE
      <4>1. x \in 0..(Len(f) - 1) /\ f[x + 1].t = "trl"
        BY <2>6 DEF T
      <4>2. x \in (o + 1)..(Len(f) - 1)
        BY <1>1, <3>1, <4>1
      <4> QED
        BY <2>2, <4>1, <4>2
    <3> QED
      BY <3>1
  <2>8. T \in SUBSET Nat /\ o \in T /\ T # {}
    <3>1. \A x \in T : x \in Nat
      BY <2>6 DEF T
    <3>2. o \in T
      BY <2>5 DEF T
    <3> QED
      BY <3>1, <3>2
  <2>9. Max(T) \in T /\ \A x \in T : x <= Max(T)
    BY <2>7, <2>8, MaxOfNat
  <2>10. Max(T) = o
    <3> DEFINE y == Max(T)
    <3>1. y \in T /\ \A x \in T : x <= y
      BY <2>9
    <3> HIDE DEF y
    <3>2. y \in Nat /\ o \in Nat /\ y <= o /\ o <= y
      BY <2>7, <2>8, <3>1
    <3>3. y = o
      BY <3>2
    <3> QED
      BY <3>3 DEF y
  <2>11. HeaderReadable(f)
    BY <1>1, <2>8, Zenon DEF HeaderReadable, T
  <2>12. ResolveHead(f) = h
    <3>1. f[1].pto = Sentinel
      BY <1>1, <1>4
    <3> QED
      BY <2>3, <2>10, <3>1, Zenon DEF ResolveHead, T
  <2> QED
    BY <2>11, <2>12
<1> QED
  BY <1>3, <1>4 DEF HeadIs

LEMMA HeadFound ==
    ASSUME NEW C, NEW f \in Seq(C), NEW own, NEW h \in Nat \ {0}, HeadIs(f, own, h),
           BlockReadable(f, h)
    PROVE  HeaderReadable(f) /\ ResolveHead(f) = h
<1>1. BlockParses(f, h)
  BY DEF BlockReadable
<1> QED
  BY <1>1, HeadParsed

LEMMA HeadKept ==
    ASSUME NEW C, NEW f \in Seq(C), NEW g \in Seq(C), NEW own, NEW owner,
           owner # OfHeader, owner # OfTrailer, CellsDiffer(f, g, own, owner),
           NEW h, HeadIs(f, own, h)
    PROVE  HeadIs(g, own, h)
<1>1. Len(f) \in Nat /\ Len(g) \in Nat /\ Len(f) <= Len(g) /\ Len(f) > 0
  BY DEF CellsDiffer, HeadIs
<1>2. \A o \in 0..(Len(f) - 1) : own[o] # owner => At(g, o) = At(f, o)
  BY DEF CellsDiffer
<1>3. At(g, 0) = At(f, 0)
  <2>1. 0 \in 0..(Len(f) - 1) /\ own[0] # owner
    BY <1>1 DEF HeadIs
  <2> QED
    BY <1>2, <2>1
<1>4. ASSUME NEW o \in 1..(Len(f) - 1), LastTrailer(f, own, o, h)
      PROVE  o \in 1..(Len(g) - 1) /\ LastTrailer(g, own, o, h)
  <2>1. o \in 1..(Len(g) - 1) /\ o \in 0..(Len(f) - 1)
    BY <1>1
  <2>2. own[o] # owner
    BY <1>4 DEF LastTrailer
  <2>3. At(g, o) = At(f, o)
    BY <1>2, <2>1, <2>2
  <2>4. \A x \in (o + 1)..(Len(g) - 1) : At(g, x).t # "trl"
    <3>1. ASSUME NEW x \in (o + 1)..(Len(g) - 1)
          PROVE  At(g, x).t # "trl"
      <4>1. x \in 0..(Len(g) - 1)
        BY <1>1
      <4>2. (x < Len(f) /\ At(g, x) = At(f, x)) \/ At(g, x).t # "trl"
        BY <4>1 DEF CellsDiffer
      <4>3. CASE x < Len(f) /\ At(g, x) = At(f, x)
        <5>1. x \in (o + 1)..(Len(f) - 1)
          BY <1>1, <4>3
        <5>2. At(f, x).t # "trl"
          BY <1>4, <5>1 DEF LastTrailer
        <5> QED
          BY <4>3, <5>2
      <4> QED
        BY <4>2, <4>3
    <3> QED
      BY <3>1
  <2> QED
    BY <1>4, <2>1, <2>3, <2>4 DEF LastTrailer
<1> QED
  BY <1>1, <1>3, <1>4 DEF HeadIs

LEMMA HeadOwned ==
    ASSUME NEW f, Len(f) \in Nat, NEW own, NEW own2, NEW lim \in Nat, Len(f) <= lim,
           SameOwners(own, own2, lim), NEW h, HeadIs(f, own, h)
    PROVE  HeadIs(f, own2, h)
<1>1. \A o \in 0..(Len(f) - 1) : own2[o] = own[o]
  BY DEF SameOwners
<1>2. own2[0] = own[0]
  BY <1>1 DEF HeadIs
<1>3. ASSUME NEW o \in 1..(Len(f) - 1), LastTrailer(f, own, o, h)
      PROVE  LastTrailer(f, own2, o, h)
  <2>1. own2[o] = own[o]
    BY <1>1
  <2> QED
    BY <1>3, <2>1 DEF LastTrailer
<1> QED
  BY <1>2, <1>3 DEF HeadIs

-----------------------------------------------------------------------------
(* The live entries, one after the other.                                  *)

Lists(B) == [i \in 1..Len(B) |-> B[i].entries]

LEMMA ListsType ==
    ASSUME NEW C, NEW B \in Tables(C)
    PROVE  /\ Lists(B) \in Seq(Seq(C)) /\ Len(Lists(B)) = Len(B) /\ Len(B) \in Nat
           /\ \A i \in 1..Len(B) : Lists(B)[i] = B[i].entries
<1> DEFINE R == [offset : Nat \ {0}, algo : {"None", "Sha256"}, entries : Seq(C)]
           S == Seq(C)  L == Lists(B)
<1>1. B \in Seq(R)
  BY DEF Tables
<1>2. \A r \in R : r.entries \in S
  OBVIOUS
<1> HIDE DEF R
<1>3. Len(B) \in Nat /\ \A i \in 1..Len(B) : B[i] \in R
  BY <1>1
<1>4. \A i \in 1..Len(B) : B[i].entries \in S
  BY <1>2, <1>3
<1>5. L = [i \in 1..Len(B) |-> B[i].entries]
  BY Zenon DEF Lists
<1> HIDE DEF S, L
<1>6. L \in Seq(S) /\ Len(L) = Len(B) /\ \A i \in 1..Len(B) : L[i] = B[i].entries
  BY <1>3, <1>4, <1>5
<1> QED
  BY <1>3, <1>6 DEF S, L

LEMMA ListedAt ==
    ASSUME NEW C, NEW B \in Tables(C), NEW F, F = FlattenSeq(Lists(B)),
           NEW i \in 1..Len(B), NEW s \in 1..Len(B[i].entries)
    PROVE  \E x \in DOMAIN F : F[x] = B[i].entries[s]
<1> DEFINE L == Lists(B)
<1>1. L \in Seq(Seq(C)) /\ Len(L) = Len(B) /\ L[i] = B[i].entries
  BY ListsType
<1>2. F = FlattenSeq(L)
  OBVIOUS
<1> HIDE DEF L
<1>3. F \in Seq(C)
  BY <1>1, <1>2, FlattenType
<1> DEFINE x == Len(Upto(L, i - 1)) + s
<1>4. x \in 1..Len(F) /\ F[x] = L[i][s]
  <2>1. i \in 1..Len(L) /\ s \in 1..Len(L[i])
    BY <1>1
  <2>2. /\ Len(Upto(L, i - 1)) + s \in 1..Len(FlattenSeq(L))
        /\ FlattenSeq(L)[Len(Upto(L, i - 1)) + s] = L[i][s]
    BY <1>1, <2>1, FlattenAt
  <2> QED
    BY <1>2, <2>2
<1> HIDE DEF x
<1>5. x \in DOMAIN F
  BY <1>3, <1>4
<1> QED
  BY <1>1, <1>4, <1>5, Zenon

Occurs(F, e) == \E x \in DOMAIN F : F[x] = e

LEMMA ListedOccurs ==
    ASSUME NEW C, NEW B \in Tables(C), NEW i \in 1..Len(B), NEW s \in 1..Len(B[i].entries)
    PROVE  Occurs(FlattenSeq(Lists(B)), B[i].entries[s])
<1> DEFINE F == FlattenSeq(Lists(B))
<1>1. F = FlattenSeq(Lists(B))
  OBVIOUS
<1> HIDE DEF F
<1>2. \E x \in DOMAIN F : F[x] = B[i].entries[s]
  BY <1>1, ListedAt
<1> QED
  BY <1>1, <1>2, Zenon DEF Occurs

LEMMA ListedWhere ==
    ASSUME NEW C, NEW B \in Tables(C), NEW F, F = FlattenSeq(Lists(B)), NEW x \in DOMAIN F
    PROVE  \E i \in 1..Len(B) : \E s \in 1..Len(B[i].entries) : F[x] = B[i].entries[s]
<1> DEFINE L == Lists(B)
<1>1. /\ L \in Seq(Seq(C)) /\ Len(L) = Len(B)
      /\ \A i \in 1..Len(B) : L[i] = B[i].entries
  BY ListsType
<1>2. F = FlattenSeq(L)
  OBVIOUS
<1> HIDE DEF L
<1>3. F \in Seq(C)
  BY <1>1, <1>2, FlattenType
<1>4. x \in 1..Len(FlattenSeq(L))
  BY <1>2, <1>3
<1>5. PICK i \in 1..Len(L) : \E s \in 1..Len(L[i]) : x = Len(Upto(L, i - 1)) + s
  BY <1>1, <1>4, FlattenWhere
<1>6. PICK s \in 1..Len(L[i]) : x = Len(Upto(L, i - 1)) + s
  BY <1>5
<1>7. FlattenSeq(L)[Len(Upto(L, i - 1)) + s] = L[i][s]
  BY <1>1, FlattenAt
<1>8. F[x] = L[i][s]
  BY <1>2, <1>6, <1>7, Zenon
<1>9. i \in 1..Len(B) /\ L[i] = B[i].entries
  BY <1>1
<1> QED
  BY <1>8, <1>9, Zenon

-----------------------------------------------------------------------------
(* How many cells regions of different owners have together.               *)

\* A set of n things.
Sized(S, n) == IsFiniteSet(S) /\ Cardinality(S) = n

\* K numbers n things.
Distinct(K, n) == \A x, y \in 1..n : K[x] = K[y] => x = y

LEMMA DistinctSize ==
    ASSUME NEW n \in Nat, NEW K, Distinct(K, n)
    PROVE  Sized({K[x] : x \in 1..n}, n)
<1> DEFINE S == {K[x] : x \in 1..n}  J == [x \in 1..n |-> K[x]]
<1>1. J \in Bijection(1..n, S)
  BY DEF Distinct, Bijection, Injection, Surjection, IsInjective
<1> HIDE DEF S, J
<1>2. ExistsBijection(1..n, S)
  BY <1>1 DEF ExistsBijection
<1>3. IsFiniteSet(1..n) /\ Cardinality(1..n) = n
  BY FS_Interval
<1>4. IsFiniteSet(S) /\ Cardinality(S) = n
  BY <1>2, <1>3, FS_Bijection
<1> QED
  BY <1>4 DEF Sized, S

LEMMA UnionSize ==
    ASSUME NEW m \in Nat, NEW n \in Nat, NEW S, NEW T, Sized(S, m), Sized(T, n),
           \A x \in S : x \notin T
    PROVE  Sized(S \cup T, m + n)
<1>1. /\ IsFiniteSet(S) /\ Cardinality(S) = m /\ IsFiniteSet(T) /\ Cardinality(T) = n
  BY DEF Sized
<1>2. S \cap T = {}
  OBVIOUS
<1>3. Cardinality(S \cap T) = 0
  BY <1>2, FS_EmptySet
<1>4. IsFiniteSet(S \cup T) /\ Cardinality(S \cup T) = m + n - 0
  BY <1>1, <1>3, FS_Union
<1> QED
  BY <1>4 DEF Sized

LEMMA SizeWithin ==
    ASSUME NEW n \in Nat, NEW m \in Nat, NEW S, Sized(S, n), S \subseteq 0..(m - 1)
    PROVE  n <= m
<1>1. IsFiniteSet(0..(m - 1)) /\ Cardinality(0..(m - 1)) = m
  BY FS_Interval
<1>2. Cardinality(S) <= Cardinality(0..(m - 1))
  BY <1>1, FS_Subset
<1> QED
  BY <1>1, <1>2 DEF Sized

\* The regions of the sequences of L begin after st and belong to tag.
Tagged(own, L, st, tag) ==
    \A i \in 1..Len(L) : st[i] \in Int /\ \A s \in 1..Len(L[i]) : own[st[i] + s] = tag[i]

\* S is the set of the cells of these regions.
RegionCells(S, L, st) ==
    \A o \in S : \E i \in 1..Len(L) : \E s \in 1..Len(L[i]) : o = st[i] + s

\* Regions of different owners have as many cells as they have together.
LEMMA RegionsSize ==
    ASSUME NEW C, NEW L \in Seq(Seq(C)), NEW own, NEW st, NEW tag, Tagged(own, L, st, tag),
           Distinct(tag, Len(L)), NEW n, n = Len(FlattenSeq(L))
    PROVE  \E S : Sized(S, n) /\ RegionCells(S, L, st)
<1> DEFINE At2(x, p) == /\ p[1] \in 1..Len(L) /\ p[2] \in 1..Len(L[p[1]])
                        /\ x = Len(Upto(L, p[1] - 1)) + p[2]
           Pl == [x \in 1..n |-> CHOOSE p \in Nat \X Nat : At2(x, p)]
           K == [x \in 1..n |-> st[Pl[x][1]] + Pl[x][2]]
           S == {K[x] : x \in 1..n}
<1>1. n \in Nat
  <2>1. FlattenSeq(L) \in Seq(C)
    BY FlattenType
  <2> QED
    BY <2>1
<1>2. ASSUME NEW x \in 1..n
      PROVE  At2(x, Pl[x])
  <2>1. x \in 1..Len(FlattenSeq(L))
    OBVIOUS
  <2>2. PICK i \in 1..Len(L) : \E s \in 1..Len(L[i]) : x = Len(Upto(L, i - 1)) + s
    BY <2>1, FlattenWhere
  <2>3. PICK s \in 1..Len(L[i]) : x = Len(Upto(L, i - 1)) + s
    BY <2>2
  <2> DEFINE p == <<i, s>>
  <2>4. p \in Nat \X Nat /\ p[1] = i /\ p[2] = s
    OBVIOUS
  <2> HIDE DEF p
  <2>5. At2(x, p)
    BY <2>3, <2>4
  <2> HIDE DEF At2
  <2>6. Pl[x] = CHOOSE q \in Nat \X Nat : At2(x, q)
    OBVIOUS
  <2> QED
    BY <2>4, <2>5, <2>6, Zenon
<1> HIDE DEF Pl
<1>3. ASSUME NEW x \in 1..n
      PROVE  K[x] = st[Pl[x][1]] + Pl[x][2]
  OBVIOUS
<1> HIDE DEF K
<1>4. ASSUME NEW x \in 1..n, NEW y \in 1..n, K[x] = K[y]
      PROVE  x = y
  <2> DEFINE i == Pl[x][1]  s == Pl[x][2]  j == Pl[y][1]  t == Pl[y][2]
  <2>1. /\ i \in 1..Len(L) /\ s \in 1..Len(L[i]) /\ x = Len(Upto(L, i - 1)) + s
        /\ j \in 1..Len(L) /\ t \in 1..Len(L[j]) /\ y = Len(Upto(L, j - 1)) + t
    BY <1>2
  <2>2. st[i] + s = st[j] + t
    BY <1>3, <1>4
  <2> HIDE DEF i, s, j, t
  <2>3. /\ st[i] \in Int /\ own[st[i] + s] = tag[i] /\ own[st[j] + t] = tag[j]
    BY <2>1 DEF Tagged
  <2>4. i = j
    BY <2>1, <2>2, <2>3 DEF Distinct
  <2>5. s \in Int /\ t \in Int
    BY <2>1
  <2>6. s = t
    BY <2>2, <2>3, <2>4, <2>5
  <2> QED
    BY <2>1, <2>4, <2>6
<1>5. Distinct(K, n)
  BY <1>4 DEF Distinct
<1>6. Sized(S, n)
  BY <1>1, <1>5, DistinctSize
<1>7. ASSUME NEW x \in 1..n
      PROVE  \E i \in 1..Len(L) : \E s \in 1..Len(L[i]) : K[x] = st[i] + s
  BY <1>2, <1>3
<1>8. RegionCells(S, L, st)
  <2>1. ASSUME NEW o \in S
        PROVE  \E i \in 1..Len(L) : \E s \in 1..Len(L[i]) : o = st[i] + s
    <3>1. PICK x \in 1..n : o = K[x]
      OBVIOUS
    <3> QED
      BY <1>7, <3>1, Zenon
  <2> HIDE DEF S
  <2> QED
    BY <2>1, Zenon DEF RegionCells
<1> HIDE DEF S
<1> QED
  BY <1>6, <1>8

\* As many entries as Len(L) blocks can hold.
LEMMA FlattenFew ==
    ASSUME NEW C, NEW L \in Seq(Seq(C)), NEW M \in Nat, \A i \in 1..Len(L) : Len(L[i]) <= M
    PROVE  Len(FlattenSeq(L)) <= Len(L) * M
<1> DEFINE n == Len(L)
           T == {k \in Nat : k <= n => Len(Upto(L, k)) <= k * M}
<1>1. n \in Nat
  OBVIOUS
<1>2. 0 \in T
  <2>1. Upto(L, 0) = <<>>
    BY UptoNone
  <2>2. Len(Upto(L, 0)) = 0
    BY <2>1
  <2> QED
    BY <2>2
<1>3. ASSUME NEW k \in T
      PROVE  k + 1 \in T
  <2> SUFFICES ASSUME k + 1 <= n
               PROVE  Len(Upto(L, k + 1)) <= (k + 1) * M
    OBVIOUS
  <2> DEFINE j == k + 1
  <2>1. j \in 1..Len(L) /\ j - 1 = k /\ k \in 0..Len(L) /\ k \in Nat
    BY <1>1
  <2>2. Len(Upto(L, j)) = Len(Upto(L, j - 1)) + Len(L[j])
    BY <2>1, UptoNext
  <2>3. Len(Upto(L, k)) \in Nat
    BY <2>1, UptoType
  <2>4. Len(L[j]) \in Nat
    <3>1. L[j] \in Seq(C)
      <4> DEFINE S == Seq(C)
      <4>1. L \in Seq(S)
        OBVIOUS
      <4> HIDE DEF S, j
      <4>2. L[j] \in S
        BY <2>1, <4>1
      <4> QED
        BY <4>2 DEF S
    <3> QED
      BY <3>1
  <2>5. Len(L[j]) <= M /\ Len(Upto(L, k)) <= k * M
    BY <1>3, <2>1
  <2>6. (k + 1) * M = k * M + M /\ k * M \in Nat
    BY <2>1
  <2>7. Len(Upto(L, j)) = Len(Upto(L, k)) + Len(L[j])
    BY <2>1, <2>2
  <2> DEFINE x == Len(Upto(L, k))  y == Len(L[j])  c == k * M  d == Len(Upto(L, j))
  <2>8. d <= c + M
    <3> HIDE DEF x, y, c, d, j, T
    <3>1. x \in Nat /\ y \in Nat /\ c \in Nat /\ y <= M /\ x <= c /\ d = x + y
      BY <2>3, <2>4, <2>5, <2>6, <2>7 DEF x, y, c, d
    <3> QED
      BY ONLY <3>1, M \in Nat
  <2> QED
    BY <2>6, <2>8
<1> HIDE DEF T
<1>4. T \subseteq Nat
  BY DEF T
<1>5. T = Nat
  BY <1>2, <1>3, <1>4, SetInduction
<1>6. Len(Upto(L, n)) <= n * M
  <2>1. n \in T /\ n <= n
    BY <1>1, <1>5
  <2> HIDE DEF n
  <2> QED
    BY <2>1 DEF T
<1>7. Upto(L, n) = FlattenSeq(L)
  BY UptoAll
<1> QED
  BY <1>6, <1>7
=============================================================================
