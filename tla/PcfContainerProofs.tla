------------------------- MODULE PcfContainerProofs --------------------------
(***************************************************************************)
(* Proofs about PcfContainer and PcfCrash, for every number of partitions  *)
(* and blocks, every length, reserve and capacity, and every sequence of   *)
(* calls of SafeSpec: the file verifies, the handle's copy of the table is *)
(* the one on disk, compacting never makes the file longer, the container  *)
(* is the map PcfStore says; and, when the process dies after any of the   *)
(* writes of an operation, the damage is confined, the hashes notice it,   *)
(* and an overflow block is there or is not.                               *)
(***************************************************************************)
EXTENDS MCPcfContainer, PcfCrash, PcfRecordsProofs

-----------------------------------------------------------------------------
(* What a file holds.  Each cell has an owner: the file header, a table    *)
(* block, a partition or a trailer.  A region is owned cell by cell, so    *)
(* that two regions of different owners cannot overlap.                    *)

\* A live entry, its reservation below lim and its data.
EntryHeld(f, own, lim, e) ==
    /\ IsEntry(e) /\ e.t = "ent" /\ e.type = Raw /\ e.uid \in Uid
    /\ e.start \in Nat /\ e.max \in Nat /\ e.used \in 0..e.max
    /\ e.used > 0 => e.start + e.used <= Len(f)
    /\ e.max > 0 => e.start + e.max <= lim
    /\ Owned(own, OfPart(e.uid), e.start, e.max)
    /\ e.hash = Digest(e.algo, SubSeq(f, e.start + 1, e.start + e.used))

\* The entries of all blocks but the k-th, of all if k is 0.
EntriesHeld(f, own, lim, B, k) ==
    \A i \in 1..Len(B) : i # k =>
        \A s \in 1..Len(B[i].entries) : EntryHeld(f, own, lim, B[i].entries[s])

\* The file holds the table B, except perhaps what the entries of block k say.
Image(f, own, lim, C, B, k) ==
    /\ B \in Tables(C) /\ Len(B) >= 1 /\ Len(B) <= Len(f)
    /\ BlocksHeld(f, own, B) /\ BlocksApart(B) /\ UidsApart(B)
    /\ EntriesHeld(f, own, lim, B, k)

-----------------------------------------------------------------------------
(* Reading it.                                                             *)

LEMMA EntryValid ==
    ASSUME NEW f, NEW own, NEW lim, NEW e, EntryHeld(f, own, lim, e)
    PROVE  ValidEntry(f, e)
<1>1. /\ e.type # Reserved /\ e.uid # Nil /\ e.used <= e.max
      /\ e.hash = Digest(e.algo, ReadData(f, e))
  BY ContainerAssumption DEF EntryHeld, Reserved, Raw, ReadData
<1>2. DataReadable(f, e)
  BY DEF EntryHeld, DataReadable
<1> QED
  BY <1>1, <1>2 DEF ValidEntry

\* What is known of the i-th block of a table.
LEMMA BlockOf ==
    ASSUME NEW f, NEW own, NEW lim, NEW C, NEW B, NEW k, Image(f, own, lim, C, B, k),
           NEW i \in 1..Len(B)
    PROVE  /\ BlockHeld(f, own, B[i].offset, Successor(B, i), B[i].algo, B[i].entries)
           /\ B[i].offset \in Nat \ {0} /\ B[i].entries \in Seq(C)
           /\ B[i].algo \in {"None", "Sha256"} /\ Len(B) \in Nat
           /\ Len(B[i].entries) \in Nat
<1> DEFINE R == [offset : Nat \ {0}, algo : {"None", "Sha256"}, entries : Seq(C)]
<1>1. B \in Seq(R)
  BY DEF Image, Tables
<1> HIDE DEF R
<1>2. B[i] \in R /\ Len(B) \in Nat
  BY <1>1
<1>3. BlockHeld(f, own, B[i].offset, Successor(B, i), B[i].algo, B[i].entries)
  BY Zenon DEF Image, BlocksHeld
<1>4. B[i].offset \in Nat \ {0} /\ B[i].entries \in Seq(C) /\ B[i].algo \in {"None", "Sha256"}
  BY <1>2 DEF R
<1>5. Len(B[i].entries) \in Nat
  BY <1>4
<1> QED
  BY <1>2, <1>3, <1>4, <1>5

Offsets(B) == [i \in 1..Len(B) |-> B[i].offset]

\* The walk finds the blocks of the table, and each as it was written.
LEMMA TableRead ==
    ASSUME NEW f, NEW own, NEW lim, NEW C, NEW B, NEW k, Image(f, own, lim, C, B, k),
           f \in Seq(C), NEW h, h = B[1].offset
    PROVE  /\ ChainReadable(f, h) /\ Chain(f, h) = Offsets(B)
           /\ \A i \in 1..Len(B) : /\ EntriesAt(f, B[i].offset) = B[i].entries
                                   /\ BlockAt(f, B[i].offset) = At(f, B[i].offset)
                                   /\ BlockReadable(f, B[i].offset)
<1> DEFINE w == OffsetRow(B)  r == Len(B)
<1>1. /\ r \in Nat /\ r >= 1 /\ r <= Len(f)
      /\ \A i \in 1..r : B[i].offset \in Nat \ {0}
  <2>1. Len(B) >= 1 /\ Len(B) <= Len(f)
    BY DEF Image
  <2>2. B \in Tables(C)
    BY DEF Image
  <2>3. Len(B) \in Nat
    BY <2>2 DEF Tables
  <2> QED
    BY <2>1, <2>3, BlockOf
<1>2. /\ w \in Seq(Nat) /\ Len(w) = r + 1 /\ w[r + 1] = 0
      /\ \A i \in 1..r : w[i] = B[i].offset /\ w[i + 1] = Successor(B, i)
  BY <1>1, OffsetRowIs
<1>3. ASSUME NEW i \in 1..r
      PROVE  /\ BlockReadable(f, B[i].offset) /\ BlockAt(f, B[i].offset) = At(f, B[i].offset)
             /\ BlockAt(f, B[i].offset).next = Successor(B, i)
             /\ EntriesAt(f, B[i].offset) = B[i].entries
  <2> DEFINE off == B[i].offset  next == Successor(B, i)  algo == B[i].algo  es == B[i].entries
  <2>1. BlockHeld(f, own, off, next, algo, es) /\ es \in Seq(C)
    BY BlockOf
  <2> HIDE DEF off, next, algo, es
  <2>2. /\ BlockReadable(f, off) /\ BlockAt(f, off) = At(f, off) /\ BlockAt(f, off).next = next
        /\ EntriesAt(f, off) = es
    BY <2>1, BlockRead
  <2> QED
    BY <2>2 DEF off, next, es
<1> HIDE DEF w, r
<1>4. Chained(f, w, r)
  <2>1. ASSUME NEW i \in 1..r
        PROVE  w[i] # 0 /\ BlockReadable(f, w[i]) /\ BlockAt(f, w[i]).next = w[i + 1]
    <3>1. B[i].offset # 0
      BY <1>1
    <3> QED
      BY <1>2, <1>3, <3>1, Zenon
  <2> QED
    BY <1>2, <2>1, Zenon DEF Chained
<1>5. Len(f) \in Nat
  OBVIOUS
<1>6. w[1] = h
  BY <1>1, <1>2
<1>7. Walk(f, h) = w
  BY <1>1, <1>2, <1>4, <1>5, <1>6, WalkIs
<1>8. ChainReadable(f, h)
  BY <1>2, <1>7, Zenon DEF ChainReadable, Last
<1>9. Chain(f, h) = SubSeq(w, 1, (r + 1) - 1)
  BY <1>2, <1>7, Zenon DEF Chain, Front
<1>10. SubSeq(w, 1, r) = Offsets(B)
  <2>1. r \in 0..Len(w) /\ r - 1 + 1 = r
    BY <1>1, <1>2
  <2>2. /\ SubSeq(w, 1, r) \in Seq(Nat)
        /\ Len(SubSeq(w, 1, r)) = IF 1 <= r THEN r - 1 + 1 ELSE 0
        /\ \A i \in 1..Len(SubSeq(w, 1, r)) : SubSeq(w, 1, r)[i] = w[1 + i - 1]
    BY <1>2, <2>1, SliceType
  <2> DEFINE s == SubSeq(w, 1, r)
  <2> HIDE DEF s
  <2>3. s \in Seq(Nat) /\ Len(s) = r /\ \A i \in 1..r : s[i] = w[i]
    BY <1>1, <2>2 DEF s
  <2>4. s = [i \in 1..r |-> s[i]]
    BY <2>3
  <2>5. \A i \in 1..r : s[i] = B[i].offset
    BY <1>2, <2>3
  <2>6. s = [i \in 1..r |-> B[i].offset]
    BY <2>4, <2>5, Zenon
  <2> QED
    BY <2>6 DEF s, r, Offsets
<1>11. (r + 1) - 1 = r
  BY <1>1
<1> QED
  BY <1>3, <1>8, <1>9, <1>10, <1>11, Zenon DEF r

\* A reader accepts it.
LEMMA ImageVerifies ==
    ASSUME NEW f, NEW own, NEW lim, NEW C, NEW B, Image(f, own, lim, C, B, 0), f \in Seq(C)
    PROVE  Verify(f, B[1].offset)
<1>1. /\ ChainReadable(f, B[1].offset) /\ Chain(f, B[1].offset) = Offsets(B)
      /\ \A i \in 1..Len(B) : /\ EntriesAt(f, B[i].offset) = B[i].entries
                              /\ BlockAt(f, B[i].offset) = At(f, B[i].offset)
  BY TableRead
<1>2. ASSUME NEW i \in 1..Len(B)
      PROVE  ValidBlock(f, B[i].offset)
  <2> DEFINE off == B[i].offset  next == Successor(B, i)  algo == B[i].algo  es == B[i].entries
             b == BlockCell(Len(es), next, algo, TableHash(algo, next, es))
  <2>1. BlockHeld(f, own, off, next, algo, es) /\ es \in Seq(C) /\ Len(B) \in Nat
    BY BlockOf
  <2>2. \A s \in 1..Len(es) : EntryHeld(f, own, lim, es[s])
    <3>1. i # 0
      BY <2>1
    <3> QED
      BY <3>1 DEF Image, EntriesHeld
  <2>3. BlockAt(f, off) = b /\ EntriesAt(f, off) = es
    BY <1>1, <2>1, Zenon DEF BlockHeld
  <2> HIDE DEF off, next, algo, es
  <2>4. b.algo = algo /\ b.next = next /\ b.hash = TableHash(algo, next, es)
    BY DEF BlockCell
  <2> HIDE DEF b
  <2>5. DOMAIN es = 1..Len(es)
    BY <2>1
  <2>6. \A s \in 1..Len(es) : ValidEntry(f, es[s])
    BY <2>2, EntryValid
  <2>7. ValidBlock(f, off)
    BY <2>3, <2>4, <2>5, <2>6, Zenon DEF ValidBlock
  <2> QED
    BY <2>7 DEF off
<1>3. DOMAIN Offsets(B) = 1..Len(B) /\ \A i \in 1..Len(B) : Offsets(B)[i] = B[i].offset
  BY DEF Offsets
<1> QED
  BY <1>1, <1>2, <1>3, Zenon DEF Verify

-----------------------------------------------------------------------------
(* Writing in a region.                                                    *)

\* The data of an entry that another owner's change does not touch.
LEMMA DataKept ==
    ASSUME NEW C, NEW f \in Seq(C), NEW D, NEW g \in Seq(D), NEW own, NEW owner,
           CellsDiffer(f, g, own, owner), NEW lim, NEW e, EntryHeld(f, own, lim, e), OfPart(e.uid) # owner
    PROVE  ReadData(g, e) = ReadData(f, e)
<1> DEFINE st == e.start  n == e.used  m == e.max
<1>1. /\ st \in Nat /\ m \in Nat /\ n \in 0..m /\ (n > 0 => st + n <= Len(f))
      /\ \A o \in st..(st + m - 1) : own[o] = OfPart(e.uid)
  BY DEF EntryHeld, Owned
<1>2. Len(f) <= Len(g) /\ \A o \in 0..(Len(f) - 1) : own[o] # owner => At(g, o) = At(f, o)
  BY DEF CellsDiffer
<1>3. Len(f) \in Nat /\ Len(g) \in Nat
  OBVIOUS
<1>4. SubSeq(g, st + 1, st + n) = SubSeq(f, st + 1, st + n)
  <2>1. CASE n = 0
    <3>1. SubSeq(g, st + 1, st + 0) = <<>> /\ SubSeq(f, st + 1, st + 0) = <<>>
      <4> HIDE DEF st
      <4> QED
        BY <1>1
    <3> QED
      BY <2>1, <3>1
  <2>2. CASE n > 0
    <3> HIDE DEF st, n, m
    <3>1. n \in Nat /\ st + n <= Len(f) /\ st + n <= Len(g)
      BY <1>1, <1>2, <1>3, <2>2
    <3>2. ASSUME NEW o \in st..(st + n - 1)
          PROVE  At(g, o) = At(f, o)
      <4>1. o \in 0..(Len(f) - 1) /\ o \in st..(st + m - 1)
        BY <1>1, <1>3, <3>1
      <4> QED
        BY <1>1, <1>2, <4>1
    <3> QED
      BY <1>1, <3>1, <3>2, SameSlice
  <2>3. n = 0 \/ n > 0
    <3> HIDE DEF n, m
    <3> QED
      BY <1>1
  <2> QED
    BY <2>1, <2>2, <2>3, Zenon
<1> QED
  BY <1>4, Zenon DEF ReadData

\* Nor is the entry: it stays held.
LEMMA EntryKept ==
    ASSUME NEW C, NEW f \in Seq(C), NEW D, NEW g \in Seq(D), NEW own, NEW owner,
           CellsDiffer(f, g, own, owner), NEW lim, NEW e, EntryHeld(f, own, lim, e), OfPart(e.uid) # owner
    PROVE  EntryHeld(g, own, lim, e)
<1> DEFINE st == e.start  n == e.used  m == e.max
<1>1. /\ st \in Nat /\ m \in Nat /\ n \in 0..m /\ (n > 0 => st + n <= Len(f))
      /\ e.hash = Digest(e.algo, SubSeq(f, st + 1, st + n))
  BY DEF EntryHeld
<1>2. Len(f) <= Len(g) /\ Len(f) \in Nat /\ Len(g) \in Nat
  BY DEF CellsDiffer
<1>3. SubSeq(g, st + 1, st + n) = SubSeq(f, st + 1, st + n)
  <2>1. ReadData(g, e) = ReadData(f, e)
    BY DataKept
  <2> QED
    BY <2>1, Zenon DEF ReadData
<1>4. n > 0 => st + n <= Len(g)
  BY <1>1, <1>2
<1> QED
  BY <1>1, <1>3, <1>4 DEF EntryHeld

-----------------------------------------------------------------------------
(* Tables.                                                                 *)

LEMMA EntryOwned ==
    ASSUME NEW f, NEW own, NEW own2, NEW lim \in Nat, NEW lim2 \in Nat, lim <= lim2,
           SameOwners(own, own2, lim), NEW e, EntryHeld(f, own, lim, e)
    PROVE  EntryHeld(f, own2, lim2, e)
<1> DEFINE st == e.start  m == e.max
<1>1. /\ st \in Nat /\ m \in Nat /\ (m > 0 => st + m <= lim)
      /\ \A o \in st..(st + m - 1) : own[o] = OfPart(e.uid)
  BY DEF EntryHeld, Owned
<1> HIDE DEF st, m
<1>2. \A o \in st..(st + m - 1) : own2[o] = OfPart(e.uid)
  <2>1. \A o \in st..(st + m - 1) : o \in 0..(lim - 1)
    <3>1. CASE m > 0
      BY <1>1, <3>1
    <3>2. CASE m = 0
      BY <1>1, <3>2
    <3> QED
      BY <1>1, <3>1, <3>2
  <2> QED
    BY <1>1, <2>1 DEF SameOwners
<1>3. m > 0 => st + m <= lim2
  BY <1>1
<1>4. Owned(own2, OfPart(e.uid), st, m)
  BY <1>2, Zenon DEF Owned
<1> QED
  BY <1>3, <1>4, Zenon DEF EntryHeld, st, m

\* The file may be larger, and what lies beyond the table may have other owners.
LEMMA ImageOwned ==
    ASSUME NEW f, Len(f) \in Nat, NEW own, NEW own2, NEW lim \in Nat, NEW lim2 \in Nat, lim <= lim2,
           Len(f) <= lim, SameOwners(own, own2, lim), NEW C, NEW D, C \subseteq D, NEW B, NEW k,
           Image(f, own, lim, C, B, k)
    PROVE  Image(f, own2, lim2, D, B, k)
<1>1. B \in Tables(D)
  BY TablesGrow DEF Image
<1>2. BlocksHeld(f, own2, B)
  <2>1. ASSUME NEW i \in 1..Len(B)
        PROVE  BlockHeld(f, own2, B[i].offset, Successor(B, i), B[i].algo, B[i].entries)
    <3>1. /\ BlockHeld(f, own, B[i].offset, Successor(B, i), B[i].algo, B[i].entries)
          /\ Len(B[i].entries) \in Nat
      BY BlockOf
    <3> QED
      BY <3>1, BlockOwned
  <2> QED
    BY <2>1, Zenon DEF BlocksHeld
<1>3. EntriesHeld(f, own2, lim2, B, k)
  <2>1. ASSUME NEW i \in 1..Len(B), i # k, NEW s \in 1..Len(B[i].entries)
        PROVE  EntryHeld(f, own2, lim2, B[i].entries[s])
    <3>1. EntryHeld(f, own, lim, B[i].entries[s])
      BY <2>1 DEF Image, EntriesHeld
    <3> QED
      BY <3>1, EntryOwned
  <2> QED
    BY <2>1, Zenon DEF EntriesHeld
<1> QED
  BY <1>1, <1>2, <1>3, Zenon DEF Image

\* A change of what no block and no entry of the table owns.
LEMMA ImageKept ==
    ASSUME NEW C, NEW f \in Seq(C), NEW g \in Seq(C), NEW own, NEW owner, CellsDiffer(f, g, own, owner),
           NEW lim, NEW B, NEW k, Image(f, own, lim, C, B, k),
           \A i \in 1..Len(B) : OfBlock(B[i].offset) # owner,
           \A i \in 1..Len(B) : i # k =>
                \A s \in 1..Len(B[i].entries) : OfPart(B[i].entries[s].uid) # owner
    PROVE  Image(g, own, lim, C, B, k)
<1>1. Len(f) \in Nat /\ Len(g) \in Nat
  OBVIOUS
<1>2. BlocksHeld(g, own, B)
  <2>1. ASSUME NEW i \in 1..Len(B)
        PROVE  BlockHeld(g, own, B[i].offset, Successor(B, i), B[i].algo, B[i].entries)
    <3>1. /\ BlockHeld(f, own, B[i].offset, Successor(B, i), B[i].algo, B[i].entries)
          /\ Len(B[i].entries) \in Nat
      BY BlockOf
    <3>2. OfBlock(B[i].offset) # owner
      OBVIOUS
    <3> QED
      BY <1>1, <3>1, <3>2, BlockKept
  <2> QED
    BY <2>1, Zenon DEF BlocksHeld
<1>3. EntriesHeld(g, own, lim, B, k)
  <2>1. ASSUME NEW i \in 1..Len(B), i # k, NEW s \in 1..Len(B[i].entries)
        PROVE  EntryHeld(g, own, lim, B[i].entries[s])
    <3>1. EntryHeld(f, own, lim, B[i].entries[s])
      BY <2>1 DEF Image, EntriesHeld
    <3> QED
      BY <2>1, <3>1, EntryKept
  <2> QED
    BY <2>1, Zenon DEF EntriesHeld
<1>4. Len(B) <= Len(g)
  <2>1. B \in Tables(C) /\ Len(B) <= Len(f) /\ Len(f) <= Len(g)
    BY DEF Image, CellsDiffer
  <2>2. Len(B) \in Nat
    BY <2>1 DEF Tables
  <2> QED
    BY <1>1, <2>1, <2>2
<1> QED
  BY <1>2, <1>3, <1>4, Zenon DEF Image

\* g ends where f did, or no later than end.
Fits(f, g, end) == Len(g) <= Len(f) \/ Len(g) <= end

\* A block that has been written is held.
LEMMA BlockWritten ==
    ASSUME NEW C, Zero \in C, NEW f \in Seq(C), NEW off \in Nat \ {0}, NEW next, NEW algo,
           NEW es \in Seq(C), BlockCell(Len(es), next, algo, TableHash(algo, next, es)) \in C,
           \A i \in 1..Len(es) : es[i].t = "ent",
           NEW own, Owned(own, OfBlock(off), off, Len(es) + 1),
           NEW g, g = Apply(f, WriteBlock(off, next, algo, es))
    PROVE  /\ g \in Seq(C) /\ CellsDiffer(f, g, own, OfBlock(off))
           /\ BlockHeld(g, own, off, next, algo, es) /\ Fits(f, g, off + Len(es) + 1)
<1> DEFINE cells == BlockCells(next, algo, es)  n == Len(es)
           b == BlockCell(n, next, algo, TableHash(algo, next, es))
<1>1. /\ WriteBlock(off, next, algo, es) = WriteCells(off, cells)
      /\ cells \in Seq(C) /\ Len(cells) = n + 1 /\ cells[1] = b
      /\ \A i \in 1..n : cells[i + 1] = es[i]
  BY WriteBlockIs
<1>2. n \in Nat /\ b.t = "blk" /\ \A i \in 1..n : es[i].t = "ent"
  BY DEF BlockCell
<1> HIDE DEF cells, n, b
<1>3. \A i \in 1..Len(cells) : cells[i].t # "trl"
  <2>1. ASSUME NEW i \in 1..Len(cells)
        PROVE  cells[i].t # "trl"
    <3>1. CASE i = 1
      BY <1>1, <1>2, <3>1
    <3>2. CASE i # 1
      <4> DEFINE j == i - 1
      <4>1. j \in 1..n /\ j + 1 = i
        BY <1>1, <1>2, <3>2
      <4> HIDE DEF j
      <4>2. cells[i] = es[j] /\ es[j].t = "ent"
        BY <1>1, <1>2, <4>1
      <4> QED
        BY <4>2
    <3> QED
      BY <3>1, <3>2
  <2> QED
    BY <2>1
<1>4. Owned(own, OfBlock(off), off, Len(cells))
  BY <1>1, Zenon DEF n
<1>5. g = Apply(f, WriteCells(off, cells))
  BY <1>1, Zenon
<1>6. g \in Seq(C) /\ CellsDiffer(f, g, own, OfBlock(off)) /\ Wrote(f, g, off, cells)
  BY <1>1, <1>3, <1>4, <1>5, CellsWritten
<1>7. /\ Len(g) = IF Len(cells) = 0 \/ off + Len(cells) <= Len(f) THEN Len(f) ELSE off + Len(cells)
      /\ \A i \in 1..Len(cells) : At(g, off + i - 1) = cells[i]
  BY <1>6 DEF Wrote
<1>8. off + n < Len(g)
  <2>1. Len(f) \in Nat
    OBVIOUS
  <2> QED
    BY <1>1, <1>2, <1>7, <2>1
<1>9. At(g, off) = b
  <2>1. 1 \in 1..Len(cells) /\ off + 1 - 1 = off
    BY <1>1, <1>2
  <2>2. At(g, off + 1 - 1) = cells[1]
    BY <1>7, <2>1
  <2> QED
    BY <1>1, <2>1, <2>2
<1>10. \A i \in 1..n : At(g, off + i) = es[i] /\ es[i].t = "ent"
  <2>1. ASSUME NEW i \in 1..n
        PROVE  At(g, off + i) = es[i]
    <3> DEFINE j == i + 1
    <3>1. j \in 1..Len(cells) /\ off + j - 1 = off + i /\ cells[j] = es[i]
      BY <1>1, <1>2
    <3> HIDE DEF j
    <3>2. At(g, off + j - 1) = cells[j]
      BY <1>7, <3>1
    <3> QED
      BY <3>1, <3>2
  <2> QED
    BY <1>2, <2>1
<1>11. BlockHeld(g, own, off, next, algo, es)
  BY <1>8, <1>9, <1>10, Zenon DEF BlockHeld, b, n
<1>12. Fits(f, g, off + n + 1)
  <2>1. Len(f) \in Nat
    OBVIOUS
  <2> QED
    BY <1>1, <1>2, <1>7, <2>1 DEF Fits
<1> QED
  BY <1>6, <1>11, <1>12 DEF n

\* Rewriting the k-th block with the entries es.
LEMMA ImagePut ==
    ASSUME NEW C, Zero \in C, NEW f \in Seq(C), NEW own, NEW lim, NEW B, NEW k \in 1..Len(B),
           Image(f, own, lim, C, B, k), NEW es \in Seq(C),
           BlockCell(Len(es), Successor(B, k), B[k].algo, TableHash(B[k].algo, Successor(B, k), es)) \in C,
           Owned(own, OfBlock(B[k].offset), B[k].offset, Len(es) + 1),
           \A s \in 1..Len(es) : EntryHeld(f, own, lim, es[s]),
           UidsApart(Put(B, k, es)),
           NEW g, g = Apply(f, WriteBlock(B[k].offset, Successor(B, k), B[k].algo, es))
    PROVE  /\ g \in Seq(C) /\ CellsDiffer(f, g, own, OfBlock(B[k].offset))
           /\ Image(g, own, lim, C, Put(B, k, es), 0)
           /\ Fits(f, g, B[k].offset + Len(es) + 1)
<1> DEFINE P == Put(B, k, es)  off == B[k].offset  next == Successor(B, k)  algo == B[k].algo
<1>1. B \in Tables(C) /\ Len(B) >= 1 /\ Len(B) <= Len(f) /\ BlocksApart(B)
  BY DEF Image
<1>2. /\ P \in Tables(C) /\ Len(P) = Len(B)
      /\ \A i \in 1..Len(B) : /\ P[i].offset = B[i].offset /\ P[i].algo = B[i].algo
                              /\ Successor(P, i) = Successor(B, i)
                              /\ P[i].entries = IF i = k THEN es ELSE B[i].entries
  BY <1>1, PutIs
<1>3. off \in Nat \ {0} /\ Len(B) \in Nat
  BY BlockOf
<1>4. \A s \in 1..Len(es) : es[s].t = "ent"
  BY DEF EntryHeld
<1> HIDE DEF P, off, next, algo
<1>5. /\ g \in Seq(C) /\ CellsDiffer(f, g, own, OfBlock(off))
      /\ BlockHeld(g, own, off, next, algo, es) /\ Fits(f, g, off + Len(es) + 1)
  BY <1>3, <1>4, BlockWritten DEF off, next, algo
<1>6. Len(f) \in Nat /\ Len(g) \in Nat /\ Len(f) <= Len(g)
  BY <1>5 DEF CellsDiffer
<1>7. \A i \in 1..Len(B) : B[i].offset = off => i = k
  BY <1>1 DEF BlocksApart, off
<1>8. BlocksHeld(g, own, P)
  <2>1. ASSUME NEW i \in 1..Len(B)
        PROVE  BlockHeld(g, own, P[i].offset, Successor(P, i), P[i].algo, P[i].entries)
    <3>1. CASE i = k
      BY <1>2, <1>5, <3>1, Zenon DEF off, next, algo
    <3>2. CASE i # k
      <4>1. /\ BlockHeld(f, own, B[i].offset, Successor(B, i), B[i].algo, B[i].entries)
            /\ Len(B[i].entries) \in Nat
        BY BlockOf
      <4>2. OfBlock(B[i].offset) # OfBlock(off)
        <5>1. B[i].offset # off
          BY <1>7, <3>2
        <5> QED
          BY <5>1 DEF OfBlock
      <4>3. BlockHeld(g, own, B[i].offset, Successor(B, i), B[i].algo, B[i].entries)
        BY <1>5, <1>6, <4>1, <4>2, BlockKept
      <4> QED
        BY <1>2, <3>2, <4>3, Zenon
    <3> QED
      BY <3>1, <3>2
  <2> QED
    BY <1>2, <2>1, Zenon DEF BlocksHeld
<1>9. BlocksApart(P)
  <2>1. ASSUME NEW i \in 1..Len(B), NEW j \in 1..Len(B), P[i].offset = P[j].offset
        PROVE  i = j
    <3>1. B[i].offset = B[j].offset
      BY <1>2, <2>1
    <3> QED
      BY <1>1, <3>1 DEF BlocksApart
  <2> QED
    BY <1>2, <2>1, Zenon DEF BlocksApart
<1>10. EntriesHeld(g, own, lim, P, 0)
  <2>1. ASSUME NEW i \in 1..Len(B), NEW s \in 1..Len(P[i].entries)
        PROVE  EntryHeld(g, own, lim, P[i].entries[s])
    <3> DEFINE e == P[i].entries[s]
    <3>1. EntryHeld(f, own, lim, e)
      <4>1. CASE i = k
        BY <1>2, <4>1
      <4>2. CASE i # k
        BY <1>2, <4>2 DEF Image, EntriesHeld
      <4> QED
        BY <4>1, <4>2
    <3>2. OfPart(e.uid) # OfBlock(off)
      BY DEF OfPart, OfBlock
    <3> HIDE DEF e
    <3>3. EntryHeld(g, own, lim, e)
      BY <1>5, <3>1, <3>2, EntryKept
    <3> QED
      BY <3>3 DEF e
  <2> QED
    BY <1>2, <2>1, Zenon DEF EntriesHeld
<1>11. Image(g, own, lim, C, P, 0)
  <2>1. Len(P) >= 1 /\ Len(P) <= Len(g)
    BY <1>1, <1>2, <1>3, <1>6
  <2> QED
    BY <1>2, <1>8, <1>9, <1>10, <2>1, Zenon DEF Image, P
<1> QED
  BY <1>5, <1>11 DEF P, off

AllHeld(f, own, lim, es) == \A s \in 1..Len(es) : EntryHeld(f, own, lim, es[s])

LinkedTo(C, f, g, own, lim, P, off) ==
    /\ g \in Seq(C) /\ CellsDiffer(f, g, own, OfBlock(off))
    /\ Image(g, own, lim, C, P, 0) /\ Len(g) = Len(f)

\* Linking a block that has been written to the tail of the table.
LEMMA ImageLink ==
    ASSUME NEW C, Zero \in C, NEW f \in Seq(C), NEW own, NEW lim, NEW B, NEW n, n = Len(B),
           Image(f, own, lim, C, B, 0),
           NEW at \in Nat \ {0}, NEW algo \in {"None", "Sha256"}, NEW es \in Seq(C),
           BlockHeld(f, own, at, 0, algo, es), n <= at,
           NoneAt(B, at), AllHeld(f, own, lim, es),
           NEW P, P = Grown(B, ExtendedRow(at, algo, es)), UidsApart(P),
           LinkCell(B, n, at) \in C,
           NEW g, g = Apply(f, LinkWrites(B, n, at))
    PROVE  LinkedTo(C, f, g, own, lim, P, B[n].offset)
<1> DEFINE off == B[n].offset  el == B[n].algo  fs == B[n].entries  m == n + 1
<1>1. B \in Tables(C) /\ n >= 1 /\ n <= Len(f) /\ BlocksApart(B)
  BY DEF Image
<1>2. /\ P \in Tables(C) /\ Len(P) = m /\ n \in Nat
      /\ P[m].offset = at /\ P[m].algo = algo /\ P[m].entries = es /\ Successor(P, m) = 0
      /\ \A i \in 1..n : P[i] = B[i] /\ Successor(P, i) = IF i = n THEN at ELSE Successor(B, i)
  <2>1. m = Len(B) + 1
    OBVIOUS
  <2> HIDE DEF m
  <2>2. Extends(C, P, B, m, at, algo, es)
    BY <1>1, <2>1, GrownIs
  <2> QED
    BY <2>2, Zenon DEF Extends
<1>3. n \in 1..n /\ n \in 1..Len(B)
  BY <1>1, <1>2
<1>4. /\ BlockHeld(f, own, off, Successor(B, n), el, fs)
      /\ off \in Nat \ {0} /\ fs \in Seq(C) /\ Len(fs) \in Nat
  BY <1>3, BlockOf
<1>5. /\ \A s \in 1..Len(fs) : fs[s].t = "ent"
      /\ Owned(own, OfBlock(off), off, Len(fs) + 1)
  BY <1>4 DEF BlockHeld
<1>6. at + Len(es) < Len(f) /\ Len(es) \in Nat
  BY DEF BlockHeld
<1>17. /\ BlockCell(Len(fs), at, el, TableHash(el, at, fs)) \in C
       /\ g = Apply(f, WriteBlock(off, at, el, fs))
  BY Zenon DEF LinkCell, LinkWrites
<1> HIDE DEF off, el, fs
<1>7. /\ g \in Seq(C) /\ CellsDiffer(f, g, own, OfBlock(off))
      /\ BlockHeld(g, own, off, at, el, fs) /\ Fits(f, g, off + Len(fs) + 1)
  BY <1>4, <1>5, <1>17, BlockWritten
<1>8. Len(f) \in Nat /\ Len(g) \in Nat /\ Len(f) <= Len(g)
  BY <1>7 DEF CellsDiffer
<1>16. Len(g) = Len(f)
  <2>1. off + Len(fs) < Len(f)
    BY <1>4 DEF BlockHeld
  <2> QED
    BY <1>4, <1>7, <1>8, <2>1 DEF Fits
<1>9. \A i \in 1..n : B[i].offset = off => i = n
  BY <1>1, <1>3 DEF BlocksApart, off
<1>10. off # at /\ \A i \in 1..n : B[i].offset # at
  BY <1>3 DEF off, NoneAt
<1> HIDE DEF m
<1>11. \A i \in 1..m : i \in 1..n \/ i = m
  BY <1>2 DEF m
<1>12. BlocksHeld(g, own, P)
  <2>1. ASSUME NEW i \in 1..m
        PROVE  BlockHeld(g, own, P[i].offset, Successor(P, i), P[i].algo, P[i].entries)
    <3>1. CASE i = m
      <4>1. OfBlock(at) # OfBlock(off)
        BY <1>10 DEF OfBlock
      <4>2. BlockHeld(g, own, at, 0, algo, es)
        BY <1>6, <1>7, <1>8, <4>1, BlockKept
      <4> QED
        BY <1>2, <3>1, <4>2, Zenon
    <3>2. CASE i = n
      BY <1>2, <1>3, <1>7, <3>2, Zenon DEF off, el, fs
    <3>3. CASE i \in 1..n /\ i # n
      <4>1. /\ BlockHeld(f, own, B[i].offset, Successor(B, i), B[i].algo, B[i].entries)
            /\ Len(B[i].entries) \in Nat
        BY <3>3, BlockOf
      <4>2. OfBlock(B[i].offset) # OfBlock(off)
        <5>1. B[i].offset # off
          BY <1>9, <3>3
        <5> QED
          BY <5>1 DEF OfBlock
      <4>3. BlockHeld(g, own, B[i].offset, Successor(B, i), B[i].algo, B[i].entries)
        BY <1>7, <1>8, <4>1, <4>2, BlockKept
      <4> QED
        BY <1>2, <3>3, <4>3, Zenon
    <3> QED
      BY <1>11, <3>1, <3>2, <3>3
  <2> QED
    BY <1>2, <2>1, Zenon DEF BlocksHeld
<1>13. BlocksApart(P)
  <2>1. ASSUME NEW i \in 1..m, NEW j \in 1..m, P[i].offset = P[j].offset
        PROVE  i = j
    <3>1. CASE i \in 1..n /\ j \in 1..n
      BY <1>1, <1>2, <2>1, <3>1 DEF BlocksApart
    <3>2. CASE i = m /\ j = m
      BY <3>2
    <3>3. CASE i \in 1..n /\ j = m
      BY <1>2, <1>10, <2>1, <3>3
    <3>4. CASE i = m /\ j \in 1..n
      BY <1>2, <1>10, <2>1, <3>4
    <3> QED
      BY <1>11, <3>1, <3>2, <3>3, <3>4
  <2> QED
    BY <1>2, <2>1, Zenon DEF BlocksApart
<1>14. EntriesHeld(g, own, lim, P, 0)
  <2>1. ASSUME NEW i \in 1..m, NEW s \in 1..Len(P[i].entries)
        PROVE  EntryHeld(g, own, lim, P[i].entries[s])
    <3> DEFINE e == P[i].entries[s]
    <3>1. EntryHeld(f, own, lim, e)
      <4>1. CASE i = m
        BY <1>2, <4>1 DEF AllHeld
      <4>2. CASE i \in 1..n
        <5>1. i # 0 /\ P[i] = B[i]
          BY <1>2, <4>2
        <5> QED
          BY <4>2, <5>1 DEF Image, EntriesHeld
      <4> QED
        BY <1>11, <4>1, <4>2
    <3>2. OfPart(e.uid) # OfBlock(off)
      BY DEF OfPart, OfBlock
    <3> HIDE DEF e
    <3>3. EntryHeld(g, own, lim, e)
      BY <1>7, <3>1, <3>2, EntryKept
    <3> QED
      BY <3>3 DEF e
  <2>2. Len(P) = m
    BY <1>2
  <2> QED
    BY <2>1, <2>2 DEF EntriesHeld
<1>15. Image(g, own, lim, C, P, 0)
  <2>1. Len(P) >= 1 /\ Len(P) <= Len(g)
    BY <1>1, <1>2, <1>6, <1>8 DEF m
  <2> QED
    BY <1>2, <1>12, <1>13, <1>14, <2>1, Zenon DEF Image
<1> QED
  BY <1>7, <1>15, <1>16, Zenon DEF off, LinkedTo

-----------------------------------------------------------------------------
(* The inductive invariant: the file holds some table, whose head a reader *)
(* finds, and the handle describes it.                                     *)

\* Where the live reservations end.
Lim == IF open THEN data_eof ELSE Len(file)

Infos(B, cap) ==
    [i \in 1..Len(B) |->
        BlockInfo(B[i].offset, cap[i], Len(B[i].entries), B[i].algo, Successor(B, i))]

\* The room each block has for entries is its own, and below the cursor.
RoomHeld(own, B, cap, eof) ==
    \A i \in 1..Len(B) : /\ Owned(own, OfBlock(B[i].offset), B[i].offset, cap[i] + 1)
                         /\ B[i].offset + cap[i] + 1 <= eof

HandleIs(own, B, cap) ==
    /\ data_eof \in Nat /\ Len(file) <= data_eof
    /\ table_head = B[1].offset
    /\ table_hash_algo \in {"None", "Sha256"} /\ default_capacity \in Nat
    /\ blocks = Infos(B, cap) /\ \A i \in 1..Len(B) : cap[i] \in Nat
    /\ ~finalized => RoomHeld(own, B, cap, data_eof)

Holds(C, own, B, cap) ==
    /\ file \in Seq(C) /\ Zero \in C
    /\ Image(file, own, Lim, C, B, 0)
    /\ HeadIs(file, own, B[1].offset)
    /\ open => HandleIs(own, B, cap)
    /\ ~open => ~finalized

CInv == \E C, own, B, cap : Holds(C, own, B, cap)

\* The file f holds the table B, and a reader finds it.
TableIn(f, B) ==
    \E C, own, lim : f \in Seq(C) /\ Image(f, own, lim, C, B, 0) /\ HeadIs(f, own, B[1].offset)

\* From the file f to g the data of all partitions of the table stays, u's perhaps not.
DataStays(f, g, B, u) ==
    \A i \in 1..Len(B) : \A s \in 1..Len(B[i].entries) :
        B[i].entries[s].uid # u => ReadData(g, B[i].entries[s]) = ReadData(f, B[i].entries[s])

\* What a reader finds.
LEMMA TableReads ==
    ASSUME NEW f, NEW B, TableIn(f, B)
    PROVE  /\ Len(B) \in Nat /\ Len(B) >= 1 /\ Len(f) \in Nat
           /\ HeaderReadable(f) /\ ResolveHead(f) = B[1].offset
           /\ Verify(f, B[1].offset)
           /\ ChainReadable(f, B[1].offset) /\ Chain(f, B[1].offset) = Offsets(B)
           /\ Entries(f, B[1].offset) = FlattenSeq(Lists(B))
           /\ \A i \in 1..Len(B) : EntriesAt(f, B[i].offset) = B[i].entries
<1> DEFINE h == B[1].offset
<1>1. PICK C, own, lim : f \in Seq(C) /\ Image(f, own, lim, C, B, 0) /\ HeadIs(f, own, h)
  BY DEF TableIn
<1>2. B \in Tables(C) /\ Len(B) >= 1
  BY <1>1 DEF Image
<1>3. Len(B) \in Nat
  BY <1>2 DEF Tables
<1>4. 1 \in 1..Len(B)
  BY <1>2, <1>3
<1>5. h \in Nat \ {0}
  BY <1>1, <1>4, BlockOf
<1>6. /\ ChainReadable(f, h) /\ Chain(f, h) = Offsets(B)
      /\ \A i \in 1..Len(B) : EntriesAt(f, B[i].offset) = B[i].entries
                              /\ BlockReadable(f, B[i].offset)
  BY <1>1, TableRead
<1>7. BlockReadable(f, h)
  BY <1>4, <1>6
<1>8. Verify(f, h)
  BY <1>1, ImageVerifies
<1> HIDE DEF h
<1>9. HeaderReadable(f) /\ ResolveHead(f) = h
  BY <1>1, <1>5, <1>7, HeadFound
<1>10. Entries(f, h) = FlattenSeq(Lists(B))
  <2>1. DOMAIN Offsets(B) = 1..Len(B) /\ \A i \in 1..Len(B) : Offsets(B)[i] = B[i].offset
    BY DEF Offsets
  <2>2. Entries(f, h) = FlattenSeq([i \in 1..Len(B) |-> EntriesAt(f, Offsets(B)[i])])
    BY <1>6, <2>1, Zenon DEF Entries
  <2>3. \A i \in 1..Len(B) : EntriesAt(f, Offsets(B)[i]) = B[i].entries
    BY <1>6, <2>1, Zenon
  <2>4. [i \in 1..Len(B) |-> EntriesAt(f, Offsets(B)[i])] = [i \in 1..Len(B) |-> B[i].entries]
    BY <2>3, Zenon
  <2> QED
    BY <2>2, <2>4, Zenon DEF Lists
<1> QED
  BY <1>1, <1>2, <1>3, <1>6, <1>8, <1>9, <1>10 DEF h

LEMMA HandleTable ==
    ASSUME NEW C, NEW own, NEW B, NEW cap, Holds(C, own, B, cap)
    PROVE  TableIn(file, B)
BY Zenon DEF Holds, TableIn

\* What an operation with a handle finds.
LEMMA HandleReads ==
    ASSUME NEW C, NEW own, NEW B, NEW cap, Holds(C, own, B, cap)
    PROVE  /\ B \in Tables(C) /\ Len(B) \in Nat /\ Len(B) >= 1
           /\ file \in Seq(C) /\ Len(file) \in Nat
           /\ HeaderReadable(file) /\ ResolveHead(file) = B[1].offset
           /\ Verify(file, B[1].offset)
           /\ ChainReadable(file, B[1].offset) /\ Chain(file, B[1].offset) = Offsets(B)
           /\ Entries(file, B[1].offset) = FlattenSeq(Lists(B))
           /\ \A i \in 1..Len(B) : EntriesAt(file, B[i].offset) = B[i].entries
<1>1. B \in Tables(C) /\ file \in Seq(C)
  BY DEF Holds, Image
<1> QED
  BY <1>1, HandleTable, TableReads

LEMMA InvVerifies == CInv => AlwaysVerifies
<1> SUFFICES ASSUME CInv
             PROVE  AlwaysVerifies
  OBVIOUS
<1>1. PICK C, own, B, cap : Holds(C, own, B, cap)
  BY DEF CInv
<1>2. /\ HeaderReadable(file) /\ ResolveHead(file) = B[1].offset /\ Verify(file, B[1].offset)
  BY <1>1, HandleReads
<1> QED
  BY <1>2, Zenon DEF AlwaysVerifies

LEMMA InvMatches == CInv => HandleMatchesDisk
<1> SUFFICES ASSUME CInv, open
             PROVE  /\ table_head = ResolveHead(file)
                    /\ Len(blocks) = Len(Chain(file, table_head))
                    /\ \A i \in DOMAIN blocks :
                            [blocks[i] EXCEPT !.capacity = 0]
                                = [BlocksOnDisk(file, table_head)[i] EXCEPT !.capacity = 0]
  BY Zenon DEF HandleMatchesDisk
<1>1. PICK C, own, B, cap : Holds(C, own, B, cap)
  BY DEF CInv
<1> DEFINE h == B[1].offset
<1>2. /\ Len(B) \in Nat /\ ResolveHead(file) = h /\ Chain(file, h) = Offsets(B)
  BY <1>1, HandleReads
<1>3. /\ file \in Seq(C) /\ Image(file, own, Lim, C, B, 0)
      /\ table_head = h /\ blocks = Infos(B, cap)
  BY <1>1 DEF Holds, HandleIs
<1>4. \A i \in 1..Len(B) : BlockAt(file, B[i].offset) = At(file, B[i].offset)
  BY <1>3, TableRead
<1> HIDE DEF h
<1>5. /\ DOMAIN Offsets(B) = 1..Len(B) /\ Len(Offsets(B)) = Len(B)
      /\ \A i \in 1..Len(B) : Offsets(B)[i] = B[i].offset
  BY <1>2 DEF Offsets
<1>6. DOMAIN blocks = 1..Len(B) /\ Len(blocks) = Len(B)
  BY <1>2, <1>3 DEF Infos
<1>7. ASSUME NEW i \in 1..Len(B)
      PROVE  [blocks[i] EXCEPT !.capacity = 0]
                = [BlocksOnDisk(file, table_head)[i] EXCEPT !.capacity = 0]
  <2> DEFINE off == B[i].offset  n == Len(B[i].entries)  algo == B[i].algo  next == Successor(B, i)
             b == BlockAt(file, off)
  <2>1. b = BlockCell(n, next, algo, TableHash(algo, next, B[i].entries))
    <3>1. BlockHeld(file, own, B[i].offset, Successor(B, i), B[i].algo, B[i].entries)
      BY <1>3, BlockOf
    <3> QED
      BY <1>4, <3>1, Zenon DEF BlockHeld
  <2>2. b.count = n /\ b.next = next /\ b.algo = algo
    BY <2>1 DEF BlockCell
  <2>3. blocks[i] = BlockInfo(off, cap[i], n, algo, next)
    BY <1>3, Zenon DEF Infos
  <2>4. BlocksOnDisk(file, table_head)[i] = BlockInfo(off, b.count, b.count, b.algo, b.next)
    BY <1>2, <1>3, <1>5, Zenon DEF BlocksOnDisk
  <2> HIDE DEF off, n, algo, next, b
  <2> QED
    BY <2>2, <2>3, <2>4 DEF BlockInfo
<1> QED
  BY <1>2, <1>3, <1>5, <1>6, <1>7

-----------------------------------------------------------------------------
(* create_with.                                                            *)

LEMMA ClampNat ==
    ASSUME NEW n \in Nat, NEW hi \in Nat
    PROVE  clamp(n, 1, hi) \in Nat \ {0}
<1> DEFINE x == Min({n, hi})
<1>1. x \in Nat
  <2>1. Min({n, hi}) = IF n <= hi THEN n ELSE hi
    BY MinOfTwo
  <2> QED
    BY <2>1
<1>2. clamp(n, 1, hi) = Max({1, x})
  BY Zenon DEF clamp
<1> HIDE DEF x
<1> DEFINE T == {1, x}  m == x + 1
<1>3. T \in SUBSET Nat /\ T # {} /\ m \in Nat /\ \A t \in T : t <= m
  BY <1>1
<1> HIDE DEF T, m
<1>4. Max(T) \in T /\ \A t \in T : t <= Max(T)
  BY <1>3, MaxOfNat
<1>5. 1 \in T
  BY DEF T
<1> DEFINE y == Max(T)
<1>6. y \in T /\ \A t \in T : t <= y
  BY <1>4
<1> HIDE DEF y
<1>7. y \in Nat \ {0}
  BY <1>3, <1>5, <1>6
<1> QED
  BY <1>2, <1>7 DEF T, y

LEMMA InitHolds == Init => CInv
<1> SUFFICES ASSUME Init
             PROVE  CInv
  OBVIOUS
<1>1. PICK c \in FirstCapacities, algo \in TableAlgos :
        LET cp == clamp(c, 1, MaxEntries) IN
        /\ file = <<HeaderCell(HeaderSize),
                    BlockCell(0, 0, algo, TableHash(algo, 0, <<>>))>>
        /\ open = TRUE
        /\ finalized = FALSE
        /\ table_head = HeaderSize
        /\ blocks = <<BlockInfo(HeaderSize, cp, 0, algo, 0)>>
        /\ data_eof = HeaderSize + TableHeaderSize + cp * EntrySize
        /\ default_capacity = cp
        /\ table_hash_algo = algo
  BY DEF Init
<1> DEFINE hc == HeaderCell(1)
           b == BlockCell(0, 0, algo, TableHash(algo, 0, <<>>))
           cp == clamp(c, 1, MaxEntries)
           C == {hc, b, Zero}
           r == ExtendedRow(1, algo, <<>>)
           B == <<r>>
           own == [o \in Nat |-> IF o = 0 THEN OfHeader ELSE OfBlock(1)]
           cap == [i \in 1..1 |-> cp]
<1>2. cp \in Nat /\ algo \in {"None", "Sha256"}
  BY ContainerAssumption, ClampNat
<1>3. hc.t = "hdr" /\ hc.pto = 1
  BY DEF HeaderCell
<1> HIDE DEF hc, b, cp
<1>4. /\ file = <<hc, b>> /\ open /\ ~finalized /\ table_head = 1
      /\ blocks = <<BlockInfo(1, cp, 0, algo, 0)>> /\ data_eof = 2 + cp
      /\ default_capacity = cp /\ table_hash_algo = algo
  BY <1>1, <1>2 DEF HeaderSize, TableHeaderSize, EntrySize, hc, b, cp
<1>5. file \in Seq(C) /\ Len(file) = 2 /\ Zero \in C
  BY <1>4
<1>6. At(file, 0) = hc /\ At(file, 1) = b
  BY <1>4 DEF At
<1>7. r.offset = 1 /\ r.algo = algo /\ r.entries = <<>>
  BY DEF ExtendedRow
<1>8. B \in Tables(C) /\ Len(B) = 1 /\ B[1] = r
  <2> DEFINE R == [offset : Nat \ {0}, algo : {"None", "Sha256"}, entries : Seq(C)]
  <2>1. r \in R
    BY <1>2 DEF ExtendedRow
  <2> HIDE DEF r, R
  <2>2. B \in Seq(R)
    BY <2>1
  <2> QED
    BY <2>2 DEF Tables, R
<1>9. Lim = 2 + cp
  BY <1>4 DEF Lim
<1> HIDE DEF B, r, C
<1>10. \A i \in 1..Len(B) : i = 1
  BY <1>8
<1>11. Successor(B, 1) = 0
  BY <1>8 DEF Successor
<1>12. own[0] = OfHeader /\ \A o \in Nat : o > 0 => own[o] = OfBlock(1)
  OBVIOUS
<1> HIDE DEF own
<1>13. \A n \in Nat : Owned(own, OfBlock(1), 1, n)
  BY <1>12 DEF Owned
<1>14. BlockHeld(file, own, 1, 0, algo, <<>>)
  <2>1. Len(<<>>) = 0
    OBVIOUS
  <2>2. At(file, 1) = BlockCell(Len(<<>>), 0, algo, TableHash(algo, 0, <<>>))
    BY <1>6, <2>1, Zenon DEF b
  <2>3. Owned(own, OfBlock(1), 1, Len(<<>>) + 1)
    BY <1>13, <2>1
  <2>4. 1 \in Nat \ {0} /\ 1 + Len(<<>>) < Len(file)
    BY <1>5
  <2>5. \A i \in 1..Len(<<>>) : At(file, 1 + i) = <<>>[i] /\ <<>>[i].t = "ent"
    OBVIOUS
  <2> QED
    BY <2>2, <2>3, <2>4, <2>5, Zenon DEF BlockHeld
<1>15. Image(file, own, Lim, C, B, 0)
  <2>1. BlocksHeld(file, own, B)
    <3>1. ASSUME NEW i \in 1..Len(B)
          PROVE  BlockHeld(file, own, B[i].offset, Successor(B, i), B[i].algo, B[i].entries)
      <4>1. i = 1
        BY <1>10
      <4> QED
        BY <1>7, <1>8, <1>11, <1>14, <4>1, Zenon
    <3> QED
      BY <3>1, Zenon DEF BlocksHeld
  <2>2. BlocksApart(B)
    BY <1>10 DEF BlocksApart
  <2>3. \A i \in 1..Len(B) : Len(B[i].entries) = 0
    <3>1. ASSUME NEW i \in 1..Len(B)
          PROVE  Len(B[i].entries) = 0
      <4>1. B[i].entries = <<>>
        BY <1>7, <1>8, <1>10, Zenon
      <4> QED
        BY <4>1
    <3> QED
      BY <3>1
  <2>4. UidsApart(B)
    BY <2>3 DEF UidsApart
  <2>5. EntriesHeld(file, own, Lim, B, 0)
    BY <2>3 DEF EntriesHeld
  <2> QED
    BY <1>5, <1>8, <2>1, <2>2, <2>4, <2>5 DEF Image
<1>16. HeadIs(file, own, B[1].offset)
  BY <1>3, <1>5, <1>6, <1>7, <1>8, <1>12 DEF HeadIs
<1>17. HandleIs(own, B, cap)
  <2>1. blocks = Infos(B, cap)
    <3>1. Infos(B, cap) = [i \in 1..1 |-> BlockInfo(B[i].offset, cap[i], Len(B[i].entries),
                                                   B[i].algo, Successor(B, i))]
      BY <1>8, Zenon DEF Infos
    <3>2. BlockInfo(B[1].offset, cap[1], Len(B[1].entries), B[1].algo, Successor(B, 1))
             = BlockInfo(1, cp, 0, algo, 0)
      <4>1. cap[1] = cp /\ Len(<<>>) = 0
        OBVIOUS
      <4> HIDE DEF cap
      <4> QED
        BY <1>7, <1>8, <1>11, <4>1, Zenon
    <3> DEFINE x == BlockInfo(1, cp, 0, algo, 0)
    <3> HIDE DEF x
    <3>3. \A i \in 1..1 : BlockInfo(B[i].offset, cap[i], Len(B[i].entries), B[i].algo,
                                   Successor(B, i)) = x
      BY <3>2 DEF x
    <3>4. Infos(B, cap) = [i \in 1..1 |-> x]
      BY <3>1, <3>3, Zenon
    <3>5. blocks = <<x>>
      BY <1>4 DEF x
    <3> QED
      BY <3>4, <3>5
  <2>2. \A i \in 1..Len(B) : cap[i] = cp /\ cap[i] \in Nat
    BY <1>2, <1>8
  <2> HIDE DEF cap
  <2>3. RoomHeld(own, B, cap, data_eof)
    BY <1>2, <1>4, <1>7, <1>8, <1>10, <1>13, <2>2 DEF RoomHeld
  <2> QED
    BY <1>2, <1>4, <1>5, <1>7, <1>8, <2>1, <2>2, <2>3 DEF HandleIs
<1> HIDE DEF cap
<1>18. Holds(C, own, B, cap)
  BY <1>4, <1>5, <1>15, <1>16, <1>17, Zenon DEF Holds
<1> QED
  BY <1>18, Zenon DEF CInv

-----------------------------------------------------------------------------
(* Where a partition is.                                                   *)

LEMMA MinOfOne ==
    ASSUME NEW T, NEW x \in Nat, T = {x}
    PROVE  Min(T) = x
<1>1. T \in SUBSET Nat /\ T # {}
  OBVIOUS
<1>2. Min(T) \in T
  BY <1>1, MinOfNat
<1> QED
  BY <1>2

\* An operation that looks for a UID looks through the whole table.
LEMMA LocatedIs ==
    ASSUME NEW C, NEW own, NEW B, NEW cap, Holds(C, own, B, cap), open = TRUE, NEW u
    PROVE  Located(u) <=> \E i \in 1..Len(B) : \E s \in 1..Len(B[i].entries) :
                                B[i].entries[s].uid = u
<1> DEFINE F == FlattenSeq(Lists(B))
<1>1. B \in Tables(C) /\ Entries(file, B[1].offset) = F
  BY HandleReads
<1>2. table_head = B[1].offset
  BY DEF Holds, HandleIs
<1>3. Located(u) <=> \E x \in DOMAIN F : F[x].uid = u
  BY <1>1, <1>2, Zenon DEF Located
<1> HIDE DEF F
<1>4. F = FlattenSeq(Lists(B))
  BY DEF F
<1>5. ASSUME NEW x \in DOMAIN F, F[x].uid = u
      PROVE  \E i \in 1..Len(B) : \E s \in 1..Len(B[i].entries) : B[i].entries[s].uid = u
  <2>1. \E i \in 1..Len(B) : \E s \in 1..Len(B[i].entries) : F[x] = B[i].entries[s]
    BY <1>1, <1>4, ListedWhere
  <2> QED
    BY <1>5, <2>1, Zenon
<1>6. ASSUME NEW i \in 1..Len(B), NEW s \in 1..Len(B[i].entries), B[i].entries[s].uid = u
      PROVE  \E x \in DOMAIN F : F[x].uid = u
  <2>1. \E x \in DOMAIN F : F[x] = B[i].entries[s]
    BY <1>1, <1>4, ListedAt
  <2> QED
    BY <1>6, <2>1, Zenon
<1> QED
  BY <1>3, <1>5, <1>6, Zenon

LEMMA LocateIs ==
    ASSUME NEW C, NEW own, NEW B, NEW cap, Holds(C, own, B, cap), open = TRUE, NEW u,
           NEW k \in 1..Len(B), NEW s \in 1..Len(B[k].entries), B[k].entries[s].uid = u
    PROVE  Locate(u) = [block |-> k, slot |-> s, entry |-> B[k].entries[s]]
<1> DEFINE chain == Chain(file, table_head)
           hits(off) == {x \in DOMAIN EntriesAt(file, off) : EntriesAt(file, off)[x].uid = u}
           T == {n \in DOMAIN chain : hits(chain[n]) # {}}
           off == chain[Min(T)]
<1>1. /\ Len(B) \in Nat /\ Chain(file, B[1].offset) = Offsets(B) /\ B \in Tables(C)
      /\ \A i \in 1..Len(B) : EntriesAt(file, B[i].offset) = B[i].entries
  BY HandleReads
<1>2. /\ table_head = B[1].offset /\ blocks = Infos(B, cap)
      /\ Image(file, own, Lim, C, B, 0)
  BY DEF Holds, HandleIs
<1>3. BlocksApart(B) /\ UidsApart(B)
  BY <1>2 DEF Image
<1>4. chain = Offsets(B) /\ DOMAIN chain = 1..Len(B) /\ \A i \in 1..Len(B) : chain[i] = B[i].offset
  BY <1>1, <1>2 DEF Offsets
<1> HIDE DEF chain
<1>5. ASSUME NEW i \in 1..Len(B)
      PROVE  hits(B[i].offset) = {x \in 1..Len(B[i].entries) : B[i].entries[x].uid = u}
  <2>1. B[i].entries \in Seq(C)
    BY <1>2, BlockOf
  <2>2. DOMAIN B[i].entries = 1..Len(B[i].entries)
    BY <2>1
  <2> QED
    BY <1>1, <2>2, Zenon
<1>6. hits(B[k].offset) = {s}
  <2>1. \A x \in 1..Len(B[k].entries) : B[k].entries[x].uid = u => x = s
    BY <1>3, Zenon DEF UidsApart
  <2> HIDE DEF hits
  <2> QED
    BY <1>5, <2>1
<1>7. \A i \in 1..Len(B) : hits(B[i].offset) # {} => i = k
  <2>1. ASSUME NEW i \in 1..Len(B), NEW x \in hits(B[i].offset)
        PROVE  i = k
    <3>1. x \in 1..Len(B[i].entries) /\ B[i].entries[x].uid = u
      BY <1>5, <2>1, Zenon
    <3>2. x \in 1..Len(B[i].entries) /\ B[i].entries[x].uid = B[k].entries[s].uid
      BY <3>1
    <3>3. UidsApart(B)
      BY <1>3
    <3> HIDE DEF hits
    <3> QED
      BY <3>2, <3>3 DEF UidsApart
  <2> HIDE DEF hits
  <2> QED
    BY <2>1
<1> HIDE DEF hits
<1>8. k \in Nat /\ s \in Nat
  BY <1>1
<1>9. Min(T) = k
  <2>1. T = {k}
    <3>1. k \in T
      BY <1>4, <1>6
    <3>2. \A n \in T : n = k
      BY <1>4, <1>7
    <3> QED
      BY <3>1, <3>2
  <2> HIDE DEF T
  <2> QED
    BY <1>8, <2>1, MinOfOne
<1>10. off = B[k].offset
  BY <1>4, <1>9, Zenon
<1>11. Min(hits(off)) = s
  <2> DEFINE H == hits(off)
  <2>1. H = {s}
    BY <1>6, <1>10
  <2> HIDE DEF H
  <2>2. Min(H) = s
    BY <1>8, <2>1, MinOfOne
  <2> QED
    BY <2>2 DEF H
<1>12. block_index(off) = k
  <2>1. DOMAIN blocks = 1..Len(B) /\ \A i \in 1..Len(B) : blocks[i].offset = B[i].offset
    BY <1>1, <1>2 DEF Infos, BlockInfo
  <2>2. \A i \in DOMAIN blocks : blocks[i].offset = off <=> i = k
    BY <1>3, <1>10, <2>1 DEF BlocksApart
  <2> HIDE DEF off
  <2> QED
    BY <2>1, <2>2 DEF block_index
<1>13. EntriesAt(file, off)[Min(hits(off))] = B[k].entries[s]
  BY <1>1, <1>10, <1>11, Zenon
<1>14. Locate(u) = [block |-> block_index(off), slot |-> Min(hits(off)),
                    entry |-> EntriesAt(file, off)[Min(hits(off))]]
  BY Zenon DEF Locate, off, T, hits, chain
<1> QED
  BY <1>11, <1>12, <1>13, <1>14, Zenon

\* No live reservation reaches beyond the end of the file.
LEMMA MaterialisedIs ==
    ASSUME NEW C, NEW own, NEW B, NEW cap, Holds(C, own, B, cap), open = TRUE, Materialised,
           NEW k \in 1..Len(B), NEW s \in 1..Len(B[k].entries)
    PROVE  B[k].entries[s].max > 0 =>
                B[k].entries[s].start + B[k].entries[s].max <= Len(file)
<1> DEFINE F == FlattenSeq(Lists(B))
<1>1. B \in Tables(C) /\ Entries(file, B[1].offset) = F
  BY HandleReads
<1>2. table_head = B[1].offset
  BY DEF Holds, HandleIs
<1>3. \A x \in DOMAIN F : F[x].max > 0 => F[x].start + F[x].max <= Len(file)
  BY <1>1, <1>2, Zenon DEF Materialised
<1> HIDE DEF F
<1>4. F = FlattenSeq(Lists(B))
  BY DEF F
<1>5. PICK x \in DOMAIN F : F[x] = B[k].entries[s]
  BY <1>1, <1>4, ListedAt
<1> QED
  BY <1>3, <1>5, Zenon

-----------------------------------------------------------------------------
(* add_partition.                                                          *)

LEMMA WrittenSlice ==
    ASSUME NEW C, NEW f \in Seq(C), NEW g \in Seq(C), NEW off \in Nat, NEW d \in Seq(C),
           Wrote(f, g, off, d)
    PROVE  /\ SubSeq(g, off + 1, off + Len(d)) = d
           /\ Len(d) > 0 => off + Len(d) <= Len(g)
           /\ Fits(f, g, off + Len(d))
<1> DEFINE n == Len(d)
<1>1. n \in Nat /\ Len(f) \in Nat /\ Len(g) \in Nat
  OBVIOUS
<1>2. /\ Len(g) = IF n = 0 \/ off + n <= Len(f) THEN Len(f) ELSE off + n
      /\ \A i \in 1..n : At(g, off + i - 1) = d[i]
  BY DEF Wrote
<1> HIDE DEF n
<1>3. (n > 0 => off + n <= Len(g)) /\ Fits(f, g, off + n)
  BY <1>1, <1>2 DEF Fits
<1>4. SubSeq(g, off + 1, off + n) = d
  <2>1. CASE n = 0
    <3>1. d = <<>>
      BY <2>1 DEF n
    <3> QED
      BY <2>1, <3>1
  <2>2. CASE n > 0
    <3> DEFINE x == off + 1  y == off + n  p == SubSeq(g, x, y)
    <3>1. x \in Nat \ {0} /\ y \in 0..Len(g) /\ x <= y /\ y - x + 1 = n
      BY <1>1, <1>3, <2>2
    <3>2. \A i \in 1..n : x + i - 1 = off + i /\ off + i = (off + i - 1) + 1
      BY <1>1
    <3> HIDE DEF x, y
    <3>3. p \in Seq(C) /\ Len(p) = n /\ \A i \in 1..n : p[i] = g[x + i - 1]
      BY <3>1, SliceType
    <3>4. \A i \in 1..n : p[i] = d[i]
      <4>1. ASSUME NEW i \in 1..n
            PROVE  p[i] = d[i]
        <5>1. g[(off + i - 1) + 1] = d[i]
          BY <1>2 DEF At
        <5>2. p[i] = g[(off + i - 1) + 1]
          BY <3>2, <3>3
        <5> QED
          BY <5>1, <5>2
      <4> QED
        BY <4>1
    <3> HIDE DEF p
    <3>5. Len(d) = n
      BY DEF n
    <3>6. p = d
      BY <3>3, <3>4, <3>5
    <3> QED
      BY <3>6 DEF p, x, y
  <2>3. n = 0 \/ n > 0
    BY <1>1
  <2> QED
    BY <2>1, <2>2, <2>3, Zenon
<1> QED
  BY <1>3, <1>4 DEF n

LEMMA OwnersApart ==
    /\ \A u, v : v # u => OfPart(v) # OfPart(u)
    /\ \A x, v : OfPart(v) # OfBlock(x)
BY DEF OfPart, OfBlock

\* A change of a block, or of the region of u, leaves the data of the others alone.
LEMMA ImageStays ==
    ASSUME NEW C, NEW f \in Seq(C), NEW D, NEW g \in Seq(D), NEW own, NEW owner,
           CellsDiffer(f, g, own, owner), NEW lim, NEW E, NEW B, Image(f, own, lim, E, B, 0),
           NEW u, \A v : v # u => OfPart(v) # owner
    PROVE  DataStays(f, g, B, u)
<1>1. ASSUME NEW i \in 1..Len(B), NEW s \in 1..Len(B[i].entries), B[i].entries[s].uid # u
      PROVE  ReadData(g, B[i].entries[s]) = ReadData(f, B[i].entries[s])
  <2> DEFINE e == B[i].entries[s]
  <2>1. EntryHeld(f, own, lim, e)
    <3>1. EntriesHeld(f, own, lim, B, 0) /\ i # 0
      BY DEF Image
    <3> QED
      BY <3>1 DEF EntriesHeld
  <2>2. OfPart(e.uid) # owner
    BY <1>1
  <2> HIDE DEF e
  <2>3. ReadData(g, e) = ReadData(f, e)
    BY <2>1, <2>2, DataKept
  <2> QED
    BY <2>3 DEF e
<1> QED
  BY <1>1, Zenon DEF DataStays

\* The same of a change of u's region and then of a block.
LEMMA BothStay ==
    ASSUME NEW C, NEW f \in Seq(C), NEW g \in Seq(C), NEW D, NEW h \in Seq(D), NEW own, NEW u, NEW x,
           CellsDiffer(f, g, own, OfPart(u)), CellsDiffer(g, h, own, OfBlock(x)), NEW lim, NEW E, NEW B,
           Image(f, own, lim, E, B, 0)
    PROVE  DataStays(f, h, B, u)
<1>1. ASSUME NEW i \in 1..Len(B), NEW s \in 1..Len(B[i].entries), B[i].entries[s].uid # u
      PROVE  ReadData(h, B[i].entries[s]) = ReadData(f, B[i].entries[s])
  <2> DEFINE e == B[i].entries[s]
  <2>1. EntryHeld(f, own, lim, e)
    <3>1. EntriesHeld(f, own, lim, B, 0) /\ i # 0
      BY DEF Image
    <3> QED
      BY <3>1 DEF EntriesHeld
  <2>2. e.uid # u
    BY <1>1
  <2> HIDE DEF e
  <2>3. OfPart(e.uid) # OfPart(u) /\ OfPart(e.uid) # OfBlock(x)
    BY <2>2, OwnersApart
  <2>4. EntryHeld(g, own, lim, e) /\ ReadData(g, e) = ReadData(f, e)
    BY <2>1, <2>3, DataKept, EntryKept
  <2>5. ReadData(h, e) = ReadData(g, e)
    BY <2>3, <2>4, DataKept
  <2> QED
    BY <2>4, <2>5 DEF e
<1> QED
  BY <1>1, Zenon DEF DataStays

LEMMA StaysOn ==
    ASSUME NEW f, NEW g, NEW h, NEW B, NEW u, DataStays(f, g, B, u), DataStays(g, h, B, u)
    PROVE  DataStays(f, h, B, u)
BY Zenon DEF DataStays

\* No entry of the table has this UID.
Unused(B, u) == \A i \in 1..Len(B) : \A s \in 1..Len(B[i].entries) : B[i].entries[s].uid # u

\* No cell of these is a trailer.
Untrailed(d) == \A i \in 1..Len(d) : d[i].t # "trl"

\* g is f with the data d of u's entry e, which the table B has not got yet.
DataLaid(C, f, g, own, lim, B, u, e, d) ==
    /\ g \in Seq(C) /\ CellsDiffer(f, g, own, OfPart(u)) /\ Len(g) <= lim /\ lim \in Nat
    /\ Image(g, own, lim, C, B, 0) /\ EntryHeld(g, own, lim, e)
    /\ ReadData(g, e) = d /\ DataStays(f, g, B, u)

\* New data at the end of everything: the table is as it was and the entry that
\* describes the data is one that may be added to it.
LEMMA DataAdded ==
    ASSUME NEW C, Zero \in C, NEW f \in Seq(C), NEW eof \in Nat, Len(f) <= eof, NEW own, NEW B,
           Image(f, own, eof, C, B, 0), NEW own2, SameOwners(own, own2, eof),
           NEW u \in Uid, Unused(B, u), NEW d \in Seq(C), Untrailed(d), NEW r \in Nat,
           Owned(own2, OfPart(u), eof, Len(d) + r), NEW lim2, lim2 = eof + Len(d) + r,
           NEW algo, NEW e, e = Entry(Raw, u, eof, Len(d) + r, Len(d), algo, Digest(algo, d)),
           NEW g, g = Apply(f, WriteCells(eof, d))
    PROVE  DataLaid(C, f, g, own2, lim2, B, u, e, d)
<1> DEFINE n == Len(d)
<1>1. n \in Nat /\ Len(f) \in Nat /\ lim2 \in Nat /\ eof <= lim2 /\ lim2 = eof + n + r
  OBVIOUS
<1>2. Owned(own2, OfPart(u), eof, Len(d))
  <2>1. \A o \in eof..(eof + (n + r) - 1) : own2[o] = OfPart(u)
    BY DEF Owned
  <2> HIDE DEF n
  <2>2. \A o \in eof..(eof + n - 1) : o \in eof..(eof + (n + r) - 1)
    BY <1>1
  <2>3. \A o \in eof..(eof + n - 1) : own2[o] = OfPart(u)
    BY <2>1, <2>2
  <2> QED
    BY <2>3 DEF Owned, n
<1>3. g \in Seq(C) /\ CellsDiffer(f, g, own2, OfPart(u)) /\ Wrote(f, g, eof, d)
  <2>1. \A i \in 1..Len(d) : d[i].t # "trl"
    BY DEF Untrailed
  <2> QED
    BY <1>2, <2>1, CellsWritten
<1>4. /\ SubSeq(g, eof + 1, eof + n) = d /\ (n > 0 => eof + n <= Len(g))
      /\ Fits(f, g, eof + n)
  BY <1>3, WrittenSlice
<1> HIDE DEF n
<1>5. Len(g) \in Nat
  BY <1>3
<1>6. Len(g) <= lim2
  BY <1>1, <1>4, <1>5 DEF Fits
<1>7. Image(f, own2, lim2, C, B, 0)
  BY <1>1, ImageOwned
<1>8. Image(g, own2, lim2, C, B, 0)
  <2>1. \A i \in 1..Len(B) : OfBlock(B[i].offset) # OfPart(u)
    BY DEF OfBlock, OfPart
  <2>2. \A i \in 1..Len(B) : i # 0 =>
            \A s \in 1..Len(B[i].entries) : OfPart(B[i].entries[s].uid) # OfPart(u)
    BY DEF OfPart, Unused
  <2> QED
    BY <1>3, <1>7, <2>1, <2>2, ImageKept
<1>9. EntryHeld(g, own2, lim2, e)
  <2>7. IsEntry(e)
    <3>1. /\ e.uid = u /\ e.start = eof /\ e.max = Len(d) + r
          /\ e.used = Len(d) /\ e.algo = algo /\ e.hash = Digest(algo, d)
      BY DEF Entry
    <3> QED
      BY <3>1, Zenon DEF IsEntry
  <2>1. /\ e.t = "ent" /\ e.type = Raw /\ e.uid = u /\ e.start = eof /\ e.max = n + r
        /\ e.used = n /\ e.algo = algo /\ e.hash = Digest(algo, d)
    BY DEF Entry, n
  <2>2. e.used \in 0..e.max /\ e.max \in Nat
    <3>1. n \in 0..(n + r) /\ n + r \in Nat
      BY <1>1
    <3> QED
      BY <2>1, <3>1, Zenon
  <2>3. e.max > 0 => e.start + e.max <= lim2
    BY <1>1, <2>1
  <2>4. e.used > 0 => e.start + e.used <= Len(g)
    BY <1>4, <2>1
  <2>5. Owned(own2, OfPart(e.uid), e.start, e.max)
    BY <2>1, Zenon DEF n
  <2>6. e.hash = Digest(e.algo, SubSeq(g, e.start + 1, e.start + e.used))
    BY <1>4, <2>1, Zenon
  <2> QED
    BY <2>1, <2>2, <2>3, <2>4, <2>5, <2>6, <2>7 DEF EntryHeld
<1>10. ReadData(g, e) = d
  <2>1. e.start = eof /\ e.used = n
    BY DEF Entry, n
  <2> QED
    BY <1>4, <2>1, Zenon DEF ReadData
<1>11. DataStays(f, g, B, u)
  BY <1>3, <1>7, OwnersApart, ImageStays
<1> QED
  BY <1>1, <1>3, <1>6, <1>8, <1>9, <1>10, <1>11, Zenon DEF DataLaid

LEMMA ImageLess ==
    ASSUME NEW f, NEW own, NEW lim, NEW C, NEW B, NEW k, Image(f, own, lim, C, B, 0)
    PROVE  Image(f, own, lim, C, B, k)
<1>1. B \in Tables(C)
  BY DEF Image
<1>2. \A i \in 1..Len(B) : i # 0
  BY <1>1 DEF Tables
<1>3. EntriesHeld(f, own, lim, B, k)
  BY <1>2 DEF Image, EntriesHeld
<1> QED
  BY <1>3 DEF Image

\* A write of data, and then of a block.
DataThenBlock(C, f, off, d, boff, next, algo, es) ==
    /\ WriteBlock(boff, next, algo, es) \in Seq(Nat \X C)
    /\ WriteCells(off, d) \in Seq(Nat \X C)
    /\ Apply(f, WriteCells(off, d)) \in Seq(C)
    /\ Apply(f, WriteCells(off, d) \o WriteBlock(boff, next, algo, es))
            = Apply(Apply(f, WriteCells(off, d)), WriteBlock(boff, next, algo, es))

LEMMA ThenBlock ==
    ASSUME NEW C, Zero \in C, NEW f \in Seq(C), NEW off \in Nat, NEW d \in Seq(C),
           NEW boff \in Nat, NEW next, NEW algo, NEW es \in Seq(C),
           BlockCell(Len(es), next, algo, TableHash(algo, next, es)) \in C
    PROVE  DataThenBlock(C, f, off, d, boff, next, algo, es)
<1> DEFINE cells == BlockCells(next, algo, es)  x == WriteCells(off, d)
           y == WriteBlock(boff, next, algo, es)
<1>1. y = WriteCells(boff, cells) /\ cells \in Seq(C)
  BY WriteBlockIs
<1> HIDE DEF cells
<1>2. WriteCells(boff, cells) \in Seq(Nat \X C)
  BY <1>1, WriteCellsInRow
<1>3. x \in Seq(Nat \X C)
  BY WriteCellsInRow
<1>4. y \in Seq(Nat \X C)
  BY <1>1, <1>2, Zenon
<1> HIDE DEF x, y
<1>5. InTurn(C, f, x, y)
  BY <1>3, <1>4, ApplyConcat
<1> QED
  BY <1>3, <1>4, <1>5, Zenon DEF x, y, InTurn, DataThenBlock

\* es are the entries of the k-th block and e, and the UIDs stay apart with them.
AddsTo(C, B, k, e, es) ==
    /\ es \in Seq(C) /\ Len(es) = Len(B[k].entries) + 1
    /\ \A s \in 1..Len(es) : IF s <= Len(B[k].entries) THEN es[s] = B[k].entries[s]
                             ELSE es[s] = e
    /\ UidsApart(Put(B, k, es))

LEMMA PutUids ==
    ASSUME NEW C, NEW B \in Tables(C), UidsApart(B), NEW u, Unused(B, u), NEW k \in 1..Len(B),
           NEW e \in C, e.uid = u, B[k].entries \in Seq(C),
           NEW es, es = Append(B[k].entries, e)
    PROVE  AddsTo(C, B, k, e, es)
<1> DEFINE fs == B[k].entries  n == Len(fs)  P == Put(B, k, es)
<1>1. es \in Seq(C) /\ Len(es) = n + 1 /\ n \in Nat
      /\ \A s \in 1..(n + 1) : es[s] = IF s <= n THEN fs[s] ELSE e
  OBVIOUS
<1>2. /\ Len(P) = Len(B)
      /\ \A i \in 1..Len(B) : P[i].entries = IF i = k THEN es ELSE B[i].entries
  <2>1. es \in Seq(C)
    BY <1>1
  <2>2. /\ P \in Tables(C) /\ Len(P) = Len(B)
        /\ \A i \in 1..Len(B) : /\ P[i].offset = B[i].offset
                                /\ P[i].algo = B[i].algo
                                /\ Successor(P, i) = Successor(B, i)
                                /\ P[i].entries = IF i = k THEN es ELSE B[i].entries
    BY ONLY <2>1, PutIs, B \in Tables(C), k \in 1..Len(B)
  <2> QED
    BY <2>2
<1> HIDE DEF P, n
<1>3. ASSUME NEW i \in 1..Len(B), NEW s \in 1..Len(P[i].entries)
      PROVE  \/ i = k /\ s = n + 1 /\ P[i].entries[s].uid = u
             \/ s \in 1..Len(B[i].entries) /\ P[i].entries[s] = B[i].entries[s]
  <2>1. CASE i # k
    BY <1>2, <2>1
  <2>2. CASE i = k /\ s = n + 1
    <3>1. P[i].entries = es
      BY <1>2, <2>2, Zenon
    <3>2. es[n + 1] = e
      <4>1. n \in Nat
        BY <1>1
      <4>2. ~(n + 1 <= n) /\ n + 1 \in 1..(n + 1)
        BY <4>1
      <4> QED
        BY <1>1, <4>2, Zenon
    <3> QED
      BY <2>2, <3>1, <3>2, Zenon
  <2>3. CASE i = k /\ s # n + 1
    <3>1. P[i].entries = es
      BY <1>2, <2>3, Zenon
    <3>2. n \in Nat /\ s \in 1..(n + 1)
      <4>1. Len(P[i].entries) = n + 1
        BY <1>1, <3>1, Zenon
      <4> QED
        BY <1>1, <4>1, Zenon
    <3>3. s <= n /\ s \in 1..n
      BY <2>3, <3>2
    <3>4. es[s] = fs[s]
      BY <1>1, <3>2, <3>3, Zenon
    <3> QED
      BY <2>3, <3>1, <3>3, <3>4, Zenon DEF n
  <2> QED
    BY <2>1, <2>2, <2>3
<1>4. ASSUME NEW i \in 1..Len(B), NEW j \in 1..Len(B),
             NEW s \in 1..Len(P[i].entries), NEW t \in 1..Len(P[j].entries),
             P[i].entries[s].uid = P[j].entries[t].uid
      PROVE  i = j /\ s = t
  <2>1. CASE s \in 1..Len(B[i].entries) /\ P[i].entries[s] = B[i].entries[s]
    <3>1. CASE t \in 1..Len(B[j].entries) /\ P[j].entries[t] = B[j].entries[t]
      <4>1. B[i].entries[s].uid = B[j].entries[t].uid
        BY <1>4, <2>1, <3>1, Zenon
      <4> QED
        BY <2>1, <3>1, <4>1 DEF UidsApart
    <3>2. CASE P[j].entries[t].uid = u
      BY <1>4, <2>1, <3>2 DEF Unused
    <3> QED
      BY <1>3, <3>1, <3>2
  <2>2. CASE i = k /\ s = n + 1 /\ P[i].entries[s].uid = u
    <3>1. CASE t \in 1..Len(B[j].entries) /\ P[j].entries[t] = B[j].entries[t]
      BY <1>4, <2>2, <3>1 DEF Unused
    <3>2. CASE j = k /\ t = n + 1
      BY <2>2, <3>2
    <3> QED
      BY <1>3, <3>1, <3>2
  <2> QED
    BY <1>3, <2>1, <2>2
<1>5. UidsApart(P)
  BY <1>2, <1>4, Zenon DEF UidsApart
<1>6. \A s \in 1..Len(es) : IF s <= n THEN es[s] = fs[s] ELSE es[s] = e
  BY <1>1
<1> QED
  BY <1>1, <1>5, <1>6, Zenon DEF P, n, AddsTo

\* The contents are data: sequences of cells of D, none of which is a trailer.
PlainContents(D) == \A d \in Contents : d \in Seq(D) /\ Untrailed(d)

\* The i-th block, as the handle knows it.
LEMMA InfoIs ==
    ASSUME NEW C, NEW own, NEW B, NEW cap, Holds(C, own, B, cap), open = TRUE, NEW i \in 1..Len(B)
    PROVE  /\ blocks[i] = BlockInfo(B[i].offset, cap[i], Len(B[i].entries), B[i].algo, Successor(B, i))
           /\ blocks[i].offset = B[i].offset /\ blocks[i].capacity = cap[i]
           /\ blocks[i].count = Len(B[i].entries) /\ blocks[i].algo = B[i].algo
           /\ blocks[i].next = Successor(B, i)
           /\ DOMAIN blocks = 1..Len(B) /\ Len(blocks) = Len(B)
           /\ cap[i] \in Nat
<1>1. blocks = Infos(B, cap) /\ cap[i] \in Nat
  BY DEF Holds, HandleIs
<1>2. Len(B) \in Nat
  BY HandleReads
<1>3. DOMAIN blocks = 1..Len(B) /\ Len(blocks) = Len(B)
  BY <1>1, <1>2 DEF Infos
<1>4. blocks[i] = BlockInfo(B[i].offset, cap[i], Len(B[i].entries), B[i].algo, Successor(B, i))
  BY <1>1, Zenon DEF Infos
<1> QED
  BY <1>1, <1>3, <1>4 DEF BlockInfo

\* The room of the blocks stays theirs when what lies beyond changes hands.
LEMMA RoomKept ==
    ASSUME NEW own, NEW own2, NEW eof \in Nat, NEW eof2 \in Nat, eof <= eof2,
           SameOwners(own, own2, eof), NEW B, NEW cap, RoomHeld(own, B, cap, eof),
           \A j \in 1..Len(B) : B[j].offset \in Nat /\ cap[j] \in Nat
    PROVE  RoomHeld(own2, B, cap, eof2)
<1>1. ASSUME NEW j \in 1..Len(B)
      PROVE  /\ Owned(own2, OfBlock(B[j].offset), B[j].offset, cap[j] + 1)
             /\ B[j].offset + cap[j] + 1 <= eof2
  <2> DEFINE x == B[j].offset  c == cap[j]
  <2>1. x \in Nat /\ c \in Nat /\ Owned(own, OfBlock(x), x, c + 1) /\ x + c + 1 <= eof
    BY DEF RoomHeld
  <2> HIDE DEF x, c
  <2>2. \A o \in x..(x + (c + 1) - 1) : own[o] = OfBlock(x)
    BY <2>1 DEF Owned
  <2>3. \A o \in x..(x + (c + 1) - 1) : o \in 0..(eof - 1)
    BY <2>1
  <2>4. \A o \in x..(x + (c + 1) - 1) : own2[o] = OfBlock(x)
    BY <2>2, <2>3 DEF SameOwners
  <2>5. Owned(own2, OfBlock(x), x, c + 1)
    BY <2>4, Zenon DEF Owned
  <2>6. x + c + 1 <= eof2
    BY <2>1
  <2> QED
    BY <2>5, <2>6 DEF x, c
<1> QED
  BY <1>1, Zenon DEF RoomHeld

\* The UIDs stay apart when a block with one entry of an unused UID is added.
LEMMA GrownUids ==
    ASSUME NEW B, UidsApart(B), NEW u, Unused(B, u), NEW e, e.uid = u, NEW m, NEW P,
           Len(P) = m, \A i \in 1..m : i \in 1..Len(B) \/ i = m,
           \A i \in 1..Len(B) : P[i] = B[i], NEW es, P[m].entries = es, es = <<e>>
    PROVE  UidsApart(P)
<1>1. \A s \in 1..Len(es) : s = 1 /\ es[s].uid = u
  OBVIOUS
<1>2. ASSUME NEW i \in 1..m, NEW j \in 1..m,
             NEW s \in 1..Len(P[i].entries), NEW t \in 1..Len(P[j].entries),
             P[i].entries[s].uid = P[j].entries[t].uid
      PROVE  i = j /\ s = t
  <2>1. CASE i \in 1..Len(B) /\ j \in 1..Len(B)
    <3>1. /\ s \in 1..Len(B[i].entries) /\ t \in 1..Len(B[j].entries)
          /\ B[i].entries[s].uid = B[j].entries[t].uid
      BY <1>2, <2>1
    <3> QED
      BY <2>1, <3>1 DEF UidsApart
  <2>2. CASE i = m /\ j = m
    <3>1. s \in 1..Len(es) /\ t \in 1..Len(es)
      BY <2>2, Zenon
    <3> QED
      BY <1>1, <2>2, <3>1
  <2>3. CASE i \in 1..Len(B) /\ j = m
    <3>1. t \in 1..Len(es) /\ P[j].entries[t].uid = u
      BY <1>1, <2>3, Zenon
    <3>2. s \in 1..Len(B[i].entries) /\ P[i].entries[s].uid # u
      BY <2>3 DEF Unused
    <3> QED
      BY <1>2, <3>1, <3>2
  <2>4. CASE i = m /\ j \in 1..Len(B)
    <3>1. s \in 1..Len(es) /\ P[i].entries[s].uid = u
      BY <1>1, <2>4, Zenon
    <3>2. t \in 1..Len(B[j].entries) /\ P[j].entries[t].uid # u
      BY <2>4 DEF Unused
    <3> QED
      BY <1>2, <3>1, <3>2
  <2> QED
    BY <2>1, <2>2, <2>3, <2>4
<1> QED
  BY <1>2, Zenon DEF UidsApart

\* The facts an operation of an open handle starts from.
LEMMA HandleFacts ==
    ASSUME NEW C, NEW own, NEW B, NEW cap, Holds(C, own, B, cap), open = TRUE
    PROVE  /\ B \in Tables(C) /\ Len(B) \in Nat /\ Len(B) >= 1 /\ 1 \in 1..Len(B)
           /\ file \in Seq(C) /\ Len(file) \in Nat /\ Zero \in C
           /\ Image(file, own, data_eof, C, B, 0) /\ HeadIs(file, own, B[1].offset)
           /\ data_eof \in Nat /\ Len(file) <= data_eof /\ table_head = B[1].offset
           /\ table_hash_algo \in {"None", "Sha256"} /\ default_capacity \in Nat
           /\ blocks = Infos(B, cap) /\ \A j \in 1..Len(B) : cap[j] \in Nat
           /\ finalized = FALSE => RoomHeld(own, B, cap, data_eof)
           /\ \A j \in 1..Len(B) : B[j].offset \in Nat /\ cap[j] \in Nat
<1>1. /\ B \in Tables(C) /\ Len(B) \in Nat /\ Len(B) >= 1
      /\ file \in Seq(C) /\ Len(file) \in Nat
  BY HandleReads
<1>2. 1 \in 1..Len(B)
  BY <1>1
<1>3. /\ Zero \in C /\ Image(file, own, data_eof, C, B, 0) /\ HeadIs(file, own, B[1].offset)
      /\ data_eof \in Nat /\ Len(file) <= data_eof /\ table_head = B[1].offset
      /\ table_hash_algo \in {"None", "Sha256"} /\ default_capacity \in Nat
      /\ blocks = Infos(B, cap) /\ \A j \in 1..Len(B) : cap[j] \in Nat
      /\ finalized = FALSE => RoomHeld(own, B, cap, data_eof)
  BY DEF Holds, HandleIs, Lim
<1>4. \A j \in 1..Len(B) : B[j].offset \in Nat
  BY <1>3, BlockOf
<1> QED
  BY <1>1, <1>2, <1>3, <1>4

\* Where an edit of the table B leaves the file g, the handle's list bs and its cursor
\* eof: with the table P.
Leaves(g, bs, eof, B, P) ==
    \E C, own, cap :
        /\ Zero \in C /\ g \in Seq(C) /\ Image(g, own, eof, C, P, 0)
        /\ HeadIs(g, own, P[1].offset) /\ P[1].offset = B[1].offset
        /\ eof \in Nat /\ Len(g) <= eof
        /\ bs = Infos(P, cap) /\ \A j \in 1..Len(P) : cap[j] \in Nat
        /\ RoomHeld(own, P, cap, eof)

LEMMA LeavesTable ==
    ASSUME NEW g, NEW bs, NEW eof, NEW B, NEW P, Leaves(g, bs, eof, B, P)
    PROVE  TableIn(g, P) /\ P[1].offset = B[1].offset
BY Zenon DEF Leaves, TableIn

\* An edit that is carried out.
LEMMA Edited ==
    ASSUME NEW C, NEW own, NEW B, NEW cap, Holds(C, own, B, cap), open = TRUE,
           finalized = FALSE, NEW p, NEW P,
           Leaves(Apply(file, p.writes), p.blocks, p.eof, B, P), Perform(p)
    PROVE  CInv' /\ TableIn(file', P)
<1> DEFINE g == Apply(file, p.writes)
<1>1. PICK G, ow, c :
        /\ Zero \in G /\ g \in Seq(G) /\ Image(g, ow, p.eof, G, P, 0)
        /\ HeadIs(g, ow, P[1].offset) /\ P[1].offset = B[1].offset
        /\ p.eof \in Nat /\ Len(g) <= p.eof
        /\ p.blocks = Infos(P, c) /\ \A j \in 1..Len(P) : c[j] \in Nat
        /\ RoomHeld(ow, P, c, p.eof)
  BY Zenon DEF Leaves
<1>2. /\ file' = g /\ blocks' = p.blocks /\ data_eof' = p.eof
      /\ UNCHANGED <<open, finalized, table_head, default_capacity, table_hash_algo>>
  BY DEF Perform
<1>3. /\ table_head = B[1].offset /\ table_hash_algo \in {"None", "Sha256"}
      /\ default_capacity \in Nat
  BY HandleFacts
<1> HIDE DEF g
<1>4. Lim' = p.eof
  BY <1>2, Zenon DEF Lim
<1>5. HandleIs(ow, P, c)'
  BY <1>1, <1>2, <1>3, Zenon DEF HandleIs
<1>6. Holds(G, ow, P, c)'
  BY <1>1, <1>2, <1>4, <1>5, Zenon DEF Holds
<1>7. TableIn(file', P)
  BY <1>1, <1>2, Zenon DEF TableIn
<1> QED
  BY <1>6, <1>7, Zenon DEF CInv

\* The block cell and the writes that put the entries es in block k.
PutCell(B, k, es) ==
    BlockCell(Len(es), Successor(B, k), B[k].algo, TableHash(B[k].algo, Successor(B, k), es))
PutWrites(B, k, es) == WriteBlock(B[k].offset, Successor(B, k), B[k].algo, es)

\* The writes ws are u's data d at `at`, then the block k of B with the entries es.
PutWith(C, own, lim, f, ws, B, u, at, d, k, es) ==
    /\ Zero \in C /\ f \in Seq(C) /\ Image(f, own, lim, C, B, 0) /\ HeadIs(f, own, B[1].offset)
    /\ at \in Nat /\ d \in Seq(C) /\ Untrailed(d) /\ Owned(own, OfPart(u), at, Len(d))
    /\ k \in 1..Len(B) /\ es \in Seq(C) /\ PutCell(B, k, es) \in C
    /\ Owned(own, OfBlock(B[k].offset), B[k].offset, Len(es) + 1)
    /\ \A s \in 1..Len(es) : es[s].t = "ent"
    /\ ws = WriteCells(at, d) \o PutWrites(B, k, es)
Puts(f, ws, B, P, u) ==
    \E C, own, lim, at, d, k, es :
        PutWith(C, own, lim, f, ws, B, u, at, d, k, es) /\ P = Put(B, k, es)

\* P is B with one entry more in its i-th block; d is the data of that entry.
AddedTo(f, g, B, P, i, e, d) ==
    /\ i \in 1..Len(B) /\ P = Put(B, i, Append(B[i].entries, e))
    /\ DataStays(f, g, B, e.uid) /\ ReadData(g, e) = d

LEMMA AddsInPlace ==
    ASSUME NEW D, PlainContents(D), NEW C, NEW own, NEW B, NEW cap, Holds(C, own, B, cap),
           open = TRUE, finalized = FALSE, NEW u \in Uid, ~Located(u),
           NEW d \in Contents, NEW r \in Reserves, NEW algo \in DataAlgos,
           Roomy # {}, NEW g, g = Apply(file, InPlacePlan(u, d, r, algo).writes),
           NEW bs, bs = InPlacePlan(u, d, r, algo).blocks
    PROVE  \E i, P : /\ i = Min(Roomy)
                     /\ Leaves(g, bs, InPlacePlan(u, d, r, algo).eof, B, P)
                     /\ AddedTo(file, g, B, P, i, NewEntry(u, d, r, algo), d)
                     /\ Puts(file, InPlacePlan(u, d, r, algo).writes, B, P, u)
<1> DEFINE i == Min(Roomy)  n == Len(d)  eof2 == data_eof + n + r
           e == NewEntry(u, d, r, algo)  fs == B[i].entries  m == Len(fs)
           off == B[i].offset  next == Successor(B, i)  ba == B[i].algo
           es == Append(fs, e)
           bc == BlockCell(Len(es), next, ba, TableHash(ba, next, es))
           E == C \cup D \cup {e, bc}
           own2 == [o \in Nat |-> IF o < data_eof THEN own[o] ELSE OfPart(u)]
           f1 == Apply(file, WriteCells(data_eof, d))
           P == Put(B, i, es)
<1>1. /\ B \in Tables(C) /\ Len(B) \in Nat /\ Len(B) >= 1
      /\ file \in Seq(C) /\ Len(file) \in Nat
  BY HandleFacts
<1>2. /\ Zero \in C /\ Image(file, own, data_eof, C, B, 0) /\ HeadIs(file, own, B[1].offset)
      /\ data_eof \in Nat /\ Len(file) <= data_eof /\ table_head = B[1].offset
      /\ table_hash_algo \in {"None", "Sha256"} /\ default_capacity \in Nat
      /\ blocks = Infos(B, cap) /\ \A j \in 1..Len(B) : cap[j] \in Nat
      /\ RoomHeld(own, B, cap, data_eof)
      /\ \A j \in 1..Len(B) : B[j].offset \in Nat /\ cap[j] \in Nat
  BY HandleFacts
<1>3. r \in Nat /\ d \in Seq(D) /\ n \in Nat /\ Untrailed(d)
  BY ContainerAssumption DEF PlainContents
<1>4. i \in 1..Len(B) /\ m < cap[i]
  <2>1. \A j \in Roomy : j \in 1..Len(B) /\ Len(B[j].entries) < cap[j]
    <3>1. ASSUME NEW j \in Roomy
          PROVE  j \in 1..Len(B) /\ Len(B[j].entries) < cap[j]
      <4>1. j \in DOMAIN blocks /\ blocks[j].count < blocks[j].capacity
        BY Zenon DEF Roomy
      <4>2. 1 \in 1..Len(B)
        BY <1>1
      <4>3. DOMAIN blocks = 1..Len(B)
        BY <4>2, InfoIs
      <4>4. j \in 1..Len(B)
        BY <4>1, <4>3
      <4>5. blocks[j].capacity = cap[j] /\ blocks[j].count = Len(B[j].entries)
        BY <4>4, InfoIs
      <4> QED
        BY <4>1, <4>4, <4>5
    <3> QED
      BY <3>1
  <2>2. Roomy \in SUBSET Nat
    BY <2>1
  <2>3. Min(Roomy) \in Roomy
    BY <2>2, MinOfNat
  <2> QED
    BY <2>1, <2>3
<1>5. e = Entry(Raw, u, data_eof, n + r, n, algo, Digest(algo, d)) /\ e.t = "ent" /\ e.uid = u
  BY DEF NewEntry, Entry
<1>6. /\ blocks[i].offset = off /\ blocks[i].next = next /\ blocks[i].algo = ba
      /\ blocks[i] = BlockInfo(off, cap[i], m, ba, next)
  BY <1>4, InfoIs
<1>7. off \in Nat \ {0} /\ fs \in Seq(C) /\ ba \in {"None", "Sha256"} /\ m \in Nat
  BY <1>2, <1>4, BlockOf
<1>8. g = Apply(file, InPlacePlan(u, d, r, algo).writes)
      /\ bs = InPlacePlan(u, d, r, algo).blocks
  OBVIOUS
<1>9. /\ InPlacePlan(u, d, r, algo).writes
            = WriteCells(data_eof, d) \o WriteBlock(off, next, ba, Append(EntriesAt(f1, off), e))
      /\ InPlacePlan(u, d, r, algo).blocks = [blocks EXCEPT ![i].count = @ + 1]
      /\ InPlacePlan(u, d, r, algo).eof = eof2
  BY <1>6 DEF InPlacePlan
<1>10. Unused(B, u)
  BY LocatedIs DEF Unused
<1> HIDE DEF i, n, e, m, off, next, ba, fs, f1
<1>11. C \subseteq E /\ D \subseteq E /\ e \in E /\ bc \in E
  OBVIOUS
<1> HIDE DEF bc, E
<1>12. /\ file \in Seq(E) /\ d \in Seq(E) /\ Zero \in E /\ fs \in Seq(E)
  BY <1>1, <1>2, <1>3, <1>7, <1>11
<1>13. SameOwners(own, own2, data_eof)
  BY <1>2 DEF SameOwners
<1>14. \A x \in Nat : Owned(own2, OfPart(u), data_eof, x)
  <2>1. \A o \in Nat : ~(o < data_eof) => own2[o] = OfPart(u)
    OBVIOUS
  <2> HIDE DEF own2
  <2> QED
    BY <1>2, <2>1 DEF Owned
<1> HIDE DEF own2
<1>15. n + r \in Nat /\ eof2 \in Nat /\ eof2 = data_eof + n + r /\ data_eof <= eof2
  BY <1>2, <1>3
<1> HIDE DEF eof2
<1>16. Image(file, own, data_eof, E, B, 0)
  <2>1. SameOwners(own, own, data_eof) /\ data_eof <= data_eof
    BY <1>2 DEF SameOwners
  <2> QED
    BY <1>1, <1>2, <1>11, <2>1, ImageOwned
<1>17. /\ f1 \in Seq(E) /\ CellsDiffer(file, f1, own2, OfPart(u)) /\ Len(f1) <= eof2
       /\ Image(f1, own2, eof2, E, B, 0) /\ EntryHeld(f1, own2, eof2, e)
       /\ ReadData(f1, e) = d /\ DataStays(file, f1, B, u)
  <2>1. Owned(own2, OfPart(u), data_eof, Len(d) + r)
    BY <1>14, <1>15, Zenon DEF n
  <2>2. eof2 = data_eof + Len(d) + r
    BY <1>15 DEF n
  <2>3. e = Entry(Raw, u, data_eof, Len(d) + r, Len(d), algo, Digest(algo, d))
    BY <1>5 DEF n
  <2>4. f1 = Apply(file, WriteCells(data_eof, d))
    BY DEF f1
  <2>5. DataLaid(E, file, f1, own2, eof2, B, u, e, d)
    BY <1>2, <1>3, <1>10, <1>12, <1>13, <1>16, <2>1, <2>2, <2>3, <2>4, DataAdded
  <2> QED
    BY <2>5, Zenon DEF DataLaid
<1>18. EntriesAt(f1, off) = fs
  <2>1. \A j \in 1..Len(B) : EntriesAt(f1, B[j].offset) = B[j].entries
    BY <1>17, TableRead
  <2> QED
    BY <1>4, <2>1 DEF off, fs
<1>19. /\ es \in Seq(E) /\ Len(es) = m + 1
       /\ \A s \in 1..Len(es) : IF s <= m THEN es[s] = fs[s] ELSE es[s] = e
       /\ UidsApart(P)
  <2>1. B \in Tables(E) /\ UidsApart(B)
    BY <1>16 DEF Image
  <2>2. es = Append(B[i].entries, e) /\ B[i].entries \in Seq(E)
    BY <1>12 DEF fs
  <2> HIDE DEF es
  <2>3. AddsTo(E, B, i, e, es)
    BY <1>4, <1>5, <1>10, <1>11, <2>1, <2>2, PutUids
  <2> QED
    BY <2>3, Zenon DEF m, fs, AddsTo
<1>20. g = Apply(f1, WriteBlock(off, next, ba, es))
  <2>1. g = Apply(file, WriteCells(data_eof, d) \o WriteBlock(off, next, ba, es))
    BY <1>8, <1>9, <1>18, Zenon
  <2>2. off \in Nat
    BY <1>7
  <2>3. BlockCell(Len(es), next, ba, TableHash(ba, next, es)) \in E
    BY <1>11 DEF bc
  <2> HIDE DEF es
  <2>4. DataThenBlock(E, file, data_eof, d, off, next, ba, es)
    BY <1>2, <1>12, <1>19, <2>2, <2>3, ThenBlock
  <2> QED
    BY <2>1, <2>4, Zenon DEF f1, DataThenBlock
<1> HIDE DEF es, P
<1>21. \A s \in 1..Len(es) : EntryHeld(f1, own2, eof2, es[s])
  <2>1. ASSUME NEW s \in 1..Len(es)
        PROVE  EntryHeld(f1, own2, eof2, es[s])
    <3>1. CASE s <= m
      <4>1. es[s] = fs[s] /\ s \in 1..m
        BY <1>7, <1>19, <3>1
      <4>2. i # 0
        BY <1>1, <1>4
      <4>3. EntriesHeld(f1, own2, eof2, B, 0)
        BY <1>17 DEF Image
      <4>4. EntryHeld(f1, own2, eof2, B[i].entries[s])
        BY <1>4, <4>1, <4>2, <4>3 DEF EntriesHeld, m, fs
      <4> QED
        BY <4>1, <4>4 DEF fs
    <3>2. CASE ~(s <= m)
      BY <1>17, <1>19, <3>2
    <3> QED
      BY <3>1, <3>2
  <2> QED
    BY <2>1
<1>22. RoomHeld(own2, B, cap, data_eof) /\ RoomHeld(own2, B, cap, eof2)
  <2>1. data_eof <= data_eof
    BY <1>2
  <2> QED
    BY <1>2, <1>13, <1>15, <2>1, RoomKept
<1>23. Owned(own2, OfBlock(off), off, Len(es) + 1) /\ off + Len(es) + 1 <= eof2
  <2>1. /\ Owned(own2, OfBlock(off), off, cap[i] + 1) /\ off + cap[i] + 1 <= data_eof
        /\ cap[i] \in Nat
    BY <1>2, <1>4, <1>22 DEF RoomHeld, off
  <2> DEFINE c == cap[i]  l == Len(es)
  <2>2. l = m + 1 /\ m < c /\ c \in Nat /\ off + c + 1 <= data_eof
    BY <1>4, <1>19, <2>1
  <2>3. \A o \in off..(off + (c + 1) - 1) : own2[o] = OfBlock(off)
    BY <2>1 DEF Owned
  <2> HIDE DEF c, l
  <2>4. \A o \in off..(off + (l + 1) - 1) : o \in off..(off + (c + 1) - 1)
    BY <1>7, <2>2
  <2>5. \A o \in off..(off + (l + 1) - 1) : own2[o] = OfBlock(off)
    BY <2>3, <2>4
  <2>6. off + l + 1 <= eof2
    BY <1>2, <1>7, <1>15, <2>2
  <2>7. Owned(own2, OfBlock(off), off, l + 1)
    BY <2>5, Zenon DEF Owned
  <2> QED
    BY <2>6, <2>7 DEF l
<1>24. /\ g \in Seq(E) /\ CellsDiffer(f1, g, own2, OfBlock(off))
       /\ Image(g, own2, eof2, E, P, 0) /\ Fits(f1, g, off + Len(es) + 1)
  <2>1. Image(f1, own2, eof2, E, B, i)
    BY <1>17, ImageLess
  <2>2. BlockCell(Len(es), Successor(B, i), B[i].algo, TableHash(B[i].algo, Successor(B, i), es)) \in E
    BY <1>11, Zenon DEF bc, next, ba
  <2>3. g = Apply(f1, WriteBlock(B[i].offset, Successor(B, i), B[i].algo, es))
    BY <1>20, Zenon DEF off, next, ba
  <2>4. Owned(own2, OfBlock(B[i].offset), B[i].offset, Len(es) + 1)
    BY <1>23, Zenon DEF off
  <2>5. UidsApart(Put(B, i, es))
    BY <1>19 DEF P
  <2>6. /\ g \in Seq(E) /\ CellsDiffer(f1, g, own2, OfBlock(B[i].offset))
        /\ Image(g, own2, eof2, E, Put(B, i, es), 0)
        /\ Fits(f1, g, B[i].offset + Len(es) + 1)
    BY <1>4, <1>12, <1>17, <1>19, <1>21, <2>1, <2>2, <2>3, <2>4, <2>5, ImagePut
  <2> QED
    BY <2>6, Zenon DEF P, off
<1>25. Len(g) <= eof2
  <2>1. Len(f1) \in Nat /\ Len(g) \in Nat
    BY <1>17, <1>24
  <2> DEFINE l == Len(es)
  <2>2. l \in Nat /\ off + l + 1 <= eof2 /\ Fits(f1, g, off + l + 1)
    BY <1>19, <1>23, <1>24
  <2> HIDE DEF l
  <2> QED
    BY <1>7, <1>15, <1>17, <2>1, <2>2 DEF Fits
<1>26. /\ P \in Tables(E) /\ Len(P) = Len(B)
       /\ \A j \in 1..Len(B) : /\ P[j].offset = B[j].offset
                               /\ P[j].algo = B[j].algo
                               /\ Successor(P, j) = Successor(B, j)
                               /\ P[j].entries = IF j = i THEN es ELSE B[j].entries
  <2>1. B \in Tables(E)
    BY <1>16 DEF Image
  <2> QED
    BY <1>4, <1>19, <2>1, PutIs DEF P
<1>27. HeadIs(g, own2, P[1].offset)
  <2> DEFINE h == B[1].offset
  <2>1. P[1].offset = h
    BY <1>1, <1>26
  <2>2. HeadIs(file, own, h)
    BY <1>2
  <2> HIDE DEF h
  <2>3. HeadIs(file, own2, h)
    BY <1>1, <1>2, <1>13, <2>2, HeadOwned
  <2>4. OfPart(u) # OfHeader /\ OfPart(u) # OfTrailer /\ OfBlock(off) # OfHeader /\ OfBlock(off) # OfTrailer
    BY DEF OfPart, OfBlock, OfHeader, OfTrailer
  <2>5. HeadIs(f1, own2, h)
    BY <1>12, <1>17, <2>3, <2>4, HeadKept
  <2>6. HeadIs(g, own2, h)
    BY <1>17, <1>24, <2>4, <2>5, HeadKept
  <2> QED
    BY <2>1, <2>6
<1>28. bs = Infos(P, cap)
  <2>1. bs = [blocks EXCEPT ![i].count = @ + 1]
    BY <1>8, <1>9
  <2>2. ASSUME NEW j \in 1..Len(B)
        PROVE  bs[j] = BlockInfo(P[j].offset, cap[j], Len(P[j].entries), P[j].algo, Successor(P, j))
    <3>1. CASE j = i
      <4>1. bs[i] = [blocks[i] EXCEPT !.count = @ + 1]
        <5>1. i \in DOMAIN blocks
          BY <1>4, InfoIs
        <5> QED
          BY <2>1, <5>1
      <4>2. bs[i] = BlockInfo(off, cap[i], m + 1, ba, next)
        BY <1>6, <4>1 DEF BlockInfo
      <4>3. Len(P[i].entries) = m + 1
        BY <1>4, <1>19, <1>26
      <4> QED
        BY <1>4, <1>26, <3>1, <4>2, <4>3, Zenon DEF off, ba, next
    <3>2. CASE j # i
      <4>1. j \in DOMAIN blocks
        BY InfoIs
      <4>2. bs[j] = blocks[j]
        BY <2>1, <3>2, <4>1
      <4>3. blocks[j] = BlockInfo(B[j].offset, cap[j], Len(B[j].entries), B[j].algo, Successor(B, j))
        BY InfoIs
      <4> QED
        BY <1>26, <3>2, <4>2, <4>3, Zenon
    <3> QED
      BY <3>1, <3>2
  <2>3. bs = [j \in 1..Len(B) |-> bs[j]]
    <3>1. blocks = [j \in 1..Len(B) |-> blocks[j]]
      BY <1>2, Zenon DEF Infos
    <3> QED
      BY <2>1, <3>1, Zenon
  <2>4. bs = [j \in 1..Len(B) |-> BlockInfo(P[j].offset, cap[j], Len(P[j].entries),
                                                 P[j].algo, Successor(P, j))]
    BY <2>2, <2>3, Zenon
  <2> QED
    BY <1>26, <2>4, Zenon DEF Infos
<1>29. RoomHeld(own2, P, cap, eof2)
  BY <1>22, <1>26, Zenon DEF RoomHeld
<1>30. P[1].offset = B[1].offset
  <2>1. 1 \in 1..Len(B)
    BY <1>1
  <2> QED
    BY <1>26, <2>1
<1>31. Leaves(g, bs, eof2, B, P)
  <2>1. \A j \in 1..Len(P) : cap[j] \in Nat
    BY <1>2, <1>26
  <2>2. Zero \in E /\ g \in Seq(E) /\ eof2 \in Nat /\ RoomHeld(own2, P, cap, eof2)
    BY <1>12, <1>15, <1>24, <1>29
  <2> QED
    BY <1>24, <1>25, <1>27, <1>28, <1>30, <2>1, <2>2, Zenon DEF Leaves
<1>32. DataStays(file, g, B, u) /\ ReadData(g, e) = d
  <2>1. DataStays(f1, g, B, u)
    <3>1. \A v : v # u => OfPart(v) # OfBlock(off)
      BY OwnersApart
    <3>2. f1 \in Seq(E) /\ g \in Seq(E) /\ CellsDiffer(f1, g, own2, OfBlock(off))
          /\ Image(f1, own2, eof2, E, B, 0)
      BY <1>17, <1>24
    <3> QED
      BY ONLY <3>1, <3>2, ImageStays
  <2>2. ReadData(g, e) = ReadData(f1, e)
    <3>1. OfPart(e.uid) # OfBlock(off)
      BY OwnersApart
    <3> QED
      BY <1>17, <1>24, <3>1, DataKept
  <2> QED
    BY <1>17, <2>1, <2>2, StaysOn
<1>33. AddedTo(file, g, B, P, i, e, d)
  BY <1>4, <1>5, <1>32, Zenon DEF AddedTo, P, es, fs
<1>34. Puts(file, InPlacePlan(u, d, r, algo).writes, B, P, u)
  <2>1. Image(file, own2, eof2, E, B, 0)
    <3>1. Len(file) \in Nat /\ E \subseteq E
      BY <1>1
    <3> QED
      BY <1>2, <1>13, <1>15, <1>16, <3>1, ImageOwned
  <2>2. HeadIs(file, own2, B[1].offset)
    <3> DEFINE h == B[1].offset
    <3>1. HeadIs(file, own, h)
      BY <1>2
    <3> HIDE DEF h
    <3>2. HeadIs(file, own2, h)
      BY <1>1, <1>2, <1>13, <3>1, HeadOwned
    <3> QED
      BY <3>2 DEF h
  <2>3. PutCell(B, i, es) \in E
    BY <1>11, Zenon DEF bc, next, ba, PutCell
  <2>4. InPlacePlan(u, d, r, algo).writes = WriteCells(data_eof, d) \o PutWrites(B, i, es)
    BY <1>9, <1>18, Zenon DEF off, next, ba, es, PutWrites
  <2>5. Owned(own2, OfPart(u), data_eof, Len(d))
    BY <1>3, <1>14, Zenon DEF n
  <2>6. Owned(own2, OfBlock(B[i].offset), B[i].offset, Len(es) + 1)
    BY <1>23, Zenon DEF off
  <2>7. \A s \in 1..Len(es) : es[s].t = "ent"
    <3>1. ASSUME NEW s \in 1..Len(es)
          PROVE  es[s].t = "ent"
      BY <1>21 DEF EntryHeld
    <3> QED
      BY <3>1
  <2>8. PutWith(E, own2, eof2, file, InPlacePlan(u, d, r, algo).writes, B, u, data_eof, d, i, es)
    BY <1>2, <1>3, <1>4, <1>12, <1>19, <2>1, <2>2, <2>3, <2>4, <2>5, <2>6, <2>7, Zenon DEF PutWith
  <2> QED
    BY <2>8, Zenon DEF Puts, P
<1>35. InPlacePlan(u, d, r, algo).eof = eof2
  BY <1>9 DEF eof2, n
<1> QED
  BY <1>31, <1>33, <1>34, <1>35, Zenon DEF i, e

\* P is B with one block more, at `at`, that holds one entry; d is its data.
OverflowedTo(f, g, B, P, ta, at, e, d) ==
    /\ P = Grown(B, ExtendedRow(at, ta, <<e>>))
    /\ DataStays(f, g, B, e.uid) /\ ReadData(g, e) = d

\* The writes ws are u's data d at `at`, an overflow block at `next` with the entries es,
\* and the last block of B again, now with a link to it.
LinkWith(C, own, lim, f, ws, B, u, at, d, next, ta, es) ==
    /\ Zero \in C /\ f \in Seq(C) /\ Image(f, own, lim, C, B, 0) /\ HeadIs(f, own, B[1].offset)
    /\ at \in Nat /\ d \in Seq(C) /\ Untrailed(d) /\ Owned(own, OfPart(u), at, Len(d))
    /\ Unused(B, u) /\ NoneAt(B, next) /\ next \in Nat \ {0}
    /\ es \in Seq(C) /\ BlockCell(Len(es), 0, ta, TableHash(ta, 0, es)) \in C
    /\ LinkCell(B, Len(B), next) \in C
    /\ Owned(own, OfBlock(next), next, Len(es) + 1)
    /\ \A s \in 1..Len(es) : es[s].t = "ent"
    /\ ws = (WriteCells(at, d) \o WriteBlock(next, 0, ta, es)) \o LinkWrites(B, Len(B), next)
Links(f, ws, B, P, u) ==
    \E C, own, lim, at, d, next, ta, es :
        /\ LinkWith(C, own, lim, f, ws, B, u, at, d, next, ta, es)
        /\ P = Grown(B, ExtendedRow(next, ta, es))

LEMMA AddsOverflow ==
    ASSUME NEW D, PlainContents(D), NEW C, NEW own, NEW B, NEW cap, Holds(C, own, B, cap),
           open = TRUE, finalized = FALSE, NEW u \in Uid, ~Located(u),
           NEW d \in Contents, NEW r \in Reserves, NEW algo \in DataAlgos,
           NEW g, g = Apply(file, OverflowPlan(u, d, r, algo).writes),
           NEW bs, bs = OverflowPlan(u, d, r, algo).blocks
    PROVE  \E P : /\ Leaves(g, bs, OverflowPlan(u, d, r, algo).eof, B, P)
                  /\ OverflowedTo(file, g, B, P, table_hash_algo, data_eof + Len(d) + r,
                                  NewEntry(u, d, r, algo), d)
                  /\ Links(file, OverflowPlan(u, d, r, algo).writes, B, P, u)
<1> DEFINE n == Len(d)  k == Len(B)  eof1 == data_eof + n + r
           cp == clamp(default_capacity, 1, MaxEntries)  eof2 == eof1 + 1 + cp
           e == NewEntry(u, d, r, algo)  es == <<e>>  ta == table_hash_algo
           nc == BlockCell(Len(es), 0, ta, TableHash(ta, 0, es))
           off == B[k].offset  ba == B[k].algo  fs == B[k].entries
           tc == BlockCell(Len(fs), eof1, ba, TableHash(ba, eof1, fs))
           E == C \cup D \cup {e, nc, tc}
           own2 == [o \in Nat |-> IF o < data_eof THEN own[o]
                                  ELSE IF o < eof1 THEN OfPart(u) ELSE OfBlock(eof1)]
           w1 == WriteCells(data_eof, d)  w2 == WriteBlock(eof1, 0, ta, es)
           w3 == WriteBlock(off, eof1, ba, fs)
           f1 == Apply(file, w1)  f2 == Apply(f1, w2)
           P == Grown(B, ExtendedRow(eof1, ta, es))  m == k + 1
           cap2 == [j \in 1..m |-> IF j <= k THEN cap[j] ELSE cp]
<1>1. /\ B \in Tables(C) /\ k \in Nat /\ k >= 1 /\ 1 \in 1..k /\ k \in 1..Len(B)
      /\ file \in Seq(C) /\ Len(file) \in Nat
  <2>1. /\ B \in Tables(C) /\ Len(B) \in Nat /\ Len(B) >= 1 /\ 1 \in 1..Len(B)
        /\ file \in Seq(C) /\ Len(file) \in Nat
    BY HandleFacts
  <2>2. Len(B) \in 1..Len(B)
    BY <2>1
  <2> QED
    BY <2>1, <2>2, Zenon
<1>2. /\ Zero \in C /\ Image(file, own, data_eof, C, B, 0) /\ HeadIs(file, own, B[1].offset)
      /\ data_eof \in Nat /\ Len(file) <= data_eof /\ table_head = B[1].offset
      /\ ta \in {"None", "Sha256"} /\ default_capacity \in Nat
      /\ blocks = Infos(B, cap) /\ \A j \in 1..Len(B) : cap[j] \in Nat
      /\ RoomHeld(own, B, cap, data_eof)
      /\ \A j \in 1..Len(B) : B[j].offset \in Nat /\ cap[j] \in Nat
  BY HandleFacts
<1>3. r \in Nat /\ d \in Seq(D) /\ n \in Nat /\ Untrailed(d)
  BY ContainerAssumption DEF PlainContents
<1>4. cp \in Nat \ {0}
  BY <1>2, ContainerAssumption, ClampNat
<1>5. /\ e = Entry(Raw, u, data_eof, n + r, n, algo, Digest(algo, d))
      /\ e.t = "ent" /\ e.uid = u /\ Len(es) = 1 /\ es[1] = e
  BY DEF NewEntry, Entry
<1>6. /\ blocks[k].offset = off /\ blocks[k].next = Successor(B, k) /\ blocks[k].algo = ba
      /\ blocks[k] = BlockInfo(off, cap[k], Len(fs), ba, Successor(B, k)) /\ Len(blocks) = k
      /\ DOMAIN blocks = 1..k
  BY <1>1, InfoIs
<1>7. off \in Nat \ {0} /\ fs \in Seq(C) /\ ba \in {"None", "Sha256"} /\ Len(fs) \in Nat
  BY <1>1, <1>2, BlockOf
<1>8. /\ OverflowPlan(u, d, r, algo).writes
            = (w1 \o w2) \o WriteBlock(off, eof1, ba, EntriesAt(Apply(file, w1 \o w2), off))
      /\ OverflowPlan(u, d, r, algo).blocks
            = Append(Linked(blocks, eof1), BlockInfo(eof1, cp, 1, ta, 0))
      /\ OverflowPlan(u, d, r, algo).eof = eof2
  <2>1. Last(blocks) = blocks[k]
    BY <1>6 DEF Last
  <2> DEFINE W == (w1 \o w2) \o WriteBlock(blocks[k].offset, eof1, blocks[k].algo,
                                  EntriesAt(Apply(file, w1 \o w2), blocks[k].offset))
             X == Append(Linked(blocks, eof1), BlockInfo(eof1, cp, 1, ta, 0))
             Y == eof1 + TableHeaderSize + cp * EntrySize
             q == OverflowPlan(u, d, r, algo)
  <2>2. q = [writes |-> W, blocks |-> X, eof |-> Y]
    BY <2>1, Zenon DEF OverflowPlan
  <2>3. Y = eof2
    <3> HIDE DEF eof1, cp
    <3> QED
      BY <1>4 DEF TableHeaderSize, EntrySize
  <2>4. W = (w1 \o w2) \o WriteBlock(off, eof1, ba, EntriesAt(Apply(file, w1 \o w2), off))
    BY <1>6, Zenon
  <2> HIDE DEF q, W, X, Y
  <2>5. q.writes = W /\ q.blocks = X /\ q.eof = Y
    BY <2>2
  <2> QED
    BY <2>3, <2>4, <2>5, Zenon DEF q, X
<1>9. g = Apply(file, OverflowPlan(u, d, r, algo).writes)
      /\ bs = OverflowPlan(u, d, r, algo).blocks
  OBVIOUS
<1>10. Unused(B, u)
  BY LocatedIs DEF Unused
<1> HIDE DEF k, n, cp, e, ta, off, ba, fs, f1, f2
<1>11. C \subseteq E /\ D \subseteq E /\ e \in E /\ nc \in E /\ tc \in E
  OBVIOUS
<1> HIDE DEF nc, tc, E
<1>12. /\ file \in Seq(E) /\ d \in Seq(E) /\ Zero \in E /\ fs \in Seq(E) /\ es \in Seq(E)
  <2>1. file \in Seq(C) /\ d \in Seq(D) /\ Zero \in C /\ fs \in Seq(C)
    BY <1>1, <1>2, <1>3, <1>7
  <2> QED
    BY ONLY <1>11, <2>1
<1>13. /\ n + r \in Nat /\ eof1 \in Nat /\ eof1 = data_eof + n + r /\ data_eof <= eof1
       /\ eof2 \in Nat /\ eof2 = eof1 + 1 + cp /\ eof1 <= eof2 /\ data_eof <= eof2
  BY <1>2, <1>3, <1>4
<1> HIDE DEF eof1, eof2
<1>14. SameOwners(own, own2, data_eof)
  BY <1>2 DEF SameOwners
<1>15. Owned(own2, OfPart(u), data_eof, n + r) /\ \A x \in Nat : Owned(own2, OfBlock(eof1), eof1, x)
  <2>1. \A o \in Nat : ~(o < data_eof) =>
            own2[o] = IF o < eof1 THEN OfPart(u) ELSE OfBlock(eof1)
    OBVIOUS
  <2> HIDE DEF own2
  <2>2. ASSUME NEW o \in data_eof..(data_eof + (n + r) - 1)
        PROVE  own2[o] = OfPart(u)
    <3>1. o \in Nat /\ ~(o < data_eof) /\ o < eof1
      <4>1. data_eof \in Nat
        BY <1>2
      <4> QED
        BY ONLY <1>3, <1>13, <4>1, o \in data_eof..(data_eof + (n + r) - 1)
    <3> QED
      BY <2>1, <3>1
  <2>3. ASSUME NEW x \in Nat, NEW o \in eof1..(eof1 + x - 1)
        PROVE  own2[o] = OfBlock(eof1)
    <3>1. data_eof \in Nat /\ eof1 \in Nat /\ data_eof <= eof1
      BY <1>2, <1>13
    <3>2. o \in Nat /\ ~(o < data_eof) /\ ~(o < eof1)
      BY <3>1
    <3> QED
      BY <2>1, <3>2
  <2> QED
    BY <2>2, <2>3, Zenon DEF Owned
<1> HIDE DEF own2, es
<1>16. Image(file, own, data_eof, E, B, 0)
  <2>1. SameOwners(own, own, data_eof) /\ data_eof <= data_eof
    BY <1>2 DEF SameOwners
  <2> QED
    BY <1>1, <1>2, <1>11, <2>1, ImageOwned
<1>17. /\ f1 \in Seq(E) /\ CellsDiffer(file, f1, own2, OfPart(u)) /\ Len(f1) <= eof1
       /\ Image(f1, own2, eof1, E, B, 0) /\ EntryHeld(f1, own2, eof1, e)
       /\ ReadData(f1, e) = d /\ DataStays(file, f1, B, u)
  <2>1. Owned(own2, OfPart(u), data_eof, Len(d) + r)
    BY <1>15 DEF n
  <2>2. eof1 = data_eof + Len(d) + r
    BY <1>13 DEF n
  <2>3. e = Entry(Raw, u, data_eof, Len(d) + r, Len(d), algo, Digest(algo, d))
    BY <1>5 DEF n
  <2>4. f1 = Apply(file, WriteCells(data_eof, d))
    BY DEF f1
  <2>5. DataLaid(E, file, f1, own2, eof1, B, u, e, d)
    BY <1>2, <1>3, <1>10, <1>12, <1>14, <1>16, <2>1, <2>2, <2>3, <2>4, DataAdded
  <2> QED
    BY <2>5, Zenon DEF DataLaid
<1>18. OfPart(u) # OfHeader /\ OfPart(u) # OfTrailer
       /\ \A x : OfBlock(x) # OfHeader /\ OfBlock(x) # OfTrailer /\ OfPart(u) # OfBlock(x)
  BY DEF OfPart, OfBlock, OfHeader, OfTrailer
<1>19. eof1 \in Nat \ {0}
  <2>1. k <= Len(file)
    BY <1>2 DEF Image, k
  <2> QED
    BY <1>1, <1>2, <1>13, <2>1
<1>20. /\ f2 \in Seq(E) /\ CellsDiffer(f1, f2, own2, OfBlock(eof1))
       /\ BlockHeld(f2, own2, eof1, 0, ta, es) /\ Fits(f1, f2, eof1 + 1 + 1)
  <2>1. BlockCell(Len(es), 0, ta, TableHash(ta, 0, es)) \in E
    BY <1>11 DEF nc
  <2>2. \A s \in 1..Len(es) : es[s].t = "ent"
    BY <1>5
  <2>3. Owned(own2, OfBlock(eof1), eof1, Len(es) + 1)
    BY <1>5, <1>15
  <2>4. f2 = Apply(f1, WriteBlock(eof1, 0, ta, es))
    BY DEF f2, w2
  <2>5. Fits(f1, f2, eof1 + Len(es) + 1) /\ f2 \in Seq(E) /\ CellsDiffer(f1, f2, own2, OfBlock(eof1))
        /\ BlockHeld(f2, own2, eof1, 0, ta, es)
    BY <1>12, <1>17, <1>19, <2>1, <2>2, <2>3, <2>4, BlockWritten
  <2> QED
    BY <1>5, <2>5, Zenon
<1>21. Len(f2) <= eof2
  <2>1. Len(f1) \in Nat /\ Len(f2) \in Nat /\ Len(f1) <= eof1
    BY <1>17, <1>20
  <2> DEFINE x == Len(f1)  y == Len(f2)
  <2>2. x \in Nat /\ y \in Nat /\ x <= eof1 /\ (y <= x \/ y <= eof1 + 1 + 1)
    BY <1>20, <2>1 DEF Fits
  <2> HIDE DEF x, y
  <2>3. y <= eof2
    BY <1>4, <1>13, <2>2
  <2> QED
    BY <2>3 DEF y
<1>22. Image(f1, own2, eof2, E, B, 0) /\ EntryHeld(f1, own2, eof2, e)
  <2>1. SameOwners(own2, own2, eof1) /\ Len(f1) \in Nat /\ E \subseteq E
    BY <1>17 DEF SameOwners
  <2> QED
    BY <1>13, <1>17, <2>1, ImageOwned, EntryOwned
<1>23. ASSUME NEW i \in 1..Len(B)
       PROVE  B[i].offset # eof1
  <2>1. /\ BlockHeld(file, own, B[i].offset, Successor(B, i), B[i].algo, B[i].entries)
        /\ B[i].offset \in Nat /\ Len(B[i].entries) \in Nat
    BY <1>2, BlockOf
  <2> DEFINE x == B[i].offset  y == Len(B[i].entries)  l == Len(file)
  <2>2. x \in Nat /\ y \in Nat /\ l \in Nat /\ x + y < l /\ l <= data_eof
    BY <1>1, <1>2, <2>1 DEF BlockHeld
  <2> HIDE DEF x, y, l
  <2>3. data_eof \in Nat /\ eof1 \in Nat /\ data_eof <= eof1
    BY <1>2, <1>13
  <2>4. x # eof1
    BY <2>2, <2>3
  <2> QED
    BY <2>4 DEF x
<1>24. Image(f2, own2, eof2, E, B, 0)
  <2>1. ASSUME NEW i \in 1..Len(B)
        PROVE  OfBlock(B[i].offset) # OfBlock(eof1)
    BY <1>23 DEF OfBlock
  <2>2. \A i \in 1..Len(B) : i # 0 =>
            \A s \in 1..Len(B[i].entries) : OfPart(B[i].entries[s].uid) # OfBlock(eof1)
    BY DEF OfBlock, OfPart
  <2> QED
    BY <1>17, <1>20, <1>22, <2>1, <2>2, ImageKept
<1>25. EntryHeld(f2, own2, eof2, e)
  <2>1. OfPart(e.uid) # OfBlock(eof1)
    BY DEF OfBlock, OfPart
  <2> QED
    BY <1>17, <1>20, <1>22, <2>1, EntryKept
<1>26. HeadIs(f2, own2, B[1].offset)
  <2> DEFINE h == B[1].offset
  <2>1. HeadIs(file, own, h)
    BY <1>2
  <2> HIDE DEF h
  <2>2. HeadIs(file, own2, h)
    BY <1>1, <1>2, <1>14, <2>1, HeadOwned
  <2>3. HeadIs(f1, own2, h)
    BY <1>12, <1>17, <1>18, <2>2, HeadKept
  <2>4. OfBlock(eof1) # OfHeader /\ OfBlock(eof1) # OfTrailer
    BY <1>18
  <2>5. HeadIs(f2, own2, h)
    BY <1>17, <1>20, <2>3, <2>4, HeadKept
  <2> QED
    BY <2>5 DEF h
<1>27. EntriesAt(f2, off) = fs
  <2>1. \A j \in 1..Len(B) : EntriesAt(f2, B[j].offset) = B[j].entries
    BY <1>20, <1>24, TableRead
  <2> QED
    BY <1>1, <2>1 DEF off, fs
<1>28. Apply(file, w1 \o w2) = f2 /\ w1 \in Seq(Nat \X E) /\ w2 \in Seq(Nat \X E)
  <2>1. BlockCell(Len(es), 0, ta, TableHash(ta, 0, es)) \in E
    BY <1>11 DEF nc
  <2>2. eof1 \in Nat
    BY <1>13
  <2>3. DataThenBlock(E, file, data_eof, d, eof1, 0, ta, es)
    BY <1>2, <1>12, <2>1, <2>2, ThenBlock
  <2> QED
    BY <2>3, Zenon DEF DataThenBlock, f1, f2
<1>29. g = Apply(f2, w3)
  <2>1. w3 \in Seq(Nat \X E)
    <3>1. BlockCell(Len(fs), eof1, ba, TableHash(ba, eof1, fs)) \in E
      BY <1>11 DEF tc
    <3>2. off \in Nat
      BY <1>7
    <3>3. DataThenBlock(E, f2, data_eof, d, off, eof1, ba, fs)
      BY <1>2, <1>12, <1>20, <3>1, <3>2, ThenBlock
    <3> QED
      BY <3>3, Zenon DEF DataThenBlock
  <2> DEFINE w == w1 \o w2
  <2>2. w \in Seq(Nat \X E)
    <3> HIDE DEF w1, w2
    <3> QED
      BY <1>28
  <2>3. g = Apply(file, w \o w3)
    BY <1>8, <1>9, <1>27, <1>28, Zenon
  <2>4. Apply(file, w) = f2
    BY <1>28
  <2> HIDE DEF w, w3
  <2>5. InTurn(E, file, w, w3)
    BY <1>12, <2>1, <2>2, ApplyConcat
  <2> QED
    BY <2>3, <2>4, <2>5, Zenon DEF InTurn
<1>30. Extends(E, P, B, m, eof1, ta, es)
  <2>1. B \in Tables(E) /\ m = Len(B) + 1
    BY <1>24 DEF Image, k
  <2>2. P = Grown(B, ExtendedRow(eof1, ta, es))
    OBVIOUS
  <2>3. ta \in {"None", "Sha256"}
    BY <1>2
  <2> HIDE DEF P, m
  <2> QED
    BY <1>12, <1>19, <2>1, <2>2, <2>3, GrownIs
<1>31. m \in Nat /\ \A i \in 1..m : i \in 1..k \/ (i = m /\ ~(i <= k))
  BY <1>1
<1>32. P = Grown(B, ExtendedRow(eof1, ta, es)) /\ 1 \in 1..m /\ \A i \in 1..k : i \in 1..m /\ i <= k
  BY <1>1
<1> HIDE DEF P, m
<1>33. /\ P \in Tables(E) /\ Len(P) = m /\ P[m].offset = eof1 /\ P[m].algo = ta
       /\ P[m].entries = es /\ Successor(P, m) = 0
       /\ \A i \in 1..k : P[i] = B[i] /\ Successor(P, i) = IF i = k THEN eof1 ELSE Successor(B, i)
  BY <1>30, Zenon DEF Extends, k
<1>34. UidsApart(P)
  <2>1. UidsApart(B)
    BY <1>2 DEF Image
  <2>2. Len(P) = m /\ \A i \in 1..m : i \in 1..Len(B) \/ i = m
    BY <1>31, <1>33 DEF k
  <2>3. \A i \in 1..Len(B) : P[i] = B[i]
    BY <1>33 DEF k
  <2>4. P[m].entries = es /\ es = <<e>>
    BY <1>33 DEF es
  <2> QED
    BY <1>5, <1>10, <2>1, <2>2, <2>3, <2>4, GrownUids
<1>35. /\ g \in Seq(E) /\ CellsDiffer(f2, g, own2, OfBlock(off))
       /\ Image(g, own2, eof2, E, P, 0) /\ Len(g) = Len(f2)
  <2>1. k = Len(B) /\ B[k].offset = off /\ B[k].algo = ba /\ B[k].entries = fs
    BY DEF k, off, ba, fs
  <2>2. g = Apply(f2, LinkWrites(B, k, eof1)) /\ LinkCell(B, k, eof1) \in E
    BY <1>11, <1>29, <2>1, Zenon DEF w3, tc, LinkWrites, LinkCell
  <2>4. k <= eof1
    <3>1. k <= Len(file)
      BY <1>2 DEF Image, k
    <3> QED
      BY <1>1, <1>2, <1>13, <3>1
  <2>5. NoneAt(B, eof1)
    BY <1>23, Zenon DEF NoneAt
  <2>6. AllHeld(f2, own2, eof2, es)
    <3>1. ASSUME NEW s \in 1..Len(es)
          PROVE  EntryHeld(f2, own2, eof2, es[s])
      <4>1. s = 1
        BY <1>5
      <4> QED
        BY <1>5, <1>25, <4>1
    <3> QED
      BY <3>1, Zenon DEF AllHeld
  <2>7. ta \in {"None", "Sha256"}
    BY <1>2
  <2>8. LinkedTo(E, f2, g, own2, eof2, P, B[k].offset)
    <3>1. Zero \in E /\ f2 \in Seq(E) /\ es \in Seq(E) /\ BlockHeld(f2, own2, eof1, 0, ta, es)
      BY <1>12, <1>20
    <3>2. P = Grown(B, ExtendedRow(eof1, ta, es)) /\ k = Len(B)
      BY <1>32, <2>1
    <3> QED
      BY ONLY <1>19, <1>24, <1>34, <2>2, <2>4, <2>5, <2>6, <2>7, <3>1, <3>2, ImageLink
  <2> QED
    BY <2>1, <2>8, Zenon DEF LinkedTo
<1>36. HeadIs(g, own2, P[1].offset)
  <2> DEFINE h == B[1].offset
  <2>1. P[1].offset = h
    BY <1>1, <1>33
  <2>2. HeadIs(f2, own2, h)
    BY <1>26
  <2>3. OfBlock(off) # OfHeader /\ OfBlock(off) # OfTrailer
    BY <1>18
  <2> HIDE DEF h
  <2>4. HeadIs(g, own2, h)
    BY <1>20, <1>35, <2>2, <2>3, HeadKept
  <2> QED
    BY <2>1, <2>4
<1>37. /\ cap2[m] = cp /\ \A i \in 1..k : cap2[i] = cap[i]
       /\ \A i \in 1..m : cap2[i] \in Nat
  <2>1. \A i \in 1..m : cap2[i] = IF i <= k THEN cap[i] ELSE cp
    OBVIOUS
  <2>2. m \in 1..m /\ ~(m <= k)
    BY <1>1 DEF m
  <2>3. \A i \in 1..k : cap[i] \in Nat
    BY <1>2 DEF k
  <2> HIDE DEF cap2
  <2>4. cap2[m] = cp /\ \A i \in 1..k : cap2[i] = cap[i]
    BY <1>32, <2>1, <2>2
  <2> QED
    BY <1>4, <1>31, <2>3, <2>4
<1> HIDE DEF cap2
<1>38. bs = Infos(P, cap2)
  <2> DEFINE L == Linked(blocks, eof1)  x == BlockInfo(eof1, cp, 1, ta, 0)
  <2>1. bs = Append(L, x)
    BY <1>8, <1>9
  <2>2. L = [blocks EXCEPT ![k].next = eof1]
    BY <1>6, Zenon DEF Linked
  <2>3. blocks = [j \in 1..k |-> blocks[j]]
    BY <1>2, Zenon DEF Infos, k
  <2>4. L = [j \in 1..k |-> L[j]]
    BY <2>2, <2>3, Zenon
  <2>5. ASSUME NEW j \in 1..k
        PROVE  L[j] = BlockInfo(P[j].offset, cap2[j], Len(P[j].entries), P[j].algo, Successor(P, j))
    <3>1. blocks[j] = BlockInfo(B[j].offset, cap[j], Len(B[j].entries), B[j].algo, Successor(B, j))
      BY InfoIs DEF k
    <3>2. CASE j = k
      <4>1. L[k] = [blocks[k] EXCEPT !.next = eof1]
        BY <1>6, <2>2, <3>2, Zenon
      <4>2. L[k] = BlockInfo(off, cap[k], Len(fs), ba, eof1)
        BY <1>6, <4>1 DEF BlockInfo
      <4> QED
        BY <1>33, <1>37, <3>2, <4>2, Zenon DEF off, ba, fs
    <3>3. CASE j # k
      <4>1. L[j] = blocks[j]
        BY <1>6, <2>2, <3>3, Zenon
      <4> QED
        BY <1>33, <1>37, <3>1, <3>3, <4>1, Zenon
    <3> QED
      BY <3>2, <3>3
  <2>6. x = BlockInfo(P[m].offset, cap2[m], Len(P[m].entries), P[m].algo, Successor(P, m))
    BY <1>5, <1>33, <1>37, Zenon
  <2> HIDE DEF L, x
  <2>7. L \in Seq({L[j] : j \in 1..k}) /\ Len(L) = k
    <3>1. k \in Nat
      BY <1>1
    <3> QED
      BY <2>4, <3>1
  <2>8. /\ bs = [j \in 1..m |-> bs[j]] /\ bs[m] = x
        /\ \A j \in 1..k : bs[j] = L[j]
    <3> DEFINE G == {L[j] : j \in 1..k} \cup {x}
    <3>1. L \in Seq(G) /\ x \in G
      BY <2>7
    <3> HIDE DEF G
    <3>2. Append(L, x) \in Seq(G) /\ Len(Append(L, x)) = m
      BY <1>1, <2>7, <3>1 DEF m
    <3>3. Append(L, x) = [j \in 1..m |-> Append(L, x)[j]]
      <4> DEFINE z == Append(L, x)
      <4>1. z \in Seq(G) /\ Len(z) = m
        BY <3>2
      <4> HIDE DEF z
      <4>2. z = [j \in 1..m |-> z[j]]
        BY <4>1
      <4> QED
        BY <4>2 DEF z
    <3>4. Append(L, x)[m] = x /\ \A j \in 1..k : Append(L, x)[j] = L[j]
      BY <1>1, <2>7, <3>1 DEF m
    <3> QED
      BY <2>1, <3>3, <3>4, Zenon
  <2>9. ASSUME NEW j \in 1..m
        PROVE  bs[j] = BlockInfo(P[j].offset, cap2[j], Len(P[j].entries), P[j].algo, Successor(P, j))
    <3>1. CASE j \in 1..k
      BY <2>5, <2>8, <3>1, Zenon
    <3>2. CASE j = m
      BY <2>6, <2>8, <3>2, Zenon
    <3> QED
      BY <1>31, <3>1, <3>2
  <2>10. bs = [j \in 1..m |-> BlockInfo(P[j].offset, cap2[j], Len(P[j].entries),
                                             P[j].algo, Successor(P, j))]
    BY <2>8, <2>9, Zenon
  <2> QED
    BY <1>33, <2>10, Zenon DEF Infos
<1>39. RoomHeld(own2, P, cap2, eof2)
  <2>1. RoomHeld(own2, B, cap, eof2)
    BY <1>2, <1>13, <1>14, RoomKept
  <2>2. ASSUME NEW i \in 1..m
        PROVE  /\ Owned(own2, OfBlock(P[i].offset), P[i].offset, cap2[i] + 1)
               /\ P[i].offset + cap2[i] + 1 <= eof2
    <3>1. CASE i \in 1..k
      BY <1>33, <1>37, <2>1, <3>1, Zenon DEF RoomHeld, k
    <3>2. CASE i = m
      <4>1. Owned(own2, OfBlock(eof1), eof1, cp + 1) /\ eof1 + cp + 1 <= eof2
        BY <1>4, <1>13, <1>15
      <4> QED
        BY <1>33, <1>37, <3>2, <4>1, Zenon
    <3> QED
      BY <1>31, <3>1, <3>2
  <2> QED
    BY <1>33, <2>2, Zenon DEF RoomHeld
<1>40. P[1].offset = B[1].offset
  BY <1>1, <1>33
<1>41. Leaves(g, bs, eof2, B, P)
  <2>1. \A j \in 1..Len(P) : cap2[j] \in Nat
    BY <1>33, <1>37
  <2>2. Zero \in E /\ g \in Seq(E) /\ eof2 \in Nat /\ Len(g) <= eof2
    BY <1>12, <1>13, <1>21, <1>35
  <2> QED
    BY <1>35, <1>36, <1>38, <1>39, <1>40, <2>1, <2>2, Zenon DEF Leaves
<1>42. DataStays(file, g, B, u) /\ ReadData(g, e) = d
  <2>1. \A x, v : v # u => OfPart(v) # OfBlock(x)
    BY OwnersApart
  <2>2. /\ f1 \in Seq(E) /\ f2 \in Seq(E) /\ g \in Seq(E)
        /\ CellsDiffer(f1, f2, own2, OfBlock(eof1)) /\ CellsDiffer(f2, g, own2, OfBlock(off))
        /\ Image(f1, own2, eof2, E, B, 0) /\ Image(f2, own2, eof2, E, B, 0)
        /\ EntryHeld(f1, own2, eof2, e) /\ EntryHeld(f2, own2, eof2, e)
    BY <1>17, <1>20, <1>22, <1>24, <1>25, <1>35
  <2>3. DataStays(f1, f2, B, u) /\ DataStays(f2, g, B, u)
    BY ONLY <2>1, <2>2, ImageStays
  <2>4. OfPart(e.uid) # OfBlock(eof1) /\ OfPart(e.uid) # OfBlock(off)
    BY OwnersApart
  <2>5. ReadData(f2, e) = ReadData(f1, e)
    BY ONLY <2>2, <2>4, DataKept
  <2>6. ReadData(g, e) = ReadData(f2, e)
    BY ONLY <2>2, <2>4, DataKept
  <2> QED
    BY <1>17, <2>3, <2>5, <2>6, StaysOn
<1>43. OverflowedTo(file, g, B, P, ta, eof1, e, d)
  BY <1>5, <1>32, <1>42, Zenon DEF OverflowedTo, es
<1>44. Links(file, OverflowPlan(u, d, r, algo).writes, B, P, u)
  <2>1. Image(file, own2, eof2, E, B, 0)
    <3>1. Len(file) \in Nat /\ E \subseteq E
      BY <1>1
    <3> QED
      BY <1>2, <1>13, <1>14, <1>16, <3>1, ImageOwned
  <2>2. HeadIs(file, own2, B[1].offset)
    <3> DEFINE h == B[1].offset
    <3>1. HeadIs(file, own, h)
      BY <1>2
    <3> HIDE DEF h
    <3>2. HeadIs(file, own2, h)
      BY <1>1, <1>2, <1>14, <3>1, HeadOwned
    <3> QED
      BY <3>2 DEF h
  <2>3. /\ BlockCell(Len(es), 0, ta, TableHash(ta, 0, es)) \in E /\ LinkCell(B, Len(B), eof1) \in E
    BY <1>11, Zenon DEF nc, tc, LinkCell, k, off, ba, fs
  <2>4. OverflowPlan(u, d, r, algo).writes = (w1 \o w2) \o LinkWrites(B, Len(B), eof1)
    BY <1>8, <1>27, <1>28, Zenon DEF LinkWrites, k, off, ba, fs
  <2>5. Owned(own2, OfPart(u), data_eof, Len(d))
    <3>1. Owned(own2, OfPart(u), data_eof, n + r)
      BY <1>15
    <3>2. \A o \in data_eof..(data_eof + n - 1) : o \in data_eof..(data_eof + (n + r) - 1)
      BY <1>2, <1>3
    <3>3. Owned(own2, OfPart(u), data_eof, n)
      BY <3>1, <3>2, Zenon DEF Owned
    <3> QED
      BY <3>3 DEF n
  <2>6. Owned(own2, OfBlock(eof1), eof1, Len(es) + 1)
    BY <1>5, <1>15
  <2>7. \A s \in 1..Len(es) : es[s].t = "ent"
    BY <1>5
  <2>8. NoneAt(B, eof1) /\ P = Grown(B, ExtendedRow(eof1, ta, es))
    BY <1>23, <1>32, Zenon DEF NoneAt
  <2>9. LinkWith(E, own2, eof2, file, OverflowPlan(u, d, r, algo).writes, B, u, data_eof, d,
                 eof1, ta, es)
    BY <1>2, <1>3, <1>10, <1>12, <1>19, <2>1, <2>2, <2>3, <2>4, <2>5, <2>6, <2>7, <2>8,
       Zenon DEF LinkWith, w1, w2
  <2> QED
    BY <2>8, <2>9, Zenon DEF Links
<1>45. OverflowPlan(u, d, r, algo).eof = eof2
  BY <1>8
<1> QED
  BY <1>41, <1>43, <1>44, <1>45, Zenon DEF ta, eof1, n, e

-----------------------------------------------------------------------------
(* Rewriting a block with no more entries than it had.                     *)

\* The handle's list after block k was rewritten with n entries.
Recounted(bs, B, cap, k, n) ==
    [i \in 1..Len(B) |-> IF i = k THEN BlockInfo(B[k].offset, cap[k], n, B[k].algo, Successor(B, k))
                         ELSE bs[i]]

LEMMA PutInfos ==
    ASSUME NEW C, NEW B \in Tables(C), NEW k \in 1..Len(B), NEW es \in Seq(C), NEW cap
    PROVE  Infos(Put(B, k, es), cap) = Recounted(Infos(B, cap), B, cap, k, Len(es))
<1> DEFINE P == Put(B, k, es)
<1>1. /\ Len(P) = Len(B)
      /\ \A i \in 1..Len(B) : /\ P[i].offset = B[i].offset /\ P[i].algo = B[i].algo
                              /\ Successor(P, i) = Successor(B, i)
                              /\ P[i].entries = IF i = k THEN es ELSE B[i].entries
  BY PutIs
<1> HIDE DEF P
<1>2. ASSUME NEW i \in 1..Len(B)
      PROVE  BlockInfo(P[i].offset, cap[i], Len(P[i].entries), P[i].algo, Successor(P, i))
                = IF i = k THEN BlockInfo(B[k].offset, cap[k], Len(es), B[k].algo, Successor(B, k))
                  ELSE Infos(B, cap)[i]
  <2>1. CASE i = k
    BY <1>1, <2>1, Zenon
  <2>2. CASE i # k
    <3>1. Infos(B, cap)[i] = BlockInfo(B[i].offset, cap[i], Len(B[i].entries), B[i].algo,
                                       Successor(B, i))
      BY Zenon DEF Infos
    <3> QED
      BY <1>1, <2>2, <3>1, Zenon
  <2> QED
    BY <2>1, <2>2, Zenon
<1>3. Infos(P, cap) = Recounted(Infos(B, cap), B, cap, k, Len(es))
  BY <1>1, <1>2, Zenon DEF Infos, Recounted
<1> QED
  BY <1>3 DEF P

LEMMA Rewritten ==
    ASSUME NEW C, Zero \in C, NEW own, NEW B, NEW cap, NEW eof \in Nat, NEW f \in Seq(C),
           Len(f) <= eof, NEW k \in 1..Len(B), Image(f, own, eof, C, B, k),
           HeadIs(f, own, B[1].offset), NEW es \in Seq(C), Len(es) <= Len(B[k].entries),
           PutCell(B, k, es) \in C, AllHeld(f, own, eof, es), UidsApart(Put(B, k, es)),
           NEW g, g = Apply(f, PutWrites(B, k, es)),
           \A j \in 1..Len(B) : cap[j] \in Nat, RoomHeld(own, B, cap, eof),
           NEW bs, bs = Recounted(Infos(B, cap), B, cap, k, Len(es))
    PROVE  /\ Leaves(g, bs, eof, B, Put(B, k, es)) /\ CellsDiffer(f, g, own, OfBlock(B[k].offset))
           /\ g \in Seq(C) /\ Owned(own, OfBlock(B[k].offset), B[k].offset, Len(es) + 1)
<1> DEFINE off == B[k].offset  P == Put(B, k, es)  n == Len(es)  m == Len(B[k].entries)
<1>1. B \in Tables(C) /\ Len(B) \in Nat /\ Len(B) >= 1
  BY DEF Image, Tables
<1>2. 1 \in 1..Len(B)
  BY <1>1
<1>3. /\ BlockHeld(f, own, off, Successor(B, k), B[k].algo, B[k].entries)
      /\ off \in Nat \ {0} /\ m \in Nat
  BY BlockOf
<1>4. off + m < Len(f) /\ Owned(own, OfBlock(off), off, m + 1)
  BY <1>3 DEF BlockHeld
<1>5. n \in Nat /\ n <= m /\ Len(f) \in Nat
  OBVIOUS
<1>6. Owned(own, OfBlock(off), off, n + 1)
  <2>1. \A o \in off..(off + (m + 1) - 1) : own[o] = OfBlock(off)
    BY <1>4 DEF Owned
  <2> HIDE DEF off, n, m
  <2>2. \A o \in off..(off + (n + 1) - 1) : o \in off..(off + (m + 1) - 1)
    BY <1>3, <1>5
  <2> QED
    BY <2>1, <2>2 DEF Owned
<1>7. /\ P \in Tables(C) /\ Len(P) = Len(B)
      /\ \A i \in 1..Len(B) : P[i].offset = B[i].offset
  BY <1>1, PutIs
<1>8. /\ g \in Seq(C) /\ CellsDiffer(f, g, own, OfBlock(off))
      /\ Image(g, own, eof, C, P, 0) /\ Fits(f, g, off + n + 1)
  <2>1. BlockCell(Len(es), Successor(B, k), B[k].algo, TableHash(B[k].algo, Successor(B, k), es)) \in C
    BY Zenon DEF PutCell
  <2>2. \A s \in 1..Len(es) : EntryHeld(f, own, eof, es[s])
    BY Zenon DEF AllHeld
  <2>3. g = Apply(f, WriteBlock(B[k].offset, Successor(B, k), B[k].algo, es))
    BY Zenon DEF PutWrites
  <2> QED
    BY <1>6, <2>1, <2>2, <2>3, ImagePut
<1>9. Len(g) <= eof
  <2> DEFINE x == Len(f)  y == Len(g)
  <2>1. x \in Nat /\ y \in Nat /\ (y <= x \/ y <= off + n + 1) /\ off + m < x /\ x <= eof
    BY <1>4, <1>5, <1>8 DEF Fits
  <2> HIDE DEF x, y, off, m, n
  <2>2. y <= eof
    BY <1>3, <1>5, <2>1
  <2> QED
    BY <2>2 DEF y
<1> HIDE DEF P
<1>10. HeadIs(g, own, P[1].offset) /\ P[1].offset = B[1].offset
  <2>1. P[1].offset = B[1].offset
    BY <1>2, <1>7
  <2>2. OfBlock(off) # OfHeader /\ OfBlock(off) # OfTrailer
    BY DEF OfBlock, OfHeader, OfTrailer
  <2> DEFINE h == B[1].offset
  <2>3. HeadIs(f, own, h)
    OBVIOUS
  <2> HIDE DEF h
  <2>4. HeadIs(g, own, h)
    BY <1>8, <2>2, <2>3, HeadKept
  <2> QED
    BY <2>1, <2>4 DEF h
<1>11. bs = Infos(P, cap)
  BY <1>1, PutInfos DEF P
<1>12. RoomHeld(own, P, cap, eof)
  BY <1>7, Zenon DEF RoomHeld
<1>13. \A j \in 1..Len(P) : cap[j] \in Nat
  BY <1>7
<1>14. Leaves(g, bs, eof, B, P)
  BY <1>8, <1>9, <1>10, <1>11, <1>12, <1>13, Zenon DEF Leaves
<1> QED
  BY <1>6, <1>8, <1>14 DEF P

\* Where a located partition is, and what is known of it.
LEMMA Found ==
    ASSUME NEW C, NEW own, NEW B, NEW cap, Holds(C, own, B, cap), open = TRUE, NEW u, Located(u)
    PROVE  \E k \in 1..Len(B) : \E s \in 1..Len(B[k].entries) :
                /\ B[k].entries[s].uid = u
                /\ Locate(u) = [block |-> k, slot |-> s, entry |-> B[k].entries[s]]
<1>1. PICK k \in 1..Len(B) : \E s \in 1..Len(B[k].entries) : B[k].entries[s].uid = u
  BY LocatedIs
<1>2. PICK s \in 1..Len(B[k].entries) : B[k].entries[s].uid = u
  BY <1>1
<1>3. Locate(u) = [block |-> k, slot |-> s, entry |-> B[k].entries[s]]
  BY <1>2, LocateIs
<1> QED
  BY <1>2, <1>3, Zenon

\* An entry of a table is a cell, and held.
LEMMA EntryOf ==
    ASSUME NEW f, NEW own, NEW lim, NEW C, NEW B, Image(f, own, lim, C, B, 0),
           NEW k \in 1..Len(B), NEW s \in 1..Len(B[k].entries)
    PROVE  EntryHeld(f, own, lim, B[k].entries[s])
<1>1. k # 0
  BY BlockOf
<1> QED
  BY <1>1 DEF Image, EntriesHeld

-----------------------------------------------------------------------------
(* update_partition_data.                                                  *)

\* The entry after an update, and what it keeps.
LEMMA UpdatedIs ==
    ASSUME NEW e, IsEntry(e), NEW d, NEW x, x = Updated(e, d)
    PROVE  /\ IsEntry(x) /\ x.t = "ent" /\ x.type = Raw /\ x.uid = e.uid
           /\ x.start = e.start /\ x.max = e.max /\ x.used = Len(d) /\ x.algo = e.algo
           /\ x.hash = Digest(e.algo, d)
<1> DEFINE U == e.uid  S == e.start  M == e.max  N == e.used  A == e.algo  H == e.hash
           L == Len(d)  G == Digest(e.algo, d)
<1>1. e = Entry(Raw, U, S, M, N, A, H)
  BY Zenon DEF IsEntry
<1>2. x = [e EXCEPT !.used = L, !.hash = G]
  BY Zenon DEF Updated
<1>3. A = e.algo
  OBVIOUS
<1> HIDE DEF U, S, M, N, A, H, L, G
<1>4. x = Entry(Raw, U, S, M, L, A, G)
  BY <1>1, <1>2 DEF Entry
<1>5. /\ x.t = "ent" /\ x.type = Raw /\ x.uid = U /\ x.start = S /\ x.max = M
      /\ x.used = L /\ x.algo = A /\ x.hash = G
  BY <1>4 DEF Entry
<1>6. IsEntry(x)
  BY <1>4, <1>5, Zenon DEF IsEntry
<1> QED
  BY <1>5, <1>6 DEF U, S, M, A, L, G

\* g is f with the data d of u's entry, which becomes x, in the k-th block.
DataRelaid(C, f, g, own, lim, B, k, u, x, d) ==
    /\ g \in Seq(C) /\ CellsDiffer(f, g, own, OfPart(u)) /\ Len(g) <= lim
    /\ Image(g, own, lim, C, B, k) /\ EntryHeld(g, own, lim, x) /\ x.uid = u
    /\ ReadData(g, x) = d

\* The data of one entry is rewritten: the rest of the table is as it was, and the
\* updated entry is one that may stand in its place.
LEMMA DataPut ==
    ASSUME NEW C, Zero \in C, NEW f \in Seq(C), NEW lim \in Nat, Len(f) <= lim, NEW own, NEW B,
           Image(f, own, lim, C, B, 0), NEW k \in 1..Len(B), NEW s \in 1..Len(B[k].entries),
           NEW e, e = B[k].entries[s], NEW d \in Seq(C), Untrailed(d), Len(d) <= e.max,
           NEW x, x = Updated(e, d), NEW g, g = Apply(f, WriteCells(e.start, d))
    PROVE  DataRelaid(C, f, g, own, lim, B, k, e.uid, x, d)
<1> DEFINE n == Len(d)  st == e.start  mx == e.max  u == e.uid  lf == Len(f)
<1>1. EntryHeld(f, own, lim, e)
  BY EntryOf
<1>2. /\ st \in Nat /\ mx \in Nat /\ (mx > 0 => st + mx <= lim) /\ IsEntry(e) /\ u \in Uid
      /\ \A o \in st..(st + mx - 1) : own[o] = OfPart(u)
  BY <1>1 DEF EntryHeld, Owned
<1>3. n \in Nat /\ n <= mx /\ lf \in Nat /\ lf <= lim
  OBVIOUS
<1>4. Owned(own, OfPart(u), st, Len(d))
  <2> HIDE DEF n, st, mx, u, lf
  <2>1. \A o \in st..(st + n - 1) : o \in st..(st + mx - 1)
    BY <1>2, <1>3
  <2>2. \A o \in st..(st + n - 1) : own[o] = OfPart(u)
    BY <1>2, <2>1
  <2> QED
    BY <2>2, Zenon DEF Owned, n
<1>5. g \in Seq(C) /\ CellsDiffer(f, g, own, OfPart(u)) /\ Wrote(f, g, st, d)
  <2>1. \A i \in 1..Len(d) : d[i].t # "trl"
    BY DEF Untrailed
  <2> QED
    BY <1>2, <1>4, <2>1, CellsWritten
<1>6. /\ SubSeq(g, st + 1, st + n) = d /\ (n > 0 => st + n <= Len(g))
  <2>1. st \in Nat /\ g \in Seq(C) /\ Wrote(f, g, st, d)
    BY <1>2, <1>5
  <2> HIDE DEF st
  <2> QED
    BY ONLY <2>1, WrittenSlice, f \in Seq(C), d \in Seq(C)
<1>7. Len(g) <= lim
  <2> DEFINE y == Len(g)
  <2>1. y = IF n = 0 \/ st + n <= lf THEN lf ELSE st + n
    BY <1>5 DEF Wrote
  <2> HIDE DEF n, st, mx, u, lf, y
  <2>3. n = 0 \/ (n > 0 /\ mx > 0)
    BY <1>2, <1>3
  <2>4. y = lf \/ y = st + n
    BY <2>1
  <2>5. y = lf \/ (y = st + n /\ n > 0)
    BY <2>1, <2>3, <2>4
  <2>6. n > 0 => st + n <= lim
    BY <1>2, <1>3, <2>3
  <2>2. y <= lim
    BY <1>3, <2>5, <2>6
  <2> QED
    BY <2>2 DEF y
<1>8. Image(g, own, lim, C, B, k)
  <2>1. \A i \in 1..Len(B) : OfBlock(B[i].offset) # OfPart(u)
    BY DEF OfBlock, OfPart
  <2>2. \A i \in 1..Len(B) : i # k =>
            \A t \in 1..Len(B[i].entries) : OfPart(B[i].entries[t].uid) # OfPart(u)
    <3>1. UidsApart(B)
      BY DEF Image
    <3>2. ASSUME NEW i \in 1..Len(B), i # k, NEW t \in 1..Len(B[i].entries)
          PROVE  B[i].entries[t].uid # u
      BY <3>1, <3>2 DEF UidsApart
    <3>3. ASSUME NEW i \in 1..Len(B), i # k, NEW t \in 1..Len(B[i].entries)
          PROVE  OfPart(B[i].entries[t].uid) # OfPart(u)
      <4>1. B[i].entries[t].uid # u
        BY <3>2, <3>3
      <4> HIDE DEF u
      <4> QED
        BY <4>1 DEF OfPart
    <3> QED
      BY <3>3
  <2>3. Image(f, own, lim, C, B, k)
    BY ImageLess
  <2> HIDE DEF u
  <2> QED
    BY <1>5, <2>1, <2>2, <2>3, ImageKept
<1>9. /\ IsEntry(x) /\ x.t = "ent" /\ x.type = Raw /\ x.uid = u
      /\ x.start = st /\ x.max = mx /\ x.used = n /\ x.algo = e.algo
      /\ x.hash = Digest(e.algo, d)
  BY <1>2, UpdatedIs
<1>10. EntryHeld(g, own, lim, x)
  <2>1. n \in 0..mx
    BY <1>2, <1>3
  <2>2. Owned(own, OfPart(u), st, mx)
    BY <1>2, Zenon DEF Owned
  <2>3. x.hash = Digest(x.algo, SubSeq(g, x.start + 1, x.start + x.used))
    BY <1>6, <1>9, Zenon
  <2>4. x.used > 0 => x.start + x.used <= Len(g)
    BY <1>6, <1>9, Zenon
  <2>5. x.max > 0 => x.start + x.max <= lim
    BY <1>2, <1>9, Zenon
  <2>6. x.start \in Nat /\ x.max \in Nat /\ x.used \in 0..x.max /\ x.uid \in Uid
    BY <1>2, <1>9, <2>1, Zenon
  <2>7. Owned(own, OfPart(x.uid), x.start, x.max)
    BY <1>9, <2>2, Zenon
  <2> QED
    BY <1>9, <2>3, <2>4, <2>5, <2>6, <2>7, Zenon DEF EntryHeld
<1>11. ReadData(g, x) = d
  BY <1>6, <1>9, Zenon DEF ReadData
<1> QED
  BY <1>5, <1>7, <1>8, <1>9, <1>10, <1>11, Zenon DEF DataRelaid, u

\* The UIDs of a block whose entries are replaced by ones of the same UIDs.
LEMMA SameUids ==
    ASSUME NEW C, NEW B \in Tables(C), UidsApart(B), NEW k \in 1..Len(B), NEW es \in Seq(C),
           Len(es) = Len(B[k].entries),
           \A t \in 1..Len(es) : es[t].uid = B[k].entries[t].uid
    PROVE  UidsApart(Put(B, k, es))
<1> DEFINE P == Put(B, k, es)
<1>1. /\ Len(P) = Len(B)
      /\ \A i \in 1..Len(B) : P[i].entries = IF i = k THEN es ELSE B[i].entries
  BY PutIs
<1> HIDE DEF P
<1>2. ASSUME NEW i \in 1..Len(B), NEW s \in 1..Len(P[i].entries)
      PROVE  s \in 1..Len(B[i].entries) /\ P[i].entries[s].uid = B[i].entries[s].uid
  <2>1. CASE i = k
    <3>1. P[i].entries = es
      BY <1>1, <2>1, Zenon
    <3>2. s \in 1..Len(es)
      BY <3>1, Zenon
    <3> QED
      BY <2>1, <3>1, <3>2, Zenon
  <2>2. CASE i # k
    <3>1. P[i].entries = B[i].entries
      BY <1>1, <2>2, Zenon
    <3> QED
      BY <3>1, Zenon
  <2> QED
    BY <2>1, <2>2, Zenon
<1>3. ASSUME NEW i \in 1..Len(B), NEW j \in 1..Len(B),
             NEW s \in 1..Len(P[i].entries), NEW t \in 1..Len(P[j].entries),
             P[i].entries[s].uid = P[j].entries[t].uid
      PROVE  i = j /\ s = t
  <2>1. /\ s \in 1..Len(B[i].entries) /\ t \in 1..Len(B[j].entries)
        /\ B[i].entries[s].uid = B[j].entries[t].uid
    BY <1>2, <1>3, Zenon
  <2>2. UidsApart(B) /\ i \in 1..Len(B) /\ j \in 1..Len(B)
    OBVIOUS
  <2> QED
    BY ONLY <2>1, <2>2 DEF UidsApart
<1>4. UidsApart(P)
  BY <1>1, <1>3, Zenon DEF UidsApart
<1> QED
  BY <1>4 DEF P

\* P is B with the s-th entry of the k-th block, u's, replaced by x, whose data is d.
UpdatedTo(f, g, B, P, u, k, s, x, d) ==
    /\ k \in 1..Len(B) /\ s \in 1..Len(B[k].entries) /\ B[k].entries[s].uid = u
    /\ P = Put(B, k, [B[k].entries EXCEPT ![s] = x])
    /\ DataStays(f, g, B, u) /\ ReadData(g, x) = d

LEMMA Updates ==
    ASSUME NEW D, PlainContents(D), NEW C, NEW own, NEW B, NEW cap, Holds(C, own, B, cap),
           open = TRUE, finalized = FALSE, NEW u \in Uid, Located(u), NEW d \in Contents,
           Len(d) <= Locate(u).entry.max,
           NEW g, g = Apply(file, UpdatePlan(Locate(u), d).writes),
           NEW bs, bs = UpdatePlan(Locate(u), d).blocks
    PROVE  \E k, s, x, P : /\ Leaves(g, bs, UpdatePlan(Locate(u), d).eof, B, P)
                           /\ x = Updated(B[k].entries[s], d)
                           /\ UpdatedTo(file, g, B, P, u, k, s, x, d)
                           /\ Puts(file, UpdatePlan(Locate(u), d).writes, B, P, u)
<1>0. PICK k \in 1..Len(B) : \E s \in 1..Len(B[k].entries) :
            /\ B[k].entries[s].uid = u
            /\ Locate(u) = [block |-> k, slot |-> s, entry |-> B[k].entries[s]]
  BY Found
<1>1. PICK s \in 1..Len(B[k].entries) :
            /\ B[k].entries[s].uid = u
            /\ Locate(u) = [block |-> k, slot |-> s, entry |-> B[k].entries[s]]
  BY <1>0
<1> DEFINE l == Locate(u)  e == B[k].entries[s]  x == Updated(e, d)  fs == B[k].entries
           es == [fs EXCEPT ![s] = x]
           E == C \cup D \cup {x, PutCell(B, k, es)}
           f1 == Apply(file, WriteCells(e.start, d))
<1>2. /\ B \in Tables(C) /\ Len(B) \in Nat /\ Len(B) >= 1 /\ 1 \in 1..Len(B)
      /\ file \in Seq(C) /\ Len(file) \in Nat /\ Zero \in C
      /\ Image(file, own, data_eof, C, B, 0) /\ HeadIs(file, own, B[1].offset)
      /\ data_eof \in Nat /\ Len(file) <= data_eof /\ table_head = B[1].offset
      /\ table_hash_algo \in {"None", "Sha256"} /\ default_capacity \in Nat
      /\ blocks = Infos(B, cap) /\ \A j \in 1..Len(B) : cap[j] \in Nat
      /\ RoomHeld(own, B, cap, data_eof)
  BY HandleFacts
<1>3. d \in Seq(D) /\ Untrailed(d) /\ Len(d) <= e.max
  BY <1>1 DEF PlainContents
<1>4. l.block = k /\ l.slot = s /\ l.entry = e
  <2> HIDE DEF e
  <2>1. l = [block |-> k, slot |-> s, entry |-> e]
    BY <1>1 DEF e
  <2> HIDE DEF l
  <2> QED
    BY <2>1
<1>5. /\ blocks[k].offset = B[k].offset /\ blocks[k].next = Successor(B, k)
      /\ blocks[k].algo = B[k].algo /\ blocks[k].count = Len(fs) /\ DOMAIN blocks = 1..Len(B)
      /\ blocks[k] = BlockInfo(B[k].offset, cap[k], Len(fs), B[k].algo, Successor(B, k))
  BY InfoIs
<1>6. /\ fs \in Seq(C) /\ B[k].offset \in Nat \ {0} /\ Len(fs) \in Nat
      /\ s \in 1..Len(fs)
  BY <1>2, BlockOf
<1>7. /\ Len(es) = Len(fs) /\ es[s] = x
      /\ \A t \in 1..Len(fs) : t # s => es[t] = fs[t]
  <2> DEFINE G == C \cup {x}
  <2>1. fs \in Seq(G) /\ x \in G
    <3>1. C \subseteq G
      OBVIOUS
    <3> HIDE DEF G, fs
    <3>2. fs \in Seq(G)
      BY <1>6, <3>1
    <3> QED
      BY <3>2 DEF G
  <2> HIDE DEF x, fs, G
  <2> QED
    BY <1>6, <2>1
<1> HIDE DEF x, es, E
<1>8. C \subseteq E /\ D \subseteq E /\ x \in E /\ PutCell(B, k, es) \in E
  BY DEF E
<1>9. /\ file \in Seq(E) /\ d \in Seq(E) /\ Zero \in E /\ fs \in Seq(E)
  <2> HIDE DEF fs
  <2>1. file \in Seq(C) /\ d \in Seq(D) /\ Zero \in C /\ fs \in Seq(C)
    BY <1>2, <1>3, <1>6
  <2> QED
    BY ONLY <1>8, <2>1
<1>10. es \in Seq(E)
  <2> HIDE DEF fs
  <2> QED
    BY <1>6, <1>8, <1>9 DEF es
<1>11. Image(file, own, data_eof, E, B, 0)
  <2>1. SameOwners(own, own, data_eof) /\ data_eof <= data_eof
    BY <1>2 DEF SameOwners
  <2> QED
    BY <1>2, <1>8, <2>1, ImageOwned
<1>12. B \in Tables(E) /\ UidsApart(B)
  BY <1>11 DEF Image
<1> HIDE DEF l, f1
<1>13. /\ ReadData(f1, x) = d /\ f1 \in Seq(E) /\ CellsDiffer(file, f1, own, OfPart(u)) /\ Len(f1) <= data_eof
       /\ Image(f1, own, data_eof, E, B, k) /\ EntryHeld(f1, own, data_eof, x) /\ x.uid = u
  <2>1. e = B[k].entries[s] /\ e.uid = u
    BY <1>1
  <2>2. x = Updated(e, d) /\ f1 = Apply(file, WriteCells(e.start, d))
    BY DEF x, f1
  <2> HIDE DEF e
  <2>3. DataRelaid(E, file, f1, own, data_eof, B, k, e.uid, x, d)
    BY <1>2, <1>3, <1>9, <1>11, <2>1, <2>2, DataPut
  <2> QED
    BY <2>1, <2>3, Zenon DEF DataRelaid
<1>14. HeadIs(f1, own, B[1].offset)
  <2>1. OfPart(u) # OfHeader /\ OfPart(u) # OfTrailer
    BY DEF OfPart, OfHeader, OfTrailer
  <2> DEFINE h == B[1].offset
  <2>2. HeadIs(file, own, h)
    BY <1>2
  <2> HIDE DEF h
  <2>3. HeadIs(f1, own, h)
    BY <1>9, <1>13, <2>1, <2>2, HeadKept
  <2> QED
    BY <2>3 DEF h
<1>15. EntriesAt(f1, B[k].offset) = fs
  BY <1>13, TableRead
<1>16. \A t \in 1..Len(es) : es[t].uid = fs[t].uid
  <2>1. ASSUME NEW t \in 1..Len(es)
        PROVE  es[t].uid = fs[t].uid
    <3>1. CASE t = s
      <4>1. fs[s].uid = u
        BY <1>1
      <4> QED
        BY <1>7, <1>13, <3>1, <4>1, Zenon
    <3>2. CASE t # s
      BY <1>7, <3>2
    <3> QED
      BY <3>1, <3>2
  <2> QED
    BY <2>1
<1>17. UidsApart(Put(B, k, es))
  <2>1. Len(es) = Len(B[k].entries) /\ \A t \in 1..Len(es) : es[t].uid = B[k].entries[t].uid
    BY <1>7, <1>16
  <2> QED
    BY <1>10, <1>12, <2>1, SameUids
<1>18. AllHeld(f1, own, data_eof, es)
  <2>1. ASSUME NEW t \in 1..Len(es)
        PROVE  EntryHeld(f1, own, data_eof, es[t])
    <3>1. CASE t = s
      BY <1>7, <1>13, <3>1, Zenon
    <3>2. CASE t # s
      <4>1. t \in 1..Len(B[k].entries) /\ es[t] = B[k].entries[t]
        BY <1>7, <3>2
      <4>2. EntryHeld(file, own, data_eof, B[k].entries[t])
        BY <1>11, <4>1, EntryOf
      <4>3. B[k].entries[t].uid # u
        <5>1. B[k].entries[s].uid = u /\ UidsApart(B) /\ k \in 1..Len(B) /\ s \in 1..Len(B[k].entries)
          BY <1>1, <1>12
        <5> QED
          BY ONLY <3>2, <4>1, <5>1 DEF UidsApart
      <4> DEFINE z == B[k].entries[t]
      <4> HIDE DEF z
      <4>4. OfPart(z.uid) # OfPart(u)
        BY <4>3 DEF OfPart, z
      <4>5. EntryHeld(file, own, data_eof, z)
        BY <4>2 DEF z
      <4>6. EntryHeld(f1, own, data_eof, z)
        BY <1>9, <1>13, <4>4, <4>5, EntryKept
      <4> QED
        BY <4>1, <4>6 DEF z
    <3> QED
      BY <3>1, <3>2
  <2> QED
    BY <2>1, Zenon DEF AllHeld
<1>19. /\ UpdatePlan(l, d).writes = WriteCells(e.start, d) \o PutWrites(B, k, es)
       /\ UpdatePlan(l, d).blocks = blocks /\ UpdatePlan(l, d).eof = data_eof
  <2> DEFINE p == UpdatePlan(l, d)
             W == WriteCells(e.start, d) \o WriteBlock(B[k].offset, Successor(B, k), B[k].algo,
                    [EntriesAt(f1, B[k].offset) EXCEPT ![s] = x])
  <2>1. p = [writes |-> W, blocks |-> blocks, eof |-> data_eof]
    BY <1>4, <1>5, Zenon DEF UpdatePlan, f1, x
  <2>2. W = WriteCells(e.start, d) \o PutWrites(B, k, es)
    BY <1>15, Zenon DEF es, PutWrites
  <2> HIDE DEF p, W
  <2>3. p.writes = W /\ p.blocks = blocks /\ p.eof = data_eof
    BY <2>1
  <2> QED
    BY <2>2, <2>3, Zenon DEF p
<1>20. g = Apply(file, UpdatePlan(l, d).writes) /\ bs = UpdatePlan(l, d).blocks
  BY DEF l
<1>21. g = Apply(f1, PutWrites(B, k, es))
  <2>1. g = Apply(file, WriteCells(e.start, d) \o WriteBlock(B[k].offset, Successor(B, k), B[k].algo, es))
    BY <1>19, <1>20, Zenon DEF PutWrites
  <2>2. e.start \in Nat
    <3>1. EntryHeld(file, own, data_eof, e)
      BY <1>11, EntryOf
    <3> QED
      BY <3>1 DEF EntryHeld
  <2>3. BlockCell(Len(es), Successor(B, k), B[k].algo, TableHash(B[k].algo, Successor(B, k), es)) \in E
    BY <1>8 DEF PutCell
  <2>4. B[k].offset \in Nat
    BY <1>6
  <2>5. DataThenBlock(E, file, e.start, d, B[k].offset, Successor(B, k), B[k].algo, es)
    <3> DEFINE st == e.start  off == B[k].offset  next == Successor(B, k)  ba == B[k].algo
    <3>1. st \in Nat /\ off \in Nat /\ BlockCell(Len(es), next, ba, TableHash(ba, next, es)) \in E
      BY <2>2, <2>3, <2>4
    <3> HIDE DEF st, off, next, ba
    <3>2. DataThenBlock(E, file, st, d, off, next, ba, es)
      BY <1>9, <1>10, <3>1, ThenBlock
    <3> QED
      BY <3>2 DEF st, off, next, ba
  <2> QED
    BY <2>1, <2>5, Zenon DEF DataThenBlock, PutWrites, f1
<1>22. bs = Recounted(Infos(B, cap), B, cap, k, Len(es))
  <2>1. \A i \in 1..Len(B) :
            blocks[i] = IF i = k THEN BlockInfo(B[k].offset, cap[k], Len(es), B[k].algo, Successor(B, k))
                        ELSE blocks[i]
    BY <1>5, <1>7, Zenon
  <2>2. blocks = [i \in 1..Len(B) |-> blocks[i]]
    BY <1>2, Zenon DEF Infos
  <2>3. blocks = Recounted(blocks, B, cap, k, Len(es))
    BY <2>1, <2>2, Zenon DEF Recounted
  <2> QED
    BY <1>2, <1>19, <1>20, <2>3, Zenon
<1>24. Len(es) <= Len(B[k].entries)
  BY <1>6, <1>7
<1>25. /\ Leaves(g, bs, data_eof, B, Put(B, k, es)) /\ CellsDiffer(f1, g, own, OfBlock(B[k].offset))
       /\ g \in Seq(E) /\ Owned(own, OfBlock(B[k].offset), B[k].offset, Len(es) + 1)
  <2> HIDE DEF fs, e
  <2> QED
    BY <1>2, <1>8, <1>9, <1>10, <1>13, <1>14, <1>17, <1>18, <1>21, <1>22, <1>24, Rewritten
<1>27. DataStays(file, g, B, u) /\ ReadData(g, x) = d
  <2>1. file \in Seq(E) /\ f1 \in Seq(E) /\ g \in Seq(E) /\ CellsDiffer(file, f1, own, OfPart(u))
        /\ CellsDiffer(f1, g, own, OfBlock(B[k].offset)) /\ Image(file, own, data_eof, E, B, 0)
    BY <1>9, <1>11, <1>13, <1>25
  <2>2. DataStays(file, g, B, u)
    BY ONLY <2>1, BothStay
  <2>3. OfPart(x.uid) # OfBlock(B[k].offset)
    BY OwnersApart
  <2>4. ReadData(g, x) = ReadData(f1, x)
    <3>1. EntryHeld(f1, own, data_eof, x)
      BY <1>13
    <3> QED
      BY ONLY <2>1, <2>3, <3>1, DataKept
  <2> QED
    BY <1>13, <2>2, <2>4
<1>28. UpdatedTo(file, g, B, Put(B, k, es), u, k, s, x, d)
  BY <1>1, <1>27, Zenon DEF UpdatedTo, es
<1>29. Puts(file, UpdatePlan(l, d).writes, B, Put(B, k, es), u)
  <2>1. EntryHeld(file, own, data_eof, e)
    BY <1>11, EntryOf
  <2>2. e.start \in Nat /\ Owned(own, OfPart(u), e.start, Len(d))
    <3> DEFINE st == e.start  m == e.max  n == Len(d)
    <3>1. st \in Nat /\ m \in Nat /\ n \in Nat /\ n <= m /\ Owned(own, OfPart(u), st, m)
      BY <1>1, <1>3, <2>1 DEF EntryHeld
    <3> HIDE DEF st, m, n
    <3>2. \A o \in st..(st + n - 1) : o \in st..(st + m - 1)
      BY <3>1
    <3>3. Owned(own, OfPart(u), st, n)
      BY <3>1, <3>2, Zenon DEF Owned
    <3> QED
      BY <3>1, <3>3 DEF st, n
  <2>3. \A t \in 1..Len(es) : es[t].t = "ent"
    <3>1. ASSUME NEW t \in 1..Len(es)
          PROVE  es[t].t = "ent"
      <4>1. EntryHeld(f1, own, data_eof, es[t])
        BY <1>18, Zenon DEF AllHeld
      <4> QED
        BY <4>1, Zenon DEF EntryHeld
    <3> QED
      BY <3>1
  <2>4. PutWith(E, own, data_eof, file, UpdatePlan(l, d).writes, B, u, e.start, d, k, es)
    BY <1>2, <1>3, <1>8, <1>9, <1>10, <1>11, <1>19, <1>25, <2>2, <2>3, Zenon DEF PutWith
  <2> QED
    BY <2>4, Zenon DEF Puts
<1> QED
  BY <1>19, <1>25, <1>28, <1>29, Zenon DEF x, l

-----------------------------------------------------------------------------
(* remove_partition.                                                       *)

\* es are the entries fs without the s-th.
Without(C, es, fs, s) ==
    /\ es \in Seq(C) /\ Len(es) = Len(fs) - 1
    /\ \A t \in 1..Len(es) : es[t] = IF t < s THEN fs[t] ELSE fs[t + 1]

LEMMA RemovedIs ==
    ASSUME NEW C, NEW fs \in Seq(C), NEW s \in 1..Len(fs)
    PROVE  Without(C, RemoveAt(fs, s), fs, s)
<1> DEFINE n == Len(fs)  x == s - 1  y == s + 1  p == SubSeq(fs, 1, x)  q == SubSeq(fs, y, n)
           es == RemoveAt(fs, s)
<1>1. n \in Nat /\ s \in Nat /\ 1 <= s /\ s <= n /\ x \in 0..n /\ y \in Nat \ {0} /\ n \in 0..n
      /\ x = s - 1 /\ y = s + 1
  OBVIOUS
<1>2. es = p \o q
  BY Zenon DEF RemoveAt
<1>7. n = Len(fs)
  OBVIOUS
<1> HIDE DEF n, x, y, es
<1>3. /\ p \in Seq(C) /\ Len(p) = IF 1 <= x THEN x - 1 + 1 ELSE 0
      /\ \A i \in 1..Len(p) : p[i] = fs[1 + i - 1]
  BY <1>1, <1>7, SliceType
<1>4. /\ q \in Seq(C) /\ Len(q) = IF y <= n THEN n - y + 1 ELSE 0
      /\ \A i \in 1..Len(q) : q[i] = fs[y + i - 1]
  BY <1>1, <1>7, SliceType
<1> HIDE DEF p, q
<1>5. Len(p) = x /\ Len(q) = n - s
  BY <1>1, <1>3, <1>4
<1>6. es \in Seq(C) /\ Len(es) = n - 1
  <2>1. p \in Seq(C) /\ q \in Seq(C)
    BY <1>3, <1>4
  <2>2. (p \o q) \in Seq(C) /\ Len(p \o q) = Len(p) + Len(q)
    BY <2>1
  <2>3. x + (n - s) = n - 1
    BY <1>1
  <2> QED
    BY <1>2, <1>5, <2>2, <2>3, Zenon
<1>8. ASSUME NEW t \in 1..Len(es)
      PROVE  es[t] = IF t < s THEN fs[t] ELSE fs[t + 1]
  <2>1. CASE t < s
    <3>1. t \in 1..Len(p) /\ 1 + t - 1 = t
      BY <1>1, <1>5, <2>1
    <3>2. es[t] = p[t]
      BY <1>2, <1>3, <1>4, <3>1
    <3> QED
      BY <1>3, <2>1, <3>1, <3>2
  <2>2. CASE ~(t < s)
    <3> DEFINE i == t - x
    <3>1. i \in 1..Len(q) /\ y + i - 1 = t + 1 /\ t = x + i
      BY <1>1, <1>5, <1>6, <2>2
    <3> HIDE DEF i
    <3>4. p \in Seq(C) /\ q \in Seq(C)
      BY <1>3, <1>4
    <3>5. (p \o q)[Len(p) + i] = q[i]
      <4>1. \A z \in 1..(Len(p) + Len(q)) :
                (p \o q)[z] = IF z <= Len(p) THEN p[z] ELSE q[z - Len(p)]
        BY <3>4
      <4> DEFINE a1 == Len(p)  b1 == Len(q)  z == a1 + i
      <4>2. a1 \in Nat /\ b1 \in Nat /\ i \in 1..b1
        BY <3>1, <3>4
      <4> HIDE DEF a1, b1
      <4>3. z \in 1..(a1 + b1) /\ ~(z <= a1) /\ z - a1 = i
        BY <4>2
      <4> HIDE DEF z
      <4>4. (p \o q)[z] = q[i]
        BY <4>1, <4>3, Zenon DEF a1, b1
      <4> QED
        BY <4>4 DEF z, a1
    <3>2. es[t] = q[i]
      BY <1>2, <1>5, <3>1, <3>5, Zenon
    <3>3. q[i] = fs[t + 1]
      BY <1>4, <3>1
    <3> QED
      BY <2>2, <3>2, <3>3
  <2> QED
    BY <2>1, <2>2
<1>9. Without(C, es, fs, s)
  BY <1>6, <1>7, <1>8, Zenon DEF Without
<1> QED
  BY <1>9 DEF es

\* Every entry that is left was there, at another slot only if it was a later one.
LEMMA WithoutWhere ==
    ASSUME NEW C, NEW es, NEW fs \in Seq(C), NEW s \in 1..Len(fs), Without(C, es, fs, s),
           NEW t \in 1..Len(es), NEW x, x = IF t < s THEN t ELSE t + 1
    PROVE  x \in 1..Len(fs) /\ es[t] = fs[x]
<1> DEFINE n == Len(fs)  m == Len(es)
<1>1. n \in Nat /\ m = n - 1 /\ s \in 1..n /\ t \in 1..m
  BY DEF Without
<1>2. es[t] = IF t < s THEN fs[t] ELSE fs[t + 1]
  BY DEF Without
<1> HIDE DEF n, m
<1>3. x \in 1..n
  BY <1>1
<1>4. es[t] = fs[x]
  BY <1>2
<1> QED
  BY <1>3, <1>4 DEF n

\* The UIDs of a block that lost an entry.
LEMMA LessUids ==
    ASSUME NEW C, NEW B \in Tables(C), UidsApart(B), NEW k \in 1..Len(B),
           B[k].entries \in Seq(C), NEW s \in 1..Len(B[k].entries),
           NEW es, Without(C, es, B[k].entries, s)
    PROVE  UidsApart(Put(B, k, es))
<1> DEFINE P == Put(B, k, es)
           was(i, t) == IF i = k /\ ~(t < s) THEN t + 1 ELSE t
<1>1. /\ Len(P) = Len(B)
      /\ \A i \in 1..Len(B) : P[i].entries = IF i = k THEN es ELSE B[i].entries
  <2>1. es \in Seq(C)
    BY DEF Without
  <2> QED
    BY <2>1, PutIs
<1> HIDE DEF P
<1>2. ASSUME NEW i \in 1..Len(B), NEW t \in 1..Len(P[i].entries)
      PROVE  /\ was(i, t) \in 1..Len(B[i].entries)
             /\ P[i].entries[t] = B[i].entries[was(i, t)] /\ t \in Nat
  <2>1. CASE i = k
    <3>1. P[i].entries = es
      BY <1>1, <2>1, Zenon
    <3>2. t \in 1..Len(es)
      BY <3>1, Zenon
    <3> DEFINE x == IF t < s THEN t ELSE t + 1
    <3>3. x = was(i, t)
      BY <2>1
    <3> HIDE DEF x
    <3>4. x = IF t < s THEN t ELSE t + 1
      BY DEF x
    <3> DEFINE fs == B[k].entries
    <3>8. fs \in Seq(C) /\ s \in 1..Len(fs) /\ Without(C, es, fs, s)
      OBVIOUS
    <3> HIDE DEF fs
    <3>9. x \in 1..Len(fs) /\ es[t] = fs[x]
      BY <3>2, <3>4, <3>8, WithoutWhere
    <3>5. x \in 1..Len(B[k].entries) /\ es[t] = B[k].entries[x]
      BY <3>9 DEF fs
    <3>6. Len(es) \in Nat
      BY DEF Without
    <3>7. t \in Nat
      BY <3>2, <3>6
    <3> QED
      BY <2>1, <3>1, <3>3, <3>5, <3>7, Zenon
  <2>2. CASE i # k
    <3>1. P[i].entries = B[i].entries
      BY <1>1, <2>2, Zenon
    <3>2. was(i, t) = t
      BY <2>2
    <3>3. Len(B[i].entries) \in Nat
      <4> DEFINE R == [offset : Nat \ {0}, algo : {"None", "Sha256"}, entries : Seq(C)]
      <4>1. B \in Seq(R) /\ \A r \in R : r.entries \in Seq(C)
        BY DEF Tables
      <4> HIDE DEF R
      <4>2. B[i].entries \in Seq(C)
        BY <4>1
      <4> QED
        BY <4>2
    <3>4. t \in 1..Len(B[i].entries)
      BY <3>1, Zenon
    <3>5. t \in Nat
      BY <3>3, <3>4
    <3> QED
      BY <3>1, <3>2, <3>4, <3>5, Zenon
  <2> QED
    BY <2>1, <2>2, Zenon
<1>3. ASSUME NEW i \in 1..Len(B), NEW j \in 1..Len(B),
             NEW t \in 1..Len(P[i].entries), NEW r \in 1..Len(P[j].entries),
             P[i].entries[t].uid = P[j].entries[r].uid
      PROVE  i = j /\ t = r
  <2> DEFINE x == was(i, t)  y == was(j, r)
  <2>1. /\ x \in 1..Len(B[i].entries) /\ y \in 1..Len(B[j].entries) /\ t \in Nat /\ r \in Nat
        /\ B[i].entries[x].uid = B[j].entries[y].uid
    <3> HIDE DEF was
    <3> QED
      BY <1>2, <1>3, Zenon
  <2>2. UidsApart(B) /\ i \in 1..Len(B) /\ j \in 1..Len(B)
    OBVIOUS
  <2>3. s \in Nat
    BY DEF Tables
  <2> HIDE DEF x, y
  <2>4. i = j /\ x = y
    BY ONLY <2>1, <2>2 DEF UidsApart
  <2>5. t = r
    BY <2>1, <2>3, <2>4 DEF x, y
  <2> QED
    BY <2>4, <2>5
<1>4. UidsApart(P)
  BY <1>1, <1>3, Zenon DEF UidsApart
<1> QED
  BY <1>4 DEF P

\* P is B without the s-th entry of the k-th block, which is u's.
RemovedFrom(f, g, B, P, u, k, s) ==
    /\ k \in 1..Len(B) /\ s \in 1..Len(B[k].entries) /\ B[k].entries[s].uid = u
    /\ P = Put(B, k, RemoveAt(B[k].entries, s)) /\ DataStays(f, g, B, u)

LEMMA Removes ==
    ASSUME NEW C, NEW own, NEW B, NEW cap, Holds(C, own, B, cap),
           open = TRUE, finalized = FALSE, NEW u \in Uid, Located(u),
           NEW g, g = Apply(file, RemovePlan(Locate(u)).writes),
           NEW bs, bs = RemovePlan(Locate(u)).blocks
    PROVE  \E k, s, P : /\ Leaves(g, bs, RemovePlan(Locate(u)).eof, B, P)
                        /\ RemovedFrom(file, g, B, P, u, k, s)
                        /\ Puts(file, RemovePlan(Locate(u)).writes, B, P, u)
<1>0. PICK k \in 1..Len(B) : \E s \in 1..Len(B[k].entries) :
            /\ B[k].entries[s].uid = u
            /\ Locate(u) = [block |-> k, slot |-> s, entry |-> B[k].entries[s]]
  BY Found
<1>1. PICK s \in 1..Len(B[k].entries) :
            /\ B[k].entries[s].uid = u
            /\ Locate(u) = [block |-> k, slot |-> s, entry |-> B[k].entries[s]]
  BY <1>0
<1> DEFINE l == Locate(u)  fs == B[k].entries  es == RemoveAt(fs, s)  n == Len(es)
           E == C \cup {PutCell(B, k, es)}
<1>2. /\ B \in Tables(C) /\ Len(B) \in Nat /\ Len(B) >= 1 /\ 1 \in 1..Len(B)
      /\ file \in Seq(C) /\ Len(file) \in Nat /\ Zero \in C
      /\ Image(file, own, data_eof, C, B, 0) /\ HeadIs(file, own, B[1].offset)
      /\ data_eof \in Nat /\ Len(file) <= data_eof /\ table_head = B[1].offset
      /\ table_hash_algo \in {"None", "Sha256"} /\ default_capacity \in Nat
      /\ blocks = Infos(B, cap) /\ \A j \in 1..Len(B) : cap[j] \in Nat
      /\ RoomHeld(own, B, cap, data_eof)
  BY HandleFacts
<1>3. \A i \in 1..Len(B) : EntriesAt(file, B[i].offset) = B[i].entries
  BY HandleReads
<1>4. l.block = k /\ l.slot = s
  <2> DEFINE e == B[k].entries[s]
  <2>1. l = [block |-> k, slot |-> s, entry |-> e]
    BY <1>1 DEF e
  <2> HIDE DEF l, e
  <2> QED
    BY <2>1
<1>5. /\ blocks[k].offset = B[k].offset /\ blocks[k].next = Successor(B, k)
      /\ blocks[k].algo = B[k].algo /\ blocks[k].count = Len(fs) /\ DOMAIN blocks = 1..Len(B)
      /\ blocks[k] = BlockInfo(B[k].offset, cap[k], Len(fs), B[k].algo, Successor(B, k))
  BY InfoIs
<1>6. /\ fs \in Seq(C) /\ Len(fs) \in Nat /\ s \in 1..Len(fs)
  BY <1>2, BlockOf
<1>7. Without(C, es, fs, s)
  <2> HIDE DEF fs
  <2> QED
    BY <1>6, RemovedIs
<1> HIDE DEF es, E, l
<1>8. C \subseteq E /\ PutCell(B, k, es) \in E
  BY DEF E
<1>9. /\ file \in Seq(E) /\ Zero \in E /\ es \in Seq(E) /\ n = Len(fs) - 1 /\ n \in Nat
      /\ n <= Len(fs)
  <2>1. es \in Seq(C) /\ Len(es) = Len(fs) - 1
    BY <1>7 DEF Without
  <2> DEFINE m == Len(fs)
  <2>2. m \in Nat /\ s \in 1..m /\ n = m - 1
    BY <1>6, <2>1
  <2>3. file \in Seq(E) /\ Zero \in E /\ es \in Seq(E)
    BY <1>2, <1>8, <2>1
  <2> HIDE DEF fs, m, n
  <2>4. n \in Nat /\ n <= m
    BY <2>2
  <2> QED
    BY <2>2, <2>3, <2>4 DEF m
<1>10. UidsApart(Put(B, k, es))
  <2>1. UidsApart(B)
    BY <1>2 DEF Image
  <2> QED
    BY <1>2, <1>6, <1>7, <2>1, LessUids
<1>11. Image(file, own, data_eof, E, B, k)
  <2>1. SameOwners(own, own, data_eof) /\ data_eof <= data_eof
    BY <1>2 DEF SameOwners
  <2>2. Image(file, own, data_eof, E, B, 0)
    BY <1>2, <1>8, <2>1, ImageOwned
  <2> QED
    BY <2>2, ImageLess
<1>12. AllHeld(file, own, data_eof, es)
  <2>1. ASSUME NEW t \in 1..Len(es)
        PROVE  EntryHeld(file, own, data_eof, es[t])
    <3> DEFINE x == IF t < s THEN t ELSE t + 1
    <3>1. x = IF t < s THEN t ELSE t + 1
      OBVIOUS
    <3> HIDE DEF x, fs
    <3>2. x \in 1..Len(fs) /\ es[t] = fs[x]
      BY <1>6, <1>7, <3>1, WithoutWhere
    <3>3. x \in 1..Len(B[k].entries) /\ es[t] = B[k].entries[x]
      BY <3>2 DEF fs
    <3>4. EntryHeld(file, own, data_eof, B[k].entries[x])
      BY <1>2, <3>3, EntryOf
    <3> QED
      BY <3>3, <3>4, Zenon
  <2> QED
    BY <2>1, Zenon DEF AllHeld
<1>13. g = Apply(file, RemovePlan(l).writes) /\ bs = RemovePlan(l).blocks
  BY DEF l
<1>14. /\ RemovePlan(l).writes = PutWrites(B, k, es)
       /\ RemovePlan(l).blocks = [blocks EXCEPT ![k].count = @ - 1]
       /\ RemovePlan(l).eof = data_eof
  <2> DEFINE p == RemovePlan(l)  Y == [blocks EXCEPT ![k].count = @ - 1]
             W == WriteBlock(B[k].offset, Successor(B, k), B[k].algo,
                             RemoveAt(EntriesAt(file, B[k].offset), s))
  <2>1. p = [writes |-> W, blocks |-> Y, eof |-> data_eof]
    BY <1>4, <1>5, Zenon DEF RemovePlan
  <2>2. W = PutWrites(B, k, es)
    BY <1>3, Zenon DEF es, PutWrites
  <2> HIDE DEF p, W, Y
  <2>3. p.writes = W /\ p.blocks = Y /\ p.eof = data_eof
    BY <2>1
  <2> QED
    BY <2>2, <2>3, Zenon DEF p, Y
<1>15. bs = Recounted(Infos(B, cap), B, cap, k, Len(es))
  <2> DEFINE Y == [blocks EXCEPT ![k].count = @ - 1]
  <2>1. bs = Y
    BY <1>13, <1>14
  <2>2. Y[k] = [blocks[k] EXCEPT !.count = @ - 1] /\ \A i \in 1..Len(B) : i # k => Y[i] = blocks[i]
    BY <1>5
  <2>3. Y[k] = BlockInfo(B[k].offset, cap[k], Len(es), B[k].algo, Successor(B, k))
    <3> DEFINE O == B[k].offset  A == B[k].algo  X == Successor(B, k)  c == cap[k]  m == Len(fs)
    <3>1. blocks[k] = BlockInfo(O, c, m, A, X) /\ Len(es) = m - 1
      BY <1>5, <1>9
    <3> HIDE DEF O, A, X, c, m, Y
    <3>2. Y[k] = BlockInfo(O, c, Len(es), A, X)
      BY <2>2, <3>1 DEF BlockInfo
    <3> QED
      BY <3>2 DEF O, A, X, c
  <2>4. blocks = [i \in 1..Len(B) |-> blocks[i]]
    BY <1>2, Zenon DEF Infos
  <2>5. Y = [i \in 1..Len(B) |-> Y[i]]
    BY <2>4, Zenon
  <2> HIDE DEF Y
  <2>6. \A i \in 1..Len(B) :
            Y[i] = IF i = k THEN BlockInfo(B[k].offset, cap[k], Len(es), B[k].algo, Successor(B, k))
                   ELSE blocks[i]
    BY <2>2, <2>3, Zenon
  <2>7. Y = Recounted(blocks, B, cap, k, Len(es))
    BY <2>5, <2>6, Zenon DEF Recounted
  <2> QED
    BY <1>2, <2>1, <2>7, Zenon
<1>16. g = Apply(file, PutWrites(B, k, es)) /\ Len(es) <= Len(B[k].entries)
  BY <1>9, <1>13, <1>14
<1>17. /\ Leaves(g, bs, data_eof, B, Put(B, k, es)) /\ CellsDiffer(file, g, own, OfBlock(B[k].offset))
       /\ g \in Seq(E) /\ Owned(own, OfBlock(B[k].offset), B[k].offset, Len(es) + 1)
  <2> HIDE DEF fs, n
  <2> QED
    BY <1>2, <1>8, <1>9, <1>10, <1>11, <1>12, <1>15, <1>16, Rewritten
<1>18. DataStays(file, g, B, u)
  <2>1. \A v : v # u => OfPart(v) # OfBlock(B[k].offset)
    BY OwnersApart
  <2>2. file \in Seq(C) /\ Image(file, own, data_eof, C, B, 0)
    BY <1>2
  <2>3. g \in Seq(E)
    BY <1>17
  <2> QED
    BY ONLY <1>17, <2>1, <2>2, <2>3, ImageStays
<1>19. RemovedFrom(file, g, B, Put(B, k, es), u, k, s)
  BY <1>1, <1>18, Zenon DEF RemovedFrom, es
<1>20. Puts(file, RemovePlan(l).writes, B, Put(B, k, es), u)
  <2> DEFINE d == <<>>
  <2>1. /\ d \in Seq(E) /\ Untrailed(d) /\ 0 \in Nat
    BY DEF Untrailed
  <2>2. Owned(own, OfPart(u), 0, Len(d))
    BY DEF Owned
  <2>3. \A t \in 1..Len(es) : es[t].t = "ent"
    <3>1. ASSUME NEW t \in 1..Len(es)
          PROVE  es[t].t = "ent"
      <4>1. EntryHeld(file, own, data_eof, es[t])
        BY <1>12, Zenon DEF AllHeld
      <4> QED
        BY <4>1, Zenon DEF EntryHeld
    <3> QED
      BY <3>1
  <2>4. Image(file, own, data_eof, E, B, 0)
    <3>1. SameOwners(own, own, data_eof) /\ data_eof <= data_eof
      BY <1>2 DEF SameOwners
    <3> QED
      BY <1>2, <1>8, <3>1, ImageOwned
  <2>5. WriteCells(0, d) \o PutWrites(B, k, es) = PutWrites(B, k, es)
    <3> DEFINE off == B[k].offset  next == Successor(B, k)  ba == B[k].algo
    <3>1. off \in Nat /\ BlockCell(Len(es), next, ba, TableHash(ba, next, es)) \in E
      BY <1>2, <1>8, BlockOf, Zenon DEF PutCell
    <3> HIDE DEF off, next, ba
    <3>2. DataThenBlock(E, file, 0, d, off, next, ba, es)
      BY <1>9, <2>1, <3>1, ThenBlock
    <3>3. WriteCells(0, d) \in Seq(Nat \X E) /\ WriteBlock(off, next, ba, es) \in Seq(Nat \X E)
      BY <3>2 DEF DataThenBlock
    <3> DEFINE w == WriteBlock(off, next, ba, es)  v == WriteCells(0, d)
    <3>4. Len(v) = 0 /\ v \in Seq(Nat \X E) /\ w \in Seq(Nat \X E)
      <4>1. Len(v) = Len(d)
        BY <2>1, WriteCellsInRow
      <4> QED
        BY <3>3, <4>1
    <3> HIDE DEF w, v
    <3>5. v \o w = w
      BY <3>4
    <3> QED
      BY <3>5 DEF w, v, off, next, ba, PutWrites
  <2> HIDE DEF d
  <2>6. RemovePlan(l).writes = WriteCells(0, d) \o PutWrites(B, k, es)
    BY <1>14, <2>5, Zenon
  <2>7. PutWith(E, own, data_eof, file, RemovePlan(l).writes, B, u, 0, d, k, es)
    BY <1>2, <1>8, <1>9, <1>17, <2>1, <2>2, <2>3, <2>4, <2>6, Zenon DEF PutWith
  <2> QED
    BY <2>7, Zenon DEF Puts
<1> QED
  BY <1>14, <1>17, <1>19, <1>20, Zenon DEF l

-----------------------------------------------------------------------------
(* finalize_with_trailer, and into_storage.                                *)

\* Once every reservation is materialised, they all end within the file.
LEMMA AtEnd ==
    ASSUME NEW C, NEW own, NEW B, NEW cap, Holds(C, own, B, cap), open = TRUE, Materialised
    PROVE  Image(file, own, Len(file), C, B, 0)
<1>1. Image(file, own, data_eof, C, B, 0)
  BY HandleFacts
<1>2. EntriesHeld(file, own, Len(file), B, 0)
  <2>1. ASSUME NEW k \in 1..Len(B), NEW s \in 1..Len(B[k].entries)
        PROVE  EntryHeld(file, own, Len(file), B[k].entries[s])
    <3>1. EntryHeld(file, own, data_eof, B[k].entries[s])
      BY <1>1, EntryOf
    <3>2. B[k].entries[s].max > 0 =>
                B[k].entries[s].start + B[k].entries[s].max <= Len(file)
      BY MaterialisedIs
    <3> DEFINE e == B[k].entries[s]
    <3>3. EntryHeld(file, own, data_eof, e) /\ (e.max > 0 => e.start + e.max <= Len(file))
      BY <3>1, <3>2
    <3> HIDE DEF e
    <3>4. EntryHeld(file, own, Len(file), e)
      BY <3>3, Zenon DEF EntryHeld
    <3> QED
      BY <3>4 DEF e
  <2> QED
    BY <2>1, Zenon DEF EntriesHeld
<1> QED
  BY <1>1, <1>2, Zenon DEF Image

LEMMA Published ==
    ASSUME NEW C, NEW own, NEW B, NEW cap, NEW eof \in Nat,
           Zero \in C, file' \in Seq(C), Image(file', own, eof, C, B, 0),
           HeadIs(file', own, B[1].offset), Len(file') <= eof, data_eof' = eof,
           table_head' = B[1].offset, table_hash_algo' \in {"None", "Sha256"},
           default_capacity' \in Nat, blocks' = Infos(B, cap),
           \A j \in 1..Len(B) : cap[j] \in Nat,
           open' = TRUE, finalized' = TRUE
    PROVE  CInv' /\ TableIn(file', B)
<1>1. data_eof' \in Nat /\ Len(file') <= data_eof'
  OBVIOUS
<1>2. Lim' = eof
  BY Zenon DEF Lim
<1>3. Image(file', own, Lim', C, B, 0)
  BY <1>2
<1>4. HandleIs(own, B, cap)'
  BY <1>1 DEF HandleIs
<1>5. Holds(C, own, B, cap)'
  BY <1>3, <1>4 DEF Holds
<1>6. TableIn(file', B)
  BY Zenon DEF TableIn
<1> QED
  BY <1>5, <1>6, Zenon DEF CInv

\* The file with a trailer added, and with the header that points to it.
WithTrailer(f, h) == WriteAt(f, Len(f), TrailerCell(h))
Republished(f, h) == WriteAt(WithTrailer(f, h), 0, HeaderCell(Sentinel))
\* What the trailer leaves of the table B, and then the header.
TrailerLaid(f, B, ws) ==
    /\ TableIn(WithTrailer(f, B[1].offset), B)
    /\ DataStays(f, WithTrailer(f, B[1].offset), B, Nil)
    /\ DataStays(f, Republished(f, B[1].offset), B, Nil)
    /\ Len(Republished(f, B[1].offset)) = Len(f) + 1
    /\ Len(ws) = 2 /\ Apply(f, ws) = Republished(f, B[1].offset)
    /\ Apply(f, SubSeq(ws, 1, 1)) = WithTrailer(f, B[1].offset)
HeldUpTo(g, B, lim) ==
    \E C, own : /\ Zero \in C /\ g \in Seq(C) /\ Image(g, own, lim, C, B, 0)
                /\ HeadIs(g, own, B[1].offset)

LEMMA LaysTrailer ==
    ASSUME NEW C, NEW own, NEW B, NEW cap, Holds(C, own, B, cap), open = TRUE, Materialised
    PROVE  /\ TrailerLaid(file, B, FinalizePlan.writes)
           /\ HeldUpTo(Republished(file, B[1].offset), B, Len(file) + 1)
           /\ FinalizePlan.eof = Len(file) + 1
<1> DEFINE lf == Len(file)  h == B[1].offset  tc == TrailerCell(h)  hc == HeaderCell(Sentinel)
           E == C \cup {tc, hc}
           own2 == [o \in Nat |-> IF o < lf THEN own[o] ELSE OfTrailer]
           f1 == WriteAt(file, lf, tc)  g == WriteAt(f1, 0, hc)
           ws == <<<<lf, tc>>, <<0, hc>>>>
<1>1. /\ B \in Tables(C) /\ Len(B) \in Nat /\ Len(B) >= 1 /\ 1 \in 1..Len(B)
      /\ file \in Seq(C) /\ lf \in Nat /\ Zero \in C
      /\ Image(file, own, data_eof, C, B, 0) /\ HeadIs(file, own, h)
      /\ data_eof \in Nat /\ Len(file) <= data_eof /\ table_head = h
      /\ table_hash_algo \in {"None", "Sha256"} /\ default_capacity \in Nat
      /\ blocks = Infos(B, cap) /\ \A j \in 1..Len(B) : cap[j] \in Nat
  BY HandleFacts
<1>2. Image(file, own, lf, C, B, 0)
  BY AtEnd
<1>3. h \in Nat \ {0} /\ h < lf
  <2>1. /\ BlockHeld(file, own, B[1].offset, Successor(B, 1), B[1].algo, B[1].entries)
        /\ Len(B[1].entries) \in Nat
    BY <1>1, BlockOf
  <2> DEFINE c == Len(B[1].entries)
  <2>2. h \in Nat \ {0} /\ h + c < lf /\ c \in Nat
    BY <2>1 DEF BlockHeld
  <2> HIDE DEF h, c, lf
  <2> QED
    BY <1>1, <2>2
<1>4. tc.t = "trl" /\ hc.t = "hdr" /\ hc.pto = Sentinel
  BY DEF TrailerCell, HeaderCell
<1> HIDE DEF h, hc
<1>5. C \subseteq E /\ tc \in E /\ hc \in E
  OBVIOUS
<1>6. FinalizePlan.writes = ws /\ FinalizePlan.eof = lf + 1
  <2>1. /\ FinalizePlan.writes = <<<<lf, TrailerCell(table_head)>>, <<0, hc>>>>
        /\ FinalizePlan.eof = lf + 1
    <3> DEFINE W == <<<<lf, TrailerCell(table_head)>>, <<0, hc>>>>  Y == Len(file) + TrailerSize
               p == FinalizePlan
    <3>1. p = [writes |-> W, blocks |-> blocks, eof |-> Y]
      BY Zenon DEF FinalizePlan, hc
    <3> HIDE DEF p, W, Y
    <3>2. p.writes = W /\ p.eof = Y
      BY <3>1
    <3> QED
      BY <3>2, Zenon DEF p, W, Y, TrailerSize
  <2> QED
    BY <1>1, <2>1, Zenon
<1> HIDE DEF tc, E, lf
<1>7. /\ file \in Seq(E) /\ Zero \in E /\ lf > 0 /\ lf = Len(file)
  BY <1>1, <1>3, <1>5 DEF lf
<1>8. f1 \in Seq(E) /\ OneWritten(f1, file, lf, tc)
  BY <1>1, <1>5, <1>7, WriteAtIs
<1>9. g \in Seq(E) /\ OneWritten(g, f1, 0, hc)
  <2> HIDE DEF f1
  <2> QED
    BY <1>5, <1>7, <1>8, WriteAtIs
<1>10. Apply(file, ws) = g /\ Len(ws) = 2 /\ Apply(file, SubSeq(ws, 1, 1)) = f1
  <2>1. ws \in Seq(Nat \X E) /\ Len(ws) = 2
    BY <1>1, <1>5
  <2>2. /\ ws[1][1] = lf /\ ws[1][2] = tc /\ ws[2][1] = 0 /\ ws[2][2] = hc
    OBVIOUS
  <2> HIDE DEF ws
  <2>3. PICK z : Trace(z, E, file, ws)
    BY <1>7, <2>1, ApplySteps
  <2>4. z[0] = file /\ \A k \in 1..2 : z[k] = WriteAt(z[k - 1], ws[k][1], ws[k][2])
    BY <2>1, <2>3 DEF Trace, Does
  <2>5. Apply(file, ws) = z[2]
    BY <2>1, <2>3 DEF Trace
  <2>6. z[1] = WriteAt(z[0], ws[1][1], ws[1][2])
    <3>1. 1 \in 1..2 /\ 1 - 1 = 0
      OBVIOUS
    <3> QED
      BY <2>4, <3>1, Zenon
  <2>7. z[2] = WriteAt(z[1], ws[2][1], ws[2][2])
    <3>1. 2 \in 1..2 /\ 2 - 1 = 1
      OBVIOUS
    <3> QED
      BY <2>4, <3>1, Zenon
  <2>8. Apply(file, ws) = g
    BY <2>2, <2>4, <2>5, <2>6, <2>7, Zenon
  <2> DEFINE v == SubSeq(ws, 1, 1)
  <2>9. v \in Seq(Nat \X E) /\ Len(v) = 1 /\ v[1] = ws[1]
    BY <2>1
  <2> HIDE DEF v
  <2>10. PICK y : Trace(y, E, file, v)
    BY <1>7, <2>9, ApplySteps
  <2>11. y[0] = file /\ \A k \in 1..1 : y[k] = WriteAt(y[k - 1], v[k][1], v[k][2])
    BY <2>9, <2>10 DEF Trace, Does
  <2>12. Apply(file, v) = y[1]
    BY <2>9, <2>10 DEF Trace
  <2>13. y[1] = WriteAt(y[0], v[1][1], v[1][2])
    <3>1. 1 \in 1..1 /\ 1 - 1 = 0
      OBVIOUS
    <3> QED
      BY <2>11, <3>1, Zenon
  <2>14. Apply(file, v) = f1
    BY <2>2, <2>9, <2>11, <2>12, <2>13, Zenon
  <2> QED
    BY <2>1, <2>8, <2>14 DEF v
<1> HIDE DEF f1, g, ws
<1>11. /\ Len(f1) = lf + 1 /\ At(f1, lf) = tc
       /\ \A o \in 0..(lf - 1) : At(f1, o) = At(file, o)
  <2>1. /\ Len(f1) = IF lf < Len(file) THEN Len(file) ELSE lf + 1
        /\ \A o \in 0..(Len(f1) - 1) :
             At(f1, o) = IF o = lf THEN tc ELSE IF o < Len(file) THEN At(file, o) ELSE Zero
    BY <1>8, Zenon DEF OneWritten, At
  <2>2. Len(f1) = lf + 1
    BY <1>1, <1>7, <2>1
  <2>3. \A o \in 0..lf :
             At(f1, o) = IF o = lf THEN tc ELSE IF o < Len(file) THEN At(file, o) ELSE Zero
    BY <1>1, <2>1, <2>2
  <2>4. lf \in 0..lf /\ \A o \in 0..(lf - 1) : o \in 0..lf /\ o # lf /\ o < Len(file)
    BY <1>1, <1>7
  <2> QED
    BY <2>2, <2>3, <2>4
<1>12. /\ Len(g) = lf + 1 /\ At(g, 0) = hc
       /\ \A o \in 1..lf : At(g, o) = At(f1, o)
  <2>1. /\ Len(g) = IF 0 < Len(f1) THEN Len(f1) ELSE 0 + 1
        /\ \A o \in 0..(Len(g) - 1) :
             At(g, o) = IF o = 0 THEN hc ELSE IF o < Len(f1) THEN At(f1, o) ELSE Zero
    BY <1>9, Zenon DEF OneWritten, At
  <2>2. Len(g) = lf + 1
    BY <1>1, <1>11, <2>1
  <2>3. \A o \in 0..lf :
             At(g, o) = IF o = 0 THEN hc ELSE IF o < lf + 1 THEN At(f1, o) ELSE Zero
    BY <1>1, <1>11, <2>1, <2>2
  <2>4. 0 \in 0..lf /\ \A o \in 1..lf : o \in 0..lf /\ o # 0 /\ o < lf + 1
    BY <1>1
  <2> QED
    BY <2>2, <2>3, <2>4
<1>13. /\ \A o \in 0..(lf - 1) : own2[o] = own[o]
       /\ own2[0] = OfHeader /\ own2[lf] = OfTrailer
  <2>1. own[0] = OfHeader
    BY <1>1 DEF HeadIs
  <2>2. \A o \in Nat : own2[o] = IF o < lf THEN own[o] ELSE OfTrailer
    OBVIOUS
  <2>3. 0 \in Nat /\ 0 < lf /\ lf \in Nat /\ ~(lf < lf)
    BY <1>1, <1>7
  <2> HIDE DEF own2
  <2>4. \A o \in 0..(lf - 1) : o \in Nat /\ o < lf
    BY <1>1
  <2> QED
    BY <2>1, <2>2, <2>3, <2>4
<1> HIDE DEF own2
<1>14. OfTrailer # OfHeader /\ \A x : /\ OfBlock(x) # OfHeader /\ OfBlock(x) # OfTrailer
                                      /\ OfPart(x) # OfHeader /\ OfPart(x) # OfTrailer
  BY DEF OfPart, OfBlock, OfHeader, OfTrailer
<1>15. Image(file, own2, lf + 1, E, B, 0)
  <2>1. SameOwners(own, own2, lf)
    BY <1>13 DEF SameOwners
  <2>2. lf + 1 \in Nat /\ lf <= lf + 1 /\ Len(file) <= lf /\ lf \in Nat /\ Len(file) \in Nat
    BY <1>1, <1>7
  <2> QED
    BY <1>2, <1>5, <2>1, <2>2, ImageOwned
<1>16. CellsDiffer(file, f1, own2, OfTrailer)
  <2>1. Len(file) <= Len(f1)
    BY <1>1, <1>7, <1>11
  <2>2. \A o \in 0..(Len(file) - 1) : At(f1, o) = At(file, o)
    BY <1>7, <1>11
  <2> QED
    BY <2>1, <2>2, Zenon DEF CellsDiffer
<1>17. CellsDiffer(f1, g, own2, OfHeader)
  <2>1. Len(f1) <= Len(g)
    BY <1>1, <1>11, <1>12
  <2>2. ASSUME NEW o \in 0..(Len(f1) - 1)
        PROVE  o = 0 \/ o \in 1..lf
    BY <1>1, <1>11
  <2>3. \A o \in 0..(Len(f1) - 1) : own2[o] # OfHeader => At(g, o) = At(f1, o)
    BY <1>12, <1>13, <2>2, Zenon
  <2>4. ASSUME NEW o \in 0..(Len(g) - 1)
        PROVE  (o < Len(f1) /\ At(g, o) = At(f1, o)) \/ At(g, o).t # "trl"
    <3>1. o = 0 \/ (o \in 1..lf /\ o < Len(f1))
      BY <1>1, <1>11, <1>12
    <3>2. CASE o = 0
      <4>1. At(g, o).t = "hdr"
        BY <1>4, <1>12, <3>2, Zenon
      <4> QED
        BY <4>1
    <3>3. CASE o \in 1..lf /\ o < Len(f1)
      BY <1>12, <3>3, Zenon
    <3> QED
      BY <3>1, <3>2, <3>3
  <2> QED
    BY <2>1, <2>3, <2>4, Zenon DEF CellsDiffer
<1>23. DataStays(file, f1, B, Nil) /\ DataStays(file, g, B, Nil)
  <2>1. \A v : OfPart(v) # OfTrailer /\ OfPart(v) # OfHeader
    BY <1>14
  <2>2. Image(f1, own2, lf + 1, E, B, 0)
    <3>1. \A i \in 1..Len(B) : OfBlock(B[i].offset) # OfTrailer
      BY <1>14
    <3>2. \A i \in 1..Len(B) : i # 0 => \A s \in 1..Len(B[i].entries) :
              OfPart(B[i].entries[s].uid) # OfTrailer
      BY <1>14
    <3> QED
      BY <1>7, <1>8, <1>15, <1>16, <3>1, <3>2, ImageKept
  <2>3. DataStays(file, f1, B, Nil)
    BY <1>7, <1>8, <1>15, <1>16, <2>1, ImageStays
  <2>4. DataStays(f1, g, B, Nil)
    BY <1>8, <1>9, <1>17, <2>1, <2>2, ImageStays
  <2> QED
    BY <2>3, <2>4, StaysOn
<1>24. TableIn(f1, B)
  <2>1. Image(f1, own2, lf + 1, E, B, 0)
    <3>1. \A i \in 1..Len(B) : OfBlock(B[i].offset) # OfTrailer
      BY <1>14
    <3>2. \A i \in 1..Len(B) : i # 0 => \A s \in 1..Len(B[i].entries) :
              OfPart(B[i].entries[s].uid) # OfTrailer
      BY <1>14
    <3> QED
      BY <1>7, <1>8, <1>15, <1>16, <3>1, <3>2, ImageKept
  <2>2. HeadIs(f1, own2, h)
    <3>1. Len(f1) > 0 /\ lf \in 1..(Len(f1) - 1) /\ (lf + 1)..(Len(f1) - 1) = {}
      BY <1>1, <1>7, <1>11
    <3>2. At(f1, lf) = TrailerCell(h)
      BY <1>11 DEF tc
    <3>3. LastTrailer(f1, own2, lf, h)
      BY <1>3, <1>13, <3>1, <3>2 DEF LastTrailer
    <3>4. At(f1, 0) = At(file, 0)
      <4>1. 0 \in 0..(lf - 1)
        BY <1>1, <1>7
      <4> QED
        BY <1>11, <4>1
    <3>5. At(f1, 0).t = "hdr" /\ (At(f1, 0).pto = h \/ At(f1, 0).pto = Sentinel)
      <4>1. HeadIs(file, own, h)
        BY <1>1
      <4>2. At(file, 0).t = "hdr" /\ (At(file, 0).pto = h \/ At(file, 0).pto = Sentinel)
        BY <4>1, Zenon DEF HeadIs
      <4> QED
        BY <3>4, <4>2, Zenon
    <3> QED
      BY <1>13, <3>1, <3>3, <3>5, Zenon DEF HeadIs
  <2> QED
    BY <1>8, <2>1, <2>2, Zenon DEF TableIn, h
<1>18. Image(g, own2, lf + 1, E, B, 0)
  <2>1. \A i \in 1..Len(B) : OfBlock(B[i].offset) # OfTrailer /\ OfBlock(B[i].offset) # OfHeader
    BY <1>14
  <2>2. \A i \in 1..Len(B) : i # 0 => \A s \in 1..Len(B[i].entries) :
            OfPart(B[i].entries[s].uid) # OfTrailer
    BY <1>14
  <2>3. \A i \in 1..Len(B) : i # 0 => \A s \in 1..Len(B[i].entries) :
            OfPart(B[i].entries[s].uid) # OfHeader
    BY <1>14
  <2>4. Image(f1, own2, lf + 1, E, B, 0)
    BY <1>7, <1>8, <1>15, <1>16, <2>1, <2>2, ImageKept
  <2> QED
    BY <1>8, <1>9, <1>17, <2>1, <2>3, <2>4, ImageKept
<1>19. HeadIs(g, own2, h)
  <2>1. Len(g) > 0 /\ lf \in 1..(Len(g) - 1) /\ (lf + 1)..(Len(g) - 1) = {}
    BY <1>1, <1>7, <1>12
  <2>2. At(g, lf) = TrailerCell(h)
    <3>1. lf \in 1..lf
      BY <1>1, <1>7
    <3> QED
      BY <1>11, <1>12, <3>1 DEF tc
  <2>3. LastTrailer(g, own2, lf, h)
    BY <1>3, <1>13, <2>1, <2>2 DEF LastTrailer
  <2>4. At(g, 0).t = "hdr" /\ At(g, 0).pto = Sentinel
    BY <1>4, <1>12
  <2> QED
    BY <1>13, <2>1, <2>3, <2>4 DEF HeadIs
<1>20. f1 = WithTrailer(file, h) /\ g = Republished(file, h)
  BY Zenon DEF f1, g, tc, hc, lf, WithTrailer, Republished
<1>21. TrailerLaid(file, B, ws)
  <2>1. Len(g) = Len(file) + 1
    BY <1>7, <1>12
  <2> QED
    BY <1>10, <1>20, <1>23, <1>24, <2>1, Zenon DEF TrailerLaid, h
<1>22. HeldUpTo(g, B, lf + 1)
  BY <1>7, <1>9, <1>18, <1>19, Zenon DEF HeldUpTo, h
<1> QED
  BY <1>6, <1>20, <1>21, <1>22, Zenon DEF h, lf

LEMMA Finalizes ==
    ASSUME NEW C, NEW own, NEW B, NEW cap, Holds(C, own, B, cap), open = TRUE,
           Materialised, Finalize
    PROVE  CInv' /\ TableIn(file', B) /\ DataStays(file, file', B, Nil)
<1> DEFINE lf == Len(file)  h == B[1].offset  g == Republished(file, h)
<1>1. lf \in Nat /\ table_head = h /\ table_hash_algo \in {"None", "Sha256"}
      /\ default_capacity \in Nat /\ blocks = Infos(B, cap)
      /\ \A j \in 1..Len(B) : cap[j] \in Nat
  BY HandleFacts
<1>2. /\ TrailerLaid(file, B, FinalizePlan.writes) /\ HeldUpTo(g, B, lf + 1)
      /\ FinalizePlan.eof = lf + 1
  BY LaysTrailer
<1>3. Apply(file, FinalizePlan.writes) = g /\ Len(g) = lf + 1 /\ DataStays(file, g, B, Nil)
  BY <1>2, Zenon DEF TrailerLaid
<1>4. PICK G, ow : /\ Zero \in G /\ g \in Seq(G) /\ Image(g, ow, lf + 1, G, B, 0)
                   /\ HeadIs(g, ow, h)
  BY <1>2, Zenon DEF HeldUpTo
<1>5. /\ file' = g /\ data_eof' = lf + 1 /\ finalized' = TRUE /\ open' = TRUE
      /\ UNCHANGED <<table_head, blocks, default_capacity, table_hash_algo>>
  BY <1>2, <1>3 DEF Finalize
<1> HIDE DEF g, lf
<1>6. file' \in Seq(G) /\ Image(file', ow, lf + 1, G, B, 0) /\ HeadIs(file', ow, B[1].offset)
      /\ lf + 1 \in Nat /\ Len(file') <= lf + 1
  BY <1>1, <1>3, <1>4, <1>5
<1>7. table_head' = B[1].offset /\ table_hash_algo' \in {"None", "Sha256"}
      /\ default_capacity' \in Nat /\ blocks' = Infos(B, cap)
  BY <1>1, <1>5
<1> QED
  BY <1>1, <1>3, <1>4, <1>5, <1>6, <1>7, Published

\* What is left to know when the handle is dropped.
LEMMA Forgotten ==
    ASSUME NEW C, NEW own, NEW B, Zero \in C, file' \in Seq(C),
           Image(file', own, Len(file'), C, B, 0), HeadIs(file', own, B[1].offset), Forget
    PROVE  CInv'
<1>1. open' = FALSE /\ finalized' = FALSE
  BY DEF Forget
<1>2. Lim' = Len(file')
  BY <1>1 DEF Lim
<1>3. Holds(C, own, B, <<>>)'
  BY <1>1, <1>2 DEF Holds
<1> QED
  BY <1>3, Zenon DEF CInv

LEMMA Closes ==
    ASSUME NEW C, NEW own, NEW B, NEW cap, Holds(C, own, B, cap), Materialised, Close
    PROVE  CInv'
<1>1. open /\ Forget /\ file' = file
  BY DEF Close
<1>2. open = TRUE
  <2>1. open \in BOOLEAN => open = TRUE
    BY <1>1
  <2> QED
    BY <1>1, <2>1
<1>3. /\ Image(file, own, Len(file), C, B, 0) /\ file \in Seq(C) /\ Zero \in C
      /\ HeadIs(file, own, B[1].offset)
  BY <1>2, AtEnd, HandleFacts
<1> QED
  BY <1>1, <1>3, Forgotten

-----------------------------------------------------------------------------
(* Container::open.                                                        *)

\* The capacities open assumes: no block has room.
Full(B) == [i \in 1..Len(B) |-> Len(B[i].entries)]

\* open reads the table that the file holds.
LEMMA TableOnDisk ==
    ASSUME NEW f, NEW B, TableIn(f, B), NEW h, h = B[1].offset
    PROVE  BlocksOnDisk(f, h) = Infos(B, Full(B))
<1>1. /\ Len(B) \in Nat /\ Chain(f, h) = Offsets(B)
  BY TableReads
<1>2. PICK C, own, lim : f \in Seq(C) /\ Image(f, own, lim, C, B, 0)
  BY DEF TableIn
<1>3. \A i \in 1..Len(B) : BlockAt(f, B[i].offset) = At(f, B[i].offset)
  BY <1>2, TableRead
<1>4. /\ DOMAIN Offsets(B) = 1..Len(B) /\ \A i \in 1..Len(B) : Offsets(B)[i] = B[i].offset
  BY <1>1 DEF Offsets
<1> DEFINE info(i) == BlockInfo(Offsets(B)[i], BlockAt(f, Offsets(B)[i]).count,
                                BlockAt(f, Offsets(B)[i]).count,
                                BlockAt(f, Offsets(B)[i]).algo,
                                BlockAt(f, Offsets(B)[i]).next)
           x(i) == BlockInfo(B[i].offset, Full(B)[i], Len(B[i].entries), B[i].algo, Successor(B, i))
<1>5. BlocksOnDisk(f, h) = [i \in 1..Len(B) |-> info(i)]
  BY <1>1, <1>4, Zenon DEF BlocksOnDisk
<1>6. ASSUME NEW i \in 1..Len(B)
      PROVE  info(i) = x(i)
  <2> DEFINE off == B[i].offset  n == Len(B[i].entries)  algo == B[i].algo  next == Successor(B, i)
             hs == TableHash(algo, next, B[i].entries)  b == BlockAt(f, off)
  <2>1. b = BlockCell(n, next, algo, hs)
    <3>1. BlockHeld(f, own, B[i].offset, Successor(B, i), B[i].algo, B[i].entries)
      BY <1>2, BlockOf
    <3> QED
      BY <1>3, <3>1, Zenon DEF BlockHeld
  <2>2. Full(B)[i] = n
    BY DEF Full
  <2>3. Offsets(B)[i] = off
    BY <1>4
  <2> HIDE DEF off, n, algo, next, hs, b
  <2>4. b.count = n /\ b.next = next /\ b.algo = algo
    BY <2>1 DEF BlockCell
  <2>5. info(i) = BlockInfo(off, n, n, algo, next)
    BY <2>3, <2>4, Zenon DEF b
  <2> QED
    BY <2>2, <2>5, Zenon DEF off, n, algo, next
<1> HIDE DEF info
<1>7. [i \in 1..Len(B) |-> info(i)] = [i \in 1..Len(B) |-> x(i)]
  BY <1>6, Zenon
<1> QED
  BY <1>5, <1>7, Zenon DEF Infos

LEMMA OnDisk ==
    ASSUME NEW C, NEW own, NEW B, NEW cap, Holds(C, own, B, cap), NEW h, h = B[1].offset
    PROVE  BlocksOnDisk(file, h) = Infos(B, Full(B))
BY HandleTable, TableOnDisk

LEMMA Opens ==
    ASSUME NEW C, NEW own, NEW B, NEW cap, Holds(C, own, B, cap), Open
    PROVE  CInv'
<1> DEFINE h == B[1].offset  cap2 == Full(B)  lf == Len(file)
<1>1. /\ B \in Tables(C) /\ Len(B) \in Nat /\ Len(B) >= 1
      /\ file \in Seq(C) /\ lf \in Nat /\ ResolveHead(file) = h
  BY HandleReads
<1>2. ~open /\ ~finalized /\ Zero \in C /\ Image(file, own, lf, C, B, 0) /\ HeadIs(file, own, h)
  BY DEF Holds, Lim, Open
<1>3. 1 \in 1..Len(B)
  BY <1>1
<1>4. BlocksOnDisk(file, h) = Infos(B, cap2)
  BY OnDisk
<1>5. /\ table_head' = h /\ blocks' = Infos(B, cap2)
      /\ table_hash_algo' = IF Infos(B, cap2) = <<>> THEN "Sha256" ELSE Infos(B, cap2)[1].algo
      /\ open' = TRUE /\ default_capacity' = OpenCapacity /\ data_eof' = lf
      /\ file' = file /\ finalized' = finalized
  BY <1>1, <1>4 DEF Open
<1>6. \A i \in 1..Len(B) : cap2[i] \in Nat /\ cap2[i] = Len(B[i].entries)
  BY <1>2, BlockOf DEF Full
<1>7. RoomHeld(own, B, cap2, lf)
  <2>1. ASSUME NEW i \in 1..Len(B)
        PROVE  /\ Owned(own, OfBlock(B[i].offset), B[i].offset, cap2[i] + 1)
               /\ B[i].offset + cap2[i] + 1 <= lf
    <3>1. /\ BlockHeld(file, own, B[i].offset, Successor(B, i), B[i].algo, B[i].entries)
          /\ B[i].offset \in Nat
      BY <1>2, BlockOf
    <3> DEFINE off == B[i].offset  n == cap2[i]
    <3>2. off \in Nat /\ n \in Nat /\ off + n < lf
      BY <1>6, <3>1 DEF BlockHeld
    <3>3. Owned(own, OfBlock(off), off, n + 1)
      BY <1>6, <3>1 DEF BlockHeld
    <3> HIDE DEF off, n, lf, cap2
    <3>4. off + n + 1 <= lf
      BY <1>1, <3>2
    <3> QED
      BY <3>3, <3>4 DEF off, n
  <2> QED
    BY <2>1, Zenon DEF RoomHeld
<1>8. table_hash_algo' \in {"None", "Sha256"}
  <2> DEFINE I == Infos(B, cap2)
  <2>1. I[1] = BlockInfo(B[1].offset, cap2[1], Len(B[1].entries), B[1].algo, Successor(B, 1))
    BY <1>3, Zenon DEF Infos
  <2>2. I[1].algo = B[1].algo
    BY <2>1 DEF BlockInfo
  <2>3. B[1].algo \in {"None", "Sha256"}
    BY <1>2, <1>3, BlockOf
  <2> HIDE DEF I
  <2>4. table_hash_algo' = "Sha256" \/ table_hash_algo' = I[1].algo
    BY <1>5 DEF I
  <2> QED
    BY <2>2, <2>3, <2>4
<1>9. OpenCapacity \in Nat /\ lf <= lf
  BY <1>1, ContainerAssumption
<1> HIDE DEF cap2
<1>10. HandleIs(own, B, cap2)'
  <2>1. data_eof' \in Nat /\ Len(file') <= data_eof' /\ RoomHeld(own, B, cap2, data_eof')
    BY <1>1, <1>5, <1>7, <1>9
  <2>2. default_capacity' \in Nat /\ \A i \in 1..Len(B) : cap2[i] \in Nat
    BY <1>5, <1>6, <1>9
  <2> QED
    BY <1>5, <1>8, <2>1, <2>2 DEF HandleIs
<1>11. Lim' = lf
  BY <1>5 DEF Lim
<1>12. Image(file', own, Lim', C, B, 0) /\ HeadIs(file', own, B[1].offset) /\ file' \in Seq(C)
  BY <1>1, <1>2, <1>5, <1>11
<1>13. Holds(C, own, B, cap2)'
  BY <1>2, <1>5, <1>10, <1>12 DEF Holds
<1> QED
  BY <1>13, Zenon DEF CInv

-----------------------------------------------------------------------------
(* compact_into.                                                           *)

\* n entries fill nb blocks, all but the last to MaxEntries.
Fills(n, nb) ==
    /\ nb \in Nat \ {0}
    /\ (nb - 1) * MaxEntries <= n /\ n <= nb * MaxEntries

LEMMA DivIs ==
    ASSUME NEW x \in Nat, NEW m \in Nat \ {0}
    PROVE  /\ x \div m \in Nat /\ (x \div m) * m <= x /\ x < (x \div m) * m + m
OBVIOUS

LEMMA BlocksForFills ==
    ASSUME NEW n \in Nat
    PROVE  Fills(n, BlocksFor(n))
<1> DEFINE M == MaxEntries  q == (n + M - 1) \div M  nb == BlocksFor(n)
<1>1. M \in Nat \ {0}
  BY ContainerAssumption
<1>2. CASE n = 0
  <2>1. nb = 1
    BY <1>2 DEF BlocksFor
  <2> HIDE DEF nb
  <2>2. /\ (nb - 1) * M = 0 /\ nb * M = M
    BY <1>1, <2>1
  <2> QED
    BY <1>1, <1>2, <2>1, <2>2 DEF Fills, nb
<1>3. CASE n > 0
  <2>1. nb = q
    BY <1>3 DEF BlocksFor
  <2>2. n + M - 1 \in Nat
    BY <1>1, <1>3
  <2> HIDE DEF nb, M
  <2>3. q \in Nat /\ q * M <= n + M - 1 /\ n + M - 1 < q * M + M
    BY <1>1, <2>2, DivIs
  <2> HIDE DEF q
  <2>4. (q - 1) * M = q * M - M /\ q * M \in Nat
    BY <1>1, <2>3
  <2>5. (q - 1) * M <= n /\ n <= q * M
    BY <1>1, <2>3, <2>4
  <2>6. q # 0
    <3>1. ASSUME q = 0
          PROVE  FALSE
      <4>1. q * M = 0
        BY <1>1, <3>1
      <4> QED
        BY <1>3, <2>5, <4>1
    <3> QED
      BY <3>1
  <2> QED
    BY <2>1, <2>3, <2>5, <2>6 DEF Fills, nb, M
<1>4. n = 0 \/ n > 0
  OBVIOUS
<1> QED
  BY <1>2, <1>3, <1>4

\* The owners that regions one after the other give the cells: the header, the
\* blocks at off(b) with len(b) entries, the partitions at start(i) of max(i) bytes.
RegionsInRow(start, len, n) ==
    \A i, j \in 1..n : i < j => start[i] + len[i] <= start[j]

LEMMA OwnersInRow ==
    ASSUME NEW nb \in Nat, NEW n \in Nat, NEW off, NEW len, NEW start, NEW max, NEW uid,
           NEW base \in Nat \ {0},
           \A b \in 1..nb : off[b] \in Nat \ {0} /\ len[b] \in Nat /\ off[b] + len[b] <= base,
           \A i \in 1..n : start[i] \in Nat /\ max[i] \in Nat /\ base <= start[i],
           RegionsInRow(off, len, nb), RegionsInRow(start, max, n)
    PROVE  \E own : /\ own[0] = OfHeader
                    /\ \A b \in 1..nb : Owned(own, OfBlock(off[b]), off[b], len[b])
                    /\ \A i \in 1..n : Owned(own, OfPart(uid[i]), start[i], max[i])
<1> DEFINE Block(o, b) == off[b] <= o /\ o < off[b] + len[b]
           Part(o, i) == start[i] <= o /\ o < start[i] + max[i]
           bl(o) == CHOOSE b \in 1..nb : Block(o, b)
           pt(o) == CHOOSE i \in 1..n : Part(o, i)
           own == [o \in Nat |-> IF o = 0 THEN OfHeader
                                 ELSE IF o < base THEN OfBlock(off[bl(o)])
                                 ELSE OfPart(uid[pt(o)])]
<1>1. own[0] = OfHeader
  OBVIOUS
<1>2. ASSUME NEW b \in 1..nb, NEW o \in off[b]..(off[b] + len[b] - 1)
      PROVE  own[o] = OfBlock(off[b])
  <2>1. o \in Nat /\ o # 0 /\ o < base /\ Block(o, b)
    OBVIOUS
  <2>2. bl(o) \in 1..nb /\ Block(o, bl(o))
    <3> HIDE DEF Block
    <3> QED
      BY <2>1
  <2>3. bl(o) = b
    <3> DEFINE c == bl(o)
    <3>1. c \in 1..nb /\ Block(o, c)
      BY <2>2
    <3> HIDE DEF c
    <3>2. ~(b < c)
      BY <2>1, <3>1 DEF RegionsInRow
    <3>3. ~(c < b)
      BY <2>1, <3>1 DEF RegionsInRow
    <3> QED
      BY <3>1, <3>2, <3>3 DEF c
  <2>4. own[o] = OfBlock(off[bl(o)])
    <3> HIDE DEF bl
    <3> QED
      BY <2>1
  <2> QED
    BY <2>3, <2>4, Zenon
<1>3. ASSUME NEW i \in 1..n, NEW o \in start[i]..(start[i] + max[i] - 1)
      PROVE  own[o] = OfPart(uid[i])
  <2>1. o \in Nat /\ o # 0 /\ ~(o < base) /\ Part(o, i)
    OBVIOUS
  <2>2. pt(o) \in 1..n /\ Part(o, pt(o))
    <3> HIDE DEF Part
    <3> QED
      BY <2>1
  <2>3. pt(o) = i
    <3> DEFINE c == pt(o)
    <3>1. c \in 1..n /\ Part(o, c)
      BY <2>2
    <3> HIDE DEF c
    <3>2. ~(i < c)
      BY <2>1, <3>1 DEF RegionsInRow
    <3>3. ~(c < i)
      BY <2>1, <3>1 DEF RegionsInRow
    <3> QED
      BY <3>1, <3>2, <3>3 DEF c
  <2>4. own[o] = OfPart(uid[pt(o)])
    <3> HIDE DEF pt, bl
    <3> QED
      BY <2>1
  <2> QED
    BY <2>3, <2>4, Zenon
<1> HIDE DEF own
<1>4. \A b \in 1..nb : Owned(own, OfBlock(off[b]), off[b], len[b])
  BY <1>2, Zenon DEF Owned
<1>5. \A i \in 1..n : Owned(own, OfPart(uid[i]), start[i], max[i])
  BY <1>3, Zenon DEF Owned
<1> QED
  BY <1>1, <1>4, <1>5, Zenon

LEMMA Strides ==
    ASSUME NEW b \in Nat, NEW c \in Nat, b < c, NEW w \in Nat
    PROVE  (b - 1) * w \in Int /\ (c - 1) * w \in Int /\ (b - 1) * w + w <= (c - 1) * w
<1> DEFINE d == c - 1 - b
<1>1. d \in Nat /\ c - 1 = (b - 1) + 1 + d
  OBVIOUS
<1> HIDE DEF d
<1>2. d * w \in Nat
  BY <1>1
<1>3. ((b - 1) + 1 + d) * w = (b - 1) * w + w + d * w
  BY <1>1
<1>4. (c - 1) * w = (b - 1) * w + w + d * w
  BY <1>1, <1>3
<1>5. (b - 1) * w \in Int
  OBVIOUS
<1> QED
  BY <1>2, <1>4, <1>5

\* The entries P of a compacted file that its b-th block holds.
PackedSlice(P, b) ==
    SubSeq(P, (b - 1) * MaxEntries + 1, Min({Len(P), b * MaxEntries}))

\* t is P from place x on.
SliceAt(t, P, x) == \A s \in 1..Len(t) : x + s \in 1..Len(P) /\ t[s] = P[x + s]

LEMMA PackedSliceIs ==
    ASSUME NEW C, NEW P \in Seq(C), NEW nb, Fills(Len(P), nb), NEW b \in 1..nb, NEW t,
           t = PackedSlice(P, b)
    PROVE  /\ t \in Seq(C) /\ Len(t) \in Nat /\ (b - 1) * MaxEntries \in Nat
           /\ b < nb => Len(t) = MaxEntries
           /\ b = nb => (b - 1) * MaxEntries + Len(t) = Len(P)
           /\ Len(t) <= MaxEntries
           /\ SliceAt(t, P, (b - 1) * MaxEntries)
<1> DEFINE M == MaxEntries  n == Len(P)  x == (b - 1) * M  z == b * M  y == Min({n, z})
           last == (nb - 1) * M
<1>1. /\ M \in Nat \ {0} /\ nb \in Nat \ {0} /\ last <= n /\ n <= nb * M /\ b \in Nat /\ b # 0
      /\ n \in Nat
  BY ContainerAssumption DEF Fills
<1> HIDE DEF M, n
<1>2. x \in Nat /\ z = x + M /\ last \in Int
  BY <1>1
<1>3. b < nb => z <= last
  <2>1. b < nb => (b - 1) * M + M <= (nb - 1) * M
    BY <1>1, Strides
  <2> QED
    BY <1>2, <2>1
<1>4. b = nb => n <= z /\ x = last
  BY <1>1
<1> HIDE DEF x, z, last
<1>5. y = IF n <= z THEN n ELSE z
  BY <1>1, <1>2, MinOfTwo
<1>6. b < nb \/ b = nb
  BY <1>1
<1>7. y \in 0..n /\ x <= y /\ y <= x + M /\ (b < nb => y = x + M) /\ (b = nb => y = n)
  BY <1>1, <1>2, <1>3, <1>4, <1>5, <1>6
<1> HIDE DEF y
<1>8. t = SubSeq(P, x + 1, y)
  BY DEF PackedSlice, n, M, x, y, z
<1>9. /\ t \in Seq(C) /\ Len(t) = (IF x + 1 <= y THEN y - (x + 1) + 1 ELSE 0)
      /\ \A s \in 1..Len(t) : t[s] = P[(x + 1) + s - 1]
  <2>1. x + 1 \in Nat \ {0} /\ y \in 0..Len(P)
    BY <1>2, <1>7 DEF n
  <2> QED
    BY <1>8, <2>1, SliceType
<1>10. Len(t) = y - x
  BY <1>1, <1>2, <1>7, <1>9
<1>11. ASSUME NEW s \in 1..Len(t)
       PROVE  x + s \in 1..n /\ t[s] = P[x + s]
  <2>1. (x + 1) + s - 1 = x + s /\ x + s \in 1..n
    BY <1>1, <1>2, <1>7, <1>10
  <2> QED
    BY <1>9, <2>1
<1>12. Len(t) \in Nat /\ (b < nb => Len(t) = M) /\ (b = nb => x + Len(t) = n) /\ Len(t) <= M
  BY <1>1, <1>2, <1>7, <1>10
<1>13. SliceAt(t, P, x)
  BY <1>11, Zenon DEF SliceAt, n
<1> QED
  BY <1>2, <1>9, <1>12, <1>13 DEF x, n, M

\* Every element of P is in one of the slices.
LEMMA PackedCovers ==
    ASSUME NEW C, NEW P \in Seq(C), NEW nb, Fills(Len(P), nb), NEW i \in 1..Len(P)
    PROVE  \E b \in 1..nb : \E s \in 1..Len(PackedSlice(P, b)) : PackedSlice(P, b)[s] = P[i]
<1> DEFINE M == MaxEntries  n == Len(P)  j == (i - 1) \div M  b == j + 1
<1>1. M \in Nat \ {0} /\ n \in Nat /\ i \in Nat /\ i - 1 \in Nat /\ i <= n
  BY ContainerAssumption
<1>2. nb \in Nat \ {0} /\ (nb - 1) * M <= n /\ n <= nb * M
  BY DEF Fills
<1>3. j \in Nat /\ j * M <= i - 1 /\ i - 1 < j * M + M
  <2> DEFINE x == i - 1
  <2>1. x \in Nat
    BY <1>1
  <2> HIDE DEF M, x
  <2>2. x \div M \in Nat /\ (x \div M) * M <= x /\ x < (x \div M) * M + M
    BY ONLY <1>1, <2>1, DivIs
  <2> QED
    BY <2>2 DEF x
<1> HIDE DEF M, n, j
<1>4. j < nb
  <2>1. CASE j >= nb
    <3> DEFINE y == nb * M  z == j * M
    <3>1. y <= z /\ y \in Int /\ z \in Int
      <4>1. CASE nb = j
        BY <1>1, <1>3, <4>1
      <4>2. CASE nb < j
        <5> DEFINE v == nb + 1  w == j + 1
        <5>1. v < w /\ v \in Nat /\ w \in Nat /\ v - 1 = nb /\ w - 1 = j
          BY <1>2, <1>3, <4>2
        <5> HIDE DEF v, w
        <5>2. (v - 1) * M \in Int /\ (w - 1) * M \in Int /\ (v - 1) * M + M <= (w - 1) * M
          BY ONLY <1>1, <5>1, Strides
        <5>4. y + M <= z /\ y \in Int /\ z \in Int
          BY <5>1, <5>2, Zenon
        <5> HIDE DEF y, z
        <5> QED
          BY <1>1, <5>4
      <4> QED
        BY <1>2, <1>3, <2>1, <4>1, <4>2
    <3>2. n <= y /\ z <= i - 1
      BY <1>2, <1>3
    <3> HIDE DEF y, z
    <3> QED
      BY <1>1, <3>1, <3>2
  <2> QED
    BY <1>2, <1>3, <2>1
<1>5. b \in 1..nb /\ b - 1 = j
  BY <1>2, <1>3, <1>4
<1> HIDE DEF b
<1> DEFINE t == PackedSlice(P, b)  l == Len(t)
<1>6. /\ l \in Nat /\ (b - 1) * M \in Nat /\ (b < nb => l = M) /\ (b = nb => (b - 1) * M + l = n)
      /\ SliceAt(t, P, (b - 1) * M)
  BY <1>5, PackedSliceIs DEF M, n
<1> HIDE DEF t, l
<1> DEFINE x == j * M  s == i - x
<1>7. x \in Nat /\ (b < nb => l = M) /\ (b = nb => x + l = n) /\ SliceAt(t, P, x) /\ x <= i - 1
      /\ i - 1 < x + M
  BY <1>3, <1>5, <1>6, Zenon
<1> HIDE DEF x
<1>8. s \in 1..l /\ x + s = i
  <2>1. b < nb \/ b = nb
    BY <1>2, <1>5
  <2> QED
    BY ONLY <1>1, <1>6, <1>7, <2>1
<1> HIDE DEF s
<1>9. t[s] = P[i]
  BY <1>7, <1>8 DEF SliceAt, l
<1> QED
  BY <1>5, <1>8, <1>9, Zenon DEF t, l

\* The table of a compacted file.
PackedAt(b) == HeaderSize + (b - 1) * (TableHeaderSize + MaxEntries * EntrySize)
PackedNext(nb, b) == IF b < nb THEN PackedAt(b + 1) ELSE 0
PackedTable(P, nb, algo) ==
    [b \in 1..nb |-> ExtendedRow(PackedAt(b), algo, PackedSlice(P, b))]

LEMMA PackedAtIs ==
    ASSUME NEW b \in Nat \ {0}
    PROVE  /\ PackedAt(b) = 1 + (b - 1) * (1 + MaxEntries) /\ PackedAt(b) \in Nat \ {0}
           /\ (b - 1) * (1 + MaxEntries) \in Nat /\ 1 + MaxEntries \in Nat
<1> DEFINE M == MaxEntries  w == 1 + M  c == b - 1
<1>1. M \in Nat
  BY ContainerAssumption
<1>2. M * 1 = M
  BY <1>1
<1>3. PackedAt(b) = 1 + c * w
  BY <1>2, Zenon DEF PackedAt, HeaderSize, TableHeaderSize, EntrySize
<1>4. w \in Nat /\ c \in Nat
  BY <1>1
<1> HIDE DEF w, c
<1>5. c * w \in Nat
  BY <1>4
<1> QED
  BY <1>3, <1>4, <1>5 DEF w, c

LEMMA PackedTableIs ==
    ASSUME NEW C, NEW P \in Seq(C), NEW nb, Fills(Len(P), nb), NEW algo \in {"None", "Sha256"},
           NEW T, T = PackedTable(P, nb, algo)
    PROVE  /\ T \in Tables(C) /\ Len(T) = nb
           /\ \A b \in 1..nb : /\ T[b].offset = PackedAt(b) /\ T[b].algo = algo
                               /\ T[b].entries = PackedSlice(P, b) /\ Successor(T, b) = PackedNext(nb, b)
<1> DEFINE R == [offset : Nat \ {0}, algo : {"None", "Sha256"}, entries : Seq(C)]
<1>1. nb \in Nat \ {0}
  BY DEF Fills
<1>2. ASSUME NEW b \in 1..nb
      PROVE  /\ T[b] = ExtendedRow(PackedAt(b), algo, PackedSlice(P, b)) /\ T[b] \in R
             /\ T[b].offset = PackedAt(b) /\ T[b].algo = algo /\ T[b].entries = PackedSlice(P, b)
  <2> DEFINE o == PackedAt(b)  s == PackedSlice(P, b)  r == T[b]
  <2>1. b \in Nat \ {0}
    BY <1>1
  <2>2. o \in Nat \ {0}
    BY <2>1, PackedAtIs
  <2>3. s \in Seq(C)
    BY PackedSliceIs
  <2>4. r = ExtendedRow(o, algo, s)
    BY Zenon DEF PackedTable
  <2> HIDE DEF o, s, r
  <2>5. r \in R /\ r.offset = o /\ r.algo = algo /\ r.entries = s
    BY <2>2, <2>3, <2>4 DEF ExtendedRow
  <2> QED
    BY <2>4, <2>5 DEF o, s, r
<1>3. T = [b \in 1..nb |-> ExtendedRow(PackedAt(b), algo, PackedSlice(P, b))]
  BY DEF PackedTable
<1> HIDE DEF R
<1>4. T \in Seq(R) /\ Len(T) = nb
  <2>1. DOMAIN T = 1..nb /\ T = [b \in 1..nb |-> T[b]]
    BY <1>3, Zenon
  <2>2. \A b \in 1..nb : T[b] \in R
    BY <1>2, Zenon
  <2>3. T \in [1..nb -> R]
    BY ONLY <2>1, <2>2
  <2> QED
    BY ONLY <1>1, <2>3
<1>5. ASSUME NEW b \in 1..nb
      PROVE  Successor(T, b) = PackedNext(nb, b)
  <2>1. CASE b < nb
    <3>1. b + 1 \in 1..nb
      BY <1>1, <2>1
    <3>2. T[b + 1].offset = PackedAt(b + 1)
      BY <1>2, <3>1
    <3> QED
      BY <1>4, <2>1, <3>2 DEF Successor, PackedNext
  <2>2. CASE ~(b < nb)
    BY <1>4, <2>2 DEF Successor, PackedNext
  <2> QED
    BY <2>1, <2>2
<1> QED
  BY <1>2, <1>4, <1>5 DEF Tables, R

\* The blocks of a table as cells.
HeaderOf(T, b) ==
    BlockCell(Len(T[b].entries), Successor(T, b), T[b].algo,
              TableHash(T[b].algo, Successor(T, b), T[b].entries))
HeadersIn(T, E) == \A b \in 1..Len(T) : HeaderOf(T, b) \in E
CellsOf(T) == [b \in 1..Len(T) |-> <<HeaderOf(T, b)>> \o T[b].entries]
\* What they are, one by one.
CellsAre(L, T) ==
    \A b \in 1..Len(T) : /\ Len(T[b].entries) \in Nat
                          /\ Len(L[b]) = 1 + Len(T[b].entries) /\ L[b][1] = HeaderOf(T, b)
                          /\ \A s \in 1..Len(T[b].entries) : L[b][1 + s] = T[b].entries[s]

LEMMA CellsOfIs ==
    ASSUME NEW C, NEW T \in Tables(C), NEW E, C \subseteq E,
           HeadersIn(T, E), NEW L, L = CellsOf(T)
    PROVE  /\ L \in Seq(Seq(E)) /\ Len(L) = Len(T) /\ Len(T) \in Nat
           /\ CellsAre(L, T)
<1> DEFINE S == Seq(E)
<1>1. Len(T) \in Nat /\ \A b \in 1..Len(T) : T[b].entries \in Seq(C)
  BY ListsType DEF Lists
<1>2. ASSUME NEW b \in 1..Len(T)
      PROVE  /\ L[b] \in S /\ Len(T[b].entries) \in Nat
             /\ Len(L[b]) = 1 + Len(T[b].entries) /\ L[b][1] = HeaderOf(T, b)
             /\ \A s \in 1..Len(T[b].entries) : L[b][1 + s] = T[b].entries[s]
  <2> DEFINE h == HeaderOf(T, b)  es == T[b].entries  p == <<h>>  l == L[b]
  <2>1. es \in Seq(C) /\ h \in E
    BY <1>1 DEF HeadersIn
  <2>2. l = p \o es
    BY Zenon DEF CellsOf
  <2> HIDE DEF h, es, l
  <2>3. es \in Seq(E) /\ p \in Seq(E) /\ Len(p) = 1 /\ p[1] = h
    BY <2>1
  <2> HIDE DEF p
  <2>4. l \in Seq(E) /\ Concatenated(l, p, es)
    BY <2>2, <2>3, ConcatIs
  <2>5. /\ Len(l) = 1 + Len(es) /\ \A i \in 1..1 : l[i] = p[i]
        /\ \A i \in 1..Len(es) : l[1 + i] = es[i]
    BY <2>3, <2>4, Zenon DEF Concatenated
  <2>6. 1 \in 1..1 /\ Len(es) \in Nat
    BY <2>1
  <2>7. l[1] = h
    BY <2>3, <2>5, <2>6, Zenon
  <2> QED
    BY <2>4, <2>5, <2>6, <2>7 DEF h, es, l
<1>3. L = [b \in 1..Len(T) |-> L[b]] /\ DOMAIN L = 1..Len(T)
  BY Zenon DEF CellsOf
<1> HIDE DEF S
<1>4. \A b \in 1..Len(T) : L[b] \in S
  BY <1>2, Zenon
<1>5. L \in [1..Len(T) -> S]
  BY ONLY <1>3, <1>4
<1>6. L \in Seq(S) /\ Len(L) = Len(T)
  BY ONLY <1>1, <1>5
<1> QED
  BY <1>1, <1>2, <1>6, Zenon DEF S, CellsAre

\* All blocks of a compacted file but the last are full, so each is where the
\* pointers say.
LEMMA PackedCells ==
    ASSUME NEW C, NEW P \in Seq(C), NEW nb, Fills(Len(P), nb), NEW algo \in {"None", "Sha256"},
           NEW T, T = PackedTable(P, nb, algo), NEW E, C \subseteq E,
           HeadersIn(T, E), NEW L, L = CellsOf(T)
    PROVE  /\ \A b \in 1..nb : Len(Upto(L, b - 1)) = (b - 1) * (1 + MaxEntries)
           /\ Len(FlattenSeq(L)) = nb + Len(P)
<1> DEFINE M == MaxEntries  w == 1 + M  n == Len(P)
           S == {k \in Nat : k < nb => Len(Upto(L, k)) = k * w}
<1>1. M \in Nat \ {0} /\ nb \in Nat \ {0} /\ w \in Nat /\ n \in Nat
  BY ContainerAssumption DEF Fills
<1>2. T \in Tables(C) /\ Len(T) = nb /\ \A b \in 1..nb : T[b].entries = PackedSlice(P, b)
  BY PackedTableIs
<1>3. /\ L \in Seq(Seq(E)) /\ Len(L) = nb
      /\ \A b \in 1..nb : Len(L[b]) = 1 + Len(PackedSlice(P, b))
  <2>1. L \in Seq(Seq(E)) /\ Len(L) = Len(T) /\ CellsAre(L, T)
    BY <1>2, CellsOfIs
  <2> QED
    BY <1>2, <2>1 DEF CellsAre
<1>4. 0 \in S
  <2>1. Upto(L, 0) = <<>>
    BY <1>3, UptoNone
  <2>2. Len(Upto(L, 0)) = 0 /\ 0 * w = 0
    BY <1>1, <2>1
  <2> QED
    BY <2>2
<1>5. ASSUME NEW k \in 0..(nb - 1), k \in S
      PROVE  k + 1 \in S
  <2> SUFFICES ASSUME k + 1 < nb
               PROVE  Len(Upto(L, k + 1)) = (k + 1) * w
    BY <1>1
  <2>1. k + 1 \in 1..nb /\ (k + 1) - 1 = k /\ k + 1 < nb /\ k \in Nat /\ k < nb
    BY <1>1
  <2>2. Len(L[k + 1]) = 1 + Len(PackedSlice(P, k + 1))
    BY <1>3, <2>1
  <2>3. Len(PackedSlice(P, k + 1)) = M
    BY <2>1, PackedSliceIs
  <2>4. Len(Upto(L, k + 1)) = Len(Upto(L, (k + 1) - 1)) + Len(L[k + 1])
    BY <1>3, <2>1, UptoNext
  <2>5. Len(Upto(L, k)) = k * w
    BY <1>5, <2>1
  <2> HIDE DEF M, w
  <2>6. (k + 1) * w = k * w + w
    BY <1>1, <2>1
  <2>7. Len(Upto(L, k + 1)) = k * w + (1 + M)
    BY <2>1, <2>2, <2>3, <2>4, <2>5, Zenon
  <2> QED
    BY <2>6, <2>7 DEF w
<1> HIDE DEF S
<1>6. 0..nb \subseteq S
  BY <1>1, <1>4, <1>5, UpTo
<1>7. ASSUME NEW b \in 1..nb
      PROVE  Len(Upto(L, b - 1)) = (b - 1) * w
  <2>1. b - 1 \in 0..nb /\ b - 1 < nb
    BY <1>1
  <2> QED
    BY <1>6, <2>1 DEF S
<1>8. Len(FlattenSeq(L)) = nb + n
  <2> DEFINE x == (nb - 1) * M  len == Len(PackedSlice(P, nb))
  <2>1. nb \in 1..nb
    BY <1>1
  <2>2. x + len = n /\ len \in Nat /\ x \in Nat
    BY <2>1, PackedSliceIs
  <2>3. Len(L[nb]) = 1 + len
    BY <1>3, <2>1
  <2>4. Upto(L, nb) = FlattenSeq(L)
    BY <1>3, UptoAll
  <2>5. Len(Upto(L, nb)) = Len(Upto(L, nb - 1)) + Len(L[nb])
    BY <1>3, <2>1, UptoNext
  <2>6. Len(Upto(L, nb - 1)) = (nb - 1) * w
    BY <1>7, <2>1
  <2>7. (nb - 1) * w = nb - 1 + x
    BY <1>1
  <2> HIDE DEF x, len, w, n
  <2>8. Len(FlattenSeq(L)) = (nb - 1 + x) + (1 + len)
    BY <2>3, <2>4, <2>5, <2>6, <2>7, Zenon
  <2> QED
    BY <1>1, <2>2, <2>8
<1> QED
  BY <1>7, <1>8 DEF n, w, M

\* The cells of a compacted file: its header, the blocks of T, the data D.
PackedFile(T, D) == <<HeaderCell(HeaderSize)>> \o FlattenSeq(CellsOf(T)) \o FlattenSeq(D)
PackedCellsAre(G, X, Y) ==
    /\ Len(G) = 1 + Len(X) + Len(Y) /\ At(G, 0) = HeaderCell(HeaderSize)
    /\ \A o \in 1..Len(X) : At(G, o) = X[o]
    /\ \A o \in 1..Len(Y) : At(G, Len(X) + o) = Y[o]

LEMMA ThreePieces ==
    ASSUME NEW E, HeaderCell(HeaderSize) \in E, NEW X \in Seq(E), NEW Y \in Seq(E), NEW G,
           G = <<HeaderCell(HeaderSize)>> \o X \o Y
    PROVE  G \in Seq(E) /\ PackedCellsAre(G, X, Y)
<1> DEFINE hc == HeaderCell(HeaderSize)  p == <<hc>>  q == p \o X  m == Len(X)  k == Len(Y)
<1>1. p \in Seq(E) /\ Len(p) = 1 /\ p[1] = hc
  OBVIOUS
<1>2. m \in Nat /\ k \in Nat /\ G = q \o Y
  OBVIOUS
<1> HIDE DEF p
<1>3. q \in Seq(E) /\ Concatenated(q, p, X)
  BY <1>1, ConcatIs
<1> HIDE DEF q
<1>4. G \in Seq(E) /\ Concatenated(G, q, Y)
  BY <1>2, <1>3, ConcatIs
<1>5. Len(q) = 1 + m /\ q[1] = hc /\ \A o \in 1..m : q[1 + o] = X[o]
  <2>1. /\ Len(q) = 1 + m /\ \A i \in 1..1 : q[i] = p[i]
        /\ \A i \in 1..m : q[1 + i] = X[i]
    BY <1>1, <1>3, Zenon DEF Concatenated
  <2>2. 1 \in 1..1
    OBVIOUS
  <2> QED
    BY <1>1, <2>1, <2>2
<1>6. /\ Len(G) = Len(q) + k /\ \A i \in 1..Len(q) : G[i] = q[i]
      /\ \A i \in 1..k : G[Len(q) + i] = Y[i]
  BY <1>4, Zenon DEF Concatenated
<1> HIDE DEF hc, m, k
<1>7. Len(G) = 1 + m + k /\ G[0 + 1] = hc
  <2>1. 1 \in 1..Len(q) /\ 0 + 1 = 1
    BY <1>2, <1>5
  <2>2. G[1] = hc
    BY <1>5, <1>6, <2>1
  <2> QED
    BY <1>5, <1>6, <2>1, <2>2
<1>8. ASSUME NEW o \in 1..m
      PROVE  G[o + 1] = X[o]
  <2>1. o + 1 = 1 + o /\ 1 + o \in 1..Len(q)
    BY <1>2, <1>5
  <2>2. G[1 + o] = q[1 + o] /\ q[1 + o] = X[o]
    BY <1>5, <1>6, <2>1
  <2> QED
    BY <2>1, <2>2, Zenon
<1>9. ASSUME NEW o \in 1..k
      PROVE  G[m + o + 1] = Y[o]
  <2>1. m + o + 1 = Len(q) + o
    BY <1>2, <1>5
  <2>2. G[Len(q) + o] = Y[o]
    BY <1>6
  <2> QED
    BY <2>1, <2>2, Zenon
<1> QED
  BY <1>4, <1>7, <1>8, <1>9, Zenon DEF PackedCellsAre, At, hc, m, k

\* The b-th block of a compacted file.
PackedBlockIs(G, T, b) ==
    /\ At(G, PackedAt(b)) = HeaderOf(T, b)
    /\ \A s \in 1..Len(T[b].entries) : At(G, PackedAt(b) + s) = T[b].entries[s]
    /\ PackedAt(b) + Len(T[b].entries) < Len(G)

LEMMA PackedBlockAt ==
    ASSUME NEW C, NEW P \in Seq(C), NEW nb, Fills(Len(P), nb), NEW algo \in {"None", "Sha256"},
           NEW T, T = PackedTable(P, nb, algo), NEW E, C \subseteq E, HeadersIn(T, E),
           NEW X, X = FlattenSeq(CellsOf(T)), NEW Y \in Seq(E), NEW G,
           PackedCellsAre(G, X, Y), NEW b \in 1..nb
    PROVE  PackedBlockIs(G, T, b) /\ PackedAt(b) + Len(T[b].entries) <= nb + Len(P)
<1> DEFINE L == CellsOf(T)  u == Len(Upto(L, b - 1))  es == T[b].entries  m == Len(es)
           off == PackedAt(b)  x == Len(X)  y == Len(Y)  g == Len(G)
<1>1. T \in Tables(C) /\ Len(T) = nb /\ b \in Nat \ {0}
  BY PackedTableIs DEF Fills
<1>2. L \in Seq(Seq(E)) /\ Len(L) = Len(T) /\ CellsAre(L, T)
  BY <1>1, CellsOfIs
<1>3. Len(L[b]) = 1 + m /\ L[b][1] = HeaderOf(T, b) /\ m \in Nat
      /\ \A s \in 1..m : L[b][1 + s] = es[s]
  BY <1>1, <1>2 DEF CellsAre
<1>4. u = (b - 1) * (1 + MaxEntries) /\ x = nb + Len(P)
  BY PackedCells
<1>5. off = 1 + u /\ u \in Nat
  BY <1>1, <1>4, PackedAtIs
<1>6. X = FlattenSeq(L)
  OBVIOUS
<1> HIDE DEF L, u, m, off, es, x, y, g
<1>7. ASSUME NEW s \in 0..m
      PROVE  off + s \in 1..x /\ At(G, off + s) = L[b][1 + s]
  <2>1. b \in 1..Len(L) /\ 1 + s \in 1..Len(L[b])
    BY <1>1, <1>2, <1>3
  <2>2. /\ Len(Upto(L, b - 1)) + (1 + s) \in 1..Len(FlattenSeq(L))
        /\ FlattenSeq(L)[Len(Upto(L, b - 1)) + (1 + s)] = L[b][1 + s]
    BY <1>2, <2>1, FlattenAt
  <2>3. u + (1 + s) \in 1..x /\ X[u + (1 + s)] = L[b][1 + s]
    BY <1>6, <2>2, Zenon DEF u, x
  <2>4. off + s = u + (1 + s)
    BY <1>5
  <2>5. \A o \in 1..x : At(G, o) = X[o]
    BY DEF PackedCellsAre, x
  <2> QED
    BY <2>3, <2>4, <2>5, Zenon
<1>8. At(G, off) = HeaderOf(T, b)
  <2>1. 0 \in 0..m /\ off + 0 = off /\ 1 + 0 = 1
    BY <1>3, <1>5
  <2>2. At(G, off + 0) = L[b][1 + 0]
    BY <1>7, <2>1
  <2> QED
    BY <1>3, <2>1, <2>2, Zenon
<1>9. ASSUME NEW s \in 1..m
      PROVE  At(G, off + s) = es[s]
  <2>1. s \in 0..m
    BY <1>3
  <2> QED
    BY <1>3, <1>7, <2>1
<1>10. off + m <= x /\ off + m < g
  <2>1. m \in 0..m
    BY <1>3
  <2>2. off + m \in 1..x
    BY <1>7, <2>1
  <2>3. g = 1 + x + y
    BY DEF PackedCellsAre, g, x, y
  <2>4. x \in Nat /\ y \in Nat
    <3>1. X \in Seq(E)
      BY <1>2, <1>6, FlattenType
    <3> QED
      BY <3>1 DEF x, y
  <2> QED
    BY <1>3, <1>5, <2>2, <2>3, <2>4
<1> QED
  BY <1>4, <1>8, <1>9, <1>10, Zenon DEF PackedBlockIs, off, es, m, x, g

\* Entries and data as compacted_image lays them out, the data from ds on.
DataOf(f, F) == [i \in 1..Len(F) |-> ReadData(f, F[i])]
PackedEntry(e, d, start) == [e EXCEPT !.max = Len(d), !.used = Len(d), !.start = start]
PackedEntries(F, D, ds) ==
    [i \in 1..Len(F) |-> PackedEntry(F[i], D[i], ds + Len(Upto(D, i - 1)))]

LEMMA PackedEntryIs ==
    ASSUME NEW e, IsEntry(e), NEW d, NEW start, NEW x, x = PackedEntry(e, d, start)
    PROVE  /\ IsEntry(x) /\ x.t = "ent" /\ x.type = Raw /\ x.uid = e.uid
           /\ x.start = start /\ x.max = Len(d) /\ x.used = Len(d) /\ x.algo = e.algo
           /\ x.hash = e.hash
<1> DEFINE U == e.uid  S == e.start  M == e.max  N == e.used  A == e.algo  H == e.hash
           L == Len(d)
<1>1. e = Entry(Raw, U, S, M, N, A, H)
  BY Zenon DEF IsEntry
<1>2. x = [e EXCEPT !.max = L, !.used = L, !.start = start]
  BY Zenon DEF PackedEntry
<1> HIDE DEF U, S, M, N, A, H, L
<1>3. x = Entry(Raw, U, start, L, L, A, H)
  BY <1>1, <1>2 DEF Entry
<1>4. /\ x.t = "ent" /\ x.type = Raw /\ x.uid = U /\ x.start = start /\ x.max = L
      /\ x.used = L /\ x.algo = A /\ x.hash = H
  BY <1>3 DEF Entry
<1>5. IsEntry(x)
  BY <1>3, <1>4, Zenon DEF IsEntry
<1> QED
  BY <1>4, <1>5 DEF U, A, L, H

LEMMA DataRead ==
    ASSUME NEW C, NEW f \in Seq(C), NEW own, NEW lim, NEW e, EntryHeld(f, own, lim, e), NEW d,
           d = ReadData(f, e)
    PROVE  d \in Seq(C) /\ Len(d) = e.used /\ e.hash = Digest(e.algo, d)
<1> DEFINE s == e.start  m == e.max  u == e.used
<1>1. /\ s \in Nat /\ u \in 0..m /\ m \in Nat /\ (u > 0 => s + u <= Len(f))
      /\ e.hash = Digest(e.algo, SubSeq(f, s + 1, s + u))
  BY DEF EntryHeld
<1>2. d = SubSeq(f, s + 1, s + u)
  BY DEF ReadData
<1> HIDE DEF s, m, u
<1>3. u = 0 \/ u > 0
  BY <1>1
<1>4. CASE u = 0
  <2>1. s + 1 > s + u
    BY <1>1, <1>4
  <2>2. SubSeq(f, s + 1, s + u) = <<>>
    BY <1>1, <2>1
  <2>3. d = <<>>
    BY <1>2, <2>2, Zenon
  <2>4. d \in Seq(C) /\ Len(d) = u
    BY ONLY <1>4, <2>3
  <2> QED
    BY <1>1, <1>2, <2>4 DEF u
<1>5. CASE u > 0
  <2> DEFINE p == s + 1  q == s + u
  <2>1. p \in Nat \ {0} /\ q \in 0..Len(f) /\ p <= q /\ q - p + 1 = u
    BY <1>1, <1>5
  <2>2. d = SubSeq(f, p, q)
    BY <1>2
  <2> HIDE DEF p, q
  <2>3. d \in Seq(C) /\ Len(d) = IF p <= q THEN q - p + 1 ELSE 0
    BY <2>1, <2>2, SliceType
  <2>4. d \in Seq(C) /\ Len(d) = u
    BY ONLY <2>1, <2>3
  <2> QED
    BY <1>1, <1>2, <2>4 DEF u
<1> QED
  BY <1>3, <1>4, <1>5, Zenon

\* y has d from its u-th element on.
Within(y, u, d) ==
    /\ u \in Nat /\ u + Len(d) <= Len(y)
    /\ \A j \in 1..Len(d) : u + j \in 1..Len(y) /\ y[u + j] = d[j]

LEMMA FlattenWithin ==
    ASSUME NEW E, NEW D \in Seq(Seq(E)), NEW i \in 1..Len(D)
    PROVE  Within(FlattenSeq(D), Len(Upto(D, i - 1)), D[i])
<1> DEFINE u == Len(Upto(D, i - 1))  Y == FlattenSeq(D)  m == Len(D[i])
<1>1. u \in Nat
  <2>1. i - 1 \in 0..Len(D)
    OBVIOUS
  <2> QED
    BY <2>1, UptoType
<1>2. \A j \in 1..m : u + j \in 1..Len(Y) /\ Y[u + j] = D[i][j]
  BY FlattenAt
<1>3. u + m <= Len(Y)
  <2>1. Len(Upto(D, i)) = u + m
    BY UptoNext
  <2>2. i \in 0..Len(D) /\ Len(D) \in 0..Len(D)
    OBVIOUS
  <2>3. Continues(Upto(D, i), Upto(D, Len(D)))
    BY <2>2, UptoContinues
  <2>4. Upto(D, Len(D)) = Y
    BY UptoAll
  <2> QED
    BY <2>1, <2>3, <2>4, Zenon DEF Continues
<1> QED
  BY <1>1, <1>2, <1>3, Zenon DEF Within

\* d is part of the data Y of a compacted file G, and starts at st.
Lies(E, G, X, Y, d, u, st) ==
    /\ X \in Seq(E) /\ Y \in Seq(E) /\ G \in Seq(E) /\ d \in Seq(E) /\ u \in Nat
    /\ PackedCellsAre(G, X, Y) /\ Within(Y, u, d) /\ st = 1 + Len(X) + u

LEMMA PackedDataAt ==
    ASSUME NEW E, NEW G, NEW X, NEW Y, NEW d, NEW u, NEW st, Lies(E, G, X, Y, d, u, st)
    PROVE  SubSeq(G, st + 1, st + Len(d)) = d /\ st + Len(d) <= Len(G) /\ st \in Nat
<1> DEFINE x == Len(X)  y == Len(Y)  g == Len(G)  m == Len(d)
<1>1. /\ x \in Nat /\ y \in Nat /\ g \in Nat /\ m \in Nat /\ u \in Nat /\ st \in Nat
      /\ st = 1 + x + u /\ G \in Seq(E) /\ d \in Seq(E)
  BY DEF Lies
<1>2. g = 1 + x + y /\ \A o \in 1..y : At(G, x + o) = Y[o]
  BY DEF PackedCellsAre, Lies
<1>3. /\ u \in Nat /\ u + m <= y
      /\ \A j \in 1..m : u + j \in 1..y /\ Y[u + j] = d[j]
  BY DEF Within, Lies
<1> HIDE DEF x, y, g, m
<1>4. ASSUME NEW j \in 1..m
      PROVE  G[st + j] = d[j]
  <2>1. u + j \in 1..y /\ Y[u + j] = d[j]
    BY <1>3
  <2>2. At(G, x + (u + j)) = Y[u + j]
    BY <1>2, <2>1
  <2>3. x + (u + j) + 1 = st + j
    BY <1>1, <1>3
  <2> QED
    BY <2>1, <2>2, <2>3, Zenon DEF At
<1>5. st + m <= g
  BY <1>1, <1>2, <1>3
<1>6. SubSeq(G, st + 1, st + m) = d
  <2> DEFINE z == SubSeq(G, st + 1, st + m)
  <2>1. z \in Seq(E) /\ Len(z) = m /\ \A j \in 1..m : z[j] = G[st + j]
    <3> DEFINE p == st + 1  q == st + m
    <3>1. p \in Nat \ {0} /\ q \in 0..Len(G)
      BY <1>1, <1>5 DEF g
    <3>2. z = SubSeq(G, p, q) /\ p = st + 1 /\ q = st + m
      OBVIOUS
    <3> HIDE DEF p, q, z
    <3>3. /\ z \in Seq(E) /\ Len(z) = (IF p <= q THEN q - p + 1 ELSE 0)
          /\ \A j \in 1..Len(z) : z[j] = G[p + j - 1]
      <4>1. /\ SubSeq(G, p, q) \in Seq(E)
            /\ Len(SubSeq(G, p, q)) = (IF p <= q THEN q - p + 1 ELSE 0)
            /\ \A j \in 1..Len(SubSeq(G, p, q)) : SubSeq(G, p, q)[j] = G[p + j - 1]
        BY <1>1, <3>1, SliceType
      <4> QED
        BY <3>2, <4>1, Zenon
    <3>4. (IF p <= q THEN q - p + 1 ELSE 0) = m
      BY <1>1, <3>2
    <3>5. \A j \in 1..m : p + j - 1 = st + j
      BY <1>1, <3>2
    <3> QED
      BY <3>3, <3>4, <3>5, Zenon
  <2> HIDE DEF z
  <2>2. \A j \in 1..m : z[j] = d[j]
    BY <1>4, <2>1, Zenon
  <2>3. d \in Seq(E) /\ Len(d) = m
    BY <1>1 DEF m
  <2>4. z = d
    <3>1. m \in Nat /\ z \in Seq(E) /\ Len(z) = m
      BY <1>1, <2>1
    <3> QED
      BY ONLY <2>2, <2>3, <3>1
  <2> QED
    BY <2>4 DEF z
<1> QED
  BY <1>1, <1>5, <1>6 DEF g, m

LEMMA PackedInRow ==
    ASSUME NEW E, NEW D \in Seq(Seq(E)), NEW i \in 1..Len(D), NEW j \in 1..Len(D), i < j
    PROVE  Len(Upto(D, i - 1)) + Len(D[i]) <= Len(Upto(D, j - 1))
<1>1. Len(Upto(D, i)) = Len(Upto(D, i - 1)) + Len(D[i])
  BY UptoNext
<1>2. i \in 0..(j - 1) /\ j - 1 \in 0..Len(D)
  OBVIOUS
<1>3. Continues(Upto(D, i), Upto(D, j - 1))
  BY <1>2, UptoContinues
<1> QED
  BY <1>1, <1>3, Zenon DEF Continues

\* The live entries of a file, in chain order: each is held, each UID is there once.
UidsOnce(F) == \A x, y \in 1..Len(F) : F[x].uid = F[y].uid => x = y
Live(f, own, lim, F) == AllHeld(f, own, lim, F) /\ UidsOnce(F)

LEMMA ListedLive ==
    ASSUME NEW f, NEW own, NEW lim, NEW C, NEW B, Image(f, own, lim, C, B, 0), NEW F,
           F = FlattenSeq(Lists(B))
    PROVE  F \in Seq(C) /\ Live(f, own, lim, F)
<1> DEFINE L == Lists(B)
<1>1. B \in Tables(C) /\ UidsApart(B)
  BY DEF Image
<1>2. /\ L \in Seq(Seq(C)) /\ Len(L) = Len(B)
      /\ \A i \in 1..Len(B) : L[i] = B[i].entries
  BY <1>1, ListsType
<1>3. F = FlattenSeq(L)
  OBVIOUS
<1> HIDE DEF L
<1>4. F \in Seq(C)
  BY <1>2, <1>3, FlattenType
<1>5. ASSUME NEW x \in 1..Len(F)
      PROVE  \E i \in 1..Len(B) : \E s \in 1..Len(B[i].entries) :
                x = Len(Upto(L, i - 1)) + s /\ F[x] = B[i].entries[s]
  <2>1. x \in 1..Len(FlattenSeq(L))
    BY <1>3
  <2>2. PICK i \in 1..Len(L) : \E s \in 1..Len(L[i]) : x = Len(Upto(L, i - 1)) + s
    BY <1>2, <2>1, FlattenWhere
  <2>3. PICK s \in 1..Len(L[i]) : x = Len(Upto(L, i - 1)) + s
    BY <2>2
  <2>4. FlattenSeq(L)[Len(Upto(L, i - 1)) + s] = L[i][s]
    BY <1>2, FlattenAt
  <2>5. F[x] = L[i][s]
    BY <1>3, <2>3, <2>4, Zenon
  <2>6. i \in 1..Len(B) /\ L[i] = B[i].entries
    BY <1>2
  <2> QED
    BY <2>3, <2>5, <2>6, Zenon
<1>6. ASSUME NEW x \in 1..Len(F)
      PROVE  EntryHeld(f, own, lim, F[x])
  <2>1. PICK i \in 1..Len(B) : \E s \in 1..Len(B[i].entries) : F[x] = B[i].entries[s]
    BY <1>5
  <2>2. PICK s \in 1..Len(B[i].entries) : F[x] = B[i].entries[s]
    BY <2>1
  <2>3. EntryHeld(f, own, lim, B[i].entries[s])
    BY EntryOf
  <2> QED
    BY <2>2, <2>3, Zenon
<1>7. ASSUME NEW x \in 1..Len(F), NEW y \in 1..Len(F), F[x].uid = F[y].uid
      PROVE  x = y
  <2>1. PICK i \in 1..Len(B) : \E s \in 1..Len(B[i].entries) :
                x = Len(Upto(L, i - 1)) + s /\ F[x] = B[i].entries[s]
    BY <1>5
  <2>2. PICK s \in 1..Len(B[i].entries) :
                x = Len(Upto(L, i - 1)) + s /\ F[x] = B[i].entries[s]
    BY <2>1
  <2>3. PICK j \in 1..Len(B) : \E t \in 1..Len(B[j].entries) :
                y = Len(Upto(L, j - 1)) + t /\ F[y] = B[j].entries[t]
    BY <1>5
  <2>4. PICK t \in 1..Len(B[j].entries) :
                y = Len(Upto(L, j - 1)) + t /\ F[y] = B[j].entries[t]
    BY <2>3
  <2>5. B[i].entries[s].uid = B[j].entries[t].uid
    BY <1>7, <2>2, <2>4, Zenon
  <2>6. i = j /\ s = t
    BY ONLY <1>1, <2>5, i \in 1..Len(B), j \in 1..Len(B), s \in 1..Len(B[i].entries),
       t \in 1..Len(B[j].entries) DEF UidsApart
  <2> QED
    BY <2>2, <2>4, <2>6, Zenon
<1> QED
  BY <1>4, <1>6, <1>7, Zenon DEF Live, AllHeld, UidsOnce

\* The entry p of a compacted file for e, whose data d it puts at start.
EntryFor(p, e, d, start) ==
    /\ IsEntry(p) /\ p.t = "ent" /\ p.type = Raw /\ p.uid = e.uid /\ p.uid \in Uid
    /\ p.start = start /\ p.max = Len(d) /\ p.used = Len(d) /\ p.algo = e.algo
    /\ p.hash = Digest(p.algo, d)

LEMMA PackedAre ==
    ASSUME NEW C, NEW f \in Seq(C), NEW own, NEW lim, NEW F \in Seq(C), Live(f, own, lim, F),
           NEW D, D = DataOf(f, F), NEW ds, NEW P, P = PackedEntries(F, D, ds)
    PROVE  /\ D \in Seq(Seq(C)) /\ Len(D) = Len(F) /\ DOMAIN P = 1..Len(F)
           /\ \A i \in 1..Len(F) : EntryFor(P[i], F[i], D[i], ds + Len(Upto(D, i - 1)))
<1> DEFINE S == Seq(C)  n == Len(F)
<1>1. n \in Nat
  OBVIOUS
<1>2. ASSUME NEW i \in 1..n
      PROVE  /\ D[i] \in S
             /\ EntryFor(P[i], F[i], D[i], ds + Len(Upto(D, i - 1)))
  <2> DEFINE e == F[i]  d == D[i]  st == ds + Len(Upto(D, i - 1))  p == P[i]
  <2>1. EntryHeld(f, own, lim, e)
    BY DEF Live, AllHeld
  <2>2. d = ReadData(f, e)
    BY Zenon DEF DataOf
  <2>3. p = PackedEntry(e, d, st)
    BY Zenon DEF PackedEntries
  <2> HIDE DEF e, d, st, p
  <2>4. d \in Seq(C) /\ e.hash = Digest(e.algo, d)
    BY <2>1, <2>2, DataRead
  <2>5. IsEntry(e) /\ e.uid \in Uid
    BY <2>1 DEF EntryHeld
  <2>6. /\ IsEntry(p) /\ p.t = "ent" /\ p.type = Raw /\ p.uid = e.uid
        /\ p.start = st /\ p.max = Len(d) /\ p.used = Len(d) /\ p.algo = e.algo
        /\ p.hash = e.hash
    BY <2>3, <2>5, PackedEntryIs
  <2>7. EntryFor(p, e, d, st)
    BY <2>4, <2>5, <2>6, Zenon DEF EntryFor
  <2> QED
    BY <2>4, <2>7 DEF e, d, st, p
<1>3. D = [i \in 1..n |-> D[i]] /\ DOMAIN D = 1..n
  BY Zenon DEF DataOf
<1>4. DOMAIN P = 1..n
  BY Zenon DEF PackedEntries
<1> HIDE DEF S, n
<1>5. \A i \in 1..n : D[i] \in S
  BY <1>2, Zenon
<1>6. D \in [1..n -> S]
  BY ONLY <1>3, <1>5
<1>7. D \in Seq(S) /\ Len(D) = n
  BY ONLY <1>1, <1>6
<1> QED
  BY <1>2, <1>4, <1>7, Zenon DEF S, n

LEMMA PackedHeld ==
    ASSUME NEW E, NEW G, NEW X, NEW Y, NEW own, NEW p, NEW e, NEW d, NEW u, NEW st,
           Lies(E, G, X, Y, d, u, st), EntryFor(p, e, d, st),
           Owned(own, OfPart(p.uid), st, Len(d))
    PROVE  EntryHeld(G, own, Len(G), p)
<1> DEFINE g == Len(G)  m == Len(d)
<1>1. SubSeq(G, st + 1, st + m) = d /\ st + m <= g /\ st \in Nat
  BY PackedDataAt
<1>2. /\ IsEntry(p) /\ p.t = "ent" /\ p.type = Raw /\ p.uid \in Uid
      /\ p.start = st /\ p.max = m /\ p.used = m /\ p.hash = Digest(p.algo, d)
  BY DEF EntryFor
<1>3. m \in Nat /\ m \in 0..m
  <2>1. d \in Seq(E)
    BY DEF Lies
  <2> QED
    BY <2>1
<1>4. Owned(own, OfPart(p.uid), st, m)
  OBVIOUS
<1> HIDE DEF g, m
<1>5. p.hash = Digest(p.algo, SubSeq(G, p.start + 1, p.start + p.used))
  BY <1>1, <1>2, Zenon
<1>6. /\ p.start \in Nat /\ p.max \in Nat /\ p.used \in 0..p.max
      /\ p.start + p.used <= g /\ p.start + p.max <= g
      /\ Owned(own, OfPart(p.uid), p.start, p.max)
  BY <1>1, <1>2, <1>3, <1>4, Zenon
<1> QED
  BY <1>2, <1>5, <1>6, Zenon DEF EntryHeld, g

LEMMA PackedUids ==
    ASSUME NEW C, NEW P \in Seq(C), NEW nb, Fills(Len(P), nb), NEW algo \in {"None", "Sha256"},
           NEW T, T = PackedTable(P, nb, algo), UidsOnce(P)
    PROVE  UidsApart(T) /\ BlocksApart(T)
<1> DEFINE M == MaxEntries  w == 1 + M
<1>1. /\ M \in Nat \ {0} /\ nb \in Nat \ {0}
  BY ContainerAssumption DEF Fills
<1>2. Len(T) = nb /\ \A b \in 1..nb : T[b].offset = PackedAt(b) /\ T[b].entries = PackedSlice(P, b)
  BY PackedTableIs
<1>3. ASSUME NEW i \in 1..Len(T), NEW j \in 1..Len(T), NEW s \in 1..Len(T[i].entries),
             NEW t \in 1..Len(T[j].entries), T[i].entries[s].uid = T[j].entries[t].uid
      PROVE  i = j /\ s = t
  <2> DEFINE x == (i - 1) * M  y == (j - 1) * M  a1 == PackedSlice(P, i)  a2 == PackedSlice(P, j)
             m1 == Len(a1)  m2 == Len(a2)
  <2>1. /\ i \in 1..nb /\ j \in 1..nb /\ T[i].entries = a1 /\ T[j].entries = a2
        /\ s \in 1..m1 /\ t \in 1..m2
    BY <1>2
  <2>2. m1 \in Nat /\ x \in Nat /\ m1 <= M /\ SliceAt(a1, P, x)
    BY <2>1, PackedSliceIs
  <2>3. m2 \in Nat /\ y \in Nat /\ m2 <= M /\ SliceAt(a2, P, y)
    BY <2>1, PackedSliceIs
  <2>4. i < j => x + M <= y
    <3>1. i < j => (i - 1) * M + M <= (j - 1) * M
      BY <1>1, <2>1, Strides
    <3> QED
      BY <3>1
  <2>5. j < i => y + M <= x
    <3>1. j < i => (j - 1) * M + M <= (i - 1) * M
      BY <1>1, <2>1, Strides
    <3> QED
      BY <3>1
  <2>6. i = j => x = y
    OBVIOUS
  <2>7. a1[s].uid = a2[t].uid
    BY <1>3, <2>1, Zenon
  <2> HIDE DEF x, y, a1, a2, m1, m2, M
  <2>8. x + s \in 1..Len(P) /\ y + t \in 1..Len(P) /\ P[x + s].uid = P[y + t].uid
    BY <2>1, <2>2, <2>3, <2>7, Zenon DEF SliceAt, m1, m2
  <2>9. x + s = y + t
    BY <2>8, Zenon DEF UidsOnce
  <2>10. s <= M /\ t <= M /\ s \in Nat /\ t \in Nat /\ s # 0 /\ t # 0
    <3>1. M \in Nat /\ m1 \in Nat /\ m1 <= M /\ m2 \in Nat /\ m2 <= M
          /\ s \in 1..m1 /\ t \in 1..m2
      BY ONLY <1>1, <2>1, <2>2, <2>3
    <3> QED
      BY ONLY <3>1
  <2>11. ~(i < j) /\ ~(j < i)
    <3>1. M \in Nat /\ x \in Nat /\ y \in Nat
      BY ONLY <1>1, <2>2, <2>3
    <3> QED
      BY ONLY <3>1, <2>4, <2>5, <2>9, <2>10, i \in Nat, j \in Nat
  <2>12. i = j
    BY ONLY <1>1, <2>1, <2>11
  <2> QED
    BY ONLY <2>2, <2>3, <2>6, <2>9, <2>10, <2>12
<1>4. ASSUME NEW i \in 1..Len(T), NEW j \in 1..Len(T), T[i].offset = T[j].offset
      PROVE  i = j
  <2>1. i \in Nat \ {0} /\ j \in Nat \ {0} /\ i \in 1..nb /\ j \in 1..nb
    BY <1>1, <1>2
  <2>2. /\ PackedAt(i) = 1 + (i - 1) * (1 + M) /\ (i - 1) * (1 + M) \in Nat /\ 1 + M \in Nat
        /\ PackedAt(j) = 1 + (j - 1) * (1 + M) /\ (j - 1) * (1 + M) \in Nat
    BY <2>1, PackedAtIs
  <2>3. PackedAt(i) = PackedAt(j)
    BY <1>2, <1>4, <2>1
  <2> DEFINE x == (i - 1) * w  y == (j - 1) * w
  <2>4. x \in Nat /\ y \in Nat /\ x = y /\ w \in Nat /\ w > 0
    BY <1>1, <2>2, <2>3
  <2>5. i < j => x + w <= y
    BY <2>1, <2>4, Strides
  <2>6. j < i => y + w <= x
    BY <2>1, <2>4, Strides
  <2> HIDE DEF x, y, w
  <2> QED
    BY ONLY <2>1, <2>4, <2>5, <2>6
<1> QED
  BY <1>3, <1>4, Zenon DEF UidsApart, BlocksApart

\* The blocks of T end before base, the data of the entries P follow from there.
BlocksBelow(T, base) == \A b \in 1..Len(T) : T[b].offset + Len(T[b].entries) < base
PartsInRow(P, base) ==
    /\ \A i \in 1..Len(P) : P[i].start \in Nat /\ P[i].max \in Nat /\ base <= P[i].start
    /\ \A i, j \in 1..Len(P) : i < j => P[i].start + P[i].max <= P[j].start
PackedOwners(own, T, P) ==
    /\ own[0] = OfHeader
    /\ \A b \in 1..Len(T) : Owned(own, OfBlock(T[b].offset), T[b].offset, Len(T[b].entries) + 1)
    /\ \A i \in 1..Len(P) : Owned(own, OfPart(P[i].uid), P[i].start, P[i].max)

LEMMA PackedOwned ==
    ASSUME NEW C, NEW P \in Seq(C), NEW nb, Fills(Len(P), nb), NEW algo \in {"None", "Sha256"},
           NEW T, T = PackedTable(P, nb, algo), NEW base \in Nat \ {0},
           BlocksBelow(T, base), PartsInRow(P, base)
    PROVE  \E own : PackedOwners(own, T, P)
<1> DEFINE n == Len(P)
           off == [b \in 1..nb |-> T[b].offset]
           len == [b \in 1..nb |-> Len(T[b].entries) + 1]
           start == [i \in 1..n |-> P[i].start]
           max == [i \in 1..n |-> P[i].max]
           uid == [i \in 1..n |-> P[i].uid]
<1>1. nb \in Nat \ {0} /\ n \in Nat /\ MaxEntries \in Nat
  BY ContainerAssumption DEF Fills
<1>2. Len(T) = nb /\ \A b \in 1..nb : T[b].offset = PackedAt(b) /\ T[b].entries = PackedSlice(P, b)
  BY PackedTableIs
<1>3. ASSUME NEW b \in 1..nb
      PROVE  /\ off[b] = 1 + (b - 1) * (1 + MaxEntries) /\ (b - 1) * (1 + MaxEntries) \in Nat
             /\ len[b] \in Nat /\ len[b] <= 1 + MaxEntries /\ off[b] + len[b] <= base
  <2>1. b \in Nat \ {0}
    BY <1>1
  <2>2. T[b].offset = 1 + (b - 1) * (1 + MaxEntries) /\ (b - 1) * (1 + MaxEntries) \in Nat
    BY <1>2, <2>1, PackedAtIs
  <2> DEFINE s == Len(T[b].entries)  o == T[b].offset
  <2>3. s \in Nat /\ s <= MaxEntries
    BY <1>2, PackedSliceIs
  <2>4. o + s < base
    BY <1>2 DEF BlocksBelow
  <2>5. o \in Nat
    BY <2>2
  <2>6. off[b] = o /\ len[b] = s + 1
    OBVIOUS
  <2> HIDE DEF s, off, len, o
  <2>7. s + 1 \in Nat /\ s + 1 <= 1 + MaxEntries /\ o + (s + 1) <= base
    BY ONLY <1>1, <2>3, <2>4, <2>5, base \in Nat
  <2> QED
    BY <2>2, <2>6, <2>7, Zenon DEF o
<1>4. /\ \A i \in 1..n : start[i] = P[i].start /\ max[i] = P[i].max /\ uid[i] = P[i].uid
      /\ \A b \in 1..nb : off[b] = T[b].offset /\ len[b] = Len(T[b].entries) + 1
  OBVIOUS
<1> HIDE DEF off, len, start, max, uid, n
<1>5. \A b \in 1..nb : off[b] \in Nat \ {0} /\ len[b] \in Nat /\ off[b] + len[b] <= base
  <2>1. ASSUME NEW b \in 1..nb
        PROVE  off[b] \in Nat \ {0}
    <3> DEFINE x == (b - 1) * (1 + MaxEntries)
    <3>1. x \in Nat /\ off[b] = 1 + x
      BY <1>3
    <3> HIDE DEF x
    <3> QED
      BY <3>1
  <2> QED
    BY <1>3, <2>1
<1>6. \A i \in 1..n : start[i] \in Nat /\ max[i] \in Nat /\ base <= start[i]
  BY <1>4, Zenon DEF PartsInRow, n
<1>7. RegionsInRow(off, len, nb)
  <2>1. ASSUME NEW b \in 1..nb, NEW c \in 1..nb, b < c
        PROVE  off[b] + len[b] <= off[c]
    <3> DEFINE w == 1 + MaxEntries  x == (b - 1) * w  y == (c - 1) * w
    <3>1. /\ x \in Nat /\ y \in Nat /\ off[b] = 1 + x /\ off[c] = 1 + y
          /\ len[b] \in Nat /\ len[b] <= w
      BY <1>3
    <3>2. x + w <= y
      BY <1>1, <2>1, Strides
    <3>3. w \in Nat
      BY <1>1
    <3> DEFINE m == len[b]
    <3>4. m \in Nat /\ m <= w
      BY <3>1
    <3> HIDE DEF x, y, w, m
    <3>5. (1 + x) + m <= 1 + y
      BY ONLY <3>1, <3>2, <3>3, <3>4
    <3> QED
      BY <3>1, <3>5, Zenon DEF m
  <2> QED
    BY <2>1, Zenon DEF RegionsInRow
<1>8. RegionsInRow(start, max, n)
  BY <1>4, Zenon DEF PartsInRow, RegionsInRow, n
<1>9. PICK own : /\ own[0] = OfHeader
                 /\ \A b \in 1..nb : Owned(own, OfBlock(off[b]), off[b], len[b])
                 /\ \A i \in 1..n : Owned(own, OfPart(uid[i]), start[i], max[i])
  <2>1. nb \in Nat
    BY <1>1
  <2> QED
    BY ONLY <1>1, <1>5, <1>6, <1>7, <1>8, <2>1, base \in Nat \ {0}, OwnersInRow
<1>10. PackedOwners(own, T, P)
  <2>1. \A b \in 1..Len(T) :
            Owned(own, OfBlock(T[b].offset), T[b].offset, Len(T[b].entries) + 1)
    BY <1>2, <1>4, <1>9, Zenon
  <2>2. \A i \in 1..Len(P) : Owned(own, OfPart(P[i].uid), P[i].start, P[i].max)
    BY <1>4, <1>9, Zenon DEF n
  <2> QED
    BY <1>9, <2>1, <2>2, Zenon DEF PackedOwners
<1> QED
  BY <1>10

\* The file G holds the table T and nothing else.
Compacted(E, own, G, T) ==
    /\ Zero \in E /\ G \in Seq(E) /\ Image(G, own, Len(G), E, T, 0)
    /\ HeadIs(G, own, T[1].offset)

\* No block has more entries than its u8 count can say.
Small(B) == \A i \in 1..Len(B) : Len(B[i].entries) <= MaxEntries

\* How long a compacted file is: header, block headers, n entries and the data D.
PackedLen(n, D) == 1 + BlocksFor(n) + n + Len(FlattenSeq(D))

\* The entry p of the file g stands for the entry e of the file f.
SameData(f, e, g, p) == p.uid = e.uid /\ p.algo = e.algo /\ ReadData(g, p) = ReadData(f, e)

\* The table T in g has the entries F of the file f, and no other.
Carries(f, F, g, T) ==
    /\ \A i \in 1..Len(F) : \E b \in 1..Len(T) : \E s \in 1..Len(T[b].entries) :
            SameData(f, F[i], g, T[b].entries[s])
    /\ \A b \in 1..Len(T) : \A s \in 1..Len(T[b].entries) : \E i \in 1..Len(F) :
            SameData(f, F[i], g, T[b].entries[s])

\* The same when the entries of f are those of its table B.
Moved(f, B, g, T) ==
    /\ \A i \in 1..Len(B) : \A t \in 1..Len(B[i].entries) :
            \E b \in 1..Len(T) : \E s \in 1..Len(T[b].entries) :
                SameData(f, B[i].entries[t], g, T[b].entries[s])
    /\ \A b \in 1..Len(T) : \A s \in 1..Len(T[b].entries) :
            \E i \in 1..Len(B) : \E t \in 1..Len(B[i].entries) :
                SameData(f, B[i].entries[t], g, T[b].entries[s])

AlgoIs(T, algo) == \A b \in 1..Len(T) : T[b].algo = algo

\* From the file f with the table B to its compacted image g.
RepackedTo(f, g, B, T, algo) == Small(T) /\ Moved(f, B, g, T) /\ AlgoIs(T, algo)

Repacked(f, F, G, T, D, algo) ==
    /\ \E E, own : Compacted(E, own, G, T)
    /\ Small(T) /\ Len(G) = PackedLen(Len(F), D) /\ Carries(f, F, G, T) /\ AlgoIs(T, algo)

LEMMA PackedImage ==
    ASSUME NEW C, Zero \in C, NEW f \in Seq(C), NEW own, NEW lim, NEW F \in Seq(C),
           Live(f, own, lim, F), NEW algo \in {"None", "Sha256"}, NEW D, D = DataOf(f, F),
           NEW nb, nb = BlocksFor(Len(F)), NEW P, P = PackedEntries(F, D, 1 + nb + Len(F)),
           NEW T, T = PackedTable(P, nb, algo), NEW G, G = PackedFile(T, D)
    PROVE  Repacked(f, F, G, T, D, algo)
<1> DEFINE n == Len(F)  hc == HeaderCell(HeaderSize)
           E == (C \cup {hc}) \cup ({HeaderOf(T, b) : b \in 1..Len(T)} \cup {P[i] : i \in 1..n})
           X == FlattenSeq(CellsOf(T))  Y == FlattenSeq(D)  base == 1 + nb + n
           u(i) == Len(Upto(D, i - 1))
<1>1. /\ D \in Seq(Seq(C)) /\ Len(D) = n /\ DOMAIN P = 1..n
      /\ \A i \in 1..n : EntryFor(P[i], F[i], D[i], base + u(i))
  BY PackedAre
<1>2. n \in Nat /\ Fills(n, nb) /\ nb \in Nat \ {0} /\ base \in Nat \ {0}
  <2>1. n \in Nat
    OBVIOUS
  <2>2. Fills(n, nb)
    BY <2>1, BlocksForFills
  <2>3. nb \in Nat \ {0}
    BY <2>2 DEF Fills
  <2> QED
    BY <2>1, <2>2, <2>3
<1>3. /\ C \subseteq E /\ Zero \in E /\ hc \in E /\ HeadersIn(T, E) /\ \A i \in 1..n : P[i] \in E
  BY DEF HeadersIn
<1> HIDE DEF E, hc, n, base, u
<1>4. P \in Seq(E) /\ Len(P) = n
  <2>1. P = [i \in 1..n |-> P[i]]
    BY <1>1, Zenon DEF PackedEntries, n
  <2>2. P \in [1..n -> E]
    BY ONLY <1>3, <2>1
  <2> QED
    BY ONLY <1>2, <2>2
<1>5. Fills(Len(P), nb)
  BY <1>2, <1>4
<1>6. /\ T \in Tables(E) /\ Len(T) = nb
      /\ \A b \in 1..nb : /\ T[b].offset = PackedAt(b) /\ T[b].algo = algo
                          /\ T[b].entries = PackedSlice(P, b) /\ Successor(T, b) = PackedNext(nb, b)
  BY <1>4, <1>5, PackedTableIs
<1>7. X \in Seq(E) /\ Len(X) = nb + n
  <2> DEFINE L == CellsOf(T)
  <2>1. L \in Seq(Seq(E))
    BY <1>3, <1>6, CellsOfIs
  <2>2. FlattenSeq(L) \in Seq(E)
    <3> HIDE DEF L
    <3> QED
      BY <2>1, FlattenType
  <2>3. Len(FlattenSeq(L)) = nb + Len(P)
    BY <1>3, <1>4, <1>5, PackedCells
  <2> QED
    BY <1>4, <2>2, <2>3
<1>8. D \in Seq(Seq(E)) /\ Y \in Seq(E)
  <2> DEFINE S1 == Seq(C)  S2 == Seq(E)
  <2>1. S1 \subseteq S2
    BY <1>3
  <2>2. D \in Seq(S1)
    BY <1>1
  <2> HIDE DEF S1, S2
  <2>3. D \in Seq(S2)
    BY <2>1, <2>2
  <2>4. D \in Seq(Seq(E))
    BY <2>3 DEF S2
  <2> QED
    BY <2>4, FlattenType
<1> HIDE DEF Y
<1>9. G \in Seq(E) /\ PackedCellsAre(G, X, Y)
  <2>1. G = <<hc>> \o X \o Y
    BY Zenon DEF PackedFile, hc, Y
  <2> HIDE DEF X
  <2>2. hc \in E /\ X \in Seq(E) /\ Y \in Seq(E)
    BY <1>3, <1>7, <1>8
  <2> QED
    BY <2>1, <2>2, ThreePieces DEF hc
<1>10. ASSUME NEW b \in 1..nb
       PROVE  PackedBlockIs(G, T, b) /\ PackedAt(b) + Len(T[b].entries) <= nb + n
  <2>1. PackedBlockIs(G, T, b) /\ PackedAt(b) + Len(T[b].entries) <= nb + Len(P)
    BY <1>3, <1>4, <1>5, <1>8, <1>9, PackedBlockAt
  <2> QED
    BY <1>4, <2>1
<1> HIDE DEF X
<1>11. ASSUME NEW i \in 1..n
       PROVE  Lies(E, G, X, Y, D[i], u(i), base + u(i)) /\ u(i) \in Nat
  <2>1. i \in 1..Len(D)
    BY <1>1
  <2>2. Within(Y, u(i), D[i])
    BY <1>8, <2>1, FlattenWithin DEF Y, u
  <2>3. u(i) \in Nat
    BY <2>2 DEF Within
  <2>4. D[i] \in Seq(E)
    <3> DEFINE S == Seq(E)
    <3>1. D \in Seq(S)
      BY <1>8
    <3> HIDE DEF S
    <3>2. D[i] \in S
      BY <2>1, <3>1
    <3> QED
      BY <3>2 DEF S
  <2>5. base + u(i) = 1 + Len(X) + u(i)
    BY <1>2, <1>7, <2>3 DEF base
  <2> QED
    BY <1>7, <1>8, <1>9, <2>2, <2>3, <2>4, <2>5, Zenon DEF Lies
<1>12. BlocksBelow(T, base)
  <2>1. ASSUME NEW b \in 1..Len(T)
        PROVE  T[b].offset + Len(T[b].entries) < base
    <3>1. b \in 1..nb /\ b \in Nat \ {0}
      BY <1>2, <1>6
    <3> DEFINE o == PackedAt(b)  m == Len(T[b].entries)
    <3>2. o + m <= nb + n
      BY <1>10, <3>1
    <3>3. o \in Nat
      BY <3>1, PackedAtIs
    <3>4. m \in Nat
      <4>1. T[b].entries = PackedSlice(P, b)
        BY <1>6, <3>1
      <4>2. Len(PackedSlice(P, b)) \in Nat
        BY <1>4, <1>5, <3>1, PackedSliceIs
      <4> QED
        BY <4>1, <4>2
    <3>5. T[b].offset = o
      BY <1>6, <3>1
    <3> HIDE DEF o, m
    <3>6. o + m < base
      BY ONLY <1>2, <3>2, <3>3, <3>4 DEF base
    <3> QED
      BY <3>5, <3>6, Zenon DEF m
  <2> QED
    BY <2>1, Zenon DEF BlocksBelow
<1>13. PartsInRow(P, base)
  <2>1. ASSUME NEW i \in 1..n
        PROVE  /\ P[i].start = base + u(i) /\ P[i].max = Len(D[i]) /\ u(i) \in Nat
               /\ Len(D[i]) \in Nat
    <3>1. P[i].start = base + u(i) /\ P[i].max = Len(D[i])
      BY <1>1 DEF EntryFor
    <3>2. D[i] \in Seq(E) /\ u(i) \in Nat
      BY <1>11 DEF Lies
    <3> QED
      BY <3>1, <3>2
  <2>2. ASSUME NEW i \in 1..n
        PROVE  P[i].start \in Nat /\ P[i].max \in Nat /\ base <= P[i].start
    <3> DEFINE v == u(i)  s == P[i].start  m == P[i].max
    <3>1. s = base + v /\ v \in Nat /\ m \in Nat
      BY <2>1
    <3> HIDE DEF v, s, m
    <3>2. s \in Nat /\ base <= s
      BY ONLY <1>2, <3>1
    <3> QED
      BY <3>1, <3>2 DEF s, m
  <2>3. ASSUME NEW i \in 1..n, NEW j \in 1..n, i < j
        PROVE  P[i].start + P[i].max <= P[j].start
    <3> DEFINE v == u(i)  w == u(j)  m == Len(D[i])
    <3>1. /\ P[i].start = base + v /\ P[i].max = m /\ v \in Nat /\ m \in Nat
          /\ P[j].start = base + w /\ w \in Nat
      BY <2>1
    <3>2. v + m <= w
      <4>1. i \in 1..Len(D) /\ j \in 1..Len(D)
        BY <1>1
      <4> QED
        BY <1>8, <2>3, <4>1, PackedInRow DEF u
    <3> HIDE DEF v, w, m
    <3>3. (base + v) + m <= base + w
      BY ONLY <1>2, <3>1, <3>2
    <3> QED
      BY <3>1, <3>3, Zenon
  <2> QED
    BY <1>4, <2>2, <2>3, Zenon DEF PartsInRow
<1>14. PICK own2 : PackedOwners(own2, T, P)
  BY <1>2, <1>4, <1>5, <1>12, <1>13, PackedOwned
<1>15. ASSUME NEW i \in 1..n
       PROVE  EntryHeld(G, own2, Len(G), P[i])
  <2>1. Lies(E, G, X, Y, D[i], u(i), base + u(i))
    BY <1>11
  <2>2. EntryFor(P[i], F[i], D[i], base + u(i))
    BY <1>1
  <2>3. Owned(own2, OfPart(P[i].uid), P[i].start, P[i].max)
    BY <1>4, <1>14, Zenon DEF PackedOwners
  <2>4. Owned(own2, OfPart(P[i].uid), base + u(i), Len(D[i]))
    BY <2>2, <2>3, Zenon DEF EntryFor
  <2> QED
    BY <2>1, <2>2, <2>4, PackedHeld
<1>16. BlocksHeld(G, own2, T)
  <2>1. ASSUME NEW b \in 1..Len(T)
        PROVE  BlockHeld(G, own2, T[b].offset, Successor(T, b), T[b].algo, T[b].entries)
    <3> DEFINE es == T[b].entries  off == T[b].offset  m == Len(es)  x == (b - 1) * MaxEntries
    <3>1. b \in 1..nb /\ b \in Nat \ {0}
      BY <1>2, <1>6
    <3>2. off = PackedAt(b) /\ es = PackedSlice(P, b) /\ off \in Nat \ {0}
      <4>1. off = PackedAt(b) /\ es = PackedSlice(P, b)
        BY <1>6, <3>1
      <4> QED
        BY <3>1, <4>1, PackedAtIs
    <3>3. /\ At(G, off) = HeaderOf(T, b) /\ \A s \in 1..m : At(G, off + s) = es[s]
          /\ off + m < Len(G)
      BY <1>10, <3>1, <3>2 DEF PackedBlockIs
    <3>4. \A s \in 1..m : x + s \in 1..n /\ es[s] = P[x + s]
      <4>1. SliceAt(es, P, x)
        BY <1>4, <1>5, <3>1, <3>2, PackedSliceIs
      <4> QED
        BY <1>4, <4>1 DEF SliceAt
    <3>5. \A s \in 1..m : es[s].t = "ent"
      <4>1. \A i \in 1..n : P[i].t = "ent"
        BY <1>1 DEF EntryFor
      <4> HIDE DEF x, es, m
      <4> QED
        BY <3>4, <4>1, Zenon
    <3>6. Owned(own2, OfBlock(off), off, m + 1)
      BY <1>14, Zenon DEF PackedOwners
    <3>7. At(G, off) = BlockCell(m, Successor(T, b), T[b].algo, TableHash(T[b].algo, Successor(T, b), es))
      BY <3>3, Zenon DEF HeaderOf
    <3> HIDE DEF es, off, m, x
    <3>8. BlockHeld(G, own2, off, Successor(T, b), T[b].algo, es)
      BY <3>2, <3>3, <3>5, <3>6, <3>7, Zenon DEF BlockHeld, m
    <3> QED
      BY <3>8 DEF off, es
  <2> QED
    BY <2>1, Zenon DEF BlocksHeld
<1>17. EntriesHeld(G, own2, Len(G), T, 0)
  <2>1. ASSUME NEW b \in 1..Len(T), NEW s \in 1..Len(T[b].entries)
        PROVE  EntryHeld(G, own2, Len(G), T[b].entries[s])
    <3> DEFINE x == (b - 1) * MaxEntries  t == PackedSlice(P, b)
    <3>1. b \in 1..nb /\ T[b].entries = t
      BY <1>6
    <3>2. SliceAt(t, P, x)
      BY <1>4, <1>5, <3>1, PackedSliceIs
    <3> HIDE DEF x, t
    <3>5. \A k \in 1..Len(t) : x + k \in 1..Len(P) /\ t[k] = P[x + k]
      BY <3>2 DEF SliceAt
    <3>3. x + s \in 1..n /\ T[b].entries[s] = P[x + s]
      BY <1>4, <3>1, <3>5, Zenon
    <3>4. EntryHeld(G, own2, Len(G), P[x + s])
      BY <1>15, <3>3, Zenon
    <3> QED
      BY <3>3, <3>4, Zenon
  <2> QED
    BY ONLY <2>1 DEF EntriesHeld
<1>18. UidsApart(T) /\ BlocksApart(T)
  <2>1. \A i \in 1..n : P[i].uid = F[i].uid
    BY <1>1 DEF EntryFor
  <2>2. UidsOnce(F)
    BY DEF Live
  <2>3. UidsOnce(P)
    <3>1. ASSUME NEW x \in 1..n, NEW y \in 1..n, P[x].uid = P[y].uid
          PROVE  x = y
      <4>1. F[x].uid = F[y].uid
        BY <2>1, <3>1, Zenon
      <4> QED
        BY <2>2, <4>1, Zenon DEF UidsOnce, n
    <3> QED
      BY ONLY <1>4, <3>1 DEF UidsOnce
  <2> QED
    BY <1>4, <1>5, <2>3, PackedUids
<1>19. Image(G, own2, Len(G), E, T, 0)
  <2> DEFINE g == Len(G)  y == Len(Y)
  <2>1. g = 1 + Len(X) + y /\ y \in Nat
    BY <1>8, <1>9 DEF PackedCellsAre
  <2> HIDE DEF g, y
  <2>2. g = 1 + (nb + n) + y
    BY <1>7, <2>1
  <2>3. nb >= 1 /\ nb <= g
    BY ONLY <1>2, <2>1, <2>2
  <2> QED
    BY <1>6, <1>16, <1>17, <1>18, <2>3 DEF Image, g
<1>20. HeadIs(G, own2, T[1].offset)
  <2>1. 1 \in 1..nb /\ 1 \in Nat \ {0}
    BY <1>2
  <2>2. T[1].offset = 1
    <3>1. PackedAt(1) = 1 + (1 - 1) * (1 + MaxEntries) /\ 1 + MaxEntries \in Nat
      BY <2>1, PackedAtIs
    <3> DEFINE w == 1 + MaxEntries
    <3>2. (1 - 1) * w = 0
      BY <3>1
    <3>3. PackedAt(1) = 1
      BY <3>1, <3>2
    <3> QED
      BY <1>6, <2>1, <3>3
  <2>3. At(G, 0) = hc /\ Len(G) = 1 + Len(X) + Len(Y)
    BY <1>9 DEF PackedCellsAre, hc
  <2>4. hc.t = "hdr" /\ hc.pto = 1
    BY DEF hc, HeaderCell, HeaderSize
  <2>5. Len(X) \in Nat /\ Len(Y) \in Nat
    BY <1>7, <1>8
  <2>6. Len(G) > 0
    BY <2>3, <2>5
  <2>7. own2[0] = OfHeader
    BY <1>14 DEF PackedOwners
  <2> QED
    BY <2>2, <2>3, <2>4, <2>6, <2>7, Zenon DEF HeadIs
<1>21. Compacted(E, own2, G, T)
  BY <1>3, <1>9, <1>19, <1>20, Zenon DEF Compacted
<1>22. Small(T)
  <2>1. ASSUME NEW b \in 1..Len(T)
        PROVE  Len(T[b].entries) <= MaxEntries
    <3>1. b \in 1..nb /\ T[b].entries = PackedSlice(P, b)
      BY <1>6
    <3> QED
      BY <1>4, <1>5, <3>1, PackedSliceIs
  <2> QED
    BY <2>1 DEF Small
<1>23. Len(G) = PackedLen(Len(F), D)
  <2> DEFINE y == Len(Y)
  <2>1. Len(G) = 1 + Len(X) + y /\ y \in Nat
    BY <1>8, <1>9 DEF PackedCellsAre
  <2>2. PackedLen(Len(F), D) = 1 + nb + n + y
    BY Zenon DEF PackedLen, n, Y
  <2> HIDE DEF y
  <2> QED
    BY ONLY <1>2, <1>7, <2>1, <2>2
<1>24. ASSUME NEW i \in 1..n
       PROVE  SameData(f, F[i], G, P[i])
  <2> DEFINE p == P[i]  d == D[i]  st == base + u(i)
  <2>1. SubSeq(G, st + 1, st + Len(d)) = d
    BY <1>11, PackedDataAt
  <2>2. /\ p.uid = F[i].uid /\ p.start = st /\ p.used = Len(d) /\ p.algo = F[i].algo
    BY <1>1, Zenon DEF EntryFor
  <2>3. d = ReadData(f, F[i])
    BY Zenon DEF DataOf, n
  <2> HIDE DEF p, d, st
  <2>4. ReadData(G, p) = d
    BY <2>1, <2>2, Zenon DEF ReadData
  <2> QED
    BY <2>2, <2>3, <2>4, Zenon DEF SameData, p
<1>25. Carries(f, F, G, T)
  <2>1. ASSUME NEW i \in 1..Len(F)
        PROVE  \E b \in 1..Len(T) : \E s \in 1..Len(T[b].entries) :
                    SameData(f, F[i], G, T[b].entries[s])
    <3>1. i \in 1..n /\ i \in 1..Len(P)
      BY <1>4 DEF n
    <3>2. PICK b \in 1..nb : \E s \in 1..Len(PackedSlice(P, b)) : PackedSlice(P, b)[s] = P[i]
      BY <1>4, <1>5, <3>1, PackedCovers
    <3>3. b \in 1..Len(T) /\ T[b].entries = PackedSlice(P, b)
      BY <1>6
    <3>4. PICK s \in 1..Len(T[b].entries) : T[b].entries[s] = P[i]
      BY <3>2, <3>3, Zenon
    <3>5. SameData(f, F[i], G, T[b].entries[s])
      BY <1>24, <3>1, <3>4, Zenon
    <3> QED
      BY <3>3, <3>5, Zenon
  <2>2. ASSUME NEW b \in 1..Len(T), NEW s \in 1..Len(T[b].entries)
        PROVE  \E i \in 1..Len(F) : SameData(f, F[i], G, T[b].entries[s])
    <3> DEFINE x == (b - 1) * MaxEntries  t == PackedSlice(P, b)
    <3>1. b \in 1..nb /\ T[b].entries = t
      BY <1>6
    <3>2. SliceAt(t, P, x)
      BY <1>4, <1>5, <3>1, PackedSliceIs
    <3> HIDE DEF x, t
    <3>3. \A k \in 1..Len(t) : x + k \in 1..Len(P) /\ t[k] = P[x + k]
      BY <3>2 DEF SliceAt
    <3>4. x + s \in 1..n /\ T[b].entries[s] = P[x + s]
      BY <1>4, <3>1, <3>3, Zenon
    <3>5. SameData(f, F[x + s], G, T[b].entries[s])
      BY <1>24, <3>4, Zenon
    <3> QED
      BY <3>4, <3>5, Zenon DEF n
  <2> QED
    BY <2>1, <2>2, Zenon DEF Carries
<1>26. AlgoIs(T, algo)
  BY <1>6 DEF AlgoIs
<1> QED
  BY <1>21, <1>22, <1>23, <1>25, <1>26, Zenon DEF Repacked

\* compacted_image, in these terms.
Packing(C, f, head, algo, F, D, nb, P, T) ==
    /\ F \in Seq(C) /\ F = Entries(f, head) /\ D = DataOf(f, F) /\ nb = BlocksFor(Len(F))
    /\ P = PackedEntries(F, D, 1 + nb + Len(F)) /\ P \in Seq(C) /\ Len(P) = Len(F)
    /\ algo \in {"None", "Sha256"} /\ T = PackedTable(P, nb, algo)

LEMMA CompactedIs ==
    ASSUME NEW C, NEW f, NEW head, NEW algo, NEW F, NEW D, NEW nb, NEW P, NEW T,
           Packing(C, f, head, algo, F, D, nb, P, T)
    PROVE  CompactedImage(f, head, algo) = PackedFile(T, D)
<1> DEFINE n == Len(F)  ds == HeaderSize + nb * TableHeaderSize + n * EntrySize
           Q == PackedEntries(F, D, ds)
           sl(b) == SubSeq(Q, (b - 1) * MaxEntries + 1, Min({n, b * MaxEntries}))
           blk(s, next) == <<BlockCell(Len(s), next, algo, TableHash(algo, next, s))>> \o s
<1>0. /\ F \in Seq(C) /\ F = Entries(f, head) /\ D = DataOf(f, F) /\ nb = BlocksFor(n)
      /\ P = PackedEntries(F, D, 1 + nb + n) /\ P \in Seq(C) /\ Len(P) = n
      /\ algo \in {"None", "Sha256"} /\ T = PackedTable(P, nb, algo)
  BY Zenon DEF Packing
<1>1. n \in Nat /\ nb \in Nat \ {0} /\ Fills(Len(P), nb)
  <2>1. n \in Nat
    BY <1>0
  <2>2. Fills(n, nb)
    BY <1>0, <2>1, BlocksForFills
  <2> QED
    BY <1>0, <2>1, <2>2 DEF Fills
<1>2. CompactedImage(f, head, algo)
        = <<HeaderCell(HeaderSize)>>
            \o FlattenSeq([b \in 1..nb |-> blk(sl(b), PackedNext(nb, b))]) \o FlattenSeq(D)
  BY <1>0, Zenon DEF CompactedImage, PackedNext, PackedAt, DataOf, PackedEntries, PackedEntry, Upto
<1>3. Q = P
  <2>1. nb * 1 = nb /\ n * 1 = n
    BY <1>1
  <2>2. ds = 1 + nb + Len(F)
    BY <2>1, Zenon DEF HeaderSize, TableHeaderSize, EntrySize
  <2> QED
    BY <1>0, <2>2, Zenon
<1>4. /\ Len(T) = nb
      /\ \A b \in 1..nb : /\ T[b].algo = algo
                          /\ T[b].entries = PackedSlice(P, b) /\ Successor(T, b) = PackedNext(nb, b)
  BY <1>0, <1>1, PackedTableIs
<1>5. ASSUME NEW b \in 1..nb
      PROVE  blk(sl(b), PackedNext(nb, b)) = <<HeaderOf(T, b)>> \o T[b].entries
  <2>1. sl(b) = T[b].entries
    <3>1. sl(b) = PackedSlice(P, b)
      BY <1>0, <1>3, Zenon DEF PackedSlice
    <3> HIDE DEF sl
    <3> QED
      BY <1>4, <3>1, Zenon
  <2> HIDE DEF sl
  <2>2. blk(T[b].entries, PackedNext(nb, b)) = <<HeaderOf(T, b)>> \o T[b].entries
    BY <1>4, Zenon DEF HeaderOf
  <2> QED
    BY <2>1, <2>2, Zenon
<1> HIDE DEF blk, sl
<1>6. [b \in 1..nb |-> blk(sl(b), PackedNext(nb, b))] = CellsOf(T)
  BY <1>4, <1>5, Zenon DEF CellsOf
<1> QED
  BY <1>2, <1>6, Zenon DEF PackedFile

LEMMA Repacks ==
    ASSUME NEW C, NEW own, NEW B, NEW cap, Holds(C, own, B, cap), Compact,
           NEW L, L = FlattenSeq(Lists(B))
    PROVE  /\ \E E, own2, T : /\ Compacted(E, own2, file', T)
                              /\ RepackedTo(file, file', B, T, table_hash_algo)
           /\ Len(file') = PackedLen(Len(L), DataOf(file, L))
           /\ Forget /\ Image(file, own, data_eof, C, B, 0)
<1> DEFINE h == B[1].offset  F == FlattenSeq(Lists(B))  D == DataOf(file, F)  n == Len(F)
           nb == BlocksFor(n)  P == PackedEntries(F, D, 1 + nb + n)
           T == PackedTable(P, nb, table_hash_algo)  G == PackedFile(T, D)
<1>1. open = TRUE
  <2>1. open /\ (open \in BOOLEAN => open = TRUE)
    BY DEF Compact
  <2> QED
    BY <2>1
<1>2. /\ file \in Seq(C) /\ Zero \in C /\ Image(file, own, data_eof, C, B, 0)
      /\ table_head = h /\ table_hash_algo \in {"None", "Sha256"}
  BY <1>1, HandleFacts
<1>3. file' = CompactedImage(file, h, table_hash_algo) /\ Forget
  BY <1>2 DEF Compact
<1>4. F = Entries(file, h)
  BY HandleReads
<1>5. F \in Seq(C) /\ Live(file, own, data_eof, F)
  BY <1>2, ListedLive
<1>6. D = DataOf(file, F) /\ nb = BlocksFor(Len(F)) /\ P = PackedEntries(F, D, 1 + nb + Len(F))
      /\ T = PackedTable(P, nb, table_hash_algo) /\ G = PackedFile(T, D)
  OBVIOUS
<1> HIDE DEF F, D, nb, P, T, G, h
<1>11. L = F
  BY DEF F
<1>12. Repacked(file, F, G, T, D, table_hash_algo)
  BY <1>2, <1>5, <1>6, PackedImage, ZenonT(30)
<1>7. /\ \E E, own2 : Compacted(E, own2, G, T)
      /\ Small(T) /\ Len(G) = PackedLen(Len(F), D)
      /\ Carries(file, F, G, T) /\ AlgoIs(T, table_hash_algo)
  BY <1>12, Zenon DEF Repacked
<1>8. file' = G
  <2>1. DOMAIN P = 1..n /\ n \in Nat
    <3>1. DOMAIN P = 1..Len(F)
      BY <1>2, <1>5, <1>6, PackedAre
    <3> QED
      BY <1>5, <3>1
  <2> DEFINE K == C \cup {P[i] : i \in 1..n}
  <2>2. P \in Seq(K) /\ Len(P) = Len(F)
    <3>1. P = [i \in 1..n |-> P[i]]
      BY <1>6, Zenon DEF PackedEntries
    <3>2. \A i \in 1..n : P[i] \in K
      OBVIOUS
    <3> HIDE DEF K
    <3>3. P \in [1..n -> K]
      BY ONLY <3>1, <3>2
    <3> HIDE DEF n
    <3>4. P \in Seq(K) /\ Len(P) = n
      BY ONLY <2>1, <3>3
    <3> QED
      BY <3>4 DEF n
  <2>3. F \in Seq(K)
    <3>1. C \subseteq K
      OBVIOUS
    <3> HIDE DEF K
    <3> QED
      BY <1>5, <3>1
  <2> HIDE DEF K
  <2>4. CompactedImage(file, h, table_hash_algo) = PackedFile(T, D)
    <3>1. Packing(K, file, h, table_hash_algo, F, D, nb, P, T)
      BY <1>2, <1>4, <1>6, <2>2, <2>3, Zenon DEF Packing
    <3> QED
      BY <3>1, CompactedIs
  <2> QED
    BY <1>3, <1>6, <2>4, Zenon
<1>13. Moved(file, B, G, T)
  <2>1. B \in Tables(C) /\ DOMAIN F = 1..Len(F)
    BY <1>2, <1>5 DEF Image
  <2>3. F = FlattenSeq(Lists(B))
    BY DEF F
  <2>4. ASSUME NEW i \in 1..Len(B), NEW t \in 1..Len(B[i].entries)
        PROVE  \E b \in 1..Len(T) : \E s \in 1..Len(T[b].entries) :
                    SameData(file, B[i].entries[t], G, T[b].entries[s])
    <3>4. Occurs(FlattenSeq(Lists(B)), B[i].entries[t])
      BY <2>1, ListedOccurs
    <3>1. PICK x \in DOMAIN F : F[x] = B[i].entries[t]
      BY <2>3, <3>4, Zenon DEF Occurs
    <3>2. \E b \in 1..Len(T) : \E s \in 1..Len(T[b].entries) :
                SameData(file, F[x], G, T[b].entries[s])
      BY <1>7, <2>1, Zenon DEF Carries
    <3> QED
      BY <3>1, <3>2, Zenon
  <2>5. ASSUME NEW b \in 1..Len(T), NEW s \in 1..Len(T[b].entries)
        PROVE  \E i \in 1..Len(B) : \E t \in 1..Len(B[i].entries) :
                    SameData(file, B[i].entries[t], G, T[b].entries[s])
    <3>1. PICK x \in DOMAIN F : SameData(file, F[x], G, T[b].entries[s])
      BY <1>7, <2>1, Zenon DEF Carries
    <3>2. \E i \in 1..Len(B) : \E t \in 1..Len(B[i].entries) : F[x] = B[i].entries[t]
      BY <2>1, <2>3, ListedWhere
    <3> QED
      BY <3>1, <3>2, Zenon
  <2> QED
    BY <2>4, <2>5, Zenon DEF Moved
<1>14. RepackedTo(file, G, B, T, table_hash_algo)
  BY <1>7, <1>13, Zenon DEF RepackedTo
<1>9. \E E, own2, U : /\ Compacted(E, own2, file', U)
                     /\ RepackedTo(file, file', B, U, table_hash_algo)
  BY <1>7, <1>8, <1>14, Zenon
<1>10. Len(file') = PackedLen(Len(L), DataOf(file, L))
  BY <1>6, <1>7, <1>8, <1>11, Zenon
<1> QED
  BY <1>2, <1>3, <1>9, <1>10

LEMMA Compacts ==
    ASSUME NEW C, NEW own, NEW B, NEW cap, Holds(C, own, B, cap), Compact
    PROVE  CInv' /\ \E T : TableIn(file', T) /\ RepackedTo(file, file', B, T, table_hash_algo)
<1> DEFINE L == FlattenSeq(Lists(B))
<1>1. /\ \E E, own2, T : /\ Compacted(E, own2, file', T)
                          /\ RepackedTo(file, file', B, T, table_hash_algo)
      /\ Forget
  <2>1. L = FlattenSeq(Lists(B))
    OBVIOUS
  <2> HIDE DEF L
  <2> QED
    BY <2>1, Repacks
<1>2. PICK E, own2, T : /\ Compacted(E, own2, file', T)
                         /\ RepackedTo(file, file', B, T, table_hash_algo)
  BY <1>1
<1>3. /\ Zero \in E /\ file' \in Seq(E) /\ Image(file', own2, Len(file'), E, T, 0)
      /\ HeadIs(file', own2, T[1].offset)
  BY <1>2, Zenon DEF Compacted
<1>4. TableIn(file', T)
  BY <1>3, Zenon DEF TableIn
<1>5. CInv'
  BY <1>1, <1>3, Forgotten
<1> QED
  BY <1>2, <1>4, <1>5, Zenon

-----------------------------------------------------------------------------
(* Every step, and the theorems.                                           *)

\* What an edit of u from the file f to g makes of its table B, in each of its cases.
AddsIn(f, g, B, P, u, d) ==
    \E algo \in DataAlgos : \E e, i :
        e.uid = u /\ e.algo = algo /\ AddedTo(f, g, B, P, i, e, d)
Overflows(f, g, B, P, ta, u, d) ==
    \E algo \in DataAlgos : \E e, at :
        e.uid = u /\ e.algo = algo /\ OverflowedTo(f, g, B, P, ta, at, e, d)
UpdatesIn(f, g, B, P, u, d) ==
    \E k, s, x : x = Updated(B[k].entries[s], d) /\ UpdatedTo(f, g, B, P, u, k, s, x, d)
RemovesFrom(f, g, B, P, u) == \E k, s : RemovedFrom(f, g, B, P, u, k, s)

TableAdds(f, g, B, P) == \E u \in Uid, d \in Contents : AddsIn(f, g, B, P, u, d)
TableOverflows(f, g, B, P, ta) ==
    \E u \in Uid, d \in Contents : Overflows(f, g, B, P, ta, u, d)
TableUpdates(f, g, B, P) == \E u \in Uid, d \in Contents : UpdatesIn(f, g, B, P, u, d)
TableRemoves(f, g, B, P) == \E u \in Uid : RemovesFrom(f, g, B, P, u)

TableEdited(f, g, B, P, ta) ==
    \/ TableAdds(f, g, B, P) \/ TableOverflows(f, g, B, P, ta)
    \/ TableUpdates(f, g, B, P) \/ TableRemoves(f, g, B, P)
EditLeaves(f, g, B, ta) == \E P : TableIn(g, P) /\ TableEdited(f, g, B, P, ta)

\* What the writes ws of an edit for u, with the handle's list and cursor after them,
\* make of B.
PlanMakes(f, g, ws, bs, eof, B, ta, u) ==
    \E P : /\ Leaves(g, bs, eof, B, P) /\ TableEdited(f, g, B, P, ta)
           /\ Puts(f, ws, B, P, u) \/ Links(f, ws, B, P, u)
\* The same of one call: an addition, an update and a removal.
AddMakes(f, g, ws, bs, eof, B, ta, u, d) ==
    \E P : /\ Leaves(g, bs, eof, B, P)
           /\ \/ AddsIn(f, g, B, P, u, d) /\ Puts(f, ws, B, P, u)
              \/ Overflows(f, g, B, P, ta, u, d) /\ Links(f, ws, B, P, u)
UpdateMakes(f, g, ws, bs, eof, B, u, d) ==
    \E P : Leaves(g, bs, eof, B, P) /\ UpdatesIn(f, g, B, P, u, d) /\ Puts(f, ws, B, P, u)
RemoveMakes(f, g, ws, bs, eof, B, u) ==
    \E P : Leaves(g, bs, eof, B, P) /\ RemovesFrom(f, g, B, P, u) /\ Puts(f, ws, B, P, u)

LEMMA AddPlanHolds ==
    ASSUME NEW D, PlainContents(D), NEW C, NEW own, NEW B, NEW cap, Holds(C, own, B, cap),
           finalized = FALSE, NEW u \in Uid, NEW d \in Contents, NEW p \in AddPlans(u, d)
    PROVE  /\ open = TRUE
           /\ AddMakes(file, Apply(file, p.writes), p.writes, p.blocks, p.eof, B,
                       table_hash_algo, u, d)
<1> DEFINE g == Apply(file, p.writes)
           plans == {AddPlan(u, d, r, algo) : r \in Reserves, algo \in DataAlgos}
           fit == {x \in plans : x.eof <= MaxEof}
<1>1. Holds(C, own, B, cap)
  OBVIOUS
<1>7. AddPlans(u, d) = IF Editable /\ ~Located(u) THEN fit ELSE {}
  BY DEF AddPlans
<1>2. Editable /\ ~Located(u) /\ p \in fit
  <2> HIDE DEF fit
  <2> QED
    BY <1>7
<1>8. p \in plans
  <2> HIDE DEF plans
  <2> QED
    BY <1>2
<1>3. PICK r \in Reserves, algo \in DataAlgos : p = AddPlan(u, d, r, algo)
  BY <1>8
<1>9. ~Located(u)
  BY <1>2
<1>4. open = TRUE
  BY <1>2 DEF Editable
<1> HIDE DEF plans, fit
<1>10. NewEntry(u, d, r, algo).uid = u /\ NewEntry(u, d, r, algo).algo = algo
  BY DEF NewEntry, Entry
<1>5. CASE Roomy # {}
  <2>1. p = InPlacePlan(u, d, r, algo)
    BY <1>3, <1>5, Zenon DEF AddPlan
  <2>2. g = Apply(file, InPlacePlan(u, d, r, algo).writes)
        /\ p.blocks = InPlacePlan(u, d, r, algo).blocks
    BY <2>1, Zenon
  <2>3. \E i, P : /\ i = Min(Roomy)
                  /\ Leaves(g, p.blocks, InPlacePlan(u, d, r, algo).eof, B, P)
                  /\ AddedTo(file, g, B, P, i, NewEntry(u, d, r, algo), d)
                  /\ Puts(file, InPlacePlan(u, d, r, algo).writes, B, P, u)
    <3> HIDE DEF g
    <3> QED
      BY <1>1, <1>4, <1>5, <1>9, <2>2, AddsInPlace, ZenonT(60)
  <2>4. PICK P : /\ Leaves(g, p.blocks, p.eof, B, P) /\ AddsIn(file, g, B, P, u, d)
                 /\ Puts(file, p.writes, B, P, u)
    BY <1>10, <2>1, <2>3, Zenon DEF AddsIn
  <2> QED
    BY <1>4, <2>4, Zenon DEF AddMakes
<1>6. CASE ~(Roomy # {})
  <2>1. p = OverflowPlan(u, d, r, algo)
    BY <1>3, <1>6, Zenon DEF AddPlan
  <2>2. g = Apply(file, OverflowPlan(u, d, r, algo).writes)
        /\ p.blocks = OverflowPlan(u, d, r, algo).blocks
    BY <2>1, Zenon
  <2>3. \E P : /\ Leaves(g, p.blocks, OverflowPlan(u, d, r, algo).eof, B, P)
               /\ OverflowedTo(file, g, B, P, table_hash_algo, data_eof + Len(d) + r,
                               NewEntry(u, d, r, algo), d)
               /\ Links(file, OverflowPlan(u, d, r, algo).writes, B, P, u)
    <3> HIDE DEF g
    <3> QED
      BY <1>1, <1>4, <1>9, <2>2, AddsOverflow, ZenonT(60)
  <2>4. PICK P : /\ Leaves(g, p.blocks, p.eof, B, P)
                 /\ Overflows(file, g, B, P, table_hash_algo, u, d)
                 /\ Links(file, p.writes, B, P, u)
    BY <1>10, <2>1, <2>3, Zenon DEF Overflows
  <2> QED
    BY <1>4, <2>4, Zenon DEF AddMakes
<1> QED
  BY <1>5, <1>6, Zenon

LEMMA UpdatePlanHolds ==
    ASSUME NEW D, PlainContents(D), NEW C, NEW own, NEW B, NEW cap, Holds(C, own, B, cap),
           finalized = FALSE, NEW u \in Uid, NEW d \in Contents, NEW p \in UpdatePlans(u, d)
    PROVE  /\ open = TRUE
           /\ UpdateMakes(file, Apply(file, p.writes), p.writes, p.blocks, p.eof, B, u, d)
<1> DEFINE g == Apply(file, p.writes)
<1>2. /\ Editable /\ Located(u)
      /\ p \in {UpdatePlan(l, d) : l \in {x \in {Locate(u)} : Len(d) <= x.entry.max}}
  BY Zenon DEF UpdatePlans
<1>3. PICK l \in {Locate(u)} : Len(d) <= l.entry.max /\ p = UpdatePlan(l, d)
  BY <1>2
<1>4. open = TRUE
  BY <1>2 DEF Editable
<1> HIDE DEF g
<1>6. Len(d) <= Locate(u).entry.max /\ p = UpdatePlan(Locate(u), d)
  BY <1>3
<1>7. g = Apply(file, UpdatePlan(Locate(u), d).writes)
      /\ p.blocks = UpdatePlan(Locate(u), d).blocks
  BY <1>6, Zenon DEF g
<1>8. \E k, s, x, P : /\ Leaves(g, p.blocks, UpdatePlan(Locate(u), d).eof, B, P)
                      /\ x = Updated(B[k].entries[s], d)
                      /\ UpdatedTo(file, g, B, P, u, k, s, x, d)
                      /\ Puts(file, UpdatePlan(Locate(u), d).writes, B, P, u)
  BY <1>2, <1>4, <1>6, <1>7, Updates, ZenonT(60)
<1>9. PICK P : /\ Leaves(g, p.blocks, p.eof, B, P) /\ UpdatesIn(file, g, B, P, u, d)
               /\ Puts(file, p.writes, B, P, u)
  BY <1>6, <1>8, Zenon DEF UpdatesIn
<1> QED
  BY <1>4, <1>9, Zenon DEF UpdateMakes, g

LEMMA RemovePlanHolds ==
    ASSUME NEW D, PlainContents(D), NEW C, NEW own, NEW B, NEW cap, Holds(C, own, B, cap),
           finalized = FALSE, NEW u \in Uid, NEW p \in RemovePlans(u)
    PROVE  /\ open = TRUE
           /\ RemoveMakes(file, Apply(file, p.writes), p.writes, p.blocks, p.eof, B, u)
<1> DEFINE g == Apply(file, p.writes)
<1>2. Editable /\ Located(u) /\ p \in {RemovePlan(l) : l \in {Locate(u)}}
  BY Zenon DEF RemovePlans
<1>3. p = RemovePlan(Locate(u))
  BY <1>2, Zenon
<1>4. open = TRUE
  BY <1>2 DEF Editable
<1>5. g = Apply(file, RemovePlan(Locate(u)).writes) /\ p.blocks = RemovePlan(Locate(u)).blocks
  BY <1>3, Zenon
<1> HIDE DEF g
<1>6. \E k, s, P : /\ Leaves(g, p.blocks, RemovePlan(Locate(u)).eof, B, P)
                   /\ RemovedFrom(file, g, B, P, u, k, s)
                   /\ Puts(file, RemovePlan(Locate(u)).writes, B, P, u)
  BY <1>2, <1>4, <1>5, Removes, ZenonT(60)
<1>7. PICK P : /\ Leaves(g, p.blocks, p.eof, B, P) /\ RemovesFrom(file, g, B, P, u)
               /\ Puts(file, p.writes, B, P, u)
  BY <1>3, <1>6, Zenon DEF RemovesFrom
<1> QED
  BY <1>4, <1>7, Zenon DEF RemoveMakes, g

LEMMA PlanHolds ==
    ASSUME NEW D, PlainContents(D), NEW C, NEW own, NEW B, NEW cap, Holds(C, own, B, cap),
           finalized = FALSE, NEW u \in Uid, NEW p \in EditPlans(u)
    PROVE  /\ open = TRUE
           /\ PlanMakes(file, Apply(file, p.writes), p.writes, p.blocks, p.eof, B,
                        table_hash_algo, u)
<1>1. CASE \E d \in Contents : p \in AddPlans(u, d)
  BY <1>1, AddPlanHolds, Zenon DEF AddMakes, PlanMakes, TableEdited, TableAdds, TableOverflows
<1>2. CASE \E d \in Contents : p \in UpdatePlans(u, d)
  BY <1>2, UpdatePlanHolds, Zenon DEF UpdateMakes, PlanMakes, TableEdited, TableUpdates
<1>3. CASE p \in RemovePlans(u)
  BY <1>3, RemovePlanHolds, Zenon DEF RemoveMakes, PlanMakes, TableEdited, TableRemoves
<1> QED
  BY <1>1, <1>2, <1>3 DEF EditPlans

LEMMA EditHolds ==
    ASSUME NEW D, PlainContents(D), NEW C, NEW own, NEW B, NEW cap, Holds(C, own, B, cap),
           finalized = FALSE, Edit
    PROVE  CInv' /\ EditLeaves(file, file', B, table_hash_algo)
<1>1. PICK u \in Uid : \/ \E d \in Contents : AddPartition(u, d) \/ UpdatePartition(u, d)
                      \/ RemovePartition(u)
  BY DEF Edit
<1>2. PICK p \in EditPlans(u) : Perform(p)
  BY <1>1 DEF AddPartition, UpdatePartition, RemovePartition, EditPlans
<1> DEFINE g == Apply(file, p.writes)
<1>3. open = TRUE /\ PlanMakes(file, g, p.writes, p.blocks, p.eof, B, table_hash_algo, u)
  BY PlanHolds
<1>4. PICK P : Leaves(g, p.blocks, p.eof, B, P) /\ TableEdited(file, g, B, P, table_hash_algo)
  BY <1>3, Zenon DEF PlanMakes
<1>5. file' = g
  BY <1>2, Zenon DEF Perform
<1>6. CInv' /\ TableIn(file', P)
  BY <1>2, <1>3, <1>4, Edited, ZenonT(60)
<1> QED
  BY <1>4, <1>5, <1>6, Zenon DEF EditLeaves

\* The table that a step leaves: edited, repacked, or the one there was.
TableKept(f, g, B, P, ta) == RepackedTo(f, g, B, P, ta) \/ (P = B /\ DataStays(f, g, B, Nil))
KeepLeaves(f, g, B, ta) == \E P : TableIn(g, P) /\ TableKept(f, g, B, P, ta)
TableStep(f, g, B, P, ta) == TableEdited(f, g, B, P, ta) \/ TableKept(f, g, B, P, ta)
StepLeaves(f, g, B, ta) == \E P : TableIn(g, P) /\ TableStep(f, g, B, P, ta)

\* The calls of SafeNext that are no edit.
Upkeep == (~finalized /\ Materialised /\ Finalize) \/ (Materialised /\ Close) \/ Compact \/ Open

LEMMA UpkeepHolds ==
    ASSUME NEW D, PlainContents(D), NEW C, NEW own, NEW B, NEW cap, Holds(C, own, B, cap),
           Upkeep
    PROVE  CInv' /\ KeepLeaves(file, file', B, table_hash_algo)
<1>1. TableIn(file, B)
  BY HandleTable
<1>3. CASE ~finalized /\ Materialised /\ Finalize
  <2>1. open = TRUE
    <3>1. open /\ (open \in BOOLEAN => open = TRUE)
      BY <1>3 DEF Finalize
    <3> QED
      BY <3>1
  <2>2. CInv' /\ TableIn(file', B) /\ DataStays(file, file', B, Nil)
    BY <1>3, <2>1, Finalizes
  <2> QED
    BY <2>2, Zenon DEF KeepLeaves, TableKept
<1>8. ASSUME file' = file
      PROVE  KeepLeaves(file, file', B, table_hash_algo)
  <2>1. DataStays(file, file', B, Nil)
    BY <1>8, Zenon DEF DataStays
  <2> QED
    BY <1>1, <1>8, <2>1, Zenon DEF KeepLeaves, TableKept
<1>4. CASE Materialised /\ Close
  <2>1. CInv' /\ file' = file
    BY <1>4, Closes DEF Close
  <2> QED
    BY <1>8, <2>1
<1>5. CASE Compact
  <2>1. CInv' /\ \E T : TableIn(file', T) /\ RepackedTo(file, file', B, T, table_hash_algo)
    BY <1>5, Compacts
  <2> QED
    BY <2>1, Zenon DEF KeepLeaves, TableKept
<1>6. CASE Open
  <2>1. CInv' /\ file' = file
    BY <1>6, Opens DEF Open
  <2> QED
    BY <1>8, <2>1
<1> QED
  BY <1>3, <1>4, <1>5, <1>6, Zenon DEF Upkeep

LEMMA StepHolds ==
    ASSUME NEW D, PlainContents(D), NEW C, NEW own, NEW B, NEW cap, Holds(C, own, B, cap),
           [SafeNext]_vars
    PROVE  CInv' /\ StepLeaves(file, file', B, table_hash_algo)
<1>1. TableIn(file, B)
  BY HandleTable
<1>2. CASE ~finalized /\ Edit
  <2>1. finalized = FALSE
    BY <1>2
  <2>2. CInv' /\ EditLeaves(file, file', B, table_hash_algo)
    BY <1>2, <2>1, EditHolds, Zenon
  <2> QED
    BY <2>2, Zenon DEF EditLeaves, StepLeaves, TableStep
<1>3. CASE Upkeep
  <2>1. CInv' /\ KeepLeaves(file, file', B, table_hash_algo)
    BY <1>3, UpkeepHolds, Zenon
  <2> QED
    BY <2>1, Zenon DEF KeepLeaves, StepLeaves, TableStep
<1>7. CASE UNCHANGED vars
  <2>1. Holds(C, own, B, cap)' /\ file' = file
    BY <1>7 DEF Holds, HandleIs, Lim, vars, handle
  <2>2. CInv'
    BY <2>1, Zenon DEF CInv
  <2>3. DataStays(file, file', B, Nil)
    BY <2>1, Zenon DEF DataStays
  <2>4. TableIn(file', B)
    BY <1>1, <2>1
  <2> QED
    BY <2>2, <2>3, <2>4, Zenon DEF StepLeaves, TableStep, TableKept
<1> QED
  BY <1>2, <1>3, <1>7, Zenon DEF SafeNext, Upkeep

LEMMA CInvStep ==
    ASSUME NEW D, PlainContents(D), CInv, [SafeNext]_vars
    PROVE  CInv'
<1>1. PICK C, own, B, cap : Holds(C, own, B, cap)
  BY DEF CInv
<1> QED
  BY <1>1, StepHolds

LEMMA CInvAlways ==
    ASSUME NEW D, PlainContents(D)
    PROVE  SafeSpec => []CInv
<1>1. Init => CInv
  BY InitHolds
<1>2. CInv /\ [SafeNext]_vars => CInv'
  BY CInvStep
<1> QED
  BY <1>1, <1>2, PTL DEF SafeSpec

\* A file that the container wrote verifies after every operation, however many
\* partitions and blocks it has and in whatever order it was edited, published,
\* closed, reopened and compacted: header, chain, table hashes, entries and data
\* hashes (Container::verify).  The data must not contain what a reader takes for a
\* trailer; the byte sequence of one in the data of a partition is read as one.
THEOREM ContainerAlwaysVerifies ==
    ASSUME NEW D, PlainContents(D)
    PROVE  SafeSpec => []AlwaysVerifies
<1>1. CInv => AlwaysVerifies
  BY InvVerifies
<1>2. SafeSpec => []CInv
  BY CInvAlways
<1> QED
  BY <1>1, <1>2, PTL

\* What a handle remembers of the table (head, and offset, count, algorithm and next
\* pointer of each block) is what is on disk, for every sequence of operations.
THEOREM HandleAlwaysMatches ==
    ASSUME NEW D, PlainContents(D)
    PROVE  SafeSpec => []HandleMatchesDisk
<1>1. CInv => HandleMatchesDisk
  BY InvMatches
<1>2. SafeSpec => []CInv
  BY CInvAlways
<1> QED
  BY <1>1, <1>2, PTL

\* The same of the specification that TLC checks, whose steps are those of SafeSpec.
THEOREM CheckedContainer ==
    ASSUME NEW D, PlainContents(D)
    PROVE  MCSafeSpec => [](AlwaysVerifies /\ HandleMatchesDisk)
<1>1. MCInit => Init
  BY DEF MCInit
<1>2. [SafeNext /\ Observe]_mcvars => [SafeNext]_vars
  BY DEF mcvars
<1>3. CInv => AlwaysVerifies /\ HandleMatchesDisk
  BY InvVerifies, InvMatches
<1>4. SafeSpec => []CInv
  BY CInvAlways
<1> QED
  BY <1>1, <1>2, <1>3, <1>4, PTL DEF MCSafeSpec, SafeSpec

-----------------------------------------------------------------------------
(* A block never has more entries than MaxEntries.                         *)

CountsIn(bs) == \A i \in DOMAIN bs : bs[i].count <= MaxEntries

\* As the handle has it or, without one, as the next one will read it.
Counted == CountsIn(IF open THEN blocks ELSE BlocksOnDisk(file, ResolveHead(file)))

LEMMA InfosCount ==
    ASSUME NEW B, NEW cap
    PROVE  CountsIn(Infos(B, cap)) <=> Small(B)
<1>1. DOMAIN Infos(B, cap) = 1..Len(B)
  BY DEF Infos
<1>2. ASSUME NEW i \in 1..Len(B)
      PROVE  Infos(B, cap)[i].count = Len(B[i].entries)
  BY DEF Infos, BlockInfo
<1> QED
  BY <1>1, <1>2, Zenon DEF CountsIn, Small

LEMMA CountedIs ==
    ASSUME NEW C, NEW own, NEW B, NEW cap, Holds(C, own, B, cap)
    PROVE  Counted <=> Small(B)
<1>1. CASE open
  <2>1. blocks = Infos(B, cap)
    BY <1>1 DEF Holds, HandleIs
  <2> QED
    BY <1>1, <2>1, InfosCount, Zenon DEF Counted
<1>2. CASE ~open
  <2>1. ResolveHead(file) = B[1].offset
    BY HandleReads
  <2>2. BlocksOnDisk(file, ResolveHead(file)) = Infos(B, Full(B))
    BY <2>1, OnDisk
  <2> QED
    BY <1>2, <2>2, InfosCount, Zenon DEF Counted
<1> QED
  BY <1>1, <1>2

LEMMA CountedInit == Init => Counted
<1> SUFFICES ASSUME Init
             PROVE  Counted
  OBVIOUS
<1>1. PICK cap, algo : open = TRUE /\ blocks = <<BlockInfo(HeaderSize, cap, 0, algo, 0)>>
  BY DEF Init
<1>2. DOMAIN blocks = {1} /\ blocks[1] = BlockInfo(HeaderSize, cap, 0, algo, 0)
  BY <1>1
<1>3. blocks[1].count = 0
  BY <1>2 DEF BlockInfo
<1>4. CountsIn(blocks)
  BY <1>2, <1>3, ContainerAssumption DEF CountsIn
<1> QED
  BY <1>1, <1>4 DEF Counted

\* The guard of add_partition, the new block with one entry, and a removal.
LEMMA CountedEdit ==
    ASSUME CInv, Counted, Edit
    PROVE  Counted'
<1>1. PICK C, own, B, cap : Holds(C, own, B, cap)
  BY DEF CInv
<1>2. PICK u \in Uid : \/ \E d \in Contents : AddPartition(u, d) \/ UpdatePartition(u, d)
                      \/ RemovePartition(u)
  BY DEF Edit
<1>3. Editable
  BY <1>2 DEF AddPartition, UpdatePartition, RemovePartition, AddPlans, UpdatePlans, RemovePlans
<1>4. open /\ (open \in BOOLEAN => open = TRUE)
  BY <1>3 DEF Editable
<1>5. open = TRUE /\ Small(B) /\ CountsIn(blocks)
  BY <1>1, <1>4, CountedIs DEF Counted
<1> DEFINE n == Len(B)  M == MaxEntries
<1>6. /\ n \in Nat /\ n >= 1 /\ B \in Tables(C) /\ DOMAIN blocks = 1..n /\ Len(blocks) = n
      /\ \A i \in 1..n : blocks[i] = BlockInfo(B[i].offset, cap[i], Len(B[i].entries),
                                               B[i].algo, Successor(B, i))
  <2>1. /\ n \in Nat /\ n >= 1 /\ B \in Tables(C)
    BY <1>1, HandleReads
  <2>2. 1 \in 1..n
    BY <2>1
  <2>3. DOMAIN blocks = 1..n /\ Len(blocks) = n
    BY <1>1, <1>5, <2>2, InfoIs
  <2>4. \A i \in 1..n : blocks[i] = BlockInfo(B[i].offset, cap[i], Len(B[i].entries),
                                               B[i].algo, Successor(B, i))
    BY <1>1, <1>5, InfoIs
  <2> QED
    BY <2>1, <2>3, <2>4
<1>7. M \in Nat \ {0}
  BY ContainerAssumption
<1>8. ASSUME NEW i \in 1..n
      PROVE  Len(B[i].entries) \in Nat /\ blocks[i].count = Len(B[i].entries)
  <2>1. Lists(B) \in Seq(Seq(C)) /\ Len(Lists(B)) = n /\ Lists(B)[i] = B[i].entries
    BY <1>6, ListsType
  <2>2. B[i].entries \in Seq(C)
    <3> DEFINE S == Seq(C)
    <3>1. Lists(B) \in Seq(S)
      BY <2>1
    <3> HIDE DEF S
    <3>2. B[i].entries \in S
      BY <2>1, <3>1
    <3> QED
      BY <3>2 DEF S
  <2> QED
    BY <1>6, <2>2 DEF BlockInfo
<1>9. SUFFICES CountsIn(blocks') /\ open' = open
  BY <1>4 DEF Counted
<1>10. ASSUME NEW p, Perform(p), CountsIn(p.blocks)
       PROVE  CountsIn(blocks') /\ open' = open
  BY <1>10 DEF Perform
<1>11. ASSUME NEW i \in 1..n, NEW k \in Nat, k <= M, NEW cs, cs = [blocks EXCEPT ![i].count = k]
       PROVE  CountsIn(cs)
  <2> DEFINE off == B[i].offset  cp == cap[i]  c == Len(B[i].entries)  al == B[i].algo
             nx == Successor(B, i)
  <2>1. blocks[i] = BlockInfo(off, cp, c, al, nx) /\ c \in Nat
    BY <1>6, <1>8
  <2> HIDE DEF off, cp, c, al, nx
  <2>2. [blocks[i] EXCEPT !.count = k] = BlockInfo(off, cp, k, al, nx)
    BY <2>1 DEF BlockInfo
  <2> DEFINE r == BlockInfo(off, cp, k, al, nx)
  <2>3. cs = [blocks EXCEPT ![i] = r]
    BY <1>11, <2>2
  <2>4. r.count = k
    BY DEF BlockInfo
  <2> HIDE DEF r
  <2>5. DOMAIN cs = 1..n /\ \A j \in 1..n : cs[j] = IF j = i THEN r ELSE blocks[j]
    BY <1>6, <2>3
  <2>6. \A j \in 1..n : cs[j].count <= M
    BY <1>5, <1>6, <1>11, <2>4, <2>5 DEF CountsIn
  <2> QED
    BY <2>5, <2>6 DEF CountsIn
<1>12. ASSUME NEW d \in Contents, AddPartition(u, d)
       PROVE  CountsIn(blocks') /\ open' = open
  <2>1. PICK p \in AddPlans(u, d) : Perform(p)
    BY <1>12 DEF AddPartition
  <2> DEFINE plans == {AddPlan(u, d, r, algo) : r \in Reserves, algo \in DataAlgos}
             fit == {x \in plans : x.eof <= MaxEof}
  <2>2. AddPlans(u, d) = IF Editable /\ ~Located(u) THEN fit ELSE {}
    BY DEF AddPlans
  <2>3. p \in fit
    <3> HIDE DEF fit
    <3> QED
      BY <2>1, <2>2
  <2>4. p \in plans
    <3> HIDE DEF plans
    <3> QED
      BY <2>3
  <2>5. PICK r \in Reserves, algo \in DataAlgos : p = AddPlan(u, d, r, algo)
    BY <2>4
  <2> HIDE DEF plans, fit
  <2>6. CASE Roomy # {}
    <3> DEFINE i == Min(Roomy)
    <3>1. i \in Roomy
      <4>1. Roomy \in SUBSET Nat
        BY <1>6 DEF Roomy
      <4> QED
        BY <2>6, <4>1, MinOfNat
    <3>2. i \in 1..n /\ blocks[i].count < M
      BY <1>6, <3>1 DEF Roomy
    <3>3. p.blocks = [blocks EXCEPT ![i].count = @ + 1]
      BY <2>5, <2>6 DEF AddPlan, InPlacePlan
    <3> HIDE DEF i
    <3> DEFINE c == blocks[i].count  k == c + 1
    <3>7. c \in Nat
      BY <1>8, <3>2
    <3>5. p.blocks = [blocks EXCEPT ![i].count = k]
      BY <3>3
    <3> HIDE DEF c
    <3>4. k \in Nat /\ k <= M
      BY <1>7, <3>2, <3>7 DEF c
    <3> HIDE DEF k
    <3>6. CountsIn(p.blocks)
      BY <1>11, <3>2, <3>4, <3>5
    <3> QED
      BY <1>10, <2>1, <3>6
  <2>7. CASE Roomy = {}
    <3> DEFINE x == data_eof + Len(d) + r  cp == clamp(default_capacity, 1, MaxEntries)
               l == Linked(blocks, x)  y == BlockInfo(x, cp, 1, table_hash_algo, 0)
    <3>1. p.blocks = Append(l, y)
      BY <2>5, <2>7, Zenon DEF AddPlan, OverflowPlan
    <3> HIDE DEF x, cp
    <3>2. y.count = 1
      BY DEF BlockInfo
    <3> HIDE DEF y
    <3>3. l = [blocks EXCEPT ![n].next = x]
      BY <1>6 DEF Linked
    <3> HIDE DEF l
    <3>4. DOMAIN l = 1..n /\ \A j \in 1..n : l[j] = IF j = n THEN [blocks[n] EXCEPT !.next = x] ELSE blocks[j]
      BY <1>6, <3>3
    <3>5. [blocks[n] EXCEPT !.next = x].count = blocks[n].count
      <4> DEFINE off == B[n].offset  c0 == cap[n]  c == Len(B[n].entries)  al == B[n].algo
                 nx == Successor(B, n)
      <4>1. blocks[n] = BlockInfo(off, c0, c, al, nx)
        BY <1>6
      <4> HIDE DEF off, c0, c, al, nx
      <4> QED
        BY <4>1 DEF BlockInfo
    <3>6. \A j \in 1..n : l[j].count <= M
      BY <1>5, <1>6, <3>4, <3>5 DEF CountsIn
    <3>7. Len(l) = n
      BY <1>6, <3>4
    <3>8. DOMAIN p.blocks = 1..(n + 1)
          /\ \A j \in 1..(n + 1) : p.blocks[j] = IF j <= n THEN l[j] ELSE y
      BY <1>6, <3>1, <3>7
    <3>9. \A j \in 1..(n + 1) : p.blocks[j].count <= M
      BY <1>6, <1>7, <3>2, <3>6, <3>8
    <3>10. CountsIn(p.blocks)
      BY <3>8, <3>9 DEF CountsIn
    <3> QED
      BY <1>10, <2>1, <3>10
  <2> QED
    BY <2>6, <2>7
<1>13. ASSUME NEW d \in Contents, UpdatePartition(u, d)
       PROVE  CountsIn(blocks') /\ open' = open
  <2>1. PICK p \in UpdatePlans(u, d) : Perform(p)
    BY <1>13 DEF UpdatePartition
  <2> DEFINE ls == {x \in {Locate(u)} : Len(d) <= x.entry.max}
  <2>3. p \in {UpdatePlan(l, d) : l \in ls}
    BY <2>1, Zenon DEF UpdatePlans
  <2> HIDE DEF ls
  <2>4. PICK l \in ls : p = UpdatePlan(l, d)
    BY <2>3
  <2> DEFINE b == blocks[l.block]  e == Updated(l.entry, d)
             w == WriteCells(l.entry.start, d)
             W == w \o WriteBlock(b.offset, b.next, b.algo,
                            [EntriesAt(Apply(file, w), b.offset) EXCEPT ![l.slot] = e])
  <2>5. p = [writes |-> W, blocks |-> blocks, eof |-> data_eof]
    BY <2>4, Zenon DEF UpdatePlan
  <2> HIDE DEF W
  <2>2. p.blocks = blocks
    BY <2>5
  <2> QED
    BY <1>5, <1>10, <2>1, <2>2
<1>14. CASE RemovePartition(u)
  <2>1. PICK p \in RemovePlans(u) : Perform(p)
    BY <1>14 DEF RemovePartition
  <2>2. Located(u) /\ p = RemovePlan(Locate(u))
    BY <2>1, Zenon DEF RemovePlans
  <2> DEFINE i == Locate(u).block
  <2>3. p.blocks = [blocks EXCEPT ![i].count = @ - 1]
    BY <2>2 DEF RemovePlan
  <2>4. i \in 1..n /\ Len(B[i].entries) >= 1
    <3>1. PICK j \in 1..n : \E s \in 1..Len(B[j].entries) : B[j].entries[s].uid = u
      BY <1>1, <1>5, <2>2, LocatedIs
    <3>2. PICK s \in 1..Len(B[j].entries) : B[j].entries[s].uid = u
      BY <3>1
    <3>3. Locate(u) = [block |-> j, slot |-> s, entry |-> B[j].entries[s]]
      BY <1>1, <1>5, <3>2, LocateIs
    <3>4. i = j
      BY <3>3
    <3>5. Len(B[j].entries) \in Nat
      BY <1>8
    <3> HIDE DEF i
    <3>6. Len(B[j].entries) >= 1
      BY <3>2, <3>5
    <3> QED
      BY <3>4, <3>6
  <2> HIDE DEF i
  <2> DEFINE c == blocks[i].count  k == c - 1
  <2>8. c \in Nat /\ c >= 1 /\ c <= M
    <3>1. c <= M
      BY <1>5, <1>6, <2>4 DEF CountsIn
    <3>2. c = Len(B[i].entries) /\ c \in Nat
      BY <1>8, <2>4
    <3> QED
      BY <2>4, <3>1, <3>2
  <2>6. p.blocks = [blocks EXCEPT ![i].count = k]
    BY <2>3
  <2> HIDE DEF c
  <2>5. k \in Nat /\ k <= M
    BY <1>7, <2>8
  <2> HIDE DEF k
  <2>7. CountsIn(p.blocks)
    BY <1>11, <2>4, <2>5, <2>6
  <2> QED
    BY <1>10, <2>1, <2>7
<1> QED
  BY <1>2, <1>12, <1>13, <1>14

LEMMA CountedNext ==
    (\A C, own, B, cap : Holds(C, own, B, cap) => (Counted <=> Small(B)))'
<1>1. \A C, own, B, cap : Holds(C, own, B, cap) => (Counted <=> Small(B))
  BY CountedIs
<1> QED
  BY <1>1, PTL

LEMMA CountedStep ==
    ASSUME CInv, Counted, [SafeNext]_vars
    PROVE  Counted'
<1>1. PICK C, own, B, cap : Holds(C, own, B, cap)
  BY DEF CInv
<1>2. Small(B)
  BY <1>1, CountedIs
<1>3. CASE Edit
  BY <1>3, CountedEdit
<1>4. CASE Finalize
  BY <1>4 DEF Finalize, Counted
<1>5. CASE Close
  <2>1. file' = file /\ open' = FALSE
    BY <1>5 DEF Close, Forget
  <2>2. BlocksOnDisk(file, ResolveHead(file)) = Infos(B, Full(B))
    <3>1. ResolveHead(file) = B[1].offset
      BY <1>1, HandleReads
    <3> QED
      BY <1>1, <3>1, OnDisk
  <2>3. CountsIn(BlocksOnDisk(file, ResolveHead(file)))
    BY <1>2, <2>2, InfosCount
  <2> QED
    BY <2>1, <2>3, Zenon DEF Counted
<1>6. CASE Open
  BY <1>6 DEF Open, Counted
<1>7. CASE Compact
  <2> DEFINE L == FlattenSeq(Lists(B))
  <2>1. /\ \E E, own2, T : /\ Compacted(E, own2, file', T)
                            /\ RepackedTo(file, file', B, T, table_hash_algo)
        /\ Forget
    <3>1. L = FlattenSeq(Lists(B))
      OBVIOUS
    <3> HIDE DEF L
    <3> QED
      BY <1>1, <1>7, <3>1, Repacks
  <2>2. PICK E, own2, T : Compacted(E, own2, file', T) /\ Small(T)
    BY <2>1, Zenon DEF RepackedTo
  <2>3. Holds(E, own2, T, <<>>)'
    <3>1. open' = FALSE /\ finalized' = FALSE
      BY <2>1 DEF Forget
    <3>2. Lim' = Len(file')
      BY <3>1 DEF Lim
    <3> QED
      BY <2>2, <3>1, <3>2 DEF Holds, Compacted
  <2>4. (Counted <=> Small(T))'
    BY <2>3, CountedNext
  <2> QED
    BY <2>2, <2>4 DEF Small
<1>8. CASE UNCHANGED vars
  BY <1>8 DEF Counted, vars, handle
<1> QED
  BY <1>3, <1>4, <1>5, <1>6, <1>7, <1>8 DEF SafeNext

-----------------------------------------------------------------------------
(* A compacted file is not longer.  Each of its cells stands for a cell of *)
(* the old file, and no two for the same: that is a matter of owners.      *)

LEMMA BlocksForFew ==
    ASSUME NEW n \in Nat, NEW r \in Nat \ {0}, n <= r * MaxEntries
    PROVE  BlocksFor(n) \in 1..r
<1> DEFINE M == MaxEntries  q == BlocksFor(n)
<1>1. M \in Nat \ {0}
  BY ContainerAssumption
<1>2. q \in Nat \ {0}
  BY BlocksForFills DEF Fills
<1>3. CASE n = 0
  BY <1>2, <1>3 DEF BlocksFor
<1>4. CASE n # 0
  <2>1. q = (n + M - 1) \div M
    BY <1>4 DEF BlocksFor
  <2> HIDE DEF M, q
  <2>2. n + M - 1 \in Nat
    BY <1>1
  <2>3. q * M <= n + M - 1
    BY <1>1, <2>1, <2>2, DivIs
  <2>4. ASSUME r < q
        PROVE  FALSE
    <3>1. (q - 1) * M \in Int /\ (r - 1) * M + M <= (q - 1) * M
      BY <1>1, <1>2, <2>4, Strides
    <3>2. (r - 1) * M + M = r * M /\ (q - 1) * M = q * M - M /\ r * M \in Nat /\ q * M \in Nat
      BY <1>1, <1>2
    <3> DEFINE x == r * M  y == q * M
    <3>3. x \in Nat /\ y \in Nat /\ x <= y - M /\ y <= n + M - 1 /\ n <= x
      BY <2>3, <3>1, <3>2 DEF M
    <3> HIDE DEF x, y
    <3> QED
      BY <1>1, <3>3
  <2>5. ~(r < q)
    BY <2>4
  <2>6. q \in 1..r
    BY <1>2, <2>5
  <2> QED
    BY <2>6 DEF q
<1> QED
  BY <1>3, <1>4

LEMMA TagsApart ==
    /\ \A x, y : OfBlock(x) = OfBlock(y) => x = y
    /\ \A u, v : OfPart(u) = OfPart(v) => u = v
    /\ \A x, u : OfBlock(x) # OfPart(u) /\ OfBlock(x) # OfHeader /\ OfPart(u) # OfHeader
BY DEF OfBlock, OfPart, OfHeader

LEMMA ImageCounts ==
    ASSUME NEW C, NEW f \in Seq(C), NEW own, NEW lim, NEW B, Image(f, own, lim, C, B, 0),
           NEW h, HeadIs(f, own, h), Small(B), NEW F, F = FlattenSeq(Lists(B)),
           NEW D, D = DataOf(f, F)
    PROVE  PackedLen(Len(F), D) <= Len(f)
<1> DEFINE n == Len(F)  r == Len(B)  nb == BlocksFor(n)  dl == Len(FlattenSeq(D))  m == Len(f)
           L == Lists(B)
<1>1. /\ B \in Tables(C) /\ r >= 1 /\ BlocksApart(B)
  BY DEF Image
<1>2. /\ L \in Seq(Seq(C)) /\ Len(L) = r /\ r \in Nat \ {0}
      /\ \A i \in 1..r : L[i] = B[i].entries
  <2>1. L \in Seq(Seq(C)) /\ Len(L) = r /\ r \in Nat /\ \A i \in 1..r : L[i] = B[i].entries
    BY <1>1, ListsType
  <2> QED
    BY <1>1, <2>1
<1>3. F \in Seq(C) /\ n \in Nat /\ m \in Nat /\ m > 0 /\ Live(f, own, lim, F)
  <2>1. F \in Seq(C) /\ Live(f, own, lim, F)
    BY ListedLive
  <2> QED
    BY <2>1 DEF HeadIs
<1>4. F = FlattenSeq(L)
  OBVIOUS
<1>5. ASSUME NEW i \in 1..r
      PROVE  /\ B[i].offset \in Nat \ {0} /\ Len(B[i].entries) \in Nat
             /\ B[i].offset + Len(B[i].entries) < m
             /\ \A o \in B[i].offset..(B[i].offset + Len(B[i].entries)) :
                    own[o] = OfBlock(B[i].offset)
  <2> DEFINE x == B[i].offset  es == B[i].entries  e == Len(es)
  <2>1. BlockHeld(f, own, x, Successor(B, i), B[i].algo, es) /\ es \in Seq(C)
    BY BlockOf
  <2>2. x \in Nat \ {0} /\ x + e < m /\ Owned(own, OfBlock(x), x, e + 1) /\ e \in Nat
    BY <2>1 DEF BlockHeld
  <2> HIDE DEF x, e
  <2>3. x + (e + 1) - 1 = x + e
    BY <2>2
  <2>4. \A o \in x..(x + e) : own[o] = OfBlock(x)
    BY <2>2, <2>3, Zenon DEF Owned
  <2> QED
    BY <2>2, <2>4 DEF x, e
<1> HIDE DEF L
<1>6. nb \in 1..r /\ nb \in Nat
  <2>1. MaxEntries \in Nat
    BY ContainerAssumption
  <2>2. \A i \in 1..Len(L) : Len(L[i]) <= MaxEntries
    BY <1>2 DEF Small
  <2>3. n <= r * MaxEntries
    BY <1>2, <1>4, <2>1, <2>2, FlattenFew
  <2> HIDE DEF n
  <2>4. nb \in 1..r
    BY <1>2, <1>3, <2>3, BlocksForFew
  <2> QED
    BY <1>2, <2>4
<1>7. /\ D \in Seq(Seq(C)) /\ Len(D) = n /\ dl \in Nat
      /\ \A i \in 1..n : /\ Len(D[i]) = F[i].used /\ EntryHeld(f, own, lim, F[i])
  <2>1. ASSUME NEW i \in 1..n
        PROVE  D[i] \in Seq(C) /\ Len(D[i]) = F[i].used /\ EntryHeld(f, own, lim, F[i])
    <3>1. EntryHeld(f, own, lim, F[i])
      BY <1>3 DEF Live, AllHeld
    <3>2. D[i] = ReadData(f, F[i])
      BY DEF DataOf
    <3> QED
      BY <3>1, <3>2, DataRead
  <2> DEFINE S == Seq(C)
  <2>2. D = [i \in 1..n |-> D[i]]
    BY Zenon DEF DataOf
  <2>3. \A i \in 1..n : D[i] \in S
    BY <2>1
  <2> HIDE DEF S, n
  <2>4. D \in [1..n -> S]
    BY ONLY <2>2, <2>3
  <2>5. D \in Seq(S) /\ Len(D) = n
    BY ONLY <1>3, <2>4
  <2>6. FlattenSeq(D) \in Seq(C)
    BY <2>5, FlattenType DEF S
  <2> QED
    BY <2>1, <2>5, <2>6 DEF S
<1> HIDE DEF n, r, nb, dl, m
<1>8. \E S : Sized(S, nb) /\ \A o \in S : \E i \in 1..r : o = B[i].offset
  <2> DEFINE K == [x \in 1..r |-> B[x].offset]  S == {K[x] : x \in 1..nb}
  <2>1. 1..nb \subseteq 1..r
    BY <1>2, <1>6
  <2>2. \A x \in 1..nb : K[x] = B[x].offset
    BY <2>1
  <2>3. \A x, y \in 1..r : B[x].offset = B[y].offset => x = y
    BY <1>1 DEF BlocksApart, r
  <2>4. Distinct(K, nb)
    BY <2>1, <2>2, <2>3 DEF Distinct
  <2> HIDE DEF K
  <2>5. Sized(S, nb)
    BY <1>6, <2>4, DistinctSize
  <2>6. \A o \in S : \E i \in 1..r : o = B[i].offset
    BY <2>1, <2>2
  <2> HIDE DEF S
  <2> QED
    BY <2>5, <2>6
<1>9. \E S : Sized(S, n) /\ \A o \in S : \E i \in 1..r : \E s \in 1..Len(B[i].entries) :
                o = B[i].offset + s
  <2> DEFINE st == [i \in 1..r |-> B[i].offset]  tag == [i \in 1..r |-> OfBlock(B[i].offset)]
  <2>1. \A i \in 1..r : st[i] = B[i].offset /\ tag[i] = OfBlock(B[i].offset)
    OBVIOUS
  <2> HIDE DEF st, tag
  <2>2. ASSUME NEW i \in 1..r, NEW s \in 1..Len(L[i])
        PROVE  own[st[i] + s] = tag[i]
    <3> DEFINE x == B[i].offset  e == Len(B[i].entries)
    <3>1. x \in Nat /\ e \in Nat /\ (\A o \in x..(x + e) : own[o] = OfBlock(x)) /\ s \in 1..e
      BY <1>2, <1>5
    <3> HIDE DEF x, e
    <3>2. x + s \in x..(x + e)
      BY <3>1
    <3>3. own[x + s] = OfBlock(x)
      BY <3>1, <3>2
    <3> QED
      BY <2>1, <3>3 DEF x
  <2>3. Tagged(own, L, st, tag)
    <3>1. \A i \in 1..r : st[i] \in Int
      BY <1>5, <2>1
    <3>2. \A i \in 1..r : st[i] \in Int /\ \A s \in 1..Len(L[i]) : own[st[i] + s] = tag[i]
      BY <2>2, <3>1, Zenon
    <3> QED
      BY <1>2, <3>2, Zenon DEF Tagged
  <2>4. Distinct(tag, Len(L))
    <3>1. \A x, y \in 1..r : B[x].offset = B[y].offset => x = y
      BY <1>1 DEF BlocksApart, r
    <3>2. ASSUME NEW x \in 1..r, NEW y \in 1..r, tag[x] = tag[y]
          PROVE  x = y
      <4>1. OfBlock(B[x].offset) = OfBlock(B[y].offset)
        BY <2>1, <3>2
      <4>2. B[x].offset = B[y].offset
        BY <4>1, TagsApart
      <4> QED
        BY <3>1, <4>2
    <3> QED
      BY <1>2, <3>2, Zenon DEF Distinct
  <2>5. \E S : Sized(S, n) /\ RegionCells(S, L, st)
    BY <1>2, <1>4, <2>3, <2>4, RegionsSize DEF n
  <2>6. PICK S : Sized(S, n) /\ RegionCells(S, L, st)
    BY <2>5
  <2>7. \A o \in S : \E i \in 1..r : \E s \in 1..Len(B[i].entries) : o = B[i].offset + s
    BY <1>2, <2>1, <2>6 DEF RegionCells
  <2> QED
    BY <2>6, <2>7
<1>10. \E S : Sized(S, dl) /\ \A o \in S : o \in 0..(m - 1) /\ \E u : own[o] = OfPart(u)
  <2> DEFINE st == [i \in 1..n |-> F[i].start - 1]  tag == [i \in 1..n |-> OfPart(F[i].uid)]
  <2>1. \A i \in 1..n : st[i] = F[i].start - 1 /\ tag[i] = OfPart(F[i].uid)
    OBVIOUS
  <2> HIDE DEF st, tag
  <2>2. ASSUME NEW i \in 1..n, NEW s \in 1..Len(D[i])
        PROVE  own[st[i] + s] = tag[i] /\ st[i] + s \in 0..(m - 1)
    <3> DEFINE x == F[i].start  e == F[i].used  z == F[i].max
    <3>1. EntryHeld(f, own, lim, F[i]) /\ s \in 1..e /\ st[i] = x - 1 /\ tag[i] = OfPart(F[i].uid)
      BY <1>7, <2>1
    <3>2. /\ x \in Nat /\ z \in Nat /\ e \in 0..z /\ (e > 0 => x + e <= m)
          /\ Owned(own, OfPart(F[i].uid), x, z)
      BY <3>1 DEF EntryHeld, m
    <3> HIDE DEF x, e, z
    <3>3. st[i] + s \in x..(x + z - 1) /\ st[i] + s \in 0..(m - 1)
      BY <1>3, <3>1, <3>2
    <3>4. own[st[i] + s] = OfPart(F[i].uid)
      BY <3>2, <3>3, Zenon DEF Owned
    <3> QED
      BY <3>1, <3>3, <3>4
  <2>3. Tagged(own, D, st, tag)
    <3>1. ASSUME NEW i \in 1..n
          PROVE  st[i] \in Int
      <4>1. F[i].start \in Nat
        BY <1>7 DEF EntryHeld
      <4> QED
        BY <2>1, <4>1
    <3> QED
      BY <1>7, <2>2, <3>1 DEF Tagged
  <2>4. Distinct(tag, Len(D))
    <3>1. \A x, y \in 1..n : F[x].uid = F[y].uid => x = y
      BY <1>3 DEF Live, UidsOnce, n
    <3>2. ASSUME NEW x \in 1..n, NEW y \in 1..n, tag[x] = tag[y]
          PROVE  x = y
      <4>1. OfPart(F[x].uid) = OfPart(F[y].uid)
        BY <2>1, <3>2
      <4>2. F[x].uid = F[y].uid
        BY <4>1, TagsApart
      <4> QED
        BY <3>1, <4>2
    <3>3. Len(D) = n
      BY <1>7
    <3> QED
      BY <3>2, <3>3, Zenon DEF Distinct
  <2>5. \E S : Sized(S, dl) /\ RegionCells(S, D, st)
    BY <1>7, <2>3, <2>4, RegionsSize DEF dl
  <2>6. PICK S : Sized(S, dl) /\ RegionCells(S, D, st)
    BY <2>5
  <2>7. ASSUME NEW o \in S
        PROVE  o \in 0..(m - 1) /\ \E u : own[o] = OfPart(u)
    <3>1. PICK i \in 1..n : \E s \in 1..Len(D[i]) : o = st[i] + s
      BY <1>7, <2>6 DEF RegionCells
    <3>2. PICK s \in 1..Len(D[i]) : o = st[i] + s
      BY <3>1
    <3> QED
      BY <2>1, <2>2, <3>2
  <2> QED
    BY <2>6, <2>7
<1>11. PICK S1 : Sized(S1, nb) /\ \A o \in S1 : \E i \in 1..r : o = B[i].offset
  BY <1>8
<1>12. PICK S2 : Sized(S2, n) /\ \A o \in S2 : \E i \in 1..r : \E s \in 1..Len(B[i].entries) :
                    o = B[i].offset + s
  BY <1>9
<1>13. PICK S3 : Sized(S3, dl) /\ \A o \in S3 : o \in 0..(m - 1) /\ \E u : own[o] = OfPart(u)
  BY <1>10
<1>14. Sized({0}, 1) /\ own[0] = OfHeader
  <2>1. own[0] = OfHeader
    BY DEF HeadIs
  <2> QED
    BY <2>1, FS_Singleton DEF Sized
<1>15. ASSUME NEW o \in S1
       PROVE  own[o] = OfBlock(o) /\ o \in 0..(m - 1)
  <2>1. PICK i \in 1..r : o = B[i].offset
    BY <1>11
  <2> DEFINE e == Len(B[i].entries)
  <2>2. /\ o \in Nat /\ e \in Nat /\ o + e < m /\ \A x \in o..(o + e) : own[x] = OfBlock(o)
    BY <1>5, <2>1
  <2> HIDE DEF e
  <2> QED
    BY <1>3, <2>2
<1>16. ASSUME NEW o \in S2
       PROVE  /\ o \in 0..(m - 1) /\ \E x : x # o /\ own[o] = OfBlock(x)
  <2>1. PICK i \in 1..r : \E s \in 1..Len(B[i].entries) : o = B[i].offset + s
    BY <1>12
  <2>2. PICK s \in 1..Len(B[i].entries) : o = B[i].offset + s
    BY <2>1
  <2> DEFINE e == Len(B[i].entries)  x == B[i].offset
  <2>3. /\ x \in Nat /\ e \in Nat /\ x + e < m /\ \A y \in x..(x + e) : own[y] = OfBlock(x)
        /\ s \in 1..e /\ o = x + s
    BY <1>5, <2>2
  <2> HIDE DEF e, x
  <2>4. o \in 0..(m - 1) /\ x # o /\ o \in x..(x + e)
    BY <1>3, <2>3
  <2> QED
    BY <2>3, <2>4
<1>17. Sized(S1 \cup S2, nb + n)
  <2>1. \A o \in S1 : o \notin S2
    BY <1>15, <1>16, TagsApart
  <2> QED
    BY <1>3, <1>6, <1>11, <1>12, <2>1, UnionSize
<1>18. Sized((S1 \cup S2) \cup S3, (nb + n) + dl)
  <2>1. \A o \in S1 \cup S2 : o \notin S3
    BY <1>13, <1>15, <1>16, TagsApart
  <2>2. nb + n \in Nat
    BY <1>3, <1>6
  <2> QED
    BY <1>7, <1>13, <1>17, <2>1, <2>2, UnionSize
<1> DEFINE S == {0} \cup ((S1 \cup S2) \cup S3)  k == (nb + n) + dl
<1>19. Sized(S, 1 + k)
  <2>1. \A o \in {0} : o \notin (S1 \cup S2) \cup S3
    BY <1>13, <1>14, <1>15, <1>16, TagsApart
  <2>2. k \in Nat /\ 1 \in Nat
    BY <1>3, <1>6, <1>7
  <2> HIDE DEF k
  <2> QED
    BY <1>14, <1>18, <2>1, <2>2, UnionSize DEF k
<1>20. S \subseteq 0..(m - 1)
  BY <1>3, <1>13, <1>15, <1>16
<1>21. 1 + k <= m
  <2>1. 1 + k \in Nat
    BY <1>3, <1>6, <1>7
  <2> HIDE DEF k, S
  <2> QED
    BY <1>3, <1>19, <1>20, <2>1, SizeWithin
<1>22. PackedLen(Len(F), D) = 1 + nb + n + dl
  BY Zenon DEF PackedLen, n, nb, dl
<1> QED
  BY <1>3, <1>6, <1>7, <1>21, <1>22 DEF m

LEMMA CompactedShorter ==
    ASSUME CInv, Counted, Compact
    PROVE  Len(file') <= Len(file)
<1>1. PICK C, own, B, cap : Holds(C, own, B, cap)
  BY DEF CInv
<1> DEFINE L == FlattenSeq(Lists(B))  D == DataOf(file, L)
<1>2. /\ L = FlattenSeq(Lists(B)) /\ D = DataOf(file, L)
  OBVIOUS
<1> HIDE DEF L, D
<1>3. Len(file') = PackedLen(Len(L), D) /\ Image(file, own, data_eof, C, B, 0)
  BY <1>1, <1>2, Repacks
<1>4. file \in Seq(C) /\ HeadIs(file, own, B[1].offset)
  BY <1>1 DEF Holds
<1>5. Small(B)
  BY <1>1, CountedIs
<1>6. PackedLen(Len(L), D) <= Len(file)
  BY <1>2, <1>3, <1>4, <1>5, ImageCounts
<1> QED
  BY <1>3, <1>6

\* Compaction never lengthens a file: its cells are as many as those that the
\* header, the live entries, their data and some of the blocks had, each of which
\* had a place of its own in the file (CompactionShrinks).
THEOREM CompactingShrinks ==
    ASSUME NEW D, PlainContents(D)
    PROVE  MCSafeSpec => CompactionShrinks
<1>1. MCInit => Init
  BY DEF MCInit
<1>2. [SafeNext /\ Observe]_mcvars => [SafeNext]_vars
  BY DEF mcvars
<1>3. Init => CInv /\ Counted
  BY InitHolds, CountedInit
<1>4. CInv /\ Counted /\ [SafeNext]_vars => CInv' /\ Counted'
  BY CInvStep, CountedStep
<1>5. CInv /\ Counted => [Compact => Len(file') <= Len(file)]_vars
  BY CompactedShorter
<1> QED
  BY <1>1, <1>2, <1>3, <1>4, <1>5, PTL DEF MCSafeSpec, CompactionShrinks

\* What the run stores is plain.
LEMMA RunIsPlain ==
    ASSUME Contents = MCContents
    PROVE  \E D : PlainContents(D)
<1> DEFINE x == Byte(a)  D == {x}
<1>1. x.t = "byte"
  BY DEF Byte
<1> HIDE DEF x
<1>2. <<>> \in Seq(D) /\ <<x>> \in Seq(D) /\ Untrailed(<<>>) /\ Untrailed(<<x>>)
  BY <1>1 DEF Untrailed
<1>3. \A d \in Contents : d = <<>> \/ d = <<x>>
  BY DEF MCContents, x
<1>4. PlainContents(D)
  BY <1>2, <1>3 DEF PlainContents
<1> QED
  BY <1>4

LEMMA CrashRunIsPlain ==
    ASSUME Contents = CrashContents
    PROVE  \E D : PlainContents(D)
<1> DEFINE x == [t |-> "byte", v |-> d1]  y == [t |-> "byte", v |-> d2]  D == {x, y}
<1>1. x.t = "byte" /\ y.t = "byte" /\ Contents = {<<x>>, <<y>>}
  BY DEF CrashContents
<1> HIDE DEF x, y
<1>2. <<x>> \in Seq(D) /\ <<y>> \in Seq(D) /\ Untrailed(<<x>>) /\ Untrailed(<<y>>)
  BY <1>1 DEF Untrailed
<1>3. PlainContents(D)
  BY <1>1, <1>2 DEF PlainContents
<1> QED
  BY <1>3

-----------------------------------------------------------------------------
(* What the application sees of a file: the contents of every partition.   *)

\* The table B in f has the partition v, with the contents x.
Stored(f, B, v, x) ==
    \E i \in 1..Len(B) : \E s \in 1..Len(B[i].entries) :
        B[i].entries[s].uid = v /\ ReadData(f, B[i].entries[s]) = x

\* The tables B and P have the same entries, but for u's.
OthersIn(B, P, u) ==
    \A j \in 1..Len(B) : \A t \in 1..Len(B[j].entries) : B[j].entries[t].uid # u =>
        \E i \in 1..Len(P) : \E s \in 1..Len(P[i].entries) : P[i].entries[s] = B[j].entries[t]
OthersStay(B, P, u) == OthersIn(B, P, u) /\ OthersIn(P, B, u)

\* u's contents become d, or u goes; the other partitions keep their contents.
Others(f, g, B, P, u) == \A v, x : v # u => (Stored(g, P, v, x) <=> Stored(f, B, v, x))
OnlyStored(g, P, u, d) == \A x : Stored(g, P, u, x) <=> x = d
Gains(f, g, B, P, u, d) == Others(f, g, B, P, u) /\ OnlyStored(g, P, u, d)
Loses(f, g, B, P, u) == Others(f, g, B, P, u) /\ \A x : ~Stored(g, P, u, x)

LEMMA OthersStored ==
    ASSUME NEW f, NEW g, NEW B, NEW P, NEW u, DataStays(f, g, B, u), OthersStay(B, P, u)
    PROVE  Others(f, g, B, P, u)
<1>1. ASSUME NEW v, NEW x, v # u, Stored(g, P, v, x)
      PROVE  Stored(f, B, v, x)
  <2>1. PICK i \in 1..Len(P) : \E s \in 1..Len(P[i].entries) :
            P[i].entries[s].uid = v /\ ReadData(g, P[i].entries[s]) = x
    BY <1>1, Zenon DEF Stored
  <2>2. PICK s \in 1..Len(P[i].entries) :
            P[i].entries[s].uid = v /\ ReadData(g, P[i].entries[s]) = x
    BY <2>1
  <2>3. PICK j \in 1..Len(B) : \E t \in 1..Len(B[j].entries) : B[j].entries[t] = P[i].entries[s]
    BY <1>1, <2>2, Zenon DEF OthersStay, OthersIn
  <2>4. PICK t \in 1..Len(B[j].entries) : B[j].entries[t] = P[i].entries[s]
    BY <2>3
  <2>5. ReadData(g, B[j].entries[t]) = ReadData(f, B[j].entries[t])
    BY <1>1, <2>2, <2>4, Zenon DEF DataStays
  <2> QED
    BY <2>2, <2>4, <2>5, Zenon DEF Stored
<1>2. ASSUME NEW v, NEW x, v # u, Stored(f, B, v, x)
      PROVE  Stored(g, P, v, x)
  <2>1. PICK i \in 1..Len(B) : \E s \in 1..Len(B[i].entries) :
            B[i].entries[s].uid = v /\ ReadData(f, B[i].entries[s]) = x
    BY <1>2, Zenon DEF Stored
  <2>2. PICK s \in 1..Len(B[i].entries) :
            B[i].entries[s].uid = v /\ ReadData(f, B[i].entries[s]) = x
    BY <2>1
  <2>3. PICK j \in 1..Len(P) : \E t \in 1..Len(P[j].entries) : P[j].entries[t] = B[i].entries[s]
    BY <1>2, <2>2, Zenon DEF OthersStay, OthersIn
  <2>4. PICK t \in 1..Len(P[j].entries) : P[j].entries[t] = B[i].entries[s]
    BY <2>3
  <2>5. ReadData(g, B[i].entries[s]) = ReadData(f, B[i].entries[s])
    BY <1>2, <2>2, Zenon DEF DataStays
  <2> QED
    BY <2>2, <2>4, <2>5, Zenon DEF Stored
<1> QED
  BY <1>1, <1>2, Zenon DEF Others

\* A table has one entry with a UID, and so one contents for it.
LEMMA OneStored ==
    ASSUME NEW g, NEW P, UidsApart(P), NEW i \in 1..Len(P), NEW s \in 1..Len(P[i].entries),
           NEW e, e = P[i].entries[s], NEW u, e.uid = u, NEW d, d = ReadData(g, e)
    PROVE  OnlyStored(g, P, u, d)
<1>1. ASSUME NEW x, Stored(g, P, u, x)
      PROVE  x = d
  <2>1. PICK j \in 1..Len(P) : \E t \in 1..Len(P[j].entries) :
            P[j].entries[t].uid = u /\ ReadData(g, P[j].entries[t]) = x
    BY <1>1, Zenon DEF Stored
  <2>2. PICK t \in 1..Len(P[j].entries) :
            P[j].entries[t].uid = u /\ ReadData(g, P[j].entries[t]) = x
    BY <2>1
  <2>3. j = i /\ t = s
    <3>1. P[j].entries[t].uid = P[i].entries[s].uid
      BY <2>2
    <3> QED
      BY ONLY UidsApart(P), <3>1, i \in 1..Len(P), j \in 1..Len(P), s \in 1..Len(P[i].entries),
         t \in 1..Len(P[j].entries) DEF UidsApart
  <2> QED
    BY <2>2, <2>3, Zenon
<1>2. Stored(g, P, u, d)
  BY Zenon DEF Stored
<1> QED
  BY <1>1, <1>2, Zenon DEF OnlyStored

LEMMA TableUids ==
    ASSUME NEW f, NEW B, TableIn(f, B)
    PROVE  UidsApart(B) /\ (\E C : B \in Tables(C)) /\ Len(B) \in Nat
           /\ \A i \in 1..Len(B) : \A s \in 1..Len(B[i].entries) :
                B[i].entries[s].uid \in Uid /\ IsEntry(B[i].entries[s])
<1>1. PICK C, own, lim : f \in Seq(C) /\ Image(f, own, lim, C, B, 0) /\ HeadIs(f, own, B[1].offset)
  BY DEF TableIn
<1>2. B \in Tables(C) /\ UidsApart(B)
  BY <1>1 DEF Image
<1>3. Len(B) \in Nat
  BY <1>2 DEF Tables
<1>4. ASSUME NEW i \in 1..Len(B), NEW s \in 1..Len(B[i].entries)
      PROVE  B[i].entries[s].uid \in Uid /\ IsEntry(B[i].entries[s])
  <2>1. EntryHeld(f, own, lim, B[i].entries[s])
    BY <1>1, EntryOf
  <2> QED
    BY <2>1, Zenon DEF EntryHeld
<1> QED
  BY <1>2, <1>3, <1>4

\* add_partition into a block with room.
LEMMA AddGains ==
    ASSUME NEW f, NEW g, NEW B, NEW P, NEW i, NEW e, NEW d, TableIn(f, B), TableIn(g, P),
           AddedTo(f, g, B, P, i, e, d), NEW u, e.uid = u
    PROVE  Gains(f, g, B, P, u, d) /\ Unused(B, u)
<1> DEFINE fs == B[i].entries  m == Len(fs)  es == Append(fs, e)  n == m + 1
<1>1. /\ i \in 1..Len(B) /\ P = Put(B, i, es) /\ DataStays(f, g, B, u) /\ ReadData(g, e) = d
  BY DEF AddedTo
<1>2. PICK C : B \in Tables(C)
  BY TableUids
<1> DEFINE E == C \cup {e}
<1>3. B \in Tables(E)
  BY <1>2, TablesGrow
<1>4. fs \in Seq(E) /\ m \in Nat /\ e \in E
  <2>1. e \in E
    OBVIOUS
  <2> HIDE DEF E
  <2>2. Lists(B) \in Seq(Seq(E)) /\ Len(Lists(B)) = Len(B) /\ Lists(B)[i] = fs
    BY <1>1, <1>3, ListsType
  <2> DEFINE S == Seq(E)  L == Lists(B)
  <2>3. L \in Seq(S) /\ i \in 1..Len(L) /\ L[i] = fs
    BY <1>1, <2>2
  <2> HIDE DEF S, L, fs
  <2>4. fs \in S
    BY <2>3
  <2> QED
    BY <2>1, <2>4 DEF S, m
<1> HIDE DEF E, fs
<1>5. /\ es \in Seq(E) /\ Len(es) = n /\ es[n] = e
      /\ \A t \in 1..m : es[t] = fs[t]
  BY <1>4
<1> HIDE DEF m
<1>6. n \in 1..n /\ (\A t \in 1..n : t = n \/ t \in 1..m) /\ (\A t \in 1..m : t \in 1..n /\ t # n)
  BY <1>4
<1> HIDE DEF es, n
<1>7. /\ Len(P) = Len(B)
      /\ \A j \in 1..Len(B) : P[j].entries = IF j = i THEN es ELSE B[j].entries
  BY <1>1, <1>3, <1>5, PutIs
<1>8. ASSUME NEW j \in 1..Len(B), NEW t \in 1..Len(B[j].entries)
      PROVE  t \in 1..Len(P[j].entries) /\ P[j].entries[t] = B[j].entries[t] /\ ~(j = i /\ t = n)
  <2>1. CASE j = i
    BY <1>5, <1>6, <1>7, <2>1, Zenon DEF fs, m
  <2>2. CASE j # i
    BY <1>7, <2>2, Zenon
  <2> QED
    BY <2>1, <2>2
<1>9. ASSUME NEW j \in 1..Len(P), NEW t \in 1..Len(P[j].entries)
      PROVE  \/ j = i /\ t = n /\ P[j].entries[t] = e
             \/ j \in 1..Len(B) /\ t \in 1..Len(B[j].entries) /\ P[j].entries[t] = B[j].entries[t]
  <2>1. CASE j = i
    BY <1>5, <1>6, <1>7, <2>1, Zenon DEF fs, m
  <2>2. CASE j # i
    BY <1>7, <2>2, Zenon
  <2> QED
    BY <2>1, <2>2
<1>10. i \in 1..Len(P) /\ n \in 1..Len(P[i].entries) /\ P[i].entries[n] = e
  BY <1>1, <1>5, <1>6, <1>7, Zenon
<1>11. UidsApart(P)
  BY TableUids
<1>12. Unused(B, u)
  <2>1. ASSUME NEW j \in 1..Len(B), NEW t \in 1..Len(B[j].entries), B[j].entries[t].uid = u
        PROVE  FALSE
    <3>1. /\ j \in 1..Len(P) /\ t \in 1..Len(P[j].entries)
          /\ P[j].entries[t].uid = P[i].entries[n].uid /\ ~(j = i /\ t = n)
      BY <1>7, <1>8, <1>10, <2>1, Zenon
    <3> QED
      BY <1>10, <1>11, <3>1, Zenon DEF UidsApart
  <2> QED
    BY <2>1, Zenon DEF Unused
<1>13. OthersIn(B, P, u)
  BY <1>7, <1>8, Zenon DEF OthersIn
<1>14. OthersIn(P, B, u)
  BY <1>9, Zenon DEF OthersIn
<1>15. Others(f, g, B, P, u)
  BY <1>1, <1>13, <1>14, OthersStored DEF OthersStay
<1>16. OnlyStored(g, P, u, d)
  BY <1>1, <1>10, <1>11, OneStored
<1> QED
  BY <1>12, <1>15, <1>16, Zenon DEF Gains

LEMMA GrownRows ==
    ASSUME NEW C, NEW B \in Tables(C), NEW r, NEW P, P = Grown(B, r), NEW n, n = Len(B) + 1
    PROVE  /\ Len(P) = n /\ n \in 1..n /\ P[n] = r
           /\ \A j \in 1..Len(B) : j \in 1..n /\ j # n /\ P[j] = B[j]
           /\ \A j \in 1..n : j = n \/ j \in 1..Len(B)
<1> DEFINE R == [offset : Nat \ {0}, algo : {"None", "Sha256"}, entries : Seq(C)]
           S == R \cup {r}
<1>1. B \in Seq(R)
  BY DEF Tables
<1>2. R \subseteq S /\ r \in S
  OBVIOUS
<1> HIDE DEF R, S
<1>3. B \in Seq(S) /\ Len(B) \in Nat
  BY <1>1, <1>2
<1>4. P = Append(B, r)
  BY Zenon DEF Grown
<1>5. Len(P) = n /\ P[n] = r /\ \A j \in 1..Len(B) : P[j] = B[j]
  BY <1>2, <1>3, <1>4
<1>6. /\ n \in 1..n /\ (\A j \in 1..Len(B) : j \in 1..n /\ j # n)
      /\ \A j \in 1..n : j = n \/ j \in 1..Len(B)
  BY <1>3
<1> QED
  BY <1>5, <1>6

\* add_partition with a new overflow block.
LEMMA OverflowGains ==
    ASSUME NEW f, NEW g, NEW B, NEW P, NEW ta, NEW at, NEW e, NEW d, TableIn(f, B),
           TableIn(g, P), OverflowedTo(f, g, B, P, ta, at, e, d), NEW u, e.uid = u
    PROVE  Gains(f, g, B, P, u, d) /\ Unused(B, u)
<1> DEFINE r == ExtendedRow(at, ta, <<e>>)  n == Len(B) + 1
<1>1. P = Grown(B, r) /\ DataStays(f, g, B, u) /\ ReadData(g, e) = d
  BY DEF OverflowedTo
<1>2. PICK C : B \in Tables(C)
  BY TableUids
<1>3. r.entries = <<e>>
  BY DEF ExtendedRow
<1>4. 1 \in 1..Len(<<e>>) /\ <<e>>[1] = e /\ \A t \in 1..Len(<<e>>) : t = 1
  OBVIOUS
<1> HIDE DEF r
<1>5. /\ Len(P) = n /\ n \in 1..n /\ P[n] = r
      /\ \A j \in 1..Len(B) : j \in 1..n /\ j # n /\ P[j] = B[j]
      /\ \A j \in 1..n : j = n \/ j \in 1..Len(B)
  BY <1>1, <1>2, GrownRows
<1> HIDE DEF n
<1>6. n \in 1..Len(P) /\ 1 \in 1..Len(P[n].entries) /\ e = P[n].entries[1]
  BY <1>3, <1>4, <1>5, Zenon
<1>7. UidsApart(P)
  BY TableUids
<1>8. OnlyStored(g, P, u, d)
  BY <1>1, <1>6, <1>7, OneStored
<1>9. Unused(B, u)
  <2>1. ASSUME NEW j \in 1..Len(B), NEW t \in 1..Len(B[j].entries), B[j].entries[t].uid = u
        PROVE  FALSE
    <3>1. /\ j \in 1..Len(P) /\ t \in 1..Len(P[j].entries)
          /\ P[j].entries[t].uid = P[n].entries[1].uid /\ j # n
      BY <1>5, <1>6, <2>1, Zenon
    <3> QED
      BY ONLY <1>6, <1>7, <3>1 DEF UidsApart
  <2> QED
    BY <2>1, Zenon DEF Unused
<1>10. OthersIn(B, P, u)
  BY <1>5, Zenon DEF OthersIn
<1>11. OthersIn(P, B, u)
  <2>1. ASSUME NEW j \in 1..Len(P), NEW t \in 1..Len(P[j].entries), P[j].entries[t].uid # u
        PROVE  \E i \in 1..Len(B) : \E s \in 1..Len(B[i].entries) :
                    B[i].entries[s] = P[j].entries[t]
    <3>1. j # n
      BY <1>3, <1>4, <1>5, <2>1, Zenon
    <3> QED
      BY <1>5, <3>1, Zenon
  <2> QED
    BY <2>1, Zenon DEF OthersIn
<1>12. Others(f, g, B, P, u)
  BY <1>1, <1>10, <1>11, OthersStored DEF OthersStay
<1> QED
  BY <1>8, <1>9, <1>12, Zenon DEF Gains

\* update_partition_data.
LEMMA UpdateGains ==
    ASSUME NEW f, NEW g, NEW B, NEW P, NEW u, NEW k, NEW s, NEW x, NEW d, TableIn(f, B),
           TableIn(g, P), UpdatedTo(f, g, B, P, u, k, s, x, d), x = Updated(B[k].entries[s], d)
    PROVE  Gains(f, g, B, P, u, d) /\ \E y : Stored(f, B, u, y)
<1> DEFINE fs == B[k].entries  m == Len(fs)  es == [fs EXCEPT ![s] = x]
<1>1. /\ k \in 1..Len(B) /\ s \in 1..m /\ fs[s].uid = u /\ P = Put(B, k, es)
      /\ DataStays(f, g, B, u) /\ ReadData(g, x) = d
  BY DEF UpdatedTo
<1>2. PICK C : B \in Tables(C)
  BY TableUids
<1>3. x.uid = u
  <2>1. IsEntry(fs[s])
    BY <1>1, TableUids
  <2> HIDE DEF fs, es, m
  <2> QED
    BY <1>1, <2>1, UpdatedIs DEF fs
<1> DEFINE E == C \cup {x}
<1>4. B \in Tables(E)
  BY <1>2, TablesGrow
<1>5. fs \in Seq(E) /\ m \in Nat /\ x \in E
  <2>1. x \in E
    OBVIOUS
  <2> HIDE DEF E
  <2>2. Lists(B) \in Seq(Seq(E)) /\ Len(Lists(B)) = Len(B) /\ Lists(B)[k] = fs
    BY <1>1, <1>4, ListsType
  <2> DEFINE S == Seq(E)  L == Lists(B)
  <2>3. L \in Seq(S) /\ k \in 1..Len(L) /\ L[k] = fs
    BY <1>1, <2>2
  <2> HIDE DEF S, L, fs
  <2>4. fs \in S
    BY <2>3
  <2> QED
    BY <2>1, <2>4 DEF S, m
<1> HIDE DEF E, fs
<1>6. /\ es \in Seq(E) /\ Len(es) = m /\ es[s] = x
      /\ \A t \in 1..m : t # s => es[t] = fs[t]
  BY <1>1, <1>5
<1> HIDE DEF m, es
<1>7. /\ Len(P) = Len(B)
      /\ \A j \in 1..Len(B) : P[j].entries = IF j = k THEN es ELSE B[j].entries
  BY <1>1, <1>4, <1>6, PutIs
<1>8. k \in 1..Len(P) /\ s \in 1..Len(P[k].entries) /\ x = P[k].entries[s]
  BY <1>1, <1>6, <1>7, Zenon
<1>9. ASSUME NEW j \in 1..Len(B), NEW t \in 1..Len(B[j].entries)
      PROVE  t \in 1..Len(P[j].entries) /\ (P[j].entries[t] = B[j].entries[t] \/ (j = k /\ t = s))
  <2>1. CASE j = k
    BY <1>6, <1>7, <2>1, Zenon DEF fs, m
  <2>2. CASE j # k
    BY <1>7, <2>2, Zenon
  <2> QED
    BY <2>1, <2>2
<1>10. ASSUME NEW j \in 1..Len(P), NEW t \in 1..Len(P[j].entries)
       PROVE  /\ j \in 1..Len(B) /\ t \in 1..Len(B[j].entries)
              /\ P[j].entries[t] = B[j].entries[t] \/ (j = k /\ t = s)
  <2>1. CASE j = k
    BY <1>6, <1>7, <2>1, Zenon DEF fs, m
  <2>2. CASE j # k
    BY <1>7, <2>2, Zenon
  <2> QED
    BY <2>1, <2>2
<1>11. UidsApart(P)
  BY TableUids
<1>12. OnlyStored(g, P, u, d)
  BY <1>1, <1>3, <1>8, <1>11, OneStored
<1>13. OthersIn(B, P, u)
  <2>1. ASSUME NEW j \in 1..Len(B), NEW t \in 1..Len(B[j].entries), B[j].entries[t].uid # u
        PROVE  \E i \in 1..Len(P) : \E z \in 1..Len(P[i].entries) :
                    P[i].entries[z] = B[j].entries[t]
    <3>1. ~(j = k /\ t = s)
      BY <1>1, <2>1, Zenon DEF fs
    <3> QED
      BY <1>7, <1>9, <3>1, Zenon
  <2> QED
    BY <2>1, Zenon DEF OthersIn
<1>14. OthersIn(P, B, u)
  <2>1. ASSUME NEW j \in 1..Len(P), NEW t \in 1..Len(P[j].entries), P[j].entries[t].uid # u
        PROVE  \E i \in 1..Len(B) : \E z \in 1..Len(B[i].entries) :
                    B[i].entries[z] = P[j].entries[t]
    <3>1. ~(j = k /\ t = s)
      BY <1>3, <1>8, <2>1, Zenon
    <3> QED
      BY <1>10, <3>1, Zenon
  <2> QED
    BY <2>1, Zenon DEF OthersIn
<1>15. Others(f, g, B, P, u)
  BY <1>1, <1>13, <1>14, OthersStored DEF OthersStay
<1>16. \E y : Stored(f, B, u, y)
  BY <1>1, Zenon DEF Stored, fs, m
<1> QED
  BY <1>12, <1>15, <1>16, Zenon DEF Gains

\* remove_partition.
LEMMA RemoveLoses ==
    ASSUME NEW f, NEW g, NEW B, NEW P, NEW u, NEW k, NEW s, TableIn(f, B),
           TableIn(g, P), RemovedFrom(f, g, B, P, u, k, s)
    PROVE  Loses(f, g, B, P, u) /\ \E y : Stored(f, B, u, y)
<1> DEFINE fs == B[k].entries  m == Len(fs)  es == RemoveAt(fs, s)
<1>1. /\ k \in 1..Len(B) /\ s \in 1..m /\ fs[s].uid = u /\ P = Put(B, k, es)
      /\ DataStays(f, g, B, u)
  BY DEF RemovedFrom
<1>2. PICK C : B \in Tables(C)
  BY TableUids
<1>3. UidsApart(B)
  BY TableUids
<1>4. fs \in Seq(C) /\ m \in Nat
  <2>1. Lists(B) \in Seq(Seq(C)) /\ Len(Lists(B)) = Len(B) /\ Lists(B)[k] = fs
    BY <1>1, <1>2, ListsType
  <2> DEFINE S == Seq(C)  L == Lists(B)
  <2>2. L \in Seq(S) /\ k \in 1..Len(L) /\ L[k] = fs
    BY <1>1, <2>1
  <2> HIDE DEF S, L, fs
  <2>3. fs \in S
    BY <2>2
  <2> QED
    BY <2>3 DEF S, m
<1> HIDE DEF fs
<1>5. Without(C, es, fs, s)
  BY <1>1, <1>4, RemovedIs
<1> HIDE DEF es
<1>6. /\ es \in Seq(C) /\ Len(es) = m - 1
      /\ \A t \in 1..Len(es) : es[t] = IF t < s THEN fs[t] ELSE fs[t + 1]
  BY <1>5 DEF Without
<1>7. /\ Len(P) = Len(B)
      /\ \A j \in 1..Len(B) : P[j].entries = IF j = k THEN es ELSE B[j].entries
  BY <1>1, <1>2, <1>6, PutIs
<1>8. ASSUME NEW t \in 1..m, t # s
      PROVE  \E z \in 1..Len(es) : es[z] = fs[t]
  <2>1. CASE t < s
    <3>1. t \in 1..Len(es) /\ es[t] = fs[t]
      BY <1>1, <1>4, <1>6, <2>1
    <3> QED
      BY <3>1
  <2>2. CASE ~(t < s)
    <3>1. t - 1 \in 1..Len(es) /\ ~(t - 1 < s) /\ (t - 1) + 1 = t
      BY <1>1, <1>4, <1>6, <1>8, <2>2
    <3>2. es[t - 1] = fs[(t - 1) + 1]
      BY <1>6, <3>1
    <3>3. es[t - 1] = fs[t]
      BY <3>1, <3>2, Zenon
    <3> QED
      BY <3>1, <3>3, Zenon
  <2> QED
    BY <2>1, <2>2
<1>9. ASSUME NEW z \in 1..Len(es)
      PROVE  \E t \in 1..m : t # s /\ es[z] = fs[t]
  <2>1. CASE z < s
    <3>1. z \in 1..m /\ z # s /\ es[z] = fs[z]
      BY <1>1, <1>4, <1>6, <2>1
    <3> QED
      BY <3>1
  <2>2. CASE ~(z < s)
    <3>1. z + 1 \in 1..m /\ z + 1 # s
      BY <1>1, <1>4, <1>6, <2>2
    <3>2. es[z] = fs[z + 1]
      BY <1>6, <2>2
    <3> QED
      BY <3>1, <3>2, Zenon
  <2> QED
    BY <2>1, <2>2
<1> HIDE DEF m
<1>10. OthersIn(B, P, u)
  <2>1. ASSUME NEW j \in 1..Len(B), NEW t \in 1..Len(B[j].entries), B[j].entries[t].uid # u
        PROVE  \E i \in 1..Len(P) : \E z \in 1..Len(P[i].entries) :
                    P[i].entries[z] = B[j].entries[t]
    <3>1. CASE j = k
      <4>1. t \in 1..m /\ t # s
        BY <1>1, <2>1, <3>1, Zenon DEF fs, m
      <4>2. PICK z \in 1..Len(es) : es[z] = fs[t]
        BY <1>8, <4>1
      <4>3. P[j].entries = es /\ j \in 1..Len(P) /\ B[j].entries = fs
        BY <1>7, <3>1, Zenon DEF fs
      <4> QED
        BY <4>2, <4>3, Zenon
    <3>2. CASE j # k
      BY <1>7, <3>2, Zenon
    <3> QED
      BY <3>1, <3>2
  <2> QED
    BY <2>1, Zenon DEF OthersIn
<1>11. ASSUME NEW j \in 1..Len(P), NEW z \in 1..Len(P[j].entries)
       PROVE  \E t \in 1..Len(B[j].entries) :
                    ~(j = k /\ t = s) /\ B[j].entries[t] = P[j].entries[z]
  <2>1. CASE j = k
    <3>1. P[j].entries = es /\ B[j].entries = fs
      BY <1>7, <2>1, Zenon DEF fs
    <3>2. PICK t \in 1..m : t # s /\ es[z] = fs[t]
      BY <1>9, <3>1, Zenon
    <3> QED
      BY <2>1, <3>1, <3>2, Zenon DEF m
  <2>2. CASE j # k
    <3>1. P[j].entries = B[j].entries
      BY <1>7, <2>2, Zenon
    <3> QED
      BY <2>2, <3>1, Zenon
  <2> QED
    BY <2>1, <2>2
<1>12. OthersIn(P, B, u)
  BY <1>7, <1>11, Zenon DEF OthersIn
<1>13. Others(f, g, B, P, u)
  BY <1>1, <1>10, <1>12, OthersStored DEF OthersStay
<1>14. ASSUME NEW x, Stored(g, P, u, x)
       PROVE  FALSE
  <2>1. PICK j \in 1..Len(P) : \E z \in 1..Len(P[j].entries) : P[j].entries[z].uid = u
    BY <1>14, Zenon DEF Stored
  <2>2. PICK z \in 1..Len(P[j].entries) : P[j].entries[z].uid = u
    BY <2>1
  <2>3. PICK t \in 1..Len(B[j].entries) :
                    ~(j = k /\ t = s) /\ B[j].entries[t] = P[j].entries[z]
    BY <1>11
  <2>4. /\ j \in 1..Len(B) /\ B[j].entries[t].uid = B[k].entries[s].uid
        /\ k \in 1..Len(B) /\ s \in 1..Len(B[k].entries)
    BY <1>1, <1>7, <2>2, <2>3, Zenon DEF fs, m
  <2>5. j = k /\ t = s
    BY ONLY <1>3, <2>4, t \in 1..Len(B[j].entries) DEF UidsApart
  <2> QED
    BY <2>3, <2>5
<1>15. \E y : Stored(f, B, u, y)
  BY <1>1, Zenon DEF Stored, fs, m
<1> QED
  BY <1>13, <1>14, <1>15, Zenon DEF Loses

\* finalize_with_trailer, and compact_into.
LEMMA NothingLost ==
    ASSUME NEW f, NEW g, NEW B, TableIn(f, B), DataStays(f, g, B, Nil)
    PROVE  \A v, x : Stored(g, B, v, x) <=> Stored(f, B, v, x)
<1>1. ASSUME NEW i \in 1..Len(B), NEW s \in 1..Len(B[i].entries)
      PROVE  ReadData(g, B[i].entries[s]) = ReadData(f, B[i].entries[s])
  <2>1. B[i].entries[s].uid # Nil
    BY TableUids, ContainerAssumption
  <2> QED
    BY <2>1, Zenon DEF DataStays
<1> QED
  BY <1>1, Zenon DEF Stored

LEMMA MoveKeeps ==
    ASSUME NEW f, NEW g, NEW B, NEW T, Moved(f, B, g, T)
    PROVE  \A v, x : Stored(g, T, v, x) <=> Stored(f, B, v, x)
<1>1. ASSUME NEW v, NEW x, Stored(g, T, v, x)
      PROVE  Stored(f, B, v, x)
  <2>1. PICK b \in 1..Len(T) : \E s \in 1..Len(T[b].entries) :
            T[b].entries[s].uid = v /\ ReadData(g, T[b].entries[s]) = x
    BY <1>1, Zenon DEF Stored
  <2>2. PICK s \in 1..Len(T[b].entries) :
            T[b].entries[s].uid = v /\ ReadData(g, T[b].entries[s]) = x
    BY <2>1
  <2>3. PICK i \in 1..Len(B) : \E t \in 1..Len(B[i].entries) :
            SameData(f, B[i].entries[t], g, T[b].entries[s])
    BY Zenon DEF Moved
  <2>4. PICK t \in 1..Len(B[i].entries) : SameData(f, B[i].entries[t], g, T[b].entries[s])
    BY <2>3
  <2> QED
    BY <2>2, <2>4, Zenon DEF Stored, SameData
<1>2. ASSUME NEW v, NEW x, Stored(f, B, v, x)
      PROVE  Stored(g, T, v, x)
  <2>1. PICK i \in 1..Len(B) : \E t \in 1..Len(B[i].entries) :
            B[i].entries[t].uid = v /\ ReadData(f, B[i].entries[t]) = x
    BY <1>2, Zenon DEF Stored
  <2>2. PICK t \in 1..Len(B[i].entries) :
            B[i].entries[t].uid = v /\ ReadData(f, B[i].entries[t]) = x
    BY <2>1
  <2>3. PICK b \in 1..Len(T) : \E s \in 1..Len(T[b].entries) :
            SameData(f, B[i].entries[t], g, T[b].entries[s])
    BY Zenon DEF Moved
  <2>4. PICK s \in 1..Len(T[b].entries) : SameData(f, B[i].entries[t], g, T[b].entries[s])
    BY <2>3
  <2> QED
    BY <2>2, <2>4, Zenon DEF Stored, SameData
<1> QED
  BY <1>1, <1>2, Zenon

\* A file holds one table.
LEMMA OneTable ==
    ASSUME NEW f, NEW B, NEW P, TableIn(f, B), TableIn(f, P)
    PROVE  Len(P) = Len(B) /\ \A i \in 1..Len(B) : P[i].entries = B[i].entries
<1>1. ResolveHead(f) = B[1].offset /\ ResolveHead(f) = P[1].offset
  BY TableReads
<1>2. Offsets(B) = Offsets(P) /\ Len(B) \in Nat /\ Len(P) \in Nat
  BY <1>1, TableReads
<1>3. DOMAIN Offsets(B) = 1..Len(B) /\ DOMAIN Offsets(P) = 1..Len(P)
  BY DEF Offsets
<1>4. Len(P) = Len(B)
  BY <1>2, <1>3
<1>5. ASSUME NEW i \in 1..Len(B)
      PROVE  P[i].entries = B[i].entries
  <2>1. B[i].offset = P[i].offset
    <3>1. Offsets(B)[i] = B[i].offset /\ Offsets(P)[i] = P[i].offset
      BY <1>4 DEF Offsets
    <3> QED
      BY <1>2, <3>1, Zenon
  <2>2. EntriesAt(f, B[i].offset) = B[i].entries /\ EntriesAt(f, P[i].offset) = P[i].entries
    BY <1>4, TableReads
  <2> QED
    BY <2>1, <2>2, Zenon
<1> QED
  BY <1>4, <1>5

\* The entry and the block of every UID of the table B.
PlacesOf(at, B) ==
    /\ at = [v \in DOMAIN at |-> at[v]]
    /\ \A v : v \in DOMAIN at => \E i \in 1..Len(B) : \E s \in 1..Len(B[i].entries) :
            v = B[i].entries[s].uid
    /\ \A i \in 1..Len(B) : \A s \in 1..Len(B[i].entries) :
            /\ B[i].entries[s].uid \in DOMAIN at
            /\ at[B[i].entries[s].uid] = <<B[i].entries[s], i>>

LEMMA TableOfIs ==
    ASSUME NEW f, NEW B, TableIn(f, B)
    PROVE  TableOf(f) = Infos(B, Full(B))
<1>1. HeaderReadable(f) /\ ResolveHead(f) = B[1].offset /\ ChainReadable(f, B[1].offset)
  BY TableReads
<1>2. TableOf(f) = BlocksOnDisk(f, B[1].offset)
  BY <1>1, Zenon DEF TableOf
<1> QED
  BY <1>2, TableOnDisk

LEMMA ByUidIs ==
    ASSUME NEW f, NEW B, TableIn(f, B), Small(B), NEW bs, bs = TableOf(f), NEW at,
           at = ByUid(Placed(f, bs))
    PROVE  PlacesOf(at, B)
<1> DEFINE live == Placed(f, bs)
           places == {p \in (DOMAIN bs) \X (1..MaxEntries) : p[2] <= bs[p[1]].count}
<1>1. bs = Infos(B, Full(B))
  BY TableOfIs
<1>2. /\ DOMAIN bs = 1..Len(B)
      /\ \A i \in 1..Len(B) : bs[i].offset = B[i].offset /\ bs[i].count = Len(B[i].entries)
  BY <1>1 DEF Infos, BlockInfo
<1>3. UidsApart(B)
  BY TableUids
<1>4. \A i \in 1..Len(B) : EntriesAt(f, B[i].offset) = B[i].entries /\ Len(B[i].entries) \in Nat
  <2>1. PICK C : B \in Tables(C)
    BY TableUids
  <2>2. ASSUME NEW i \in 1..Len(B)
        PROVE  Len(B[i].entries) \in Nat
    <3>1. PICK D, own, lim : Image(f, own, lim, D, B, 0)
      BY DEF TableIn
    <3> QED
      BY <3>1, BlockOf
  <2> QED
    BY <2>2, TableReads
<1>5. live = {<<EntriesAt(f, bs[p[1]].offset)[p[2]], p[1]>> : p \in places}
  BY Zenon DEF Placed
<1>6. ASSUME NEW i \in 1..Len(B), NEW s \in 1..Len(B[i].entries)
      PROVE  <<B[i].entries[s], i>> \in live
  <2> DEFINE p == <<i, s>>  n == Len(B[i].entries)
  <2>1. n \in Nat /\ n <= MaxEntries /\ s \in 1..n
    BY <1>4 DEF Small
  <2>2. s \in 1..MaxEntries /\ s <= n
    <3> HIDE DEF n
    <3> QED
      BY <2>1, ContainerAssumption
  <2>3. p \in places
    <3>1. p \in (DOMAIN bs) \X (1..MaxEntries)
      BY <1>2, <2>2
    <3>2. p[1] = i /\ p[2] = s
      OBVIOUS
    <3>3. p[2] <= bs[p[1]].count
      BY <1>2, <2>2, <3>2
    <3> QED
      BY <3>1, <3>3
  <2>4. <<EntriesAt(f, bs[p[1]].offset)[p[2]], p[1]>> = <<B[i].entries[s], i>>
    BY <1>2, <1>4
  <2> HIDE DEF p, places, live
  <2> QED
    BY <1>5, <2>3, <2>4, Zenon
<1>7. ASSUME NEW l \in live
      PROVE  \E i \in 1..Len(B) : \E s \in 1..Len(B[i].entries) : l = <<B[i].entries[s], i>>
  <2>1. PICK p \in places : l = <<EntriesAt(f, bs[p[1]].offset)[p[2]], p[1]>>
    BY <1>5
  <2>2. p[1] \in 1..Len(B) /\ p[2] \in 1..MaxEntries /\ p[2] <= bs[p[1]].count
    BY <1>2, <2>1
  <2> DEFINE i == p[1]  s == p[2]
  <2>3. i \in 1..Len(B) /\ s \in 1..MaxEntries /\ s <= bs[i].count
    BY <2>2
  <2> HIDE DEF i, s
  <2>4. s \in 1..Len(B[i].entries)
    BY <1>2, <1>4, <2>3, ContainerAssumption
  <2>5. l = <<B[i].entries[s], i>>
    BY <1>2, <1>4, <2>1, <2>3, Zenon DEF i, s
  <2> QED
    BY <2>3, <2>4, <2>5
<1> HIDE DEF live, places
<1>8. at = [u \in {l[1].uid : l \in live} |-> CHOOSE l \in live : l[1].uid = u]
  BY Zenon DEF ByUid, live
<1>9. DOMAIN at = {l[1].uid : l \in live} /\ at = [v \in DOMAIN at |-> at[v]]
  BY <1>8
<1>10. ASSUME NEW v \in DOMAIN at
       PROVE  at[v] \in live /\ at[v][1].uid = v
  <2>1. PICK l \in live : l[1].uid = v
    BY <1>9
  <2>2. at[v] = CHOOSE y \in live : y[1].uid = v
    BY <1>8, <1>9
  <2> QED
    BY <2>1, <2>2
<1>11. ASSUME NEW v \in DOMAIN at
       PROVE  \E i \in 1..Len(B) : \E s \in 1..Len(B[i].entries) : v = B[i].entries[s].uid
  <2>1. PICK i \in 1..Len(B) : \E s \in 1..Len(B[i].entries) : at[v] = <<B[i].entries[s], i>>
    BY <1>7, <1>10
  <2>2. PICK s \in 1..Len(B[i].entries) : at[v] = <<B[i].entries[s], i>>
    BY <2>1
  <2>3. at[v][1] = B[i].entries[s]
    BY <2>2
  <2> QED
    BY <1>10, <2>3
<1>12. ASSUME NEW i \in 1..Len(B), NEW s \in 1..Len(B[i].entries), NEW v, v = B[i].entries[s].uid
       PROVE  v \in DOMAIN at /\ at[v] = <<B[i].entries[s], i>>
  <2>1. v \in DOMAIN at
    <3>1. <<B[i].entries[s], i>> \in live /\ <<B[i].entries[s], i>>[1] = B[i].entries[s]
      BY <1>6
    <3> DEFINE l == <<B[i].entries[s], i>>
    <3>2. l \in live /\ l[1].uid = v
      BY <1>12, <3>1
    <3> HIDE DEF l
    <3> QED
      BY <1>9, <3>2
  <2>2. PICK j \in 1..Len(B) : \E t \in 1..Len(B[j].entries) : at[v] = <<B[j].entries[t], j>>
    BY <1>7, <1>10, <2>1
  <2>3. PICK t \in 1..Len(B[j].entries) : at[v] = <<B[j].entries[t], j>>
    BY <2>2
  <2>4. at[v][1] = B[j].entries[t]
    BY <2>3
  <2>5. B[j].entries[t].uid = B[i].entries[s].uid
    BY <1>10, <1>12, <2>1, <2>4
  <2>6. j = i /\ t = s
    BY ONLY <1>3, <2>5, i \in 1..Len(B), j \in 1..Len(B), s \in 1..Len(B[i].entries),
       t \in 1..Len(B[j].entries) DEF UidsApart
  <2> QED
    BY <2>1, <2>3, <2>6
<1> QED
  BY <1>9, <1>11, <1>12, Zenon DEF PlacesOf

\* m is the map from the UIDs of the table to their contents.
IsMap(m, f, B) ==
    /\ m = [v \in DOMAIN m |-> m[v]]
    /\ \A v, x : Stored(f, B, v, x) <=> v \in DOMAIN m /\ x = m[v]

LEMMA ViewMap ==
    ASSUME NEW f, NEW o, NEW hb, NEW eof, NEW dc, NEW bs, NEW at, NEW x,
           x = View(f, o, hb, eof, dc, bs, at)
    PROVE  x.contents = [v \in DOMAIN at |-> ReadData(f, at[v][1])]
<1> DEFINE M == [v \in DOMAIN at |-> ReadData(f, at[v][1])]
           A == [u \in DOMAIN at |->
                    [block |-> at[u][2], start |-> at[u][1].start,
                     max |-> at[u][1].max, used |-> at[u][1].used]]
           D == [i \in DOMAIN bs |->
                    [offset |-> bs[i].offset, count |-> bs[i].count,
                     capacity |-> IF o /\ i \in DOMAIN hb
                                  THEN hb[i].capacity ELSE bs[i].count]]
           E == IF o THEN eof ELSE Len(f)  N == Len(f)  K == IF o THEN dc ELSE OpenCapacity
           T == IF f[1] = HeaderCell(Sentinel) /\ Trailers(f) # {} THEN Max(Trailers(f)) ELSE 0
<1>1. x = [contents |-> M, parts |-> A, blocks |-> D, data_eof |-> E, file_len |-> N,
           default_capacity |-> K, trailer |-> T]
  BY Zenon DEF View
<1> HIDE DEF M, A, D, E, N, K, T
<1>2. x.contents = M
  BY <1>1
<1> QED
  BY <1>2 DEF M

\* The contents that the abstraction has are those of the file.
LEMMA MapIs ==
    ASSUME NEW f, NEW B, TableIn(f, B), Small(B), NEW o, NEW hb, NEW eof, NEW dc, NEW x,
           x = Abstraction(f, o, hb, eof, dc)
    PROVE  IsMap(x.contents, f, B)
<1> DEFINE at == ByUid(Placed(f, TableOf(f)))  m == x.contents
<1>1. PlacesOf(at, B)
  BY ByUidIs
<1>2. x = View(f, o, hb, eof, dc, TableOf(f), at)
  BY Zenon DEF Abstraction
<1> HIDE DEF at
<1>3. m = [v \in DOMAIN at |-> ReadData(f, at[v][1])]
  BY <1>2, ViewMap
<1> HIDE DEF m
<1>4. DOMAIN m = DOMAIN at /\ \A v \in DOMAIN at : m[v] = ReadData(f, at[v][1])
  BY <1>3
<1>5. m = [v \in DOMAIN m |-> m[v]]
  BY <1>3
<1>6. ASSUME NEW i \in 1..Len(B), NEW s \in 1..Len(B[i].entries), NEW v, v = B[i].entries[s].uid
      PROVE  v \in DOMAIN m /\ m[v] = ReadData(f, B[i].entries[s])
  <2>1. v \in DOMAIN at /\ at[v] = <<B[i].entries[s], i>>
    BY <1>1, <1>6, Zenon DEF PlacesOf
  <2>2. at[v][1] = B[i].entries[s]
    BY <2>1
  <2> QED
    BY <1>4, <2>1, <2>2, Zenon
<1>7. ASSUME NEW v, NEW y, Stored(f, B, v, y)
      PROVE  v \in DOMAIN m /\ y = m[v]
  BY <1>6, <1>7, Zenon DEF Stored
<1>8. ASSUME NEW v, NEW y, v \in DOMAIN m, y = m[v]
      PROVE  Stored(f, B, v, y)
  <2>1. v \in DOMAIN at
    BY <1>4, <1>8, Zenon
  <2>2. PICK i \in 1..Len(B) : \E s \in 1..Len(B[i].entries) : v = B[i].entries[s].uid
    BY <1>1, <2>1, Zenon DEF PlacesOf
  <2>3. PICK s \in 1..Len(B[i].entries) : v = B[i].entries[s].uid
    BY <2>2
  <2>4. m[v] = ReadData(f, B[i].entries[s])
    BY <1>6, <2>3, Zenon
  <2> QED
    BY <1>8, <2>3, <2>4, Zenon DEF Stored
<1> QED
  BY <1>5, <1>7, <1>8, Zenon DEF IsMap, m

\* The three changes of a map of PcfStore.
MapAdd(m, n, u, d) ==
    u \notin DOMAIN m /\ n = [v \in DOMAIN m \cup {u} |-> IF v = u THEN d ELSE m[v]]
MapUpdate(m, n, u, d) == u \in DOMAIN m /\ n = [m EXCEPT ![u] = d]
MapRemove(m, n, u) == u \in DOMAIN m /\ n = [v \in DOMAIN m \ {u} |-> m[v]]

LEMMA MapGains ==
    ASSUME NEW f, NEW g, NEW B, NEW P, NEW m, NEW n, IsMap(m, f, B), IsMap(n, g, P),
           NEW u, NEW d, Gains(f, g, B, P, u, d)
    PROVE  MapAdd(m, n, u, d) \/ MapUpdate(m, n, u, d)
<1>1. /\ m = [v \in DOMAIN m |-> m[v]] /\ n = [v \in DOMAIN n |-> n[v]]
      /\ \A v, x : Stored(f, B, v, x) <=> v \in DOMAIN m /\ x = m[v]
      /\ \A v, x : Stored(g, P, v, x) <=> v \in DOMAIN n /\ x = n[v]
  BY Zenon DEF IsMap
<1>2. \A v, x : v # u => (Stored(g, P, v, x) <=> Stored(f, B, v, x))
  BY Zenon DEF Gains, Others
<1>3. \A x : Stored(g, P, u, x) <=> x = d
  BY Zenon DEF Gains, OnlyStored
<1>4. u \in DOMAIN n /\ n[u] = d
  BY <1>1, <1>3, Zenon
<1>5. \A v : v # u => (v \in DOMAIN n <=> v \in DOMAIN m)
  BY <1>1, <1>2, Zenon
<1>6. \A v : v # u /\ v \in DOMAIN m => n[v] = m[v]
  BY <1>1, <1>2, Zenon
<1>7. CASE u \notin DOMAIN m
  <2>1. DOMAIN n = DOMAIN m \cup {u}
    BY <1>4, <1>5
  <2>2. n = [v \in DOMAIN m \cup {u} |-> IF v = u THEN d ELSE m[v]]
    BY ONLY <1>1, <1>4, <1>6, <2>1
  <2> QED
    BY <1>7, <2>2, Zenon DEF MapAdd
<1>8. CASE u \in DOMAIN m
  <2>1. DOMAIN n = DOMAIN m
    BY <1>4, <1>5, <1>8
  <2>2. n = [m EXCEPT ![u] = d]
    BY ONLY <1>1, <1>4, <1>6, <2>1
  <2> QED
    BY <1>8, <2>2, Zenon DEF MapUpdate
<1> QED
  BY <1>7, <1>8

LEMMA MapLoses ==
    ASSUME NEW f, NEW g, NEW B, NEW P, NEW m, NEW n, IsMap(m, f, B), IsMap(n, g, P),
           NEW u, Loses(f, g, B, P, u), \E y : Stored(f, B, u, y)
    PROVE  MapRemove(m, n, u)
<1>1. /\ m = [v \in DOMAIN m |-> m[v]] /\ n = [v \in DOMAIN n |-> n[v]]
      /\ \A v, x : Stored(f, B, v, x) <=> v \in DOMAIN m /\ x = m[v]
      /\ \A v, x : Stored(g, P, v, x) <=> v \in DOMAIN n /\ x = n[v]
  BY Zenon DEF IsMap
<1>2. \A v, x : v # u => (Stored(g, P, v, x) <=> Stored(f, B, v, x))
  BY Zenon DEF Loses, Others
<1>3. \A x : ~Stored(g, P, u, x)
  BY Zenon DEF Loses
<1>4. u \in DOMAIN m /\ u \notin DOMAIN n
  BY <1>1, <1>3, Zenon
<1>5. \A v : v # u => (v \in DOMAIN n <=> v \in DOMAIN m)
  BY <1>1, <1>2, Zenon
<1>6. \A v : v # u /\ v \in DOMAIN m => n[v] = m[v]
  BY <1>1, <1>2, Zenon
<1>7. DOMAIN n = DOMAIN m \ {u}
  BY <1>4, <1>5
<1>8. n = [v \in DOMAIN m \ {u} |-> m[v]]
  BY ONLY <1>1, <1>6, <1>7
<1> QED
  BY <1>4, <1>8, Zenon DEF MapRemove

LEMMA MapKeeps ==
    ASSUME NEW f, NEW g, NEW B, NEW P, NEW m, NEW n, IsMap(m, f, B), IsMap(n, g, P),
           \A v, x : Stored(g, P, v, x) <=> Stored(f, B, v, x)
    PROVE  n = m
<1>1. /\ m = [v \in DOMAIN m |-> m[v]] /\ n = [v \in DOMAIN n |-> n[v]]
      /\ \A v, x : Stored(f, B, v, x) <=> v \in DOMAIN m /\ x = m[v]
      /\ \A v, x : Stored(g, P, v, x) <=> v \in DOMAIN n /\ x = n[v]
  BY Zenon DEF IsMap
<1>2. \A v : v \in DOMAIN n <=> v \in DOMAIN m
  BY <1>1, Zenon
<1>3. \A v : v \in DOMAIN m => n[v] = m[v]
  BY <1>1, Zenon
<1> QED
  BY <1>1, <1>2, <1>3

\* The observation is the one of the file and the handle.
Observed == abs = Abstraction(file, open, blocks, data_eof, default_capacity)

LEMMA ObservedMap ==
    ASSUME NEW C, NEW own, NEW B, NEW cap, Holds(C, own, B, cap), Counted, Observed
    PROVE  IsMap(abs.contents, file, B)
<1>1. TableIn(file, B) /\ Small(B)
  BY HandleTable, CountedIs
<1> QED
  BY <1>1, MapIs DEF Observed

\* The same of the next state, for any table that the file then holds.
LEMMA ObservedNow ==
    ASSUME CInv, Counted, Observed
    PROVE  \A P : TableIn(file, P) => IsMap(abs.contents, file, P)
<1>1. PICK C, own, B, cap : Holds(C, own, B, cap)
  BY DEF CInv
<1>2. TableIn(file, B) /\ Small(B)
  BY <1>1, HandleTable, CountedIs
<1>3. ASSUME NEW P, TableIn(file, P)
      PROVE  IsMap(abs.contents, file, P)
  <2>1. Len(P) = Len(B) /\ \A i \in 1..Len(B) : P[i].entries = B[i].entries
    BY <1>2, <1>3, OneTable
  <2>2. Small(P)
    BY <1>2, <2>1, Zenon DEF Small
  <2> QED
    BY <1>3, <2>2, MapIs DEF Observed
<1> QED
  BY <1>3

LEMMA ObservedNext ==
    (CInv /\ Counted /\ Observed => \A P : TableIn(file, P) => IsMap(abs.contents, file, P))'
<1>1. CInv /\ Counted /\ Observed => \A P : TableIn(file, P) => IsMap(abs.contents, file, P)
  BY ObservedNow
<1> QED
  BY <1>1, PTL

LEMMA StoreInit ==
    ASSUME Init, CInv, Counted, Observed
    PROVE  Store!Init
<1>1. PICK C, own, B, cap : Holds(C, own, B, cap)
  BY DEF CInv
<1>2. IsMap(abs.contents, file, B)
  BY <1>1, ObservedMap
<1>3. \A i \in 1..Len(B) : Len(B[i].entries) = 0
  <2>1. open = TRUE /\ \E c, al : blocks = <<BlockInfo(HeaderSize, c, 0, al, 0)>>
    BY DEF Init
  <2>2. Len(blocks) = 1 /\ blocks[1].count = 0
    BY <2>1 DEF BlockInfo
  <2>3. blocks = Infos(B, cap) /\ Len(B) \in Nat
    BY <1>1, <2>1, HandleReads DEF Holds, HandleIs
  <2>4. DOMAIN blocks = 1..Len(B) /\ \A i \in 1..Len(B) : blocks[i].count = Len(B[i].entries)
    BY <2>3 DEF Infos, BlockInfo
  <2>5. DOMAIN blocks = {1}
    BY <2>1
  <2>6. \A i \in 1..Len(B) : i = 1
    BY <2>4, <2>5
  <2> QED
    BY <2>2, <2>4, <2>6, Zenon
<1>4. \A v, x : ~Stored(file, B, v, x)
  <2>1. \A i \in 1..Len(B) : 1..Len(B[i].entries) = {}
    BY <1>3
  <2> QED
    BY <2>1 DEF Stored
<1> DEFINE m == abs.contents
<1>5. m = [v \in DOMAIN m |-> m[v]] /\ \A v : v \notin DOMAIN m
  BY <1>2, <1>4, Zenon DEF IsMap
<1> HIDE DEF m
<1>6. m = [u \in {} |-> <<>>]
  BY <1>5
<1> QED
  BY <1>6 DEF Store!Init, m

\* An edit is made before finalize_with_trailer, and is no other call.
LEMMA EditAlone ==
    ASSUME NEW p, Perform(p), open = TRUE, SafeNext
    PROVE  finalized = FALSE /\ ~Finalize /\ ~Compact /\ ~Close /\ ~Open
<1>1. open' = TRUE /\ finalized' = finalized
  BY DEF Perform
<1>2. ~Compact /\ ~Close /\ ~Open
  BY <1>1 DEF Compact, Close, Open, Forget
<1>3. ~finalized
  BY <1>2 DEF SafeNext
<1>4. ~Finalize
  BY <1>1, <1>3 DEF Finalize
<1> QED
  BY <1>2, <1>3, <1>4

\* The maps before and after a call, of the tables before and after it.
LEMMA CallMaps ==
    ASSUME NEW C, NEW own, NEW B, NEW cap, Holds(C, own, B, cap), Counted, Observed,
           CInv', Counted', Observed', NEW P, TableIn(file', P)
    PROVE  /\ TableIn(file, B) /\ IsMap(abs.contents, file, B)
           /\ IsMap(abs'.contents, file', P)
<1>1. IsMap(abs.contents, file, B) /\ TableIn(file, B)
  BY ObservedMap, HandleTable
<1> QED
  BY <1>1, ObservedNext

LEMMA MapAdds ==
    ASSUME NEW f, NEW g, NEW B, NEW P, NEW m, NEW n, IsMap(m, f, B), IsMap(n, g, P),
           NEW u, NEW d, Gains(f, g, B, P, u, d), Unused(B, u)
    PROVE  MapAdd(m, n, u, d)
<1>1. u \notin DOMAIN m
  <2>1. \A v, x : Stored(f, B, v, x) <=> v \in DOMAIN m /\ x = m[v]
    BY Zenon DEF IsMap
  <2>2. \A x : ~Stored(f, B, u, x)
    BY Zenon DEF Stored, Unused
  <2> QED
    BY <2>1, <2>2, Zenon
<1> QED
  BY <1>1, MapGains, Zenon DEF MapUpdate

LEMMA MapUpdates ==
    ASSUME NEW f, NEW g, NEW B, NEW P, NEW m, NEW n, IsMap(m, f, B), IsMap(n, g, P),
           NEW u, NEW d, Gains(f, g, B, P, u, d), \E y : Stored(f, B, u, y)
    PROVE  MapUpdate(m, n, u, d)
<1>1. u \in DOMAIN m
  BY Zenon DEF IsMap
<1> QED
  BY <1>1, MapGains, Zenon DEF MapAdd

LEMMA AddIsItsOwn ==
    ASSUME NEW D, PlainContents(D), CInv, Counted, Observed, SafeNext, CInv', Counted', Observed',
           NEW u \in Uid, NEW d \in Contents, AddPartition(u, d)
    PROVE  MapAdd(abs.contents, abs'.contents, u, d)
<1>1. PICK C, own, B, cap : Holds(C, own, B, cap)
  BY DEF CInv
<1>2. PICK p \in AddPlans(u, d) : Perform(p)
  BY DEF AddPartition
<1>3. open = TRUE
  BY <1>2 DEF AddPlans, Editable
<1>4. finalized = FALSE
  BY <1>2, <1>3, EditAlone
<1> DEFINE f == file  g == Apply(file, p.writes)
<1>5. AddMakes(f, g, p.writes, p.blocks, p.eof, B, table_hash_algo, u, d)
  BY <1>1, <1>4, AddPlanHolds
<1>6. PICK P : /\ Leaves(g, p.blocks, p.eof, B, P)
               /\ AddsIn(f, g, B, P, u, d) \/ Overflows(f, g, B, P, table_hash_algo, u, d)
  BY <1>5, Zenon DEF AddMakes
<1>7. TableIn(file', P) /\ file' = g
  BY <1>1, <1>2, <1>3, <1>4, <1>6, Edited, Zenon DEF Perform
<1>8. TableIn(f, B) /\ IsMap(abs.contents, f, B) /\ IsMap(abs'.contents, g, P)
  BY <1>1, <1>7, CallMaps
<1> HIDE DEF f, g
<1>9. Gains(f, g, B, P, u, d) /\ Unused(B, u)
  BY <1>6, <1>7, <1>8, AddGains, OverflowGains, Zenon DEF AddsIn, Overflows, g
<1> QED
  BY <1>8, <1>9, MapAdds, Zenon

LEMMA UpdateIsItsOwn ==
    ASSUME NEW D, PlainContents(D), CInv, Counted, Observed, SafeNext, CInv', Counted', Observed',
           NEW u \in Uid, NEW d \in Contents, UpdatePartition(u, d)
    PROVE  MapUpdate(abs.contents, abs'.contents, u, d)
<1>1. PICK C, own, B, cap : Holds(C, own, B, cap)
  BY DEF CInv
<1>2. PICK p \in UpdatePlans(u, d) : Perform(p)
  BY DEF UpdatePartition
<1>3. open = TRUE
  BY <1>2 DEF UpdatePlans, Editable
<1>4. finalized = FALSE
  BY <1>2, <1>3, EditAlone
<1> DEFINE f == file  g == Apply(file, p.writes)
<1>5. UpdateMakes(f, g, p.writes, p.blocks, p.eof, B, u, d)
  BY <1>1, <1>4, UpdatePlanHolds
<1>6. PICK P : Leaves(g, p.blocks, p.eof, B, P) /\ UpdatesIn(f, g, B, P, u, d)
  BY <1>5, Zenon DEF UpdateMakes
<1>7. TableIn(file', P) /\ file' = g
  BY <1>1, <1>2, <1>3, <1>4, <1>6, Edited, Zenon DEF Perform
<1>8. TableIn(f, B) /\ IsMap(abs.contents, f, B) /\ IsMap(abs'.contents, g, P)
  BY <1>1, <1>7, CallMaps
<1> HIDE DEF f, g
<1>9. Gains(f, g, B, P, u, d) /\ \E y : Stored(f, B, u, y)
  BY <1>6, <1>7, <1>8, UpdateGains, Zenon DEF UpdatesIn, g
<1> QED
  BY <1>8, <1>9, MapUpdates, Zenon

LEMMA RemoveIsItsOwn ==
    ASSUME NEW D, PlainContents(D), CInv, Counted, Observed, SafeNext, CInv', Counted', Observed',
           NEW u \in Uid, RemovePartition(u)
    PROVE  MapRemove(abs.contents, abs'.contents, u)
<1>1. PICK C, own, B, cap : Holds(C, own, B, cap)
  BY DEF CInv
<1>2. PICK p \in RemovePlans(u) : Perform(p)
  BY DEF RemovePartition
<1>3. open = TRUE
  BY <1>2 DEF RemovePlans, Editable
<1>4. finalized = FALSE
  BY <1>2, <1>3, EditAlone
<1> DEFINE f == file  g == Apply(file, p.writes)
<1>5. RemoveMakes(f, g, p.writes, p.blocks, p.eof, B, u)
  BY <1>1, <1>4, RemovePlanHolds
<1>6. PICK P : Leaves(g, p.blocks, p.eof, B, P) /\ RemovesFrom(f, g, B, P, u)
  BY <1>5, Zenon DEF RemoveMakes
<1>7. TableIn(file', P) /\ file' = g
  BY <1>1, <1>2, <1>3, <1>4, <1>6, Edited, Zenon DEF Perform
<1>8. TableIn(f, B) /\ IsMap(abs.contents, f, B) /\ IsMap(abs'.contents, g, P)
  BY <1>1, <1>7, CallMaps
<1> HIDE DEF f, g
<1>9. Loses(f, g, B, P, u) /\ \E y : Stored(f, B, u, y)
  BY <1>6, <1>7, <1>8, RemoveLoses, Zenon DEF RemovesFrom, g
<1> QED
  BY <1>8, <1>9, MapLoses, Zenon

LEMMA UpkeepIsItsOwn ==
    ASSUME NEW D, PlainContents(D), CInv, Counted, Observed, CInv', Counted', Observed', Upkeep
    PROVE  abs'.contents = abs.contents
<1>1. PICK C, own, B, cap : Holds(C, own, B, cap)
  BY DEF CInv
<1>2. KeepLeaves(file, file', B, table_hash_algo)
  BY <1>1, UpkeepHolds
<1>3. PICK P : TableIn(file', P) /\ TableKept(file, file', B, P, table_hash_algo)
  BY <1>2, Zenon DEF KeepLeaves
<1> DEFINE f == file  g == file'  m == abs.contents  n == abs'.contents  ta == table_hash_algo
<1>4. /\ TableIn(f, B) /\ TableIn(g, P) /\ TableKept(f, g, B, P, ta)
      /\ IsMap(m, f, B) /\ IsMap(n, g, P)
  BY <1>1, <1>3, CallMaps
<1> HIDE DEF f, g, m, n, ta
<1>5. \A v, x : Stored(g, P, v, x) <=> Stored(f, B, v, x)
  <2>1. CASE RepackedTo(f, g, B, P, ta)
    BY <2>1, <1>4, MoveKeeps DEF RepackedTo
  <2>2. CASE P = B /\ DataStays(f, g, B, Nil)
    BY <2>2, <1>4, NothingLost
  <2> QED
    BY <1>4, <2>1, <2>2, Zenon DEF TableKept
<1>6. n = m
  BY <1>4, <1>5, MapKeeps
<1> QED
  BY <1>6 DEF m, n

LEMMA CallsAreTheirOwn ==
    ASSUME NEW D, PlainContents(D), CInv, Counted, Observed, SafeNext, CInv', Counted', Observed'
    PROVE  EachCallItsOwn /\ Store!Next
<1>1. ASSUME NEW u \in Uid, NEW d \in Contents, AddPartition(u, d)
      PROVE  Store!Add(u, d)
  BY <1>1, AddIsItsOwn DEF MapAdd, Store!Add
<1>2. ASSUME NEW u \in Uid, NEW d \in Contents, UpdatePartition(u, d)
      PROVE  Store!Update(u, d)
  BY <1>2, UpdateIsItsOwn DEF MapUpdate, Store!Update
<1>3. ASSUME NEW u \in Uid, RemovePartition(u)
      PROVE  Store!Remove(u)
  BY <1>3, RemoveIsItsOwn DEF MapRemove, Store!Remove
<1>4. ASSUME Upkeep
      PROVE  Store!Maintain
  BY <1>4, UpkeepIsItsOwn DEF Store!Maintain
<1>5. Finalize \/ Compact \/ Close \/ Open => ~Edit
  <2>1. ASSUME Edit
        PROVE  ~Finalize /\ ~Compact /\ ~Close /\ ~Open
    <3>1. PICK p : Perform(p) /\ open = TRUE
      BY <2>1 DEF Edit, AddPartition, UpdatePartition, RemovePartition, AddPlans, UpdatePlans,
                  RemovePlans, Editable
    <3> QED
      BY <3>1, EditAlone, Zenon
  <2> QED
    BY <2>1
<1>6. Finalize \/ Compact \/ Close \/ Open => Store!Maintain
  BY <1>4, <1>5, Zenon DEF SafeNext, Upkeep
<1>7. EachCallItsOwn
  BY <1>1, <1>2, <1>3, <1>6, Zenon DEF EachCallItsOwn
<1>8. ASSUME Edit
      PROVE  Store!Next
  <2>1. PICK u \in Uid : \/ \E d \in Contents : AddPartition(u, d) \/ UpdatePartition(u, d)
                        \/ RemovePartition(u)
    BY <1>8 DEF Edit
  <2>2. (\E d \in Contents : Store!Add(u, d) \/ Store!Update(u, d)) \/ Store!Remove(u)
    BY <1>1, <1>2, <1>3, <2>1
  <2> QED
    BY <2>2, Zenon DEF Store!Next
<1>9. ASSUME Upkeep
      PROVE  Store!Next
  BY <1>4, <1>9, Zenon DEF Store!Next
<1> QED
  BY <1>7, <1>8, <1>9, Zenon DEF SafeNext, Upkeep

\* The container implements the map it promises (IsAStore): read from the bytes of the
\* file, every call of add_partition, update_partition_data and remove_partition does
\* to the map the step of PcfStore with its own name and arguments, and closing,
\* opening, publishing and compacting change nothing.
THEOREM ContainerIsAStore ==
    ASSUME NEW D, PlainContents(D)
    PROVE  MCSafeSpec => IsAStore
<1>1. MCInit => Init /\ CInv /\ Counted /\ Observed
  BY InitHolds, CountedInit DEF MCInit, Observed
<1>2. MCInit => Store!Init
  BY <1>1, StoreInit
<1>3. CInv /\ Counted /\ Observed /\ [SafeNext /\ Observe]_mcvars
        => CInv' /\ Counted' /\ Observed'
  <2> SUFFICES ASSUME CInv, Counted, Observed, [SafeNext /\ Observe]_mcvars
               PROVE  CInv' /\ Counted' /\ Observed'
    OBVIOUS
  <2>1. [SafeNext]_vars
    BY DEF mcvars
  <2>2. CInv' /\ Counted'
    BY <2>1, CInvStep, CountedStep
  <2>3. Observe \/ UNCHANGED mcvars
    OBVIOUS
  <2>4. ASSUME Observe
        PROVE  Observed'
    BY <2>4 DEF Observe, Observed
  <2>5. ASSUME UNCHANGED mcvars
        PROVE  Observed'
    BY <2>5 DEF mcvars, vars, handle, Observed
  <2> QED
    BY <2>2, <2>3, <2>4, <2>5
<1>4. CInv /\ Counted /\ Observed /\ CInv' /\ Counted' /\ Observed'
      /\ [SafeNext /\ Observe]_mcvars
        => [Store!Next]_(abs.contents) /\ [EachCallItsOwn]_mcvars
  <2> SUFFICES ASSUME CInv, Counted, Observed, CInv', Counted', Observed',
                      [SafeNext /\ Observe]_mcvars
               PROVE  [Store!Next]_(abs.contents) /\ [EachCallItsOwn]_mcvars
    OBVIOUS
  <2>1. CASE SafeNext
    BY <2>1, CallsAreTheirOwn, Zenon
  <2>2. CASE UNCHANGED mcvars
    BY <2>2 DEF mcvars
  <2> QED
    BY <2>1, <2>2
<1> QED
  BY <1>1, <1>2, <1>3, <1>4, PTL DEF MCSafeSpec, IsAStore, Store!Spec

-----------------------------------------------------------------------------
(* A list of writes that stops short.                                      *)

LEMMA SliceOfCells ==
    ASSUME NEW C, NEW off \in Nat, NEW cells \in Seq(C), NEW j \in 0..Len(cells)
    PROVE  /\ SubSeq(cells, 1, j) \in Seq(C) /\ Len(SubSeq(cells, 1, j)) = j
           /\ \A i \in 1..j : SubSeq(cells, 1, j)[i] = cells[i]
           /\ SubSeq(WriteCells(off, cells), 1, j) = WriteCells(off, SubSeq(cells, 1, j))
<1> DEFINE s == SubSeq(cells, 1, j)  w == WriteCells(off, cells)  v == SubSeq(w, 1, j)  P == Nat \X C
<1>1. j \in Nat /\ j <= Len(cells) /\ Len(cells) \in Nat
  OBVIOUS
<1>2. s \in Seq(C) /\ Len(s) = j /\ \A i \in 1..j : s[i] = cells[i]
  BY <1>1
<1>3. w \in Seq(P) /\ Len(w) = Len(cells) /\ \A i \in 1..Len(cells) : w[i] = <<off + i - 1, cells[i]>>
  BY WriteCellsInRow
<1> HIDE DEF w, P
<1>4. v \in Seq(P) /\ Len(v) = j /\ \A i \in 1..j : v[i] = w[i]
  BY <1>1, <1>3
<1> HIDE DEF v, s
<1>5. /\ WriteCells(off, s) \in Seq(P) /\ Len(WriteCells(off, s)) = j
      /\ \A i \in 1..j : WriteCells(off, s)[i] = <<off + i - 1, s[i]>>
  BY <1>2, WriteCellsInRow DEF P
<1> DEFINE z == WriteCells(off, s)
<1>6. z \in Seq(P) /\ Len(z) = j /\ \A i \in 1..j : z[i] = <<off + i - 1, s[i]>>
  BY <1>5
<1> HIDE DEF z
<1>7. \A i \in 1..j : z[i] = v[i]
  <2>1. \A i \in 1..j : i \in 1..Len(cells)
    BY <1>1
  <2> QED
    BY <1>2, <1>3, <1>4, <1>6, <2>1, Zenon
<1>8. z = v
  BY <1>1, <1>4, <1>6, <1>7
<1> QED
  BY <1>2, <1>8 DEF z, v, s, w

\* A list of two parts stops in the first or in the second.
StopsIn(x, y, j) ==
    /\ j <= Len(x) => SubSeq(x \o y, 1, j) = SubSeq(x, 1, j)
    /\ j > Len(x) => SubSeq(x \o y, 1, j) = x \o SubSeq(y, 1, j - Len(x))

LEMMA SliceOfConcat ==
    ASSUME NEW P, NEW x \in Seq(P), NEW y \in Seq(P), NEW j \in 0..(Len(x) + Len(y))
    PROVE  StopsIn(x, y, j)
<1> DEFINE z == x \o y  s == SubSeq(z, 1, j)
<1>1. Len(x) \in Nat /\ Len(y) \in Nat /\ j \in Nat /\ j <= Len(x) + Len(y)
  OBVIOUS
<1>2. z \in Seq(P) /\ Len(z) = Len(x) + Len(y)
      /\ \A i \in 1..Len(z) : z[i] = IF i <= Len(x) THEN x[i] ELSE y[i - Len(x)]
  OBVIOUS
<1> HIDE DEF z
<1>3. s \in Seq(P) /\ Len(s) = j /\ \A i \in 1..j : s[i] = z[i]
  BY <1>1, <1>2
<1> HIDE DEF s
<1>4. j <= Len(x) => s = SubSeq(x, 1, j)
  <2> SUFFICES ASSUME j <= Len(x)
               PROVE  s = SubSeq(x, 1, j)
    OBVIOUS
  <2> DEFINE v == SubSeq(x, 1, j)
  <2>1. v \in Seq(P) /\ Len(v) = j /\ \A i \in 1..j : v[i] = x[i]
    BY <1>1
  <2> HIDE DEF v
  <2>2. \A i \in 1..j : s[i] = v[i]
    BY <1>1, <1>2, <1>3, <2>1
  <2>3. s = v
    BY <1>1, <1>3, <2>1, <2>2
  <2> QED
    BY <2>3 DEF v
<1>5. j > Len(x) => s = x \o SubSeq(y, 1, j - Len(x))
  <2> SUFFICES ASSUME j > Len(x)
               PROVE  s = x \o SubSeq(y, 1, j - Len(x))
    OBVIOUS
  <2> DEFINE m == j - Len(x)  v == SubSeq(y, 1, m)  q == x \o v
  <2>1. m \in Nat /\ m <= Len(y) /\ j = Len(x) + m
    BY <1>1
  <2> HIDE DEF m
  <2>2. v \in Seq(P) /\ Len(v) = m /\ \A i \in 1..m : v[i] = y[i]
    BY <1>1, <2>1
  <2> HIDE DEF v
  <2>3. q \in Seq(P) /\ Len(q) = j
        /\ \A i \in 1..j : q[i] = IF i <= Len(x) THEN x[i] ELSE v[i - Len(x)]
    BY <2>1, <2>2
  <2> HIDE DEF q
  <2>4. ASSUME NEW i \in 1..j
        PROVE  s[i] = q[i]
    <3>1. CASE i <= Len(x)
      <4>1. i \in 1..Len(z) /\ i \in Nat
        BY <1>1, <1>2
      <4>2. z[i] = x[i]
        BY <1>2, <3>1, <4>1
      <4>3. q[i] = x[i]
        BY <2>3, <3>1
      <4> QED
        BY <1>3, <4>2, <4>3
    <3>2. CASE ~(i <= Len(x))
      <4>1. i - Len(x) \in 1..m /\ i \in 1..Len(z)
        BY <1>1, <1>2, <2>1, <3>2
      <4>2. q[i] = y[i - Len(x)]
        BY <2>2, <2>3, <3>2, <4>1
      <4>3. s[i] = y[i - Len(x)]
        BY <1>2, <1>3, <3>2, <4>1
      <4> QED
        BY <4>2, <4>3
    <3> QED
      BY <3>1, <3>2
  <2>5. s = q
    BY <1>1, <1>3, <2>3, <2>4
  <2> QED
    BY <2>5 DEF q, v, m
<1> QED
  BY <1>4, <1>5, Zenon DEF StopsIn, s, z

\* The first j of these cells written.
LEMMA CellsStop ==
    ASSUME NEW C, Zero \in C, NEW f \in Seq(C), NEW off \in Nat, NEW cells \in Seq(C),
           NEW own, NEW owner, Owned(own, owner, off, Len(cells)),
           \A i \in 1..Len(cells) : cells[i].t # "trl", NEW j \in 0..Len(cells),
           NEW g, g = Apply(f, SubSeq(WriteCells(off, cells), 1, j))
    PROVE  g \in Seq(C) /\ CellsDiffer(f, g, own, owner) /\ Wrote(f, g, off, SubSeq(cells, 1, j))
<1> DEFINE s == SubSeq(cells, 1, j)
<1>1. /\ s \in Seq(C) /\ Len(s) = j /\ \A i \in 1..j : s[i] = cells[i]
      /\ SubSeq(WriteCells(off, cells), 1, j) = WriteCells(off, s)
  BY SliceOfCells
<1>2. j \in Nat /\ j <= Len(cells) /\ Len(cells) \in Nat
  OBVIOUS
<1> HIDE DEF s
<1>3. g = Apply(f, WriteCells(off, s))
  BY <1>1
<1>4. Owned(own, owner, off, Len(s))
  <2>1. \A o \in off..(off + Len(cells) - 1) : own[o] = owner
    BY DEF Owned
  <2>2. \A o \in off..(off + j - 1) : o \in off..(off + Len(cells) - 1)
    BY <1>2
  <2>3. \A o \in off..(off + j - 1) : own[o] = owner
    BY <2>1, <2>2
  <2> QED
    BY <1>1, <2>3, Zenon DEF Owned
<1>5. \A i \in 1..Len(s) : s[i].t # "trl"
  <2>1. \A i \in 1..j : i \in 1..Len(cells)
    BY <1>2
  <2> QED
    BY <1>1, <2>1, Zenon
<1>6. g \in Seq(C) /\ CellsDiffer(f, g, own, owner) /\ Wrote(f, g, off, s)
  BY <1>1, <1>3, <1>4, <1>5, CellsWritten
<1> QED
  BY <1>6 DEF s

\* The cells from the one after the j-th on are in the file as they would be written.
LastIn(f, off, cells, j) ==
    \A i \in (j + 1)..Len(cells) : off + i <= Len(f) /\ f[off + i] = cells[i]

\* Then the rest of the writes change nothing.
LEMMA AlreadyThere ==
    ASSUME NEW C, Zero \in C, NEW f \in Seq(C), NEW off \in Nat, NEW cells \in Seq(C),
           NEW j \in 1..Len(cells), LastIn(f, off, cells, j)
    PROVE  Apply(f, SubSeq(WriteCells(off, cells), 1, j)) = Apply(f, WriteCells(off, cells))
<1> DEFINE w == WriteCells(off, cells)  n == Len(cells)  lf == Len(f)
           g == Apply(f, SubSeq(w, 1, j))  h == Apply(f, SubSeq(w, 1, n))
<1>1. SubSeq(w, 1, n) = w
  <2>1. w \in Seq(Nat \X C) /\ Len(w) = n
    BY WriteCellsInRow
  <2> HIDE DEF w, n
  <2> QED
    BY <2>1
<1>2. j \in 0..n /\ n \in 0..n /\ j \in Nat /\ n \in Nat /\ 1 <= j /\ j <= n /\ lf \in Nat
  OBVIOUS
<1>3. g \in Seq(C) /\ Overlaid(g, f, cells, off, j)
  BY <1>2, ApplyCells
<1>4. h \in Seq(C) /\ Overlaid(h, f, cells, off, n)
  BY <1>2, ApplyCells
<1> HIDE DEF w, n, lf, g, h
<1>5. /\ Len(g) = IF off + j <= lf THEN lf ELSE off + j
      /\ \A o \in 0..(Len(g) - 1) :
            g[o + 1] = IF off <= o /\ o < off + j THEN cells[o - off + 1]
                       ELSE IF o < lf THEN f[o + 1] ELSE Zero
  BY <1>2, <1>3 DEF Overlaid, lf
<1>6. /\ Len(h) = IF off + n <= lf THEN lf ELSE off + n
      /\ \A o \in 0..(Len(h) - 1) :
            h[o + 1] = IF off <= o /\ o < off + n THEN cells[o - off + 1]
                       ELSE IF o < lf THEN f[o + 1] ELSE Zero
  BY <1>2, <1>4 DEF Overlaid, lf
<1>7. \A i \in (j + 1)..n : off + i <= lf /\ f[off + i] = cells[i]
  BY DEF LastIn, n, lf
<1>8. j = n \/ off + n <= lf
  <2>1. CASE j = n
    BY <2>1
  <2>2. CASE j # n
    <3>1. n \in (j + 1)..n
      BY <1>2, <2>2
    <3> QED
      BY <1>7, <3>1
  <2> QED
    BY <2>1, <2>2
<1>9. Len(g) = Len(h) /\ Len(g) \in Nat
  BY <1>2, <1>5, <1>6, <1>8
<1>10. ASSUME NEW o \in 0..(Len(g) - 1)
       PROVE  g[o + 1] = h[o + 1]
  <2>0. o \in Nat /\ o \in 0..(Len(h) - 1)
    BY <1>9
  <2>1. CASE off <= o /\ o < off + j
    <3>1. o < off + n
      BY <1>2, <2>0, <2>1
    <3>2. g[o + 1] = cells[o - off + 1]
      BY <1>5, <2>1
    <3>3. h[o + 1] = cells[o - off + 1]
      BY <1>6, <2>0, <2>1, <3>1
    <3> QED
      BY <3>2, <3>3
  <2>2. CASE off + j <= o /\ o < off + n
    <3> DEFINE i == o - off + 1
    <3>1. i \in (j + 1)..n /\ off + i = o + 1 /\ off <= o /\ ~(o < off + j)
      BY <1>2, <2>0, <2>2
    <3>2. h[o + 1] = cells[i]
      BY <1>6, <2>0, <2>2, <3>1
    <3> HIDE DEF i
    <3>3. off + i <= lf /\ f[off + i] = cells[i]
      BY <1>7, <3>1
    <3>6. o + 1 <= lf /\ f[o + 1] = cells[i]
      BY <3>1, <3>3, Zenon
    <3>4. o < lf /\ f[o + 1] = cells[i]
      BY <1>2, <2>0, <3>6
    <3>5. g[o + 1] = f[o + 1]
      BY <1>5, <3>1, <3>4
    <3> QED
      BY <3>2, <3>4, <3>5
  <2>3. CASE ~(off <= o /\ o < off + n)
    <3>1. ~(off <= o /\ o < off + j)
      BY <1>2, <2>0, <2>3
    <3>2. g[o + 1] = IF o < lf THEN f[o + 1] ELSE Zero
      BY <1>5, <3>1
    <3>3. h[o + 1] = IF o < lf THEN f[o + 1] ELSE Zero
      BY <1>6, <2>0, <2>3
    <3> QED
      BY <3>2, <3>3
  <2>4. (off <= o /\ o < off + j) \/ (off + j <= o /\ o < off + n) \/ ~(off <= o /\ o < off + n)
    BY <1>2, <2>0
  <2> QED
    BY <2>1, <2>2, <2>3, <2>4, Zenon
<1>11. \A i \in 1..Len(g) : g[i] = h[i]
  <2>1. ASSUME NEW i \in 1..Len(g)
        PROVE  g[i] = h[i]
    <3>1. i - 1 \in 0..(Len(g) - 1) /\ (i - 1) + 1 = i
      BY <1>9
    <3>2. g[(i - 1) + 1] = h[(i - 1) + 1]
      BY <1>10, <3>1
    <3> QED
      BY <3>1, <3>2
  <2> QED
    BY <2>1
<1> DEFINE l == Len(g)
<1>13. /\ g \in Seq(C) /\ h \in Seq(C) /\ Len(g) = l /\ Len(h) = l /\ l \in Nat
       /\ \A i \in 1..l : g[i] = h[i]
  BY <1>3, <1>4, <1>9, <1>11
<1> HIDE DEF l
<1>12. g = h
  BY <1>13
<1> QED
  BY <1>1, <1>12, Zenon DEF g, h, w

\* Of the writes x and then y the first j: some of x, or all of x and some of y.
Halves(C, f, x, y, j) ==
    /\ Apply(f, x) \in Seq(C) /\ Apply(f, x \o y) = Apply(Apply(f, x), y)
    /\ j <= Len(x) => Apply(f, SubSeq(x \o y, 1, j)) = Apply(f, SubSeq(x, 1, j))
    /\ j > Len(x) =>
        /\ j - Len(x) \in 1..Len(y)
        /\ Apply(f, SubSeq(x \o y, 1, j)) = Apply(Apply(f, x), SubSeq(y, 1, j - Len(x)))

LEMMA HalvesAre ==
    ASSUME NEW C, Zero \in C, NEW f \in Seq(C), NEW x \in Seq(Nat \X C), NEW y \in Seq(Nat \X C),
           NEW j \in 0..(Len(x) + Len(y))
    PROVE  Halves(C, f, x, y, j)
<1> DEFINE P == Nat \X C  m == j - Len(x)  v == SubSeq(y, 1, m)
<1>1. InTurn(C, f, x, y)
  BY ApplyConcat
<1>2. x \in Seq(P) /\ y \in Seq(P)
  OBVIOUS
<1>3. StopsIn(x, y, j)
  BY SliceOfConcat
<1>4. Len(x) \in Nat /\ Len(y) \in Nat /\ j \in Nat /\ j <= Len(x) + Len(y)
  OBVIOUS
<1>5. ASSUME j > Len(x)
      PROVE  /\ m \in 1..Len(y)
             /\ Apply(f, SubSeq(x \o y, 1, j)) = Apply(Apply(f, x), v)
  <2>1. m \in 1..Len(y)
    BY <1>4, <1>5
  <2>2. v \in Seq(P)
    <3> HIDE DEF P, m
    <3> QED
      BY <1>2, <2>1
  <2>3. v \in Seq(Nat \X C)
    BY <2>2
  <2> HIDE DEF v, P, m
  <2>4. InTurn(C, f, x, v)
    BY <2>3, ApplyConcat
  <2>5. SubSeq(x \o y, 1, j) = x \o v
    BY <1>3, <1>5, Zenon DEF StopsIn, v, m
  <2> QED
    BY <2>1, <2>4, <2>5, Zenon DEF InTurn
<1>6. j <= Len(x) => Apply(f, SubSeq(x \o y, 1, j)) = Apply(f, SubSeq(x, 1, j))
  BY <1>3, Zenon DEF StopsIn
<1> QED
  BY <1>1, <1>5, <1>6, Zenon DEF Halves, InTurn

-----------------------------------------------------------------------------
(* A torn file.                                                            *)

\* A reader finds the i-th block of the table B in g as it was.
Reads(g, B, i) ==
    /\ BlockReadable(g, B[i].offset) /\ BlockAt(g, B[i].offset).next = Successor(B, i)
    /\ EntriesAt(g, B[i].offset) = B[i].entries
Intact(g, B) == \A i \in 1..Len(B) : Reads(g, B, i)

\* It starts where B does, and the data of all partitions but u is as it was in f.
Seen(f, g, B, u) ==
    /\ HeaderReadable(g) /\ ResolveHead(g) = B[1].offset /\ Len(g) \in Nat /\ Len(B) <= Len(g)
    /\ DataStays(f, g, B, u)

\* The header of block k is the one for the entries es, the entries may be any mix of
\* these and the ones before; the other blocks are as they were.
HalfPut(g, t, B, k, es) ==
    /\ k \in 1..Len(B) /\ \A i \in 1..Len(B) : i # k => Reads(g, B, i)
    /\ BlockAt(g, B[k].offset) = PutCell(B, k, es)
    /\ es = B[k].entries => g = t

LEMMA HeldReads ==
    ASSUME NEW C, NEW g \in Seq(C), NEW own, NEW B, NEW i, B[i].entries \in Seq(C),
           BlockHeld(g, own, B[i].offset, Successor(B, i), B[i].algo, B[i].entries)
    PROVE  Reads(g, B, i) /\ BlockParses(g, B[i].offset)
<1> DEFINE off == B[i].offset  next == Successor(B, i)  algo == B[i].algo  es == B[i].entries
<1>1. BlockHeld(g, own, off, next, algo, es) /\ es \in Seq(C)
  OBVIOUS
<1> HIDE DEF off, next, algo, es
<1>2. /\ BlockReadable(g, off) /\ BlockAt(g, off).next = next /\ EntriesAt(g, off) = es
  BY <1>1, BlockRead
<1>3. BlockParses(g, off)
  BY <1>2 DEF BlockReadable
<1> QED
  BY <1>2, <1>3 DEF Reads, off, next, es

\* What a change in u's region, and then one in the block k, leave of the blocks.
LEMMA PartLeaves ==
    ASSUME NEW C, NEW f \in Seq(C), NEW g \in Seq(C), NEW own, NEW u, CellsDiffer(f, g, own, OfPart(u)),
           NEW lim, NEW B, Image(f, own, lim, C, B, 0)
    PROVE  BlocksHeld(g, own, B)
<1>1. ASSUME NEW i \in 1..Len(B)
      PROVE  BlockHeld(g, own, B[i].offset, Successor(B, i), B[i].algo, B[i].entries)
  <2>1. /\ BlockHeld(f, own, B[i].offset, Successor(B, i), B[i].algo, B[i].entries)
        /\ Len(B[i].entries) \in Nat
    BY BlockOf
  <2>2. OfBlock(B[i].offset) # OfPart(u)
    BY DEF OfBlock, OfPart
  <2>3. Len(f) \in Nat /\ Len(g) \in Nat
    OBVIOUS
  <2> QED
    BY <2>1, <2>2, <2>3, BlockKept
<1> QED
  BY <1>1, Zenon DEF BlocksHeld

LEMMA BlockLeaves ==
    ASSUME NEW C, NEW f \in Seq(C), NEW g \in Seq(C), NEW own, NEW B \in Tables(C), NEW k \in 1..Len(B),
           CellsDiffer(f, g, own, OfBlock(B[k].offset)), BlocksHeld(f, own, B), BlocksApart(B),
           NEW i \in 1..Len(B), i # k
    PROVE  Reads(g, B, i) /\ BlockParses(g, B[i].offset)
<1>1. BlockHeld(f, own, B[i].offset, Successor(B, i), B[i].algo, B[i].entries)
  BY Zenon DEF BlocksHeld
<1>2. OfBlock(B[i].offset) # OfBlock(B[k].offset)
  <2>1. B[i].offset # B[k].offset
    BY Zenon DEF BlocksApart
  <2> QED
    BY <2>1 DEF OfBlock
<1>3. Len(f) \in Nat /\ Len(g) \in Nat
  OBVIOUS
<1>4. B[i].entries \in Seq(C) /\ Len(B[i].entries) \in Nat
  <2> DEFINE R == [offset : Nat \ {0}, algo : {"None", "Sha256"}, entries : Seq(C)]
  <2>1. B \in Seq(R) /\ \A r \in R : r.entries \in Seq(C)
    BY DEF Tables
  <2> HIDE DEF R
  <2>2. B[i] \in R
    BY <2>1
  <2>3. B[i].entries \in Seq(C)
    BY <2>1, <2>2
  <2> QED
    BY <2>3
<1>5. BlockHeld(g, own, B[i].offset, Successor(B, i), B[i].algo, B[i].entries)
  BY <1>1, <1>2, <1>3, <1>4, BlockKept
<1> QED
  BY <1>4, <1>5, HeldReads

LEMMA SeenIf ==
    ASSUME NEW C, NEW f \in Seq(C), NEW g \in Seq(C), NEW own, NEW lim, NEW B,
           Image(f, own, lim, C, B, 0), Len(f) <= Len(g), HeadIs(g, own, B[1].offset),
           BlockParses(g, B[1].offset), NEW u, DataStays(f, g, B, u)
    PROVE  Seen(f, g, B, u)
<1>1. B \in Tables(C) /\ Len(B) >= 1 /\ Len(B) <= Len(f)
  BY DEF Image
<1>2. Len(B) \in Nat /\ Len(f) \in Nat /\ Len(g) \in Nat
  BY <1>1 DEF Tables
<1>3. 1 \in 1..Len(B) /\ Len(B) <= Len(g)
  BY <1>1, <1>2
<1>4. B[1].offset \in Nat \ {0}
  BY <1>3, BlockOf
<1>5. HeaderReadable(g) /\ ResolveHead(g) = B[1].offset
  BY <1>4, HeadParsed
<1> QED
  BY <1>2, <1>3, <1>5, Zenon DEF Seen

\* The data of u partly written.
LEMMA DataTorn ==
    ASSUME NEW C, Zero \in C, NEW f \in Seq(C), NEW own, NEW lim, NEW B, Image(f, own, lim, C, B, 0),
           HeadIs(f, own, B[1].offset), NEW u, NEW at \in Nat, NEW d \in Seq(C), Untrailed(d),
           Owned(own, OfPart(u), at, Len(d)), NEW j \in 0..Len(d),
           NEW g, g = Apply(f, SubSeq(WriteCells(at, d), 1, j))
    PROVE  /\ g \in Seq(C) /\ CellsDiffer(f, g, own, OfPart(u)) /\ HeadIs(g, own, B[1].offset)
           /\ BlocksHeld(g, own, B) /\ Seen(f, g, B, u) /\ Intact(g, B)
<1>1. g \in Seq(C) /\ CellsDiffer(f, g, own, OfPart(u))
  <2>1. \A i \in 1..Len(d) : d[i].t # "trl"
    BY DEF Untrailed
  <2> QED
    BY <2>1, CellsStop
<1>2. BlocksHeld(g, own, B)
  BY <1>1, PartLeaves
<1>3. HeadIs(g, own, B[1].offset)
  <2>1. OfPart(u) # OfHeader /\ OfPart(u) # OfTrailer
    BY DEF OfPart, OfHeader, OfTrailer
  <2> QED
    BY <1>1, <2>1, HeadKept
<1>4. ASSUME NEW i \in 1..Len(B)
      PROVE  Reads(g, B, i) /\ BlockParses(g, B[i].offset)
  <2>1. B[i].entries \in Seq(C)
    BY BlockOf
  <2>2. BlockHeld(g, own, B[i].offset, Successor(B, i), B[i].algo, B[i].entries)
    BY <1>2, Zenon DEF BlocksHeld
  <2> QED
    BY <1>1, <2>1, <2>2, HeldReads
<1>5. DataStays(f, g, B, u)
  BY <1>1, OwnersApart, ImageStays
<1>6. 1 \in 1..Len(B)
  <2>1. B \in Tables(C) /\ Len(B) >= 1
    BY DEF Image
  <2> QED
    BY <2>1 DEF Tables
<1>7. Len(f) <= Len(g)
  BY <1>1 DEF CellsDiffer
<1>8. Seen(f, g, B, u)
  BY <1>1, <1>3, <1>4, <1>5, <1>6, <1>7, SeenIf
<1> QED
  BY <1>1, <1>2, <1>3, <1>4, <1>8 DEF Intact

\* The block k partly written with the entries es; f1 is f but for the data of u.
LEMMA BlockTorn ==
    ASSUME NEW C, Zero \in C, NEW f \in Seq(C), NEW own, NEW lim, NEW B, Image(f, own, lim, C, B, 0),
           NEW u, NEW f1 \in Seq(C), CellsDiffer(f, f1, own, OfPart(u)), BlocksHeld(f1, own, B),
           HeadIs(f1, own, B[1].offset),
           NEW k \in 1..Len(B), NEW es \in Seq(C), PutCell(B, k, es) \in C,
           Owned(own, OfBlock(B[k].offset), B[k].offset, Len(es) + 1),
           \A s \in 1..Len(es) : es[s].t = "ent",
           NEW m \in 1..(Len(es) + 1),
           NEW g, g = Apply(f1, SubSeq(PutWrites(B, k, es), 1, m)),
           NEW t, t = Apply(f1, PutWrites(B, k, es))
    PROVE  Seen(f, g, B, u) /\ HalfPut(g, t, B, k, es)
<1> DEFINE off == B[k].offset  X == BlockCells(Successor(B, k), B[k].algo, es)  pc == PutCell(B, k, es)
           fs == B[k].entries
<1>1. B \in Tables(C) /\ Len(B) >= 1 /\ BlocksApart(B)
  BY DEF Image
<1>2. off \in Nat \ {0} /\ fs \in Seq(C) /\ Len(fs) \in Nat /\ Len(B) \in Nat
  BY BlockOf
<1>3. 1 \in 1..Len(B)
  BY <1>1, <1>2
<1>4. /\ PutWrites(B, k, es) = WriteCells(off, X) /\ X \in Seq(C) /\ Len(X) = Len(es) + 1
      /\ X[1] = pc /\ \A i \in 1..Len(es) : X[i + 1] = es[i]
  <2>1. BlockCell(Len(es), Successor(B, k), B[k].algo, TableHash(B[k].algo, Successor(B, k), es)) \in C
    BY Zenon DEF PutCell
  <2> QED
    BY <1>2, <2>1, WriteBlockIs DEF PutWrites, PutCell
<1>5. pc.t = "blk"
  BY DEF PutCell, BlockCell
<1>6. BlockHeld(f1, own, off, Successor(B, k), B[k].algo, fs)
  BY Zenon DEF BlocksHeld
<1> HIDE DEF off, X, pc, fs
<1>7. \A i \in 1..Len(X) : X[i].t # "trl"
  <2>1. ASSUME NEW i \in 1..Len(X)
        PROVE  X[i].t # "trl"
    <3>1. CASE i = 1
      BY <1>4, <1>5, <3>1
    <3>2. CASE i # 1
      <4> DEFINE j == i - 1
      <4>1. j \in 1..Len(es) /\ j + 1 = i
        BY <1>4, <3>2
      <4> HIDE DEF j
      <4>2. X[i] = es[j] /\ es[j].t = "ent"
        BY <1>4, <4>1
      <4> QED
        BY <4>2
    <3> QED
      BY <3>1, <3>2
  <2> QED
    BY <2>1
<1>8. /\ g \in Seq(C) /\ CellsDiffer(f1, g, own, OfBlock(off))
      /\ Wrote(f1, g, off, SubSeq(X, 1, m))
  <2>1. Owned(own, OfBlock(off), off, Len(X))
    BY <1>4 DEF off
  <2>2. m \in 0..Len(X) /\ off \in Nat
    BY <1>2, <1>4
  <2>3. g = Apply(f1, SubSeq(WriteCells(off, X), 1, m))
    BY <1>4
  <2> QED
    BY <1>4, <1>7, <2>1, <2>2, <2>3, CellsStop
<1>9. At(g, off) = pc /\ off < Len(g)
  <2> DEFINE s == SubSeq(X, 1, m)
  <2>1. m \in 0..Len(X) /\ m \in Nat /\ m >= 1 /\ 1 \in 1..m /\ off \in Nat
    BY <1>2, <1>4
  <2>2. s \in Seq(C) /\ Len(s) = m /\ \A i \in 1..m : s[i] = X[i]
    BY <1>4, <2>1, SliceOfCells
  <2> HIDE DEF s
  <2>3. /\ Len(g) = IF Len(s) = 0 \/ off + Len(s) <= Len(f1) THEN Len(f1) ELSE off + Len(s)
        /\ \A i \in 1..Len(s) : At(g, off + i - 1) = s[i]
    BY <1>8 DEF Wrote, s
  <2>6. 1 \in 1..Len(s) /\ Len(f1) \in Nat
    BY <2>1, <2>2
  <2>7. At(g, off + 1 - 1) = s[1]
    BY ONLY <2>3, <2>6
  <2>8. off + 1 - 1 = off
    BY ONLY <2>1
  <2>4. At(g, off + 1 - 1) = X[1] /\ off + 1 - 1 = off
    BY ONLY <2>1, <2>2, <2>7, <2>8
  <2>9. Len(g) = IF m = 0 \/ off + m <= Len(f1) THEN Len(f1) ELSE off + m
    BY <2>2, <2>3, Zenon
  <2>10. m \in Nat /\ m # 0 /\ off \in Nat /\ Len(f1) \in Nat
    BY <2>1, <2>6
  <2>5. off < Len(g)
    <3>1. CASE off + m <= Len(f1)
      <4>1. Len(g) = Len(f1)
        BY <2>9, <3>1, Zenon
      <4> QED
        BY ONLY <2>10, <3>1, <4>1
    <3>2. CASE ~(off + m <= Len(f1))
      <4>1. Len(g) = off + m
        BY <2>9, <2>10, <3>2, Zenon
      <4> QED
        BY ONLY <2>10, <4>1
    <3> QED
      BY <3>1, <3>2
  <2> QED
    BY <1>4, <2>4, <2>5
<1>10. BlockAt(g, off) = pc /\ BlockParses(g, off)
  <2>1. off \in 0..(Len(g) - 1)
    BY <1>2, <1>8, <1>9
  <2> QED
    BY <1>5, <1>9, <2>1 DEF BlockAt, BlockParses, At
<1>11. ASSUME NEW i \in 1..Len(B), i # k
       PROVE  Reads(g, B, i) /\ BlockParses(g, B[i].offset)
  BY <1>1, <1>8, <1>11, BlockLeaves DEF off
<1>12. HeadIs(g, own, B[1].offset)
  <2>1. OfBlock(off) # OfHeader /\ OfBlock(off) # OfTrailer
    BY DEF OfBlock, OfHeader, OfTrailer
  <2> QED
    BY <1>8, <2>1, HeadKept
<1>13. BlockParses(g, B[1].offset)
  <2>1. CASE k = 1
    BY <1>10, <2>1 DEF off
  <2>2. CASE k # 1
    BY <1>3, <1>11, <2>2
  <2> QED
    BY <2>1, <2>2
<1>14. DataStays(f, g, B, u)
  BY <1>8, BothStay
<1>15. Len(f) <= Len(g)
  <2>1. Len(f) <= Len(f1) /\ Len(f1) <= Len(g)
    BY <1>8 DEF CellsDiffer
  <2>2. Len(f) \in Nat /\ Len(f1) \in Nat /\ Len(g) \in Nat
    BY <1>8
  <2> QED
    BY <2>1, <2>2
<1>16. Seen(f, g, B, u)
  BY <1>8, <1>12, <1>13, <1>14, <1>15, SeenIf
<1>17. es = fs => g = t
  <2> SUFFICES ASSUME es = fs
               PROVE  g = t
    OBVIOUS
  <2>1. /\ off + Len(fs) < Len(f1)
        /\ \A i \in 1..Len(fs) : At(f1, off + i) = fs[i]
    BY <1>6 DEF BlockHeld
  <2>2. LastIn(f1, off, X, m)
    <3>1. ASSUME NEW i \in (m + 1)..Len(X)
          PROVE  off + i <= Len(f1) /\ f1[off + i] = X[i]
      <4> DEFINE j == i - 1
      <4>5. Len(X) = Len(fs) + 1 /\ m \in Nat \ {0} /\ Len(fs) \in Nat /\ off \in Nat
        BY <1>2, <1>4
      <4>6. i \in (m + 1)..Len(X)
        OBVIOUS
      <4>7. j \in 1..Len(fs) /\ j + 1 = i /\ i \in Nat /\ off + i = (off + j) + 1
            /\ off + i <= off + Len(fs) + 1
        BY ONLY <4>5, <4>6
      <4>1. j \in 1..Len(fs) /\ j + 1 = i /\ i \in Nat /\ off + i = (off + j) + 1
            /\ off + i <= off + Len(fs) + 1 /\ Len(f1) \in Nat
        BY <4>7
      <4> HIDE DEF j
      <4>2. X[i] = fs[j]
        BY <1>4, <4>1
      <4>3. f1[(off + j) + 1] = fs[j]
        BY <2>1, <4>1 DEF At
      <4>4. off + i <= Len(f1)
        BY <1>2, <2>1, <4>1
      <4> QED
        BY <4>1, <4>2, <4>3, <4>4, Zenon
    <3> QED
      BY <3>1, Zenon DEF LastIn
  <2>3. m \in 1..Len(X) /\ off \in Nat
    BY <1>2, <1>4
  <2>4. Apply(f1, SubSeq(WriteCells(off, X), 1, m)) = Apply(f1, WriteCells(off, X))
    BY <1>4, <2>2, <2>3, AlreadyThere
  <2> QED
    BY <1>4, <2>4
<1>18. HalfPut(g, t, B, k, es)
  BY <1>10, <1>11, <1>17, Zenon DEF HalfPut, off, pc, fs
<1> QED
  BY <1>16, <1>18

\* P is B with the entries es in the block k.
IsPut(P, B, k, es) ==
    /\ Len(P) = Len(B)
    /\ \A i \in 1..Len(B) : /\ P[i].offset = B[i].offset
                            /\ P[i].entries = IF i = k THEN es ELSE B[i].entries

PutTorn(f, g, t, B, P, u) ==
    /\ Seen(f, g, B, u)
    /\ \/ Intact(g, B) /\ Len(P) = Len(B)
       \/ \E k, es : IsPut(P, B, k, es) /\ HalfPut(g, t, B, k, es)

LEMMA PutIsTorn ==
    ASSUME NEW C, NEW own, NEW lim, NEW f, NEW ws, NEW B, NEW u, NEW at, NEW d, NEW k, NEW es,
           PutWith(C, own, lim, f, ws, B, u, at, d, k, es), NEW j \in 0..(Len(ws) - 1),
           NEW g, g = Apply(f, SubSeq(ws, 1, j)), NEW t, t = Apply(f, ws)
    PROVE  PutTorn(f, g, t, B, Put(B, k, es), u)
<1> DEFINE x == WriteCells(at, d)  y == PutWrites(B, k, es)  m == j - Len(x)
<1>1. /\ Zero \in C /\ f \in Seq(C) /\ Image(f, own, lim, C, B, 0) /\ HeadIs(f, own, B[1].offset)
      /\ at \in Nat /\ d \in Seq(C) /\ Untrailed(d) /\ Owned(own, OfPart(u), at, Len(d))
      /\ k \in 1..Len(B) /\ es \in Seq(C) /\ PutCell(B, k, es) \in C
      /\ Owned(own, OfBlock(B[k].offset), B[k].offset, Len(es) + 1)
      /\ \A s \in 1..Len(es) : es[s].t = "ent"
      /\ ws = x \o y
  BY Zenon DEF PutWith
<1>2. B \in Tables(C)
  BY <1>1 DEF Image
<1>3. B[k].offset \in Nat
  BY <1>1, BlockOf
<1>4. IsPut(Put(B, k, es), B, k, es)
  <2>1. /\ Len(Put(B, k, es)) = Len(B)
        /\ \A i \in 1..Len(B) : /\ Put(B, k, es)[i].offset = B[i].offset
                                /\ Put(B, k, es)[i].entries = IF i = k THEN es ELSE B[i].entries
    BY <1>1, <1>2, PutIs
  <2> QED
    BY <2>1, Zenon DEF IsPut
<1>5. /\ y \in Seq(Nat \X C) /\ Len(y) = Len(es) + 1
      /\ x \in Seq(Nat \X C) /\ Len(x) = Len(d)
  <2> DEFINE X == BlockCells(Successor(B, k), B[k].algo, es)
  <2>1. BlockCell(Len(es), Successor(B, k), B[k].algo, TableHash(B[k].algo, Successor(B, k), es)) \in C
    BY <1>1, Zenon DEF PutCell
  <2>2. y = WriteCells(B[k].offset, X) /\ X \in Seq(C) /\ Len(X) = Len(es) + 1
    BY <1>1, <1>3, <2>1, WriteBlockIs DEF PutWrites
  <2> HIDE DEF X, y
  <2>3. y \in Seq(Nat \X C) /\ Len(y) = Len(es) + 1
    BY <1>3, <2>2, WriteCellsInRow
  <2>4. x \in Seq(Nat \X C) /\ Len(x) = Len(d)
    BY <1>1, WriteCellsInRow
  <2> QED
    BY <2>3, <2>4
<1> HIDE DEF x, y
<1>6. j \in 0..(Len(x) + Len(y)) /\ j - Len(x) <= Len(es) /\ Len(es) \in Nat /\ Len(x) \in Nat
  <2> DEFINE P == Nat \X C
  <2>2. x \in Seq(P) /\ y \in Seq(P) /\ es \in Seq(C) /\ ws = x \o y
    BY <1>1, <1>5
  <2> HIDE DEF P
  <2>1. Len(ws) = Len(x) + Len(y) /\ Len(x) \in Nat /\ Len(y) \in Nat /\ Len(es) \in Nat
    BY ONLY <2>2
  <2> QED
    BY <1>5, <2>1
<1>7. Halves(C, f, x, y, j)
  BY <1>1, <1>5, <1>6, HalvesAre
<1>8. CASE j <= Len(x)
  <2>1. g = Apply(f, SubSeq(x, 1, j))
    BY <1>1, <1>7, <1>8, Zenon DEF Halves
  <2>2. j \in 0..Len(d)
    BY <1>5, <1>6, <1>8
  <2>3. Seen(f, g, B, u) /\ Intact(g, B)
    BY <1>1, <2>1, <2>2, DataTorn DEF x
  <2> QED
    BY <1>4, <2>3, Zenon DEF PutTorn, IsPut
<1>9. CASE j > Len(x)
  <2> DEFINE f1 == Apply(f, x)
  <2>1. /\ m \in 1..Len(y) /\ f1 \in Seq(C) /\ g = Apply(f1, SubSeq(y, 1, m))
        /\ t = Apply(f1, y)
    BY <1>1, <1>7, <1>9, Zenon DEF Halves
  <2>2. m \in 1..(Len(es) + 1)
    BY <1>5, <2>1
  <2>3. CellsDiffer(f, f1, own, OfPart(u)) /\ HeadIs(f1, own, B[1].offset) /\ BlocksHeld(f1, own, B)
    <3>1. Len(d) \in 0..Len(d) /\ Len(d) \in Nat
      BY <1>1
    <3>2. SubSeq(x, 1, Len(d)) = x
      BY <1>5
    <3>3. f1 = Apply(f, SubSeq(WriteCells(at, d), 1, Len(d)))
      BY <3>2, Zenon DEF x
    <3> HIDE DEF f1
    <3> QED
      BY <1>1, <3>1, <3>3, DataTorn
  <2> HIDE DEF f1, m
  <2>4. Seen(f, g, B, u) /\ HalfPut(g, t, B, k, es)
    BY <1>1, <2>1, <2>2, <2>3, BlockTorn DEF y
  <2> QED
    BY <1>4, <2>4, Zenon DEF PutTorn
<1>10. j <= Len(x) \/ j > Len(x)
  BY <1>6
<1> QED
  BY <1>8, <1>9, <1>10

\* P is B and one block more.
IsGrown(P, B) ==
    /\ Len(P) = Len(B) + 1
    /\ \A i \in 1..Len(B) : P[i].offset = B[i].offset /\ P[i].entries = B[i].entries

LEMMA GrownIsGrown ==
    ASSUME NEW C, NEW B \in Tables(C), NEW r
    PROVE  IsGrown(Grown(B, r), B)
<1> DEFINE R == [offset : Nat \ {0}, algo : {"None", "Sha256"}, entries : Seq(C)]
           S == R \cup {r}
<1>1. B \in Seq(R)
  BY DEF Tables
<1> HIDE DEF R
<1>2. B \in Seq(S) /\ r \in S
  BY <1>1
<1> HIDE DEF S
<1>3. Len(Append(B, r)) = Len(B) + 1 /\ \A i \in 1..Len(B) : Append(B, r)[i] = B[i]
  BY <1>2
<1> QED
  BY <1>3, Zenon DEF IsGrown, Grown

\* What a reader makes of a file that still holds the table.
WholeStill(f, g, B, u) == Seen(f, g, B, u) /\ Intact(g, B) /\ Verify(g, B[1].offset)

LEMMA ImageWhole ==
    ASSUME NEW C, NEW f \in Seq(C), NEW g \in Seq(C), NEW own, NEW lim, NEW B,
           Image(f, own, lim, C, B, 0), Image(g, own, lim, C, B, 0), Len(f) <= Len(g),
           HeadIs(g, own, B[1].offset), NEW u, DataStays(f, g, B, u)
    PROVE  WholeStill(f, g, B, u)
<1>1. ASSUME NEW i \in 1..Len(B)
      PROVE  Reads(g, B, i) /\ BlockParses(g, B[i].offset)
  <2>1. /\ B[i].entries \in Seq(C)
        /\ BlockHeld(g, own, B[i].offset, Successor(B, i), B[i].algo, B[i].entries)
    BY BlockOf
  <2> QED
    BY <2>1, HeldReads
<1>2. 1 \in 1..Len(B)
  <2>1. B \in Tables(C) /\ Len(B) >= 1
    BY DEF Image
  <2> QED
    BY <2>1 DEF Tables
<1>3. Seen(f, g, B, u)
  BY <1>1, <1>2, SeenIf
<1>4. Verify(g, B[1].offset)
  BY ImageVerifies
<1> QED
  BY <1>1, <1>3, <1>4, Zenon DEF WholeStill, Intact

\* A change of a block that is not one of the table's.
LEMMA ImageBeside ==
    ASSUME NEW C, NEW f \in Seq(C), NEW g \in Seq(C), NEW own, NEW x, CellsDiffer(f, g, own, OfBlock(x)),
           NEW lim, NEW B, Image(f, own, lim, C, B, 0), NoneAt(B, x), HeadIs(f, own, B[1].offset)
    PROVE  Image(g, own, lim, C, B, 0) /\ HeadIs(g, own, B[1].offset)
<1>1. \A i \in 1..Len(B) : OfBlock(B[i].offset) # OfBlock(x)
  BY DEF NoneAt, OfBlock
<1>2. \A i \in 1..Len(B) : i # 0 =>
            \A s \in 1..Len(B[i].entries) : OfPart(B[i].entries[s].uid) # OfBlock(x)
  BY DEF OfPart, OfBlock
<1>3. OfBlock(x) # OfHeader /\ OfBlock(x) # OfTrailer
  BY DEF OfBlock, OfHeader, OfTrailer
<1> QED
  BY <1>1, <1>2, <1>3, ImageKept, HeadKept

\* A change of the region of a partition that the table does not list.
LEMMA ImageUnused ==
    ASSUME NEW C, NEW f \in Seq(C), NEW g \in Seq(C), NEW own, NEW u, CellsDiffer(f, g, own, OfPart(u)),
           NEW lim, NEW B, Image(f, own, lim, C, B, 0), Unused(B, u), HeadIs(f, own, B[1].offset)
    PROVE  Image(g, own, lim, C, B, 0) /\ HeadIs(g, own, B[1].offset)
<1>1. \A i \in 1..Len(B) : OfBlock(B[i].offset) # OfPart(u)
  BY DEF OfBlock, OfPart
<1>2. \A i \in 1..Len(B) : i # 0 =>
            \A s \in 1..Len(B[i].entries) : OfPart(B[i].entries[s].uid) # OfPart(u)
  BY DEF OfPart, Unused
<1>3. OfPart(u) # OfHeader /\ OfPart(u) # OfTrailer
  BY DEF OfPart, OfHeader, OfTrailer
<1> QED
  BY <1>1, <1>2, <1>3, ImageKept, HeadKept

\* The first m writes of a block.
LEMMA BlockStop ==
    ASSUME NEW C, Zero \in C, NEW f \in Seq(C), NEW off \in Nat, NEW next, NEW algo, NEW es \in Seq(C),
           BlockCell(Len(es), next, algo, TableHash(algo, next, es)) \in C,
           \A s \in 1..Len(es) : es[s].t = "ent",
           NEW own, Owned(own, OfBlock(off), off, Len(es) + 1), NEW m \in 0..(Len(es) + 1),
           NEW g, g = Apply(f, SubSeq(WriteBlock(off, next, algo, es), 1, m))
    PROVE  g \in Seq(C) /\ CellsDiffer(f, g, own, OfBlock(off))
<1> DEFINE X == BlockCells(next, algo, es)  bc == BlockCell(Len(es), next, algo, TableHash(algo, next, es))
<1>1. /\ WriteBlock(off, next, algo, es) = WriteCells(off, X) /\ X \in Seq(C) /\ Len(X) = Len(es) + 1
      /\ X[1] = bc /\ \A i \in 1..Len(es) : X[i + 1] = es[i]
  BY WriteBlockIs
<1>2. bc.t = "blk" /\ Len(es) \in Nat
  BY DEF BlockCell
<1> HIDE DEF X, bc
<1>3. \A i \in 1..Len(X) : X[i].t # "trl"
  <2>1. ASSUME NEW i \in 1..Len(X)
        PROVE  X[i].t # "trl"
    <3>1. CASE i = 1
      BY <1>1, <1>2, <3>1
    <3>2. CASE i # 1
      <4> DEFINE j == i - 1
      <4>1. j \in 1..Len(es) /\ j + 1 = i
        BY <1>1, <1>2, <3>2
      <4> HIDE DEF j
      <4>2. X[i] = es[j] /\ es[j].t = "ent"
        BY <1>1, <4>1
      <4> QED
        BY <4>2
    <3> QED
      BY <3>1, <3>2
  <2> QED
    BY <2>1
<1>4. Owned(own, OfBlock(off), off, Len(X)) /\ m \in 0..Len(X)
  BY <1>1
<1>5. g = Apply(f, SubSeq(WriteCells(off, X), 1, m))
  BY <1>1
<1> QED
  BY <1>1, <1>3, <1>4, <1>5, CellsStop

\* The last block of the table written again from its m-th cell, only with another link:
\* after the header all is as it was.
LEMMA LinkAtOnce ==
    ASSUME NEW C, Zero \in C, NEW f \in Seq(C), NEW own, NEW lim, NEW B, Image(f, own, lim, C, B, 0),
           NEW k \in 1..Len(B), NEW next, LinkCell(B, k, next) \in C,
           NEW m \in 1..(Len(B[k].entries) + 1)
    PROVE  Apply(f, SubSeq(LinkWrites(B, k, next), 1, m)) = Apply(f, LinkWrites(B, k, next))
<1> DEFINE off == B[k].offset  el == B[k].algo  fs == B[k].entries  X == BlockCells(next, el, fs)
<1>1. /\ off \in Nat \ {0} /\ fs \in Seq(C) /\ Len(fs) \in Nat
      /\ BlockHeld(f, own, off, Successor(B, k), el, fs)
  BY BlockOf
<1>2. BlockCell(Len(fs), next, el, TableHash(el, next, fs)) \in C
  BY Zenon DEF LinkCell
<1>3. LinkWrites(B, k, next) = WriteBlock(off, next, el, fs)
  BY Zenon DEF LinkWrites
<1>4. m \in 1..(Len(fs) + 1)
  OBVIOUS
<1> HIDE DEF off, el, fs
<1>5. off \in Nat
  BY <1>1
<1>6. /\ WriteBlock(off, next, el, fs) = WriteCells(off, X) /\ X \in Seq(C) /\ Len(X) = Len(fs) + 1
      /\ \A i \in 1..Len(fs) : X[i + 1] = fs[i]
  BY <1>1, <1>2, <1>5, WriteBlockIs
<1> HIDE DEF X
<1>7. /\ off + Len(fs) < Len(f)
      /\ \A i \in 1..Len(fs) : At(f, off + i) = fs[i]
  BY <1>1 DEF BlockHeld
<1>8. LastIn(f, off, X, m)
  <2>1. ASSUME NEW i \in (m + 1)..Len(X)
        PROVE  off + i <= Len(f) /\ f[off + i] = X[i]
    <3> DEFINE j == i - 1
    <3>1. Len(X) = Len(fs) + 1 /\ m \in Nat \ {0} /\ Len(fs) \in Nat
      BY <1>1, <1>4, <1>6
    <3>2. i \in (m + 1)..Len(X)
      OBVIOUS
    <3>3. /\ j \in 1..Len(fs) /\ j + 1 = i /\ i \in Nat /\ off + i = (off + j) + 1
          /\ off + i <= off + Len(fs) + 1
      BY ONLY <1>5, <3>1, <3>2
    <3> HIDE DEF j
    <3>4. X[i] = fs[j]
      BY <1>6, <3>3
    <3>5. f[(off + j) + 1] = fs[j]
      BY <1>7, <3>3 DEF At
    <3>7. Len(f) \in Nat
      OBVIOUS
    <3>6. off + i <= Len(f)
      BY ONLY <1>1, <1>5, <1>7, <3>3, <3>7
    <3> QED
      BY <3>3, <3>4, <3>5, <3>6, Zenon
  <2> QED
    BY <2>1, Zenon DEF LastIn
<1>9. m \in 1..Len(X)
  BY <1>4, <1>6
<1> QED
  BY <1>3, <1>5, <1>6, <1>8, <1>9, AlreadyThere

LinkTorn(f, g, t, B, P, u) ==
    IsGrown(P, B) /\ DataStays(f, g, B, u) /\ (g = t \/ WholeStill(f, g, B, u))

\* One file after another, the table in both.
Follows(C, own, lim, f, g, B, u) ==
    /\ g \in Seq(C) /\ Image(g, own, lim, C, B, 0) /\ HeadIs(g, own, B[1].offset)
    /\ Len(f) <= Len(g) /\ DataStays(f, g, B, u)

LEMMA FollowsWhole ==
    ASSUME NEW C, NEW f \in Seq(C), NEW own, NEW lim, NEW B, Image(f, own, lim, C, B, 0),
           NEW g, NEW u, Follows(C, own, lim, f, g, B, u)
    PROVE  WholeStill(f, g, B, u) /\ DataStays(f, g, B, u)
<1>1. /\ g \in Seq(C) /\ Image(g, own, lim, C, B, 0) /\ HeadIs(g, own, B[1].offset)
      /\ Len(f) <= Len(g) /\ DataStays(f, g, B, u)
  BY Zenon DEF Follows
<1> QED
  BY <1>1, ImageWhole

LEMMA PartFollows ==
    ASSUME NEW C, Zero \in C, NEW f \in Seq(C), NEW own, NEW lim, NEW B, Image(f, own, lim, C, B, 0),
           HeadIs(f, own, B[1].offset), NEW u, Unused(B, u),
           NEW at \in Nat, NEW d \in Seq(C), Untrailed(d),
           Owned(own, OfPart(u), at, Len(d)), NEW j \in 0..Len(d),
           NEW g, g = Apply(f, SubSeq(WriteCells(at, d), 1, j))
    PROVE  Follows(C, own, lim, f, g, B, u)
<1>1. g \in Seq(C) /\ CellsDiffer(f, g, own, OfPart(u))
  BY DataTorn
<1>2. Image(g, own, lim, C, B, 0) /\ HeadIs(g, own, B[1].offset)
  BY <1>1, ImageUnused
<1>3. DataStays(f, g, B, u)
  BY <1>1, OwnersApart, ImageStays
<1>4. Len(f) <= Len(g)
  BY <1>1 DEF CellsDiffer
<1> QED
  BY <1>1, <1>2, <1>3, <1>4, Zenon DEF Follows

LEMMA BlockFollows ==
    ASSUME NEW C, Zero \in C, NEW f \in Seq(C), NEW own, NEW lim, NEW B, Image(f, own, lim, C, B, 0),
           NEW u, NEW f1, Follows(C, own, lim, f, f1, B, u),
           NEW next \in Nat, NoneAt(B, next), NEW ta, NEW es \in Seq(C),
           BlockCell(Len(es), 0, ta, TableHash(ta, 0, es)) \in C,
           \A s \in 1..Len(es) : es[s].t = "ent",
           Owned(own, OfBlock(next), next, Len(es) + 1), NEW m \in 0..(Len(es) + 1),
           NEW g, g = Apply(f1, SubSeq(WriteBlock(next, 0, ta, es), 1, m))
    PROVE  Follows(C, own, lim, f, g, B, u)
<1>1. /\ f1 \in Seq(C) /\ Image(f1, own, lim, C, B, 0) /\ HeadIs(f1, own, B[1].offset)
      /\ Len(f) <= Len(f1) /\ DataStays(f, f1, B, u)
  BY Zenon DEF Follows
<1>2. g \in Seq(C) /\ CellsDiffer(f1, g, own, OfBlock(next))
  BY <1>1, BlockStop
<1>3. Image(g, own, lim, C, B, 0) /\ HeadIs(g, own, B[1].offset)
  BY <1>1, <1>2, ImageBeside
<1>4. DataStays(f1, g, B, u)
  BY <1>1, <1>2, OwnersApart, ImageStays
<1>5. DataStays(f, g, B, u)
  BY <1>1, <1>4, StaysOn
<1>6. Len(f) <= Len(g)
  <2>1. Len(f1) <= Len(g)
    BY <1>2 DEF CellsDiffer
  <2>2. Len(f) \in Nat /\ Len(f1) \in Nat /\ Len(g) \in Nat
    BY <1>1, <1>2
  <2> QED
    BY <1>1, <2>1, <2>2
<1> QED
  BY <1>2, <1>3, <1>5, <1>6, Zenon DEF Follows

\* These are n writes.
WritesOf(C, w, n) == w \in Seq(Nat \X C) /\ Len(w) = n

LEMMA BlockWrites ==
    ASSUME NEW C, NEW off \in Nat, NEW next, NEW algo, NEW es \in Seq(C),
           BlockCell(Len(es), next, algo, TableHash(algo, next, es)) \in C
    PROVE  WritesOf(C, WriteBlock(off, next, algo, es), Len(es) + 1)
<1> DEFINE X == BlockCells(next, algo, es)
<1>1. WriteBlock(off, next, algo, es) = WriteCells(off, X) /\ X \in Seq(C) /\ Len(X) = Len(es) + 1
  BY WriteBlockIs
<1> HIDE DEF X
<1>2. WriteCells(off, X) \in Seq(Nat \X C) /\ Len(WriteCells(off, X)) = Len(X)
  BY <1>1, WriteCellsInRow
<1> QED
  BY <1>1, <1>2, Zenon DEF WritesOf

\* All of a list of writes.
LEMMA AllOf ==
    ASSUME NEW P, NEW x \in Seq(P)
    PROVE  SubSeq(x, 1, Len(x)) = x
OBVIOUS

LEMMA BothWrites ==
    ASSUME NEW P, NEW x \in Seq(P), NEW y \in Seq(P)
    PROVE  /\ x \o y \in Seq(P) /\ Len(x \o y) = Len(x) + Len(y)
           /\ Len(x) \in Nat /\ Len(y) \in Nat
OBVIOUS

LEMMA LinkIsTorn ==
    ASSUME NEW C, NEW own, NEW lim, NEW f, NEW ws, NEW B, NEW u, NEW at, NEW d, NEW next, NEW ta, NEW es,
           LinkWith(C, own, lim, f, ws, B, u, at, d, next, ta, es), NEW j \in 0..(Len(ws) - 1),
           NEW g, g = Apply(f, SubSeq(ws, 1, j)), NEW t, t = Apply(f, ws)
    PROVE  LinkTorn(f, g, t, B, Grown(B, ExtendedRow(next, ta, es)), u)
<1> DEFINE x == WriteCells(at, d)  y == WriteBlock(next, 0, ta, es)  n == Len(B)
           z == LinkWrites(B, n, next)  xy == x \o y  P == Nat \X C
<1>1. /\ Zero \in C /\ f \in Seq(C) /\ Image(f, own, lim, C, B, 0) /\ HeadIs(f, own, B[1].offset)
      /\ at \in Nat /\ d \in Seq(C) /\ Untrailed(d) /\ Owned(own, OfPart(u), at, Len(d))
      /\ Unused(B, u) /\ NoneAt(B, next) /\ next \in Nat \ {0}
      /\ es \in Seq(C) /\ BlockCell(Len(es), 0, ta, TableHash(ta, 0, es)) \in C
      /\ LinkCell(B, n, next) \in C
      /\ Owned(own, OfBlock(next), next, Len(es) + 1)
      /\ \A s \in 1..Len(es) : es[s].t = "ent"
      /\ ws = xy \o z
  BY Zenon DEF LinkWith
<1>2. B \in Tables(C) /\ n \in Nat /\ n \in 1..Len(B) /\ next \in Nat
  <2>1. B \in Tables(C) /\ Len(B) >= 1
    BY <1>1 DEF Image
  <2> QED
    BY <1>1, <2>1 DEF Tables
<1>3. IsGrown(Grown(B, ExtendedRow(next, ta, es)), B)
  BY <1>2, GrownIsGrown
<1>4. B[n].offset \in Nat /\ B[n].entries \in Seq(C) /\ Len(B[n].entries) \in Nat
  BY <1>1, <1>2, BlockOf
<1> HIDE DEF n
<1>5. x \in Seq(P) /\ Len(x) = Len(d)
  BY <1>1, WriteCellsInRow
<1>6. y \in Seq(P) /\ Len(y) = Len(es) + 1
  <2>1. WritesOf(C, WriteBlock(next, 0, ta, es), Len(es) + 1)
    BY <1>1, <1>2, BlockWrites
  <2> QED
    BY <2>1, Zenon DEF WritesOf
<1>7. z \in Seq(P) /\ Len(z) = Len(B[n].entries) + 1
  <2>1. BlockCell(Len(B[n].entries), next, B[n].algo, TableHash(B[n].algo, next, B[n].entries)) \in C
    BY <1>1, Zenon DEF LinkCell
  <2>2. z = WriteBlock(B[n].offset, next, B[n].algo, B[n].entries)
    BY Zenon DEF LinkWrites
  <2>3. WritesOf(C, WriteBlock(B[n].offset, next, B[n].algo, B[n].entries), Len(B[n].entries) + 1)
    BY <1>4, <1>2, <2>1, BlockWrites
  <2> QED
    BY <2>2, <2>3, Zenon DEF WritesOf
<1> HIDE DEF x, y, z
<1>8. xy \in Seq(P) /\ Len(xy) = Len(x) + Len(y) /\ Len(x) \in Nat /\ Len(y) \in Nat
  <2> HIDE DEF P
  <2> QED
    BY <1>5, <1>6, BothWrites
<1> HIDE DEF xy
<1>9. Len(ws) = Len(xy) + Len(z) /\ Len(xy) \in Nat /\ Len(z) \in Nat
  <2> HIDE DEF P
  <2> QED
    BY <1>1, <1>7, <1>8, BothWrites
<1>10. j \in 0..(Len(xy) + Len(z)) /\ j \in Nat
  BY <1>9
<1>11. Halves(C, f, xy, z, j)
  BY <1>1, <1>7, <1>8, <1>10, HalvesAre
<1>12. ASSUME NEW i \in 0..Len(xy), NEW h, h = Apply(f, SubSeq(xy, 1, i))
       PROVE  Follows(C, own, lim, f, h, B, u)
  <2>1. i \in 0..(Len(x) + Len(y)) /\ i \in Nat
    BY <1>8
  <2>2. Halves(C, f, x, y, i)
    BY <1>1, <1>5, <1>6, <2>1, HalvesAre
  <2>3. CASE i <= Len(x)
    <3>1. h = Apply(f, SubSeq(WriteCells(at, d), 1, i))
      BY <1>12, <2>2, <2>3, Zenon DEF Halves, xy, x
    <3>2. i \in 0..Len(d)
      BY <1>5, <1>8, <2>1, <2>3
    <3> QED
      BY <1>1, <3>1, <3>2, PartFollows
  <2>4. CASE i > Len(x)
    <3> DEFINE f1 == Apply(f, x)  m == i - Len(x)
    <3>1. m \in 1..Len(y) /\ h = Apply(f1, SubSeq(WriteBlock(next, 0, ta, es), 1, m))
      BY <1>12, <2>2, <2>4, Zenon DEF Halves, xy, y
    <3>2. Follows(C, own, lim, f, f1, B, u)
      <4>1. f1 = Apply(f, SubSeq(WriteCells(at, d), 1, Len(d)))
        <5>1. SubSeq(x, 1, Len(x)) = x
          BY <1>5, AllOf
        <5> QED
          BY <1>5, <5>1, Zenon DEF x
      <4>2. Len(d) \in 0..Len(d)
        BY <1>1
      <4> HIDE DEF f1
      <4> QED
        BY <1>1, <4>1, <4>2, PartFollows
    <3>3. m \in 0..(Len(es) + 1)
      BY <1>6, <3>1
    <3> HIDE DEF f1, m
    <3> QED
      BY <1>1, <1>2, <3>1, <3>2, <3>3, BlockFollows
  <2>5. i <= Len(x) \/ i > Len(x)
    BY <1>8, <2>1
  <2> QED
    BY <2>3, <2>4, <2>5
<1>13. CASE j <= Len(xy)
  <2>1. g = Apply(f, SubSeq(xy, 1, j))
    BY <1>1, <1>11, <1>13, Zenon DEF Halves
  <2>2. j \in 0..Len(xy)
    BY <1>9, <1>10, <1>13
  <2>3. WholeStill(f, g, B, u) /\ DataStays(f, g, B, u)
    BY <1>1, <1>12, <2>1, <2>2, FollowsWhole
  <2> QED
    BY <1>3, <2>3, Zenon DEF LinkTorn
<1>14. CASE j > Len(xy)
  <2> DEFINE f2 == Apply(f, xy)  m == j - Len(xy)
  <2>1. m \in 1..Len(z) /\ g = Apply(f2, SubSeq(z, 1, m)) /\ t = Apply(f2, z)
    BY <1>1, <1>11, <1>14, Zenon DEF Halves
  <2>2. Follows(C, own, lim, f, f2, B, u)
    <3>1. f2 = Apply(f, SubSeq(xy, 1, Len(xy)))
      <4>1. SubSeq(xy, 1, Len(xy)) = xy
        BY <1>8, AllOf
      <4> QED
        BY <4>1, Zenon
    <3>2. Len(xy) \in 0..Len(xy)
      BY <1>9
    <3> HIDE DEF f2
    <3> QED
      BY <1>12, <3>1, <3>2
  <2> HIDE DEF f2
  <2>3. /\ f2 \in Seq(C) /\ Image(f2, own, lim, C, B, 0) /\ DataStays(f, f2, B, u)
    BY <2>2, Zenon DEF Follows
  <2>4. m \in 1..(Len(B[n].entries) + 1)
    BY <1>7, <2>1
  <2> HIDE DEF m
  <2>5. g = t
    <3>1. n \in 1..Len(B)
      BY <1>2
    <3> QED
      BY <1>1, <2>1, <2>3, <2>4, <3>1, LinkAtOnce DEF z
  <2>6. t \in Seq(C) /\ CellsDiffer(f2, t, own, OfBlock(B[n].offset))
    <3>1. BlockHeld(f2, own, B[n].offset, Successor(B, n), B[n].algo, B[n].entries)
      BY <1>2, <2>3, BlockOf
    <3>2. /\ \A s \in 1..Len(B[n].entries) : B[n].entries[s].t = "ent"
          /\ Owned(own, OfBlock(B[n].offset), B[n].offset, Len(B[n].entries) + 1)
      BY <3>1 DEF BlockHeld
    <3>3. BlockCell(Len(B[n].entries), next, B[n].algo, TableHash(B[n].algo, next, B[n].entries)) \in C
      BY <1>1, Zenon DEF LinkCell
    <3>4. t = Apply(f2, SubSeq(WriteBlock(B[n].offset, next, B[n].algo, B[n].entries), 1, m))
      BY <2>1, <2>5, Zenon DEF LinkWrites, z
    <3>5. m \in 0..(Len(B[n].entries) + 1)
      BY <2>4
    <3> QED
      BY <1>1, <1>4, <2>3, <3>2, <3>3, <3>4, <3>5, BlockStop
  <2>7. DataStays(f2, t, B, u)
    BY <2>3, <2>6, OwnersApart, ImageStays
  <2>8. DataStays(f, g, B, u)
    BY <2>3, <2>5, <2>7, StaysOn
  <2> QED
    BY <1>3, <2>5, <2>8, Zenon DEF LinkTorn
<1>15. j <= Len(xy) \/ j > Len(xy)
  BY <1>9, <1>10
<1> QED
  BY <1>13, <1>14, <1>15

-----------------------------------------------------------------------------
(* What a crash leaves.                                                    *)

\* g is what is left of the step from f, with the table B, to t, with the table P.
Torn(f, g, t, B, P, u) == PutTorn(f, g, t, B, P, u) \/ LinkTorn(f, g, t, B, P, u)
TornIn(f, g, t, u) ==
    \E B, P : TableIn(f, B) /\ TableIn(t, P) /\ Torn(f, g, t, B, P, u)

LEMMA NothingDone ==
    ASSUME NEW f
    PROVE  Apply(f, <<>>) = f
<1> DEFINE ws == <<>>  h == CHOOSE h : h = [n \in 0..Len(ws) |-> IF n = 0 THEN f
                                    ELSE WriteAt(h[n - 1], ws[n][1], ws[n][2])]
           x == [n \in 0..0 |-> f]
<1>1. Len(ws) = 0 /\ \A n \in 0..0 : n = 0
  OBVIOUS
<1>2. \A z : [n \in 0..Len(ws) |-> IF n = 0 THEN f ELSE WriteAt(z[n - 1], ws[n][1], ws[n][2])] = x
  BY <1>1
<1>3. h = x
  BY <1>2
<1> HIDE DEF h
<1>4. Apply(f, ws) = h[Len(ws)]
  BY Zenon DEF Apply, h
<1> QED
  BY <1>1, <1>3, <1>4

\* A file that holds the table reads as one.
LEMMA TableSeen ==
    ASSUME NEW f, NEW g, NEW t, NEW B, TableIn(g, B), NEW u, DataStays(f, g, B, u)
    PROVE  PutTorn(f, g, t, B, B, u)
<1>1. PICK C, own, lim : g \in Seq(C) /\ Image(g, own, lim, C, B, 0)
  BY DEF TableIn
<1>2. ASSUME NEW i \in 1..Len(B)
      PROVE  Reads(g, B, i)
  <2>1. /\ B[i].entries \in Seq(C)
        /\ BlockHeld(g, own, B[i].offset, Successor(B, i), B[i].algo, B[i].entries)
    BY <1>1, BlockOf
  <2> QED
    BY <1>1, <2>1, HeldReads
<1>3. /\ HeaderReadable(g) /\ ResolveHead(g) = B[1].offset /\ Len(g) \in Nat
      /\ Len(B) <= Len(g)
  BY <1>1, TableReads DEF Image
<1> QED
  BY <1>2, <1>3, Zenon DEF PutTorn, Seen, Intact

LEMMA EditTorn ==
    ASSUME NEW D, PlainContents(D), NEW C, NEW own, NEW B, NEW cap, Holds(C, own, B, cap),
           finalized = FALSE, NEW u \in Uid, NEW p \in EditPlans(u), NEW k \in 0..(Len(p.writes) - 1)
    PROVE  TornIn(file, Apply(file, SubSeq(p.writes, 1, k)), Apply(file, p.writes), u)
<1> DEFINE ws == p.writes  t == Apply(file, ws)  g == Apply(file, SubSeq(ws, 1, k))
<1>1. PlanMakes(file, t, ws, p.blocks, p.eof, B, table_hash_algo, u)
  BY PlanHolds
<1>2. k \in 0..(Len(ws) - 1) /\ TableIn(file, B)
  BY HandleTable
<1> HIDE DEF ws
<1>3. PICK P : /\ Leaves(t, p.blocks, p.eof, B, P)
               /\ Puts(file, ws, B, P, u) \/ Links(file, ws, B, P, u)
  BY <1>1, Zenon DEF PlanMakes
<1> HIDE DEF t, g
<1>4. TableIn(t, P)
  BY <1>3, Zenon DEF Leaves, TableIn
<1>5. CASE Puts(file, ws, B, P, u)
  <2>1. PICK C2, own2, lim, at, d, j, es :
                PutWith(C2, own2, lim, file, ws, B, u, at, d, j, es) /\ P = Put(B, j, es)
    BY <1>5, Zenon DEF Puts
  <2>2. PutTorn(file, g, t, B, P, u)
    BY <1>2, <2>1, PutIsTorn DEF g, t
  <2> QED
    BY <1>2, <1>4, <2>2, Zenon DEF TornIn, Torn, g, t, ws
<1>6. CASE Links(file, ws, B, P, u)
  <2>1. PICK C2, own2, lim, at, d, next, ta, es :
                /\ LinkWith(C2, own2, lim, file, ws, B, u, at, d, next, ta, es)
                /\ P = Grown(B, ExtendedRow(next, ta, es))
    BY <1>6, Zenon DEF Links
  <2>2. LinkTorn(file, g, t, B, P, u)
    BY <1>2, <2>1, LinkIsTorn DEF g, t
  <2> QED
    BY <1>2, <1>4, <2>2, Zenon DEF TornIn, Torn, g, t, ws
<1> QED
  BY <1>3, <1>5, <1>6

LEMMA FinalTorn ==
    ASSUME NEW C, NEW own, NEW B, NEW cap, Holds(C, own, B, cap), open = TRUE, Materialised,
           NEW k \in 0..(Len(FinalizePlan.writes) - 1)
    PROVE  TornIn(file, Apply(file, SubSeq(FinalizePlan.writes, 1, k)),
                  Apply(file, FinalizePlan.writes), Nil)
<1> DEFINE ws == FinalizePlan.writes  h == B[1].offset  g == Apply(file, SubSeq(ws, 1, k))
           t == Apply(file, ws)
<1>1. TrailerLaid(file, B, ws) /\ HeldUpTo(Republished(file, h), B, Len(file) + 1)
  BY LaysTrailer
<1>2. k \in 0..(Len(ws) - 1) /\ TableIn(file, B)
  BY HandleTable
<1>3. ws = <<<<Len(file), TrailerCell(table_head)>>, <<0, HeaderCell(Sentinel)>>>>
  BY DEF FinalizePlan
<1> HIDE DEF ws
<1>4. /\ TableIn(WithTrailer(file, h), B) /\ DataStays(file, WithTrailer(file, h), B, Nil)
      /\ Len(ws) = 2 /\ t = Republished(file, h)
      /\ Apply(file, SubSeq(ws, 1, 1)) = WithTrailer(file, h)
  BY <1>1, Zenon DEF TrailerLaid
<1>5. TableIn(t, B)
  BY <1>1, <1>4, Zenon DEF HeldUpTo, TableIn
<1>6. k = 0 \/ k = 1
  BY <1>2, <1>4
<1>7. TableIn(g, B) /\ DataStays(file, g, B, Nil)
  <2>1. CASE k = 0
    <3>1. SubSeq(ws, 1, 0) = <<>>
      BY <1>3
    <3>2. g = file
      BY <2>1, <3>1, NothingDone
    <3>3. DataStays(file, file, B, Nil)
      BY Zenon DEF DataStays
    <3> QED
      BY <1>2, <3>2, <3>3, Zenon
  <2>2. CASE k = 1
    BY <1>4, <2>2, Zenon
  <2> QED
    BY <1>6, <2>1, <2>2
<1> HIDE DEF g, t
<1>8. PutTorn(file, g, t, B, B, Nil)
  BY <1>7, TableSeen
<1> QED
  BY <1>2, <1>5, <1>8, Zenon DEF TornIn, Torn, g, t, ws

-----------------------------------------------------------------------------
(* What a reader finds after a crash.                                      *)

\* The n-th block of B is in g as it was.
Stands(g, B, n) == BlockReadable(g, B[n].offset) /\ EntriesAt(g, B[n].offset) = B[n].entries

LEMMA TableStands ==
    ASSUME NEW t, NEW P, TableIn(t, P), NEW n \in 1..Len(P)
    PROVE  Stands(t, P, n)
<1>1. PICK C, own, lim : t \in Seq(C) /\ Image(t, own, lim, C, P, 0)
  BY DEF TableIn
<1>2. BlockReadable(t, P[n].offset) /\ EntriesAt(t, P[n].offset) = P[n].entries
  BY <1>1, TableRead
<1> QED
  BY <1>2, Zenon DEF Stands

\* A block that the operation was not to change is not changed.
LEMMA TornStands ==
    ASSUME NEW f, NEW g, NEW t, NEW u, NEW B, NEW P, TableIn(f, B), TableIn(t, P),
           Torn(f, g, t, B, P, u), NEW n \in 1..Len(B),
           B[n].entries = EntriesAt(t, B[n].offset)
    PROVE  Stands(g, B, n)
<1>1. Len(B) \in Nat /\ Len(P) \in Nat
  BY TableReads
<1>2. ASSUME Intact(g, B)
      PROVE  Stands(g, B, n)
  BY <1>2, Zenon DEF Intact, Reads, Stands
<1>3. ASSUME g = t, n \in 1..Len(P), P[n].offset = B[n].offset
      PROVE  Stands(g, B, n)
  <2>1. Stands(t, P, n)
    BY <1>3, TableStands
  <2> QED
    BY <1>3, <2>1, Zenon DEF Stands
<1>4. ASSUME NEW k, NEW es, IsPut(P, B, k, es), HalfPut(g, t, B, k, es)
      PROVE  Stands(g, B, n)
  <2>1. CASE n # k
    <3>1. Reads(g, B, n)
      BY <1>4, <2>1, Zenon DEF HalfPut
    <3> QED
      BY <3>1, Zenon DEF Reads, Stands
  <2>2. CASE n = k
    <3>1. n \in 1..Len(P) /\ P[n].offset = B[n].offset /\ P[n].entries = es
      BY <1>4, <2>2, Zenon DEF IsPut
    <3>2. Stands(t, P, n)
      BY <3>1, TableStands
    <3>3. es = B[k].entries
      BY <2>2, <3>1, <3>2, Zenon DEF Stands
    <3>4. g = t
      BY <1>4, <3>3, Zenon DEF HalfPut
    <3> QED
      BY <1>3, <3>1, <3>4, Zenon
  <2> QED
    BY <2>1, <2>2
<1>5. ASSUME LinkTorn(f, g, t, B, P, u)
      PROVE  Stands(g, B, n)
  <2>1. Len(P) = Len(B) + 1 /\ P[n].offset = B[n].offset
    BY <1>5, Zenon DEF LinkTorn, IsGrown
  <2>2. n \in 1..Len(P)
    BY <1>1, <2>1
  <2>3. g = t \/ Intact(g, B)
    BY <1>5, Zenon DEF LinkTorn, WholeStill
  <2> QED
    BY <1>2, <1>3, <2>1, <2>2, <2>3
<1> QED
  BY <1>2, <1>4, <1>5, Zenon DEF Torn, PutTorn

LEMMA TornStays ==
    ASSUME NEW f, NEW g, NEW t, NEW u, NEW B, NEW P, Torn(f, g, t, B, P, u)
    PROVE  DataStays(f, g, B, u)
BY Zenon DEF Torn, PutTorn, LinkTorn, Seen

\* Every call that was running when the process died.
CrashInv ==
    /\ ~crashed => CInv
    /\ crashed => TornIn(before, file, target, victim)

LEMMA CrashStarts == CrashInit => CrashInv
<1> SUFFICES ASSUME CrashInit
             PROVE  CrashInv
  OBVIOUS
<1>1. Init /\ crashed = FALSE
  BY DEF CrashInit
<1>2. CInv
  BY <1>1, InitHolds
<1> QED
  BY <1>1, <1>2, Zenon DEF CrashInv

LEMMA CrashLeaves ==
    ASSUME NEW D, PlainContents(D), CInv, finalized = FALSE, Crash
    PROVE  crashed' = TRUE /\ TornIn(before', file', target', victim')
<1>1. PICK C, own, B, cap : Holds(C, own, B, cap)
  BY DEF CInv
<1>2. ASSUME NEW u \in Uid, NEW p \in EditPlans(u), CrashDuring(u, p)
      PROVE  crashed' = TRUE /\ TornIn(before', file', target', victim')
  <2>1. PICK k \in 0..(Len(p.writes) - 1) :
            /\ file' = Apply(file, SubSeq(p.writes, 1, k)) /\ before' = file
            /\ target' = Apply(file, p.writes) /\ victim' = u /\ crashed' = TRUE
    BY <1>2 DEF CrashDuring
  <2>2. TornIn(file, Apply(file, SubSeq(p.writes, 1, k)), Apply(file, p.writes), u)
    BY <1>1, <2>1, EditTorn
  <2> QED
    BY <2>1, <2>2, Zenon
<1>3. ASSUME open, Materialised, CrashDuring(Nil, FinalizePlan)
      PROVE  crashed' = TRUE /\ TornIn(before', file', target', victim')
  <2> DEFINE ws == FinalizePlan.writes
  <2>1. PICK k \in 0..(Len(ws) - 1) :
            /\ file' = Apply(file, SubSeq(ws, 1, k)) /\ before' = file
            /\ target' = Apply(file, ws) /\ victim' = Nil /\ crashed' = TRUE
    BY <1>3 DEF CrashDuring
  <2>3. open = TRUE
    <3>1. open /\ (open \in BOOLEAN => open = TRUE)
      BY <1>3
    <3> QED
      BY <3>1
  <2>2. TornIn(file, Apply(file, SubSeq(ws, 1, k)), Apply(file, ws), Nil)
    BY <1>1, <1>3, <2>1, <2>3, FinalTorn
  <2> QED
    BY <2>1, <2>2, Zenon
<1>4. CASE \E u \in Uid : \E p \in EditPlans(u) : CrashDuring(u, p)
  <2>1. PICK u \in Uid : \E p \in EditPlans(u) : CrashDuring(u, p)
    BY <1>4, Zenon
  <2> QED
    BY <1>2, <2>1, Zenon
<1>5. CASE open /\ Materialised /\ CrashDuring(Nil, FinalizePlan)
  BY <1>3, <1>5
<1> QED
  BY <1>4, <1>5, Zenon DEF Crash

LEMMA CrashSteps ==
    ASSUME NEW D, PlainContents(D), CrashInv, [CrashNext]_<<vars, ghosts>>
    PROVE  CrashInv'
<1>1. CASE CrashNext /\ SafeNext /\ UNCHANGED ghosts
  <2>1. ~crashed /\ crashed' = crashed
    BY <1>1 DEF CrashNext, ghosts
  <2>2. CInv
    BY <2>1, Zenon DEF CrashInv
  <2>3. CInv'
    BY <1>1, <2>2, CInvStep
  <2> QED
    BY <2>1, <2>3, Zenon DEF CrashInv
<1>2. CASE CrashNext /\ ~finalized /\ Crash
  <2>1. ~crashed /\ finalized = FALSE
    BY <1>2 DEF CrashNext
  <2>2. CInv
    BY <2>1, Zenon DEF CrashInv
  <2>3. crashed' = TRUE /\ TornIn(before', file', target', victim')
    BY <1>2, <2>1, <2>2, CrashLeaves, Zenon
  <2> QED
    BY <2>3, Zenon DEF CrashInv
<1>3. CASE UNCHANGED <<vars, ghosts>>
  <2>1. UNCHANGED vars /\ UNCHANGED ghosts
    BY <1>3
  <2>2. before' = before /\ file' = file /\ target' = target /\ victim' = victim /\ crashed' = crashed
    BY <2>1 DEF vars, handle, ghosts
  <2>3. CASE ~crashed
    <3>1. CInv
      BY <2>3, Zenon DEF CrashInv
    <3>2. CInv'
      BY <2>1, <3>1, CInvStep
    <3> QED
      BY <2>2, <2>3, <3>2, Zenon DEF CrashInv
  <2>4. CASE crashed
    <3>1. TornIn(before, file, target, victim)
      BY <2>4, Zenon DEF CrashInv
    <3> QED
      BY <2>2, <2>4, <3>1, Zenon DEF CrashInv
  <2> QED
    BY <2>3, <2>4
<1> QED
  BY <1>1, <1>2, <1>3, Zenon DEF CrashNext

LEMMA CrashAlways ==
    ASSUME NEW D, PlainContents(D)
    PROVE  CrashSpec => []CrashInv
<1>1. CrashInit => CrashInv
  BY CrashStarts
<1>2. CrashInv /\ [CrashNext]_<<vars, ghosts>> => CrashInv'
  BY CrashSteps
<1> QED
  BY <1>1, <1>2, PTL DEF CrashSpec

\* The damage is confined, wherever the operation stops: the data of every other
\* partition is still in its place, and a block that the operation was not to change
\* reads as it did.
THEOREM CrashIsConfined ==
    ASSUME NEW D, PlainContents(D)
    PROVE  CrashSpec => []CrashConfined
<1>1. CrashInv => CrashConfined
  <2> SUFFICES ASSUME CrashInv, crashed
               PROVE  LET chain == Chain(before, ResolveHead(before)) IN
                      \A n \in DOMAIN chain :
                          LET es == EntriesAt(before, chain[n]) IN
                          /\ \A i \in DOMAIN es : es[i].uid # victim =>
                                  ReadData(file, es[i]) = ReadData(before, es[i])
                          /\ es = EntriesAt(target, chain[n]) =>
                                  /\ BlockReadable(file, chain[n])
                                  /\ EntriesAt(file, chain[n]) = es
    BY Zenon DEF CrashConfined
  <2>1. PICK B, P : /\ TableIn(before, B) /\ TableIn(target, P)
                    /\ Torn(before, file, target, B, P, victim)
    BY Zenon DEF CrashInv, TornIn
  <2> DEFINE chain == Chain(before, ResolveHead(before))
  <2>2. /\ chain = Offsets(B) /\ ResolveHead(before) = B[1].offset
        /\ \A n \in 1..Len(B) : EntriesAt(before, B[n].offset) = B[n].entries
    BY <2>1, TableReads
  <2>3. DOMAIN chain = 1..Len(B) /\ \A n \in 1..Len(B) : chain[n] = B[n].offset
    BY <2>2 DEF Offsets
  <2> HIDE DEF chain
  <2>4. ASSUME NEW n \in DOMAIN chain
        PROVE  /\ \A i \in DOMAIN EntriesAt(before, chain[n]) :
                        EntriesAt(before, chain[n])[i].uid # victim =>
                            ReadData(file, EntriesAt(before, chain[n])[i])
                                = ReadData(before, EntriesAt(before, chain[n])[i])
               /\ EntriesAt(before, chain[n]) = EntriesAt(target, chain[n]) =>
                        /\ BlockReadable(file, chain[n])
                        /\ EntriesAt(file, chain[n]) = EntriesAt(before, chain[n])
    <3>1. n \in 1..Len(B) /\ chain[n] = B[n].offset /\ EntriesAt(before, chain[n]) = B[n].entries
      BY <2>2, <2>3
    <3>2. DataStays(before, file, B, victim)
      BY <2>1, TornStays
    <3>3. DOMAIN B[n].entries = 1..Len(B[n].entries)
      <4>1. PICK C, own, lim : before \in Seq(C) /\ Image(before, own, lim, C, B, 0)
        BY <2>1 DEF TableIn
      <4>2. B[n].entries \in Seq(C)
        BY <3>1, <4>1, BlockOf
      <4> QED
        BY <4>2
    <3>4. \A i \in DOMAIN B[n].entries : B[n].entries[i].uid # victim =>
                ReadData(file, B[n].entries[i]) = ReadData(before, B[n].entries[i])
      BY <3>1, <3>2, <3>3, Zenon DEF DataStays
    <3>5. B[n].entries = EntriesAt(target, B[n].offset) => Stands(file, B, n)
      BY <2>1, <3>1, TornStands
    <3> QED
      BY <3>1, <3>4, <3>5, Zenon DEF Stands
  <2> QED
    BY <2>4, Zenon DEF chain
<1>2. CrashSpec => []CrashInv
  BY CrashAlways
<1> QED
  BY <1>1, <1>2, PTL

\* An addition that needs a new block shows or it does not: the file verifies after
\* every one of its writes.
THEOREM OverflowAlwaysAtomic ==
    ASSUME NEW D, PlainContents(D)
    PROVE  CrashSpec => []OverflowIsAtomic
<1>1. CrashInv => OverflowIsAtomic
  <2> SUFFICES ASSUME CrashInv, crashed, Len(Chain(target, ResolveHead(target)))
                                            > Len(Chain(before, ResolveHead(before)))
               PROVE  Verify(file, ResolveHead(file))
    BY Zenon DEF OverflowIsAtomic
  <2>1. PICK B, P : /\ TableIn(before, B) /\ TableIn(target, P)
                    /\ Torn(before, file, target, B, P, victim)
    BY Zenon DEF CrashInv, TornIn
  <2>2. /\ Chain(before, ResolveHead(before)) = Offsets(B) /\ Len(B) \in Nat
        /\ Chain(target, ResolveHead(target)) = Offsets(P) /\ Len(P) \in Nat
        /\ Verify(target, ResolveHead(target))
    BY <2>1, TableReads
  <2>3. Len(Offsets(B)) = Len(B) /\ Len(Offsets(P)) = Len(P)
    BY <2>2 DEF Offsets
  <2>4. Len(P) # Len(B)
    BY <2>2, <2>3
  <2>5. LinkTorn(before, file, target, B, P, victim)
    BY <2>1, <2>4, Zenon DEF Torn, PutTorn, IsPut
  <2>6. file = target \/ WholeStill(before, file, B, victim)
    BY <2>5, Zenon DEF LinkTorn
  <2>7. WholeStill(before, file, B, victim) => Verify(file, ResolveHead(file))
    BY Zenon DEF WholeStill, Seen
  <2> QED
    BY <2>2, <2>6, <2>7, Zenon
<1>2. CrashSpec => []CrashInv
  BY CrashAlways
<1> QED
  BY <1>1, <1>2, PTL

-----------------------------------------------------------------------------
(* Every table and every entry with a hash.                                *)

RowsHashed(es) == \A s \in 1..Len(es) : es[s].algo # "None"
Hashed(B) == \A i \in 1..Len(B) : B[i].algo # "None" /\ RowsHashed(B[i].entries)
HashedIn(f) == \E B : TableIn(f, B) /\ Hashed(B)

LEMMA RowsIn ==
    ASSUME NEW C, NEW B \in Tables(C), NEW k \in 1..Len(B)
    PROVE  B[k].entries \in Seq(C) /\ Len(B[k].entries) \in Nat
<1> DEFINE R == [offset : Nat \ {0}, algo : {"None", "Sha256"}, entries : Seq(C)]
<1>1. B \in Seq(R) /\ \A r \in R : r.entries \in Seq(C)
  BY DEF Tables
<1> HIDE DEF R
<1>2. B[k] \in R
  BY <1>1
<1>3. B[k].entries \in Seq(C)
  BY <1>1, <1>2
<1> QED
  BY <1>3

LEMMA PutHashed ==
    ASSUME NEW C, NEW B \in Tables(C), NEW k \in 1..Len(B), NEW es \in Seq(C),
           Hashed(B), RowsHashed(es)
    PROVE  Hashed(Put(B, k, es))
<1>1. /\ Len(Put(B, k, es)) = Len(B)
      /\ \A i \in 1..Len(B) : /\ Put(B, k, es)[i].algo = B[i].algo
                              /\ Put(B, k, es)[i].entries = IF i = k THEN es ELSE B[i].entries
  BY PutIs
<1> QED
  BY <1>1, Zenon DEF Hashed

\* An edit gives its entry a hash when all have one and it is to have one.
LEMMA EditHashed ==
    ASSUME "None" \notin DataAlgos, NEW ta, ta # "None", NEW f, NEW g, NEW B, NEW P,
           TableIn(f, B), Hashed(B), TableEdited(f, g, B, P, ta)
    PROVE  Hashed(P)
<1>1. PICK C : B \in Tables(C)
  BY TableUids
<1>2. CASE TableAdds(f, g, B, P)
  <2>1. PICK algo, e, i, d : algo \in DataAlgos /\ e.algo = algo /\ AddedTo(f, g, B, P, i, e, d)
    BY <1>2, Zenon DEF TableAdds, AddsIn
  <2> DEFINE fs == B[i].entries  E == C \cup {e}  m == Len(fs)  es == Append(fs, e)
  <2>2. i \in 1..Len(B) /\ P = Put(B, i, es) /\ e.algo # "None"
    BY <2>1 DEF AddedTo
  <2>3. B \in Tables(E) /\ e \in E
    BY <1>1, TablesGrow
  <2> HIDE DEF E
  <2>4. fs \in Seq(E) /\ m \in Nat
    BY <2>2, <2>3, RowsIn
  <2>5. RowsHashed(fs)
    BY <2>2, Zenon DEF Hashed
  <2> HIDE DEF fs
  <2>6. es \in Seq(E) /\ Len(es) = m + 1 /\ \A s \in 1..(m + 1) : es[s] = IF s = m + 1 THEN e ELSE fs[s]
    BY <2>3, <2>4
  <2> HIDE DEF es
  <2>7. ASSUME NEW s \in 1..Len(es)
        PROVE  es[s].algo # "None"
    <3>1. CASE s = m + 1
      BY <2>2, <2>6, <3>1
    <3>2. CASE s # m + 1
      <4>1. s \in 1..Len(fs) /\ es[s] = fs[s]
        BY <2>4, <2>6, <3>2
      <4> QED
        BY <2>5, <4>1 DEF RowsHashed
    <3> QED
      BY <3>1, <3>2
  <2>8. RowsHashed(es)
    BY <2>7, Zenon DEF RowsHashed
  <2> QED
    BY <2>2, <2>3, <2>6, <2>8, PutHashed
<1>3. CASE TableOverflows(f, g, B, P, ta)
  <2>1. PICK algo, e, at, d : algo \in DataAlgos /\ e.algo = algo /\ OverflowedTo(f, g, B, P, ta, at, e, d)
    BY <1>3, Zenon DEF TableOverflows, Overflows
  <2> DEFINE r == ExtendedRow(at, ta, <<e>>)  n == Len(B) + 1
  <2>2. P = Grown(B, r) /\ e.algo # "None"
    BY <2>1 DEF OverflowedTo
  <2>3. r.algo = ta /\ r.entries = <<e>>
    BY DEF ExtendedRow
  <2> HIDE DEF r
  <2>4. /\ Len(P) = n /\ P[n] = r
        /\ \A j \in 1..Len(B) : P[j] = B[j]
        /\ \A j \in 1..n : j = n \/ j \in 1..Len(B)
    BY <1>1, <2>2, GrownRows
  <2>5. RowsHashed(<<e>>)
    BY <2>2 DEF RowsHashed
  <2> HIDE DEF n
  <2> QED
    BY <2>3, <2>4, <2>5, Zenon DEF Hashed
<1>4. CASE TableUpdates(f, g, B, P)
  <2>1. PICK u, d, k, s, x : x = Updated(B[k].entries[s], d) /\ UpdatedTo(f, g, B, P, u, k, s, x, d)
    BY <1>4, Zenon DEF TableUpdates, UpdatesIn
  <2> DEFINE fs == B[k].entries  E == C \cup {x}  m == Len(fs)  es == [fs EXCEPT ![s] = x]
  <2>2. k \in 1..Len(B) /\ s \in 1..m /\ P = Put(B, k, es)
    BY <2>1 DEF UpdatedTo
  <2>3. B \in Tables(E) /\ x \in E
    BY <1>1, TablesGrow
  <2> HIDE DEF E
  <2>4. fs \in Seq(E) /\ m \in Nat
    BY <2>2, <2>3, RowsIn
  <2>5. RowsHashed(fs)
    BY <2>2, Zenon DEF Hashed
  <2>9. x.algo = fs[s].algo
    <3>1. IsEntry(fs[s])
      BY <2>2, TableUids
    <3> HIDE DEF fs
    <3> QED
      BY <2>1, <3>1, UpdatedIs DEF fs
  <2> HIDE DEF fs
  <2>6. es \in Seq(E) /\ Len(es) = m /\ \A t \in 1..m : es[t] = IF t = s THEN x ELSE fs[t]
    BY <2>2, <2>3, <2>4
  <2> HIDE DEF es
  <2>7. ASSUME NEW t \in 1..Len(es)
        PROVE  es[t].algo # "None"
    <3>1. t \in 1..Len(fs) /\ es[t] = IF t = s THEN x ELSE fs[t]
      BY <2>6
    <3>2. es[t].algo = fs[t].algo
      BY <2>9, <3>1
    <3> QED
      BY <2>5, <3>1, <3>2 DEF RowsHashed
  <2>8. RowsHashed(es)
    BY <2>7, Zenon DEF RowsHashed
  <2> QED
    BY <2>2, <2>3, <2>6, <2>8, PutHashed
<1>5. CASE TableRemoves(f, g, B, P)
  <2>1. PICK u, k, s : RemovedFrom(f, g, B, P, u, k, s)
    BY <1>5, Zenon DEF TableRemoves, RemovesFrom
  <2> DEFINE fs == B[k].entries  es == RemoveAt(fs, s)
  <2>2. k \in 1..Len(B) /\ s \in 1..Len(fs) /\ P = Put(B, k, es)
    BY <2>1 DEF RemovedFrom
  <2>3. fs \in Seq(C)
    BY <1>1, <2>2, RowsIn
  <2>4. RowsHashed(fs)
    BY <2>2, Zenon DEF Hashed
  <2> HIDE DEF fs
  <2>5. Without(C, es, fs, s)
    BY <2>2, <2>3, RemovedIs
  <2> HIDE DEF es
  <2>6. ASSUME NEW t \in 1..Len(es)
        PROVE  es[t].algo # "None"
    <3> DEFINE x == IF t < s THEN t ELSE t + 1
    <3>1. x \in 1..Len(fs) /\ es[t] = fs[x]
      BY <2>2, <2>3, <2>5, WithoutWhere
    <3> HIDE DEF x
    <3> QED
      BY <2>4, <3>1 DEF RowsHashed
  <2>7. RowsHashed(es) /\ es \in Seq(C)
    BY <2>5, <2>6, Zenon DEF RowsHashed, Without
  <2> QED
    BY <1>1, <2>2, <2>7, PutHashed
<1> QED
  BY <1>2, <1>3, <1>4, <1>5, Zenon DEF TableEdited

LEMMA MoveHashed ==
    ASSUME NEW ta, ta # "None", NEW f, NEW g, NEW B, NEW T, Hashed(B), RepackedTo(f, g, B, T, ta)
    PROVE  Hashed(T)
<1>1. Moved(f, B, g, T) /\ AlgoIs(T, ta)
  BY Zenon DEF RepackedTo
<1>2. ASSUME NEW b \in 1..Len(T)
      PROVE  T[b].algo # "None" /\ RowsHashed(T[b].entries)
  <2>1. T[b].algo # "None"
    BY <1>1, Zenon DEF AlgoIs
  <2>2. ASSUME NEW s \in 1..Len(T[b].entries)
        PROVE  T[b].entries[s].algo # "None"
    <3>1. PICK i \in 1..Len(B) : \E t \in 1..Len(B[i].entries) :
              SameData(f, B[i].entries[t], g, T[b].entries[s])
      BY <1>1, Zenon DEF Moved
    <3>2. PICK t \in 1..Len(B[i].entries) : SameData(f, B[i].entries[t], g, T[b].entries[s])
      BY <3>1
    <3> QED
      BY <3>2, Zenon DEF SameData, Hashed, RowsHashed
  <2> QED
    BY <2>1, <2>2, Zenon DEF RowsHashed
<1> QED
  BY <1>2, Zenon DEF Hashed

\* A file holds one table, with the algorithms that its headers name.
LEMMA OneHashed ==
    ASSUME NEW f, NEW B, NEW P, TableIn(f, B), TableIn(f, P), Hashed(B)
    PROVE  Hashed(P)
<1>1. Len(P) = Len(B) /\ \A i \in 1..Len(B) : P[i].entries = B[i].entries
  BY OneTable
<1>2. Offsets(B) = Offsets(P)
  <2>1. ResolveHead(f) = B[1].offset /\ ResolveHead(f) = P[1].offset
    BY TableReads
  <2> QED
    BY <2>1, TableReads
<1>3. ASSUME NEW i \in 1..Len(B)
      PROVE  B[i].algo = P[i].algo
  <2>1. B[i].offset = P[i].offset
    <3>1. Offsets(B)[i] = B[i].offset /\ Offsets(P)[i] = P[i].offset
      BY <1>1 DEF Offsets
    <3> QED
      BY <1>2, <3>1, Zenon
  <2>2. ASSUME NEW Q, TableIn(f, Q), NEW j \in 1..Len(Q)
        PROVE  At(f, Q[j].offset).algo = Q[j].algo
    <3>1. PICK C, own, lim : f \in Seq(C) /\ Image(f, own, lim, C, Q, 0)
      BY <2>2 DEF TableIn
    <3>2. BlockHeld(f, own, Q[j].offset, Successor(Q, j), Q[j].algo, Q[j].entries)
      BY <3>1, BlockOf
    <3> DEFINE n == Len(Q[j].entries)  x == Successor(Q, j)  al == Q[j].algo
               h == TableHash(al, x, Q[j].entries)  c == At(f, Q[j].offset)
    <3>3. c = BlockCell(n, x, al, h)
      BY <3>2, Zenon DEF BlockHeld
    <3> HIDE DEF n, x, al, h, c
    <3>4. c.algo = al
      BY <3>3 DEF BlockCell
    <3> QED
      BY <3>4 DEF c, al
  <2>3. i \in 1..Len(P)
    BY <1>1
  <2> QED
    BY <2>1, <2>2, <2>3, Zenon
<1> QED
  BY <1>1, <1>3, Zenon DEF Hashed

HashInv == HashedIn(file) /\ (open => table_hash_algo # "None")

LEMMA HashStarts ==
    ASSUME "None" \notin TableAlgos, Init
    PROVE  HashInv
<1>1. PICK C, own, B, cap : Holds(C, own, B, cap)
  BY InitHolds DEF CInv
<1>2. PICK c \in FirstCapacities, algo \in TableAlgos :
        /\ open = TRUE /\ blocks = <<BlockInfo(HeaderSize, clamp(c, 1, MaxEntries), 0, algo, 0)>>
        /\ table_hash_algo = algo
  BY DEF Init
<1> DEFINE cp == clamp(c, 1, MaxEntries)
<1> HIDE DEF cp
<1>3. B \in Tables(C) /\ Len(B) \in Nat /\ 1 \in 1..Len(B)
  BY <1>1, <1>2, HandleFacts
<1>4. /\ blocks[1].count = Len(B[1].entries) /\ blocks[1].algo = B[1].algo /\ Len(blocks) = Len(B)
  BY <1>1, <1>2, <1>3, InfoIs
<1>5. Len(blocks) = 1 /\ blocks[1] = BlockInfo(HeaderSize, cp, 0, algo, 0)
  BY <1>2 DEF cp
<1>6. blocks[1].count = 0 /\ blocks[1].algo = algo
  BY <1>5 DEF BlockInfo
<1>7. Hashed(B)
  <2>1. ASSUME NEW i \in 1..Len(B)
        PROVE  B[i].algo # "None" /\ RowsHashed(B[i].entries)
    <3>1. i = 1
      BY <1>4, <1>5
    <3>2. Len(B[1].entries) = 0 /\ B[1].algo = algo
      BY <1>4, <1>6
    <3>3. RowsHashed(B[1].entries)
      BY <3>2 DEF RowsHashed
    <3> QED
      BY <1>2, <3>1, <3>2, <3>3
  <2> QED
    BY <2>1, Zenon DEF Hashed
<1> QED
  BY <1>1, <1>2, <1>7, HandleTable, Zenon DEF HashInv, HashedIn

LEMMA HashSteps ==
    ASSUME NEW D, PlainContents(D), "None" \notin DataAlgos, CInv, HashInv, [SafeNext]_vars
    PROVE  HashInv'
<1>1. PICK C, own, B, cap : Holds(C, own, B, cap)
  BY DEF CInv
<1>2. TableIn(file, B)
  BY <1>1, HandleTable
<1>3. Hashed(B)
  <2>1. PICK Q : TableIn(file, Q) /\ Hashed(Q)
    BY Zenon DEF HashInv, HashedIn
  <2> QED
    BY <1>2, <2>1, OneHashed
<1>4. ASSUME ~open
      PROVE  Open \/ UNCHANGED vars
  <2>1. ~Edit
    BY <1>4 DEF Edit, AddPartition, UpdatePartition, RemovePartition, AddPlans, UpdatePlans,
               RemovePlans, Editable
  <2> QED
    BY <1>4, <2>1 DEF SafeNext, Finalize, Close, Compact
<1>5. HashedIn(file)'
  <2>1. CASE open
    <3>1. table_hash_algo # "None"
      BY <2>1, Zenon DEF HashInv
    <3>2. PICK P : TableIn(file', P) /\ TableStep(file, file', B, P, table_hash_algo)
      <4>1. StepLeaves(file, file', B, table_hash_algo)
        BY <1>1, StepHolds, Zenon
      <4> QED
        BY <4>1, Zenon DEF StepLeaves
    <3> DEFINE ta == table_hash_algo  f == file  g == file'
    <3>3. /\ ta # "None" /\ TableIn(g, P) /\ TableIn(f, B)
          /\ TableEdited(f, g, B, P, ta) \/ RepackedTo(f, g, B, P, ta) \/ P = B
      BY <1>2, <3>1, <3>2, Zenon DEF TableStep, TableKept
    <3> HIDE DEF ta, f, g
    <3>4. Hashed(P)
      BY <1>3, <3>3, EditHashed, MoveHashed
    <3>5. TableIn(file', P) /\ Hashed(P)
      BY <3>2, <3>4
    <3> QED
      BY <3>5, Zenon DEF HashedIn
  <2>2. CASE ~open
    <3>1. file' = file
      BY <1>4, <2>2 DEF Open, vars, handle
    <3> QED
      BY <1>2, <1>3, <3>1, Zenon DEF HashedIn
  <2> QED
    BY <2>1, <2>2
<1>6. (open => table_hash_algo # "None")'
  <2>1. CASE Open
    <3>1. table_hash_algo' = IF BlocksOnDisk(file, B[1].offset) = <<>> THEN "Sha256"
                             ELSE BlocksOnDisk(file, B[1].offset)[1].algo
      <4>1. ResolveHead(file) = B[1].offset
        BY <1>2, TableReads
      <4> QED
        BY <2>1, <4>1 DEF Open
    <3>2. BlocksOnDisk(file, B[1].offset) = Infos(B, Full(B))
      BY <1>1, OnDisk
    <3>3. 1 \in 1..Len(B)
      BY <1>2, TableReads
    <3>4. Infos(B, Full(B))[1].algo = B[1].algo
      <4>1. Infos(B, Full(B))[1]
                = BlockInfo(B[1].offset, Full(B)[1], Len(B[1].entries), B[1].algo, Successor(B, 1))
        BY <3>3 DEF Infos
      <4> DEFINE x == B[1].offset  y == Full(B)[1]  z == Len(B[1].entries)  v == B[1].algo
                 w == Successor(B, 1)  r == Infos(B, Full(B))[1]
      <4>2. r = BlockInfo(x, y, z, v, w)
        BY <4>1
      <4> HIDE DEF x, y, z, v, w, r
      <4>3. r.algo = v
        BY <4>2 DEF BlockInfo
      <4> QED
        BY <4>3 DEF r, v
    <3>5. B[1].algo # "None"
      BY <1>3, <3>3, Zenon DEF Hashed
    <3>6. "Sha256" # "None"
      OBVIOUS
    <3> QED
      BY <3>1, <3>2, <3>4, <3>5, <3>6, Zenon
  <2>2. CASE Compact \/ Close
    BY <2>2 DEF Compact, Close, Forget
  <2>3. CASE Edit \/ Finalize \/ UNCHANGED vars
    <3>1. open' = open /\ table_hash_algo' = table_hash_algo
      BY <2>3 DEF Edit, AddPartition, UpdatePartition, RemovePartition, Perform, Finalize, vars, handle
    <3> QED
      BY <3>1, Zenon DEF HashInv
  <2> QED
    BY <2>1, <2>2, <2>3, Zenon DEF SafeNext
<1> QED
  BY <1>5, <1>6, Zenon DEF HashInv

-----------------------------------------------------------------------------
(* What the hashes notice.                                                 *)

\* The links of a table of which all blocks but the k-th can be read are in place.
LinksIn(g, B, k) ==
    /\ \A i \in 1..Len(B) : BlockAt(g, B[i].offset).next = Successor(B, i)
    /\ \A i \in 1..Len(B) : i # k => BlockReadable(g, B[i].offset)

\* Its chain ends at the k-th block when that one cannot be read.
LEMMA ChainBreaks ==
    ASSUME NEW C, NEW B \in Tables(C), NEW g, Len(g) \in Nat, Len(B) <= Len(g),
           \A i \in 1..Len(B) : B[i].offset \in Nat \ {0},
           NEW k \in 1..Len(B), LinksIn(g, B, k), ChainReadable(g, B[1].offset)
    PROVE  BlockReadable(g, B[k].offset)
<1> SUFFICES ASSUME ~BlockReadable(g, B[k].offset)
             PROVE  FALSE
  OBVIOUS
<1> DEFINE w == OffsetRow(B)  n == Len(B)  r == k - 1  v == SubSeq(w, 1, k)
<1>1. n \in Nat /\ n >= 1 /\ k \in 1..n /\ r \in Nat /\ k = r + 1 /\ r < n /\ n <= Len(g)
  <2>1. n \in Nat
    BY DEF Tables
  <2>2. k \in 1..n /\ n <= Len(g)
    OBVIOUS
  <2> HIDE DEF n
  <2> QED
    BY ONLY <2>1, <2>2
<1>2. /\ w \in Seq(Nat) /\ Len(w) = n + 1
      /\ \A i \in 1..n : w[i] = B[i].offset /\ w[i + 1] = Successor(B, i)
  BY <1>1, OffsetRowIs
<1> HIDE DEF w, n, r
<1>3. v \in Seq(Nat) /\ Len(v) = k /\ \A i \in 1..k : v[i] = w[i]
  <2>1. w \in Seq(Nat) /\ k \in 0..Len(w) /\ k \in Nat
    BY <1>1, <1>2
  <2> QED
    BY ONLY <2>1
<1> HIDE DEF v
<1>4. \A i \in 1..r : i \in 1..n /\ i # k /\ i \in 1..k /\ i + 1 \in 1..k
  BY <1>1
<1>5. Stops(g, v, r)
  <2>1. v[r + 1] = B[k].offset
    BY <1>1, <1>2, <1>3
  <2>2. ASSUME NEW i \in 1..r
        PROVE  v[i] # 0 /\ BlockReadable(g, v[i]) /\ BlockAt(g, v[i]).next = v[i + 1]
    <3>1. v[i] = B[i].offset /\ v[i + 1] = Successor(B, i)
      BY <1>2, <1>3, <1>4, Zenon
    <3>2. i \in 1..Len(B) /\ i # k
      BY <1>4 DEF n
    <3>3. BlockReadable(g, B[i].offset) /\ BlockAt(g, B[i].offset).next = Successor(B, i)
      BY <3>2, Zenon DEF LinksIn
    <3>4. B[i].offset # 0
      BY <3>2
    <3> QED
      BY <3>1, <3>3, <3>4, Zenon
  <2> QED
    BY <2>1, <2>2, Zenon DEF Stops
<1>6. r <= Len(g) /\ Len(v) = r + 1
  BY <1>1, <1>3
<1>7. Walk(g, v[1]) = v
  BY <1>1, <1>3, <1>5, <1>6, WalkStops
<1>8. v[1] = B[1].offset /\ v[k] = B[k].offset
  <2>1. 1 \in 1..k /\ k \in 1..k /\ 1 \in 1..n /\ k \in 1..n
    BY ONLY <1>1
  <2> QED
    BY <1>2, <1>3, <2>1, Zenon
<1>9. Last(v) = B[k].offset
  BY <1>3, <1>8, Zenon DEF Last
<1>10. Last(v) = 0
  BY <1>7, <1>8, Zenon DEF ChainReadable
<1> QED
  BY <1>9, <1>10

LEMMA ChainFollows ==
    ASSUME NEW C, NEW B \in Tables(C), NEW g, Len(g) \in Nat, Len(B) >= 1, Len(B) <= Len(g),
           \A i \in 1..Len(B) : B[i].offset \in Nat \ {0},
           NEW k \in 1..Len(B), LinksIn(g, B, k), BlockReadable(g, B[k].offset)
    PROVE  Chain(g, B[1].offset) = Offsets(B)
<1> DEFINE w == OffsetRow(B)  r == Len(B)
<1>1. r \in Nat /\ r >= 1 /\ r <= Len(g)
  BY DEF Tables
<1>2. /\ w \in Seq(Nat) /\ Len(w) = r + 1 /\ w[r + 1] = 0
      /\ \A i \in 1..r : w[i] = B[i].offset /\ w[i + 1] = Successor(B, i)
  BY <1>1, OffsetRowIs
<1>3. ASSUME NEW i \in 1..r
      PROVE  /\ BlockReadable(g, B[i].offset) /\ BlockAt(g, B[i].offset).next = Successor(B, i)
             /\ B[i].offset # 0
  BY Zenon DEF LinksIn
<1> HIDE DEF w, r
<1>4. Chained(g, w, r)
  <2>1. ASSUME NEW i \in 1..r
        PROVE  w[i] # 0 /\ BlockReadable(g, w[i]) /\ BlockAt(g, w[i]).next = w[i + 1]
    BY <1>2, <1>3, Zenon
  <2> QED
    BY <1>2, <2>1, Zenon DEF Chained
<1>5. w[1] = B[1].offset
  BY <1>1, <1>2
<1>6. Walk(g, B[1].offset) = w
  BY <1>1, <1>2, <1>4, <1>5, WalkIs
<1>7. Chain(g, B[1].offset) = SubSeq(w, 1, (r + 1) - 1)
  BY <1>2, <1>6, Zenon DEF Chain, Front
<1>8. SubSeq(w, 1, r) = Offsets(B)
  <2> DEFINE s == SubSeq(w, 1, r)
  <2>1. s \in Seq(Nat) /\ Len(s) = r /\ \A i \in 1..r : s[i] = w[i]
    BY <1>1, <1>2
  <2> HIDE DEF s
  <2>2. s = [i \in 1..r |-> s[i]]
    BY <2>1
  <2>3. \A i \in 1..r : s[i] = B[i].offset
    BY <1>2, <2>1
  <2>4. s = [i \in 1..r |-> B[i].offset]
    BY <2>2, <2>3, Zenon
  <2> QED
    BY <2>4 DEF s, r, Offsets
<1>9. (r + 1) - 1 = r
  BY <1>1
<1> QED
  BY <1>7, <1>8, <1>9, Zenon

\* A file with the blocks of B, and in them the entries of P.
ReadsAs(g, B, P) ==
    /\ Len(P) = Len(B) /\ Chain(g, B[1].offset) = Offsets(B)
    /\ \A i \in 1..Len(B) : EntriesAt(g, B[i].offset) = P[i].entries

GoodRows(g, P) ==
    \A i \in 1..Len(P) : \A s \in 1..Len(P[i].entries) : ValidEntry(g, P[i].entries[s])

LEMMA ReadsGood ==
    ASSUME NEW C, NEW P \in Tables(C), NEW g, NEW B, ReadsAs(g, B, P), Verify(g, B[1].offset)
    PROVE  GoodRows(g, P) /\ Entries(g, B[1].offset) = FlattenSeq(Lists(P))
<1>1. /\ Len(P) = Len(B) /\ Chain(g, B[1].offset) = Offsets(B)
      /\ \A i \in 1..Len(B) : EntriesAt(g, B[i].offset) = P[i].entries
  BY Zenon DEF ReadsAs
<1>2. DOMAIN Offsets(B) = 1..Len(B) /\ \A i \in 1..Len(B) : Offsets(B)[i] = B[i].offset
  BY DEF Offsets
<1>3. Entries(g, B[1].offset) = FlattenSeq([i \in 1..Len(B) |-> EntriesAt(g, Offsets(B)[i])])
  BY <1>1, <1>2, Zenon DEF Entries
<1>4. \A i \in 1..Len(B) : EntriesAt(g, Offsets(B)[i]) = P[i].entries
  BY <1>1, <1>2, Zenon
<1>5. [i \in 1..Len(B) |-> EntriesAt(g, Offsets(B)[i])] = [i \in 1..Len(P) |-> P[i].entries]
  BY <1>1, <1>4, Zenon
<1>6. ASSUME NEW i \in 1..Len(P), NEW s \in 1..Len(P[i].entries)
      PROVE  ValidEntry(g, P[i].entries[s])
  <2>1. i \in 1..Len(B) /\ Offsets(B)[i] = B[i].offset /\ EntriesAt(g, B[i].offset) = P[i].entries
    BY <1>1, <1>2
  <2>2. ValidBlock(g, B[i].offset)
    BY <1>1, <1>2, <2>1, Zenon DEF Verify
  <2>3. DOMAIN P[i].entries = 1..Len(P[i].entries)
    <3>1. P[i].entries \in Seq(C)
      BY RowsIn
    <3> QED
      BY <3>1
  <2> QED
    BY <2>1, <2>2, <2>3, Zenon DEF ValidBlock
<1> QED
  BY <1>3, <1>5, <1>6, Zenon DEF GoodRows, Lists

\* Two files with the same entries, all of which have a hash and verify, have the same
\* contents.
LEMMA SameContents ==
    ASSUME NEW C, NEW P \in Tables(C), Hashed(P), NEW f, NEW g, GoodRows(f, P), GoodRows(g, P),
           Entries(f, ResolveHead(f)) = FlattenSeq(Lists(P)),
           Entries(g, ResolveHead(g)) = FlattenSeq(Lists(P))
    PROVE  ContentsOf(g) = ContentsOf(f)
<1> DEFINE F == FlattenSeq(Lists(P))
<1>1. ASSUME NEW x \in DOMAIN F
      PROVE  ReadData(g, F[x]) = ReadData(f, F[x])
  <2>1. PICK i \in 1..Len(P) : \E s \in 1..Len(P[i].entries) : F[x] = P[i].entries[s]
    BY ListedWhere
  <2>2. PICK s \in 1..Len(P[i].entries) : F[x] = P[i].entries[s]
    BY <2>1
  <2> DEFINE e == P[i].entries[s]
  <2>3. ValidEntry(f, e) /\ ValidEntry(g, e) /\ e.algo # "None"
    BY Zenon DEF GoodRows, Hashed, RowsHashed
  <2> HIDE DEF e
  <2>4. e.hash = ReadData(f, e) /\ e.hash = ReadData(g, e)
    BY <2>3, Zenon DEF ValidEntry, Verifies, Digest
  <2> QED
    BY <2>2, <2>4, Zenon DEF e
<1>2. /\ ContentsOf(f) = {<<F[i].uid, ReadData(f, F[i])>> : i \in DOMAIN F}
      /\ ContentsOf(g) = {<<F[i].uid, ReadData(g, F[i])>> : i \in DOMAIN F}
  BY Zenon DEF ContentsOf
<1> HIDE DEF F
<1>3. \A x \in DOMAIN F : <<F[x].uid, ReadData(g, F[x])>> = <<F[x].uid, ReadData(f, F[x])>>
  BY <1>1, Zenon
<1>4. {<<F[i].uid, ReadData(g, F[i])>> : i \in DOMAIN F}
        = {<<F[i].uid, ReadData(f, F[i])>> : i \in DOMAIN F}
  BY <1>3
<1> QED
  BY <1>2, <1>4, Zenon

LEMMA TableFacts ==
    ASSUME NEW f, NEW B, TableIn(f, B)
    PROVE  \E C : B \in Tables(C) /\ Len(B) >= 1 /\ \A i \in 1..Len(B) : B[i].offset \in Nat \ {0}
<1>1. PICK C, own, lim : f \in Seq(C) /\ Image(f, own, lim, C, B, 0)
  BY DEF TableIn
<1>2. B \in Tables(C) /\ Len(B) >= 1
  BY <1>1 DEF Image
<1>3. \A i \in 1..Len(B) : B[i].offset \in Nat \ {0}
  BY <1>1, BlockOf
<1> QED
  BY <1>2, <1>3, Zenon

LEMMA TableReadsAs ==
    ASSUME NEW f, NEW B, TableIn(f, B)
    PROVE  ReadsAs(f, B, B) /\ Verify(f, B[1].offset) /\ ResolveHead(f) = B[1].offset
BY TableReads, Zenon DEF ReadsAs

LEMMA IntactSame ==
    ASSUME NEW f, NEW g, NEW u, NEW B, TableIn(f, B), Hashed(B), Seen(f, g, B, u), Intact(g, B),
           Verify(g, B[1].offset)
    PROVE  ContentsOf(g) = ContentsOf(f)
<1>1. PICK C : B \in Tables(C) /\ Len(B) >= 1 /\ \A i \in 1..Len(B) : B[i].offset \in Nat \ {0}
  BY TableFacts
<1>2. 1 \in 1..Len(B)
  BY <1>1 DEF Tables
<1>3. LinksIn(g, B, 1) /\ BlockReadable(g, B[1].offset)
  BY <1>2, Zenon DEF Intact, Reads, LinksIn
<1>4. Len(g) \in Nat /\ Len(B) <= Len(g) /\ ResolveHead(g) = B[1].offset
  BY Zenon DEF Seen
<1>5. Chain(g, B[1].offset) = Offsets(B)
  BY <1>1, <1>2, <1>3, <1>4, ChainFollows
<1>6. ReadsAs(g, B, B)
  BY <1>5, Zenon DEF ReadsAs, Intact, Reads
<1>7. ReadsAs(f, B, B) /\ Verify(f, B[1].offset) /\ ResolveHead(f) = B[1].offset
  BY TableReadsAs
<1>8. /\ GoodRows(g, B) /\ Entries(g, ResolveHead(g)) = FlattenSeq(Lists(B))
      /\ GoodRows(f, B) /\ Entries(f, ResolveHead(f)) = FlattenSeq(Lists(B))
  BY <1>1, <1>4, <1>6, <1>7, ReadsGood
<1> QED
  BY <1>1, <1>8, SameContents

LEMMA PutSame ==
    ASSUME NEW f, NEW g, NEW t, NEW u, NEW B, NEW P, TableIn(f, B), TableIn(t, P), Hashed(B),
           Hashed(P), Seen(f, g, B, u), NEW k, NEW es, IsPut(P, B, k, es), HalfPut(g, t, B, k, es),
           Verify(g, B[1].offset)
    PROVE  ContentsOf(g) = ContentsOf(t)
<1> DEFINE off == B[k].offset  x == Successor(B, k)  al == B[k].algo  n == Len(es)
           h == TableHash(al, x, es)  c == BlockAt(g, off)  fs == EntriesAt(g, off)
<1>1. PICK C : B \in Tables(C) /\ Len(B) >= 1 /\ \A i \in 1..Len(B) : B[i].offset \in Nat \ {0}
  BY TableFacts
<1>2. /\ k \in 1..Len(B) /\ \A i \in 1..Len(B) : i # k => Reads(g, B, i)
      /\ c = BlockCell(n, x, al, h)
  BY Zenon DEF HalfPut, PutCell
<1>3. c.next = x /\ c.algo = al /\ c.hash = h
  <2> HIDE DEF n, x, al, h, c
  <2> QED
    BY <1>2 DEF BlockCell
<1>4. Len(g) \in Nat /\ Len(B) <= Len(g) /\ ResolveHead(g) = B[1].offset
  BY Zenon DEF Seen
<1>5. LinksIn(g, B, k)
  <2>1. ASSUME NEW i \in 1..Len(B)
        PROVE  BlockAt(g, B[i].offset).next = Successor(B, i)
    <3>1. CASE i = k
      BY <1>3, <3>1, Zenon
    <3>2. CASE i # k
      BY <1>2, <3>2, Zenon DEF Reads
    <3> QED
      BY <3>1, <3>2
  <2> QED
    BY <1>2, <2>1, Zenon DEF LinksIn, Reads
<1>6. ChainReadable(g, B[1].offset)
  BY Zenon DEF Verify
<1>7. BlockReadable(g, off)
  BY <1>1, <1>2, <1>4, <1>5, <1>6, ChainBreaks
<1>8. Chain(g, B[1].offset) = Offsets(B)
  BY <1>1, <1>2, <1>4, <1>5, <1>7, ChainFollows
<1>9. ValidBlock(g, off)
  <2>1. DOMAIN Offsets(B) = 1..Len(B) /\ \A i \in 1..Len(B) : Offsets(B)[i] = B[i].offset
    BY DEF Offsets
  <2> QED
    BY <1>2, <1>8, <2>1, Zenon DEF Verify
<1>10. fs = es
  <2>1. al # "None"
    BY <1>2, Zenon DEF Hashed
  <2>2. c.algo # "None" => c.hash = TableHash(c.algo, c.next, fs)
    BY <1>9, Zenon DEF ValidBlock, Verifies
  <2> HIDE DEF al, x, fs, c
  <2>3. TableHash(al, x, es) = TableHash(al, x, fs)
    BY <1>3, <2>1, <2>2, Zenon DEF h
  <2>4. <<al, x, es>> = <<al, x, fs>>
    BY <2>1, <2>3, Zenon DEF TableHash, Digest, Verifies
  <2> QED
    BY <2>4
<1> HIDE DEF off, x, al, h, c, fs
<1>11. /\ Len(P) = Len(B)
       /\ \A i \in 1..Len(B) : P[i].entries = IF i = k THEN es ELSE B[i].entries
  BY Zenon DEF IsPut
<1>12. ReadsAs(g, B, P)
  <2>1. ASSUME NEW i \in 1..Len(B)
        PROVE  EntriesAt(g, B[i].offset) = P[i].entries
    <3>1. CASE i = k
      BY <1>10, <1>11, <3>1, Zenon DEF off, fs
    <3>2. CASE i # k
      BY <1>2, <1>11, <3>2, Zenon DEF Reads
    <3> QED
      BY <3>1, <3>2
  <2> QED
    BY <1>8, <1>11, <2>1, Zenon DEF ReadsAs
<1>13. PICK E : P \in Tables(E)
  BY TableFacts
<1>14. ReadsAs(t, P, P) /\ Verify(t, P[1].offset) /\ ResolveHead(t) = P[1].offset
  BY TableReadsAs
<1>15. /\ GoodRows(g, P) /\ Entries(g, ResolveHead(g)) = FlattenSeq(Lists(P))
       /\ GoodRows(t, P) /\ Entries(t, ResolveHead(t)) = FlattenSeq(Lists(P))
  BY <1>4, <1>12, <1>13, <1>14, ReadsGood
<1> QED
  BY <1>13, <1>15, SameContents

LEMMA TornNoticed ==
    ASSUME NEW f, NEW g, NEW t, NEW u, NEW B, NEW P, TableIn(f, B), TableIn(t, P), Hashed(B),
           Hashed(P), Torn(f, g, t, B, P, u), Verify(g, ResolveHead(g))
    PROVE  ContentsOf(g) = ContentsOf(f) \/ ContentsOf(g) = ContentsOf(t)
<1>1. ASSUME Seen(f, g, B, u), Intact(g, B)
      PROVE  ContentsOf(g) = ContentsOf(f)
  <2>1. Verify(g, B[1].offset)
    BY <1>1, Zenon DEF Seen
  <2> QED
    BY <1>1, <2>1, IntactSame
<1>2. ASSUME Seen(f, g, B, u), NEW k, NEW es, IsPut(P, B, k, es), HalfPut(g, t, B, k, es)
      PROVE  ContentsOf(g) = ContentsOf(t)
  <2>1. Verify(g, B[1].offset)
    BY <1>2, Zenon DEF Seen
  <2> QED
    BY <1>2, <2>1, PutSame
<1>3. CASE PutTorn(f, g, t, B, P, u)
  BY <1>1, <1>2, <1>3, Zenon DEF PutTorn
<1>4. CASE LinkTorn(f, g, t, B, P, u)
  BY <1>1, <1>4, Zenon DEF LinkTorn, WholeStill
<1> QED
  BY <1>3, <1>4, Zenon DEF Torn

\* When every table and every partition has a hash.
CrashHashInv ==
    /\ CrashInv
    /\ ~crashed => HashInv
    /\ crashed => HashedIn(before) /\ HashedIn(target)

LEMMA CrashHashes ==
    ASSUME NEW D, PlainContents(D), "None" \notin DataAlgos, CInv, HashInv, finalized = FALSE, Crash
    PROVE  crashed' = TRUE /\ HashedIn(before') /\ HashedIn(target')
<1>1. PICK C, own, B, cap : Holds(C, own, B, cap)
  BY DEF CInv
<1>2. TableIn(file, B)
  BY <1>1, HandleTable
<1>3. Hashed(B)
  <2>1. PICK Q : TableIn(file, Q) /\ Hashed(Q)
    BY Zenon DEF HashInv, HashedIn
  <2> QED
    BY <1>2, <2>1, OneHashed
<1>4. HashedIn(file)
  BY <1>2, <1>3, Zenon DEF HashedIn
<1>5. ASSUME NEW u \in Uid, NEW p \in EditPlans(u), CrashDuring(u, p)
      PROVE  crashed' = TRUE /\ HashedIn(before') /\ HashedIn(target')
  <2>1. before' = file /\ target' = Apply(file, p.writes) /\ crashed' = TRUE
    BY <1>5 DEF CrashDuring
  <2>2. /\ open = TRUE
        /\ PlanMakes(file, Apply(file, p.writes), p.writes, p.blocks, p.eof, B,
                     table_hash_algo, u)
    BY <1>1, <1>5, PlanHolds
  <2> DEFINE t == Apply(file, p.writes)  ta == table_hash_algo  f == file
  <2>3. PICK P : Leaves(t, p.blocks, p.eof, B, P) /\ TableEdited(f, t, B, P, ta)
    BY <2>2, Zenon DEF PlanMakes
  <2>4. TableIn(t, P)
    BY <2>3, Zenon DEF Leaves, TableIn
  <2>5. ta # "None" /\ TableIn(f, B)
    BY <1>2, <2>2, Zenon DEF HashInv
  <2> HIDE DEF t, ta, f
  <2>6. Hashed(P)
    BY <1>3, <2>3, <2>5, EditHashed
  <2>7. HashedIn(t)
    BY <2>4, <2>6, Zenon DEF HashedIn
  <2> QED
    BY <1>4, <2>1, <2>7, Zenon DEF t
<1>6. ASSUME open, Materialised, CrashDuring(Nil, FinalizePlan)
      PROVE  crashed' = TRUE /\ HashedIn(before') /\ HashedIn(target')
  <2>1. before' = file /\ target' = Apply(file, FinalizePlan.writes) /\ crashed' = TRUE
    BY <1>6 DEF CrashDuring
  <2>2. open = TRUE
    <3>1. open /\ (open \in BOOLEAN => open = TRUE)
      BY <1>6
    <3> QED
      BY <3>1
  <2>3. /\ TrailerLaid(file, B, FinalizePlan.writes)
        /\ HeldUpTo(Republished(file, B[1].offset), B, Len(file) + 1)
    BY <1>1, <1>6, <2>2, LaysTrailer
  <2>4. TableIn(Republished(file, B[1].offset), B)
    BY <2>3, Zenon DEF HeldUpTo, TableIn
  <2>5. target' = Republished(file, B[1].offset)
    BY <2>1, <2>3, Zenon DEF TrailerLaid
  <2> QED
    BY <1>3, <1>4, <2>1, <2>4, <2>5, Zenon DEF HashedIn
<1>7. CASE \E u \in Uid : \E p \in EditPlans(u) : CrashDuring(u, p)
  <2>1. PICK u \in Uid : \E p \in EditPlans(u) : CrashDuring(u, p)
    BY <1>7, Zenon
  <2> QED
    BY <1>5, <2>1, Zenon
<1>8. CASE open /\ Materialised /\ CrashDuring(Nil, FinalizePlan)
  BY <1>6, <1>8
<1> QED
  BY <1>7, <1>8, Zenon DEF Crash

LEMMA CrashHashSteps ==
    ASSUME NEW D, PlainContents(D), "None" \notin DataAlgos, CrashHashInv,
           [CrashNext]_<<vars, ghosts>>
    PROVE  CrashHashInv'
<1>1. CrashInv'
  BY CrashSteps, Zenon DEF CrashHashInv
<1>2. ASSUME ~crashed, crashed' = crashed, [SafeNext]_vars
      PROVE  CrashHashInv'
  <2>1. CInv /\ HashInv
    BY <1>2, Zenon DEF CrashHashInv, CrashInv
  <2>2. HashInv'
    BY <1>2, <2>1, HashSteps, Zenon
  <2> QED
    BY <1>1, <1>2, <2>2, Zenon DEF CrashHashInv
<1>3. CASE CrashNext /\ SafeNext /\ UNCHANGED ghosts
  <2>1. ~crashed /\ crashed' = crashed
    BY <1>3 DEF CrashNext, ghosts
  <2> QED
    BY <1>2, <1>3, <2>1, Zenon
<1>4. CASE CrashNext /\ ~finalized /\ Crash
  <2>1. ~crashed /\ finalized = FALSE
    BY <1>4 DEF CrashNext
  <2>2. CInv /\ HashInv
    BY <2>1, Zenon DEF CrashHashInv, CrashInv
  <2>3. crashed' = TRUE /\ HashedIn(before') /\ HashedIn(target')
    BY <1>4, <2>1, <2>2, CrashHashes, Zenon
  <2> QED
    BY <1>1, <2>3, Zenon DEF CrashHashInv
<1>5. CASE UNCHANGED <<vars, ghosts>>
  <2>1. UNCHANGED vars /\ UNCHANGED ghosts
    BY <1>5
  <2>2. before' = before /\ target' = target /\ crashed' = crashed
    BY <2>1 DEF ghosts
  <2>3. CASE ~crashed
    BY <1>2, <2>1, <2>2, <2>3, Zenon
  <2>4. CASE crashed
    <3>1. HashedIn(before) /\ HashedIn(target)
      BY <2>4, Zenon DEF CrashHashInv
    <3> QED
      BY <1>1, <2>2, <2>4, <3>1, Zenon DEF CrashHashInv
  <2> QED
    BY <2>3, <2>4
<1> QED
  BY <1>3, <1>4, <1>5, Zenon DEF CrashNext

\* A half-done operation never passes for a whole one: when all tables and partitions
\* have a hash, a file that verifies after a crash holds the contents from before the
\* operation or the contents it was to have.  Without a hash there is nothing to
\* notice it by.
THEOREM CrashAlwaysDetected ==
    ASSUME NEW D, PlainContents(D), "None" \notin DataAlgos, "None" \notin TableAlgos
    PROVE  CrashSpec => []CrashDetected
<1>1. CrashInit => CrashHashInv
  <2> SUFFICES ASSUME CrashInit
               PROVE  CrashHashInv
    OBVIOUS
  <2>1. CrashInv
    BY CrashStarts
  <2>2. Init /\ crashed = FALSE
    BY DEF CrashInit
  <2>3. HashInv
    BY <2>2, HashStarts, Zenon
  <2> QED
    BY <2>1, <2>2, <2>3, Zenon DEF CrashHashInv
<1>2. CrashHashInv /\ [CrashNext]_<<vars, ghosts>> => CrashHashInv'
  BY CrashHashSteps
<1>3. CrashHashInv => CrashDetected
  <2> SUFFICES ASSUME CrashHashInv, crashed, Verify(file, ResolveHead(file))
               PROVE  ContentsOf(file) \in {ContentsOf(before), ContentsOf(target)}
    BY Zenon DEF CrashDetected
  <2>1. PICK B, P : /\ TableIn(before, B) /\ TableIn(target, P)
                    /\ Torn(before, file, target, B, P, victim)
    BY Zenon DEF CrashHashInv, CrashInv, TornIn
  <2>2. HashedIn(before) /\ HashedIn(target)
    BY Zenon DEF CrashHashInv
  <2>3. Hashed(B) /\ Hashed(P)
    <3>1. PICK X : TableIn(before, X) /\ Hashed(X)
      BY <2>2, Zenon DEF HashedIn
    <3>2. PICK Y : TableIn(target, Y) /\ Hashed(Y)
      BY <2>2, Zenon DEF HashedIn
    <3> QED
      BY <2>1, <3>1, <3>2, OneHashed
  <2>4. ContentsOf(file) = ContentsOf(before) \/ ContentsOf(file) = ContentsOf(target)
    BY <2>1, <2>3, TornNoticed
  <2> QED
    BY <2>4
<1> QED
  BY <1>1, <1>2, <1>3, PTL DEF CrashSpec
=============================================================================
