----------------------------- MODULE PfsLogProofs -----------------------------
(***************************************************************************)
(* Proofs about PfsCommit, for sessions of every size, any number of them, *)
(* and every crash and failure: what a commit writes and where, that it    *)
(* never touches what is published, that the handle remembers the newest   *)
(* session, that PfsReader accepts the whole file, and, at the end, that   *)
(* PfsCommit implements the append-only log PfsLog.                        *)
(***************************************************************************)
EXTENDS MCPfsCommit, PcfRecordsProofs

-----------------------------------------------------------------------------
(* The parts of CommitPlan by names of their own.                          *)

Datas(parts) == [i \in DOMAIN parts |-> parts[i].data]
Data(parts) == FlattenSeq(Datas(parts))
Es(parts) == PartEntries(parts, eof)
SessionStart(parts) == eof + Len(Data(parts))
Chunks(parts) == MemberChunks(Es(parts))
Offset(parts, k) ==
    SessionStart(parts) + 1 + Len(FlattenSeq(SubSeq(Chunks(parts), 1, k - 1)))
        + (k - 1) * TableHeaderSize
Offsets(parts) == [k \in DOMAIN Chunks(parts) |-> Offset(parts, k)]
NextOf(parts, k) == IF k < Len(Chunks(parts)) THEN Offset(parts, k + 1) ELSE head_offset
Hashes(parts) ==
    [k \in DOMAIN Chunks(parts) |-> TableHash(hash_algo, NextOf(parts, k), Chunks(parts)[k])]
DigestAlgo(parts) == IF Chunks(parts) = <<>> THEN "None" ELSE hash_algo
Record(parts) ==
    SessionCell(next_seq, prev_head_algo, prev_head_hash, 1 + Len(Chunks(parts)),
                DigestAlgo(parts), MemberDigest(DigestAlgo(parts), Hashes(parts)))
HeadAt(parts) == Offset(parts, Len(Chunks(parts)) + 1)
HeadLink(parts) == HeadNext(Offsets(parts), head_offset)
SesEntry(parts) ==
    Entry(SessionType, <<next_seq, 0>>, SessionStart(parts), 1, 1, hash_algo,
          Digest(hash_algo, <<Record(parts)>>))
HeadRest(parts) == SubSeq(Es(parts), 1, HeadTake(Len(Es(parts))))
HeadEs(parts) == <<SesEntry(parts)>> \o HeadRest(parts)
TrailerAt(parts) == HeadAt(parts) + TableHeaderSize + Len(HeadEs(parts)) * EntrySize
Members(parts) ==
    [k \in DOMAIN Chunks(parts) |->
        WriteBlock(Offsets(parts)[k], NextOf(parts, k), hash_algo, Chunks(parts)[k])]
Begun(parts, k) ==
    {i \in DOMAIN Es(parts) : Es(parts)[i].used > 0 /\ Es(parts)[i].start <= eof + k}
Writes(parts) ==
    WriteCells(eof, Data(parts) \o <<Record(parts)>>) \o FlattenSeq(Members(parts))
        \o WriteBlock(HeadAt(parts), HeadLink(parts), hash_algo, HeadEs(parts))
        \o <<<<TrailerAt(parts), TrailerCell(HeadAt(parts))>>>>

LEMMA PlanIs ==
    ASSUME NEW parts
    PROVE  CommitPlan(parts) =
            [writes |-> Writes(parts),
             head |-> HeadAt(parts),
             hash |-> TableHash(hash_algo, HeadLink(parts), HeadEs(parts)),
             eof |-> TrailerAt(parts) + TrailerSize,
             eof_after |-> [k \in 0..(TrailerAt(parts) - eof) |->
                IF k < Len(Data(parts)) THEN Max({Es(parts)[i].start : i \in Begun(parts, k)})
                ELSE TrailerAt(parts)]]
BY Zenon DEF CommitPlan, PublishOrder, Writes, Datas, Data, Es, SessionStart, Chunks, Offset,
    Offsets, NextOf, Hashes, DigestAlgo, Record, HeadAt, HeadLink, SesEntry, HeadRest, HeadEs,
    TrailerAt, Members, Begun

-----------------------------------------------------------------------------
(* The entries of a session and their division into blocks.                *)

\* A session as an application may commit it: partitions of its two types, with
\* any data cells of D.
Partitions(D) == [type : {Raw, NodeType}, data : Seq(D)]

LEMMA HeadTakeIs ==
    ASSUME NEW n \in Nat
    PROVE  HeadTake(n) \in 0..n /\ HeadTake(n) < MaxEntries
BY CommitAssumption, MinOfTwo DEF HeadTake

LEMMA ChunksType ==
    ASSUME NEW E, NEW es \in Seq(E)
    PROVE  MemberChunks(es) \in Seq(Seq(E))
<1> DEFINE rest == SubSeq(es, HeadTake(Len(es)) + 1, Len(es))  lr == Len(rest)
           n == (lr + MaxEntries - 1) \div MaxEntries
           part(k) == SubSeq(rest, (k - 1) * MaxEntries + 1, Min({k * MaxEntries, lr}))
<1>1. MaxEntries \in Nat /\ MaxEntries > 1
  BY CommitAssumption
<1>2. HeadTake(Len(es)) \in 0..Len(es)
  BY HeadTakeIs
<1>3. rest \in Seq(E) /\ lr \in Nat
  BY <1>2
<1> HIDE DEF rest
<1>4. n \in Nat
  BY <1>1, <1>3
<1>5. ASSUME NEW k \in 1..n
      PROVE  part(k) \in Seq(E)
  <2> DEFINE a == (k - 1) * MaxEntries  b == k * MaxEntries
  <2>1. a \in Nat /\ b \in Nat
    BY <1>1
  <2> HIDE DEF a, b
  <2>2. Min({b, lr}) \in 0..lr
    BY <1>3, <2>1, MinOfTwo
  <2>3. SubSeq(rest, a + 1, Min({b, lr})) \in Seq(E)
    <3> DEFINE x == a + 1  y == Min({b, lr})
    <3>1. x \in Nat \ {0} /\ y \in 0..Len(rest)
      BY <2>1, <2>2
    <3> HIDE DEF x, y
    <3>2. SubSeq(rest, x, y) \in Seq(E)
      BY <1>3, <3>1, SliceType
    <3> QED
      BY <3>2, Zenon DEF x, y
  <2> QED
    BY <2>3, Zenon DEF a, b
<1>6. MemberChunks(es) = [k \in 1..n |-> part(k)]
  BY Zenon DEF MemberChunks, rest
<1> HIDE DEF part, n
<1> QED
  BY <1>4, <1>5, <1>6

-----------------------------------------------------------------------------
(* What the cells of a session are.                                        *)

\* All that the proofs below need of the state.
Placed == eof \in Nat

Ents(parts) == {Es(parts)[i] : i \in DOMAIN parts}
ChunkHead(parts, k) ==
    BlockCell(Len(Chunks(parts)[k]), NextOf(parts, k), hash_algo,
              TableHash(hash_algo, NextOf(parts, k), Chunks(parts)[k]))
HeadHead(parts) ==
    BlockCell(Len(HeadEs(parts)), HeadLink(parts), hash_algo,
              TableHash(hash_algo, HeadLink(parts), HeadEs(parts)))
\* The cells of a session before its trailer.
Bodies(parts, D) ==
    D \cup {Record(parts), SesEntry(parts), HeadHead(parts)} \cup Ents(parts)
      \cup {ChunkHead(parts, k) : k \in DOMAIN Chunks(parts)}

LEMMA DataIs ==
    ASSUME NEW D, NEW parts \in Seq(Partitions(D))
    PROVE  /\ Datas(parts) \in Seq(Seq(D)) /\ Len(Datas(parts)) = Len(parts)
           /\ Data(parts) \in Seq(D) /\ Len(Data(parts)) \in Nat
<1>1. \A i \in DOMAIN parts : parts[i].data \in Seq(D)
  <2>1. \A i \in DOMAIN parts : parts[i] \in Partitions(D)
    OBVIOUS
  <2> QED
    BY <2>1 DEF Partitions
<1>2. DOMAIN parts = 1..Len(parts) /\ Len(parts) \in Nat
  OBVIOUS
<1>3. Datas(parts) \in Seq(Seq(D)) /\ Len(Datas(parts)) = Len(parts)
  BY <1>1, <1>2 DEF Datas
<1>4. Data(parts) \in Seq(D)
  BY <1>3, FlattenType DEF Data
<1> HIDE DEF Data
<1> QED
  BY <1>3, <1>4

LEMMA EsIs ==
    ASSUME NEW D, NEW parts \in Seq(Partitions(D)), Placed
    PROVE  /\ Es(parts) \in Seq(Ents(parts)) /\ Len(Es(parts)) = Len(parts)
           /\ \A i \in 1..Len(parts) :
                Es(parts)[i] = Entry(parts[i].type, <<next_seq, i>>,
                                     eof + Len(Upto(Datas(parts), i - 1)), Len(parts[i].data),
                                     Len(parts[i].data), hash_algo,
                                     Digest(hash_algo, parts[i].data))
<1>1. DOMAIN parts = 1..Len(parts) /\ Len(parts) \in Nat
  OBVIOUS
<1>2. ASSUME NEW i \in 1..Len(parts)
      PROVE  [j \in 1..(i - 1) |-> parts[j].data] = SubSeq(Datas(parts), 1, i - 1)
  <2> DEFINE x == [j \in 1..(i - 1) |-> parts[j].data]  y == SubSeq(Datas(parts), 1, i - 1)
  <2>1. Datas(parts) \in Seq(Seq(D)) /\ Len(Datas(parts)) = Len(parts)
    BY DataIs
  <2>2. DOMAIN y = 1..(i - 1) /\ y = [j \in DOMAIN y |-> y[j]]
        /\ \A j \in 1..(i - 1) : y[j] = Datas(parts)[j]
    BY <2>1
  <2>3. \A j \in 1..(i - 1) : Datas(parts)[j] = parts[j].data
    BY <1>1 DEF Datas
  <2> HIDE DEF y
  <2>4. x = y
    BY <2>2, <2>3
  <2> QED
    BY <2>4 DEF y
<1>3. Es(parts) = [i \in 1..Len(parts) |->
            Entry(parts[i].type, <<next_seq, i>>,
                  eof + Len(FlattenSeq([j \in 1..(i - 1) |-> parts[j].data])),
                  Len(parts[i].data), Len(parts[i].data), hash_algo,
                  Digest(hash_algo, parts[i].data))]
  BY <1>1, Zenon DEF Es, PartEntries
<1>4. DOMAIN Es(parts) = 1..Len(parts)
  BY <1>3, Zenon
<1>5. Es(parts) = [i \in 1..Len(parts) |-> Es(parts)[i]]
  BY <1>3, Zenon
<1>6. Es(parts) \in Seq(Ents(parts)) /\ Len(Es(parts)) = Len(parts)
  <2> DEFINE e == Es(parts)
  <2>1. e = [i \in 1..Len(parts) |-> e[i]] /\ \A i \in 1..Len(parts) : e[i] \in Ents(parts)
    BY <1>1, <1>5 DEF Ents
  <2> HIDE DEF e
  <2>2. e \in Seq(Ents(parts)) /\ Len(e) = Len(parts)
    BY <1>1, <2>1
  <2> QED
    BY <2>2 DEF e
<1>7. ASSUME NEW i \in 1..Len(parts)
      PROVE  Es(parts)[i] = Entry(parts[i].type, <<next_seq, i>>,
                                  eof + Len(Upto(Datas(parts), i - 1)), Len(parts[i].data),
                                  Len(parts[i].data), hash_algo,
                                  Digest(hash_algo, parts[i].data))
  BY <1>2, <1>3, Zenon DEF Upto
<1> QED
  BY <1>6, <1>7

LEMMA EsFields ==
    ASSUME NEW D, NEW parts \in Seq(Partitions(D)), Placed, NEW i \in 1..Len(parts)
    PROVE  /\ Es(parts)[i].t = "ent" /\ Es(parts)[i].type = parts[i].type
           /\ Es(parts)[i].uid = <<next_seq, i>>
           /\ Es(parts)[i].start = eof + Len(Upto(Datas(parts), i - 1))
           /\ Es(parts)[i].max = Len(parts[i].data) /\ Es(parts)[i].used = Len(parts[i].data)
           /\ Es(parts)[i].algo = hash_algo
           /\ Es(parts)[i].hash = Digest(hash_algo, parts[i].data)
           /\ Es(parts)[i].type \in {Raw, NodeType}
           /\ parts[i].data \in Seq(D) /\ Len(parts[i].data) \in Nat
           /\ Datas(parts)[i] = parts[i].data
<1> DEFINE ty == parts[i].type  u == <<next_seq, i>>  st == eof + Len(Upto(Datas(parts), i - 1))
           l == Len(parts[i].data)  h == Digest(hash_algo, parts[i].data)
<1>1. Es(parts)[i] = Entry(ty, u, st, l, l, hash_algo, h)
  BY EsIs, Zenon
<1>2. parts[i] \in Partitions(D)
  OBVIOUS
<1>3. ty \in {Raw, NodeType} /\ parts[i].data \in Seq(D)
  BY <1>2 DEF Partitions
<1>5. Datas(parts)[i] = parts[i].data
  <2>1. DOMAIN parts = 1..Len(parts)
    OBVIOUS
  <2> QED
    BY <2>1 DEF Datas
<1>6. l \in Nat
  BY <1>3
<1> HIDE DEF ty, u, st, l, h
<1>4. LET e == Entry(ty, u, st, l, l, hash_algo, h)
      IN  /\ e.t = "ent" /\ e.type = ty /\ e.uid = u /\ e.start = st /\ e.max = l /\ e.used = l
          /\ e.algo = hash_algo /\ e.hash = h
  BY DEF Entry
<1> QED
  BY <1>1, <1>3, <1>4, <1>5, <1>6, Zenon DEF ty, u, st, l, h

LEMMA ChunksIs ==
    ASSUME NEW D, NEW parts \in Seq(Partitions(D)), Placed
    PROVE  /\ Chunks(parts) \in Seq(Seq(Ents(parts))) /\ Len(Chunks(parts)) \in Nat
           /\ HeadRest(parts) \in Seq(Ents(parts))
           /\ Len(HeadRest(parts)) = HeadTake(Len(parts))
           /\ \A i \in 1..Len(HeadRest(parts)) : HeadRest(parts)[i] = Es(parts)[i]
<1>1. Es(parts) \in Seq(Ents(parts)) /\ Len(Es(parts)) = Len(parts)
  BY EsIs
<1>2. Chunks(parts) \in Seq(Seq(Ents(parts)))
  BY <1>1, ChunksType DEF Chunks
<1>3. Len(parts) \in Nat
  OBVIOUS
<1>4. HeadTake(Len(parts)) \in 0..Len(parts)
  BY <1>3, HeadTakeIs
<1> DEFINE e == Es(parts)  y == HeadTake(Len(parts))
<1>5. e \in Seq(Ents(parts)) /\ y \in 0..Len(e) /\ HeadRest(parts) = SubSeq(e, 1, y)
  BY <1>1, <1>4 DEF HeadRest
<1> HIDE DEF e, y
<1>6. /\ SubSeq(e, 1, y) \in Seq(Ents(parts))
      /\ Len(SubSeq(e, 1, y)) = y
      /\ \A i \in 1..Len(SubSeq(e, 1, y)) : SubSeq(e, 1, y)[i] = e[i]
  BY <1>5
<1>7. Len(Chunks(parts)) \in Nat
  <2> DEFINE c == Chunks(parts)  S == Seq(Ents(parts))
  <2>1. c \in Seq(S)
    BY <1>2
  <2> HIDE DEF c, S
  <2>2. Len(c) \in Nat
    BY <2>1
  <2> QED
    BY <2>2 DEF c
<1> QED
  BY <1>2, <1>5, <1>6, <1>7 DEF e, y

\* The cells of the blocks.
MemberCells(parts) ==
    [k \in DOMAIN Chunks(parts) |->
        BlockCells(NextOf(parts, k), hash_algo, Chunks(parts)[k])]
HeadCells(parts) == BlockCells(HeadLink(parts), hash_algo, HeadEs(parts))

LEMMA HeadEsIs ==
    ASSUME NEW D, NEW parts \in Seq(Partitions(D)), Placed
    PROVE  /\ HeadEs(parts) \in Seq(Bodies(parts, D))
           /\ Len(HeadEs(parts)) = HeadTake(Len(parts)) + 1
           /\ HeadEs(parts)[1] = SesEntry(parts)
           /\ \A i \in 1..HeadTake(Len(parts)) : HeadEs(parts)[i + 1] = Es(parts)[i]
<1> DEFINE B == Bodies(parts, D)  h == HeadRest(parts)  x == SesEntry(parts)  n == HeadTake(Len(parts))
<1>1. h \in Seq(Ents(parts)) /\ Len(h) = n /\ \A i \in 1..Len(h) : h[i] = Es(parts)[i]
  BY ChunksIs
<1>2. Ents(parts) \subseteq B /\ x \in B
  BY DEF Bodies
<1>3. HeadEs(parts) = <<x>> \o h
  BY Zenon DEF HeadEs
<1> HIDE DEF B, h, x, n
<1>4. h \in Seq(B)
  BY <1>1, <1>2
<1>5. /\ <<x>> \o h \in Seq(B) /\ Len(<<x>> \o h) = Len(h) + 1
      /\ (<<x>> \o h)[1] = x /\ \A i \in 1..Len(h) : (<<x>> \o h)[i + 1] = h[i]
  BY <1>2, <1>4
<1> QED
  BY <1>1, <1>3, <1>5, Zenon DEF B, h, x, n

LEMMA HeadCellsIs ==
    ASSUME NEW D, NEW parts \in Seq(Partitions(D)), Placed
    PROVE  /\ HeadCells(parts) \in Seq(Bodies(parts, D))
           /\ Len(HeadCells(parts)) = HeadTake(Len(parts)) + 2
           /\ HeadCells(parts)[1] = HeadHead(parts)
           /\ \A i \in 1..Len(HeadEs(parts)) : HeadCells(parts)[i + 1] = HeadEs(parts)[i]
<1> DEFINE B == Bodies(parts, D)  es == HeadEs(parts)  next == HeadLink(parts)
<1>1. es \in Seq(B) /\ Len(es) = HeadTake(Len(parts)) + 1
  BY HeadEsIs
<1>2. BlockCell(Len(es), next, hash_algo, TableHash(hash_algo, next, es)) \in B
  BY DEF Bodies, HeadHead
<1>3. HeadTake(Len(parts)) \in Nat
  BY HeadTakeIs
<1> HIDE DEF B, es, next
<1>4. /\ BlockCells(next, hash_algo, es) \in Seq(B)
      /\ Len(BlockCells(next, hash_algo, es)) = Len(es) + 1
      /\ BlockCells(next, hash_algo, es)[1] =
            BlockCell(Len(es), next, hash_algo, TableHash(hash_algo, next, es))
      /\ \A i \in 1..Len(es) : BlockCells(next, hash_algo, es)[i + 1] = es[i]
  <2>1. 0 \in Nat
    OBVIOUS
  <2> QED
    BY <1>1, <1>2, <2>1, WriteBlockIs
<1> QED
  BY <1>1, <1>3, <1>4 DEF HeadCells, HeadHead, B, es, next

LEMMA MemberCellsIs ==
    ASSUME NEW D, NEW parts \in Seq(Partitions(D)), Placed
    PROVE  /\ MemberCells(parts) \in Seq(Seq(Bodies(parts, D)))
           /\ Len(MemberCells(parts)) = Len(Chunks(parts))
           /\ \A k \in 1..Len(Chunks(parts)) :
                /\ Len(MemberCells(parts)[k]) = Len(Chunks(parts)[k]) + 1
                /\ Len(Chunks(parts)[k]) \in Nat
                /\ MemberCells(parts)[k][1] = ChunkHead(parts, k)
                /\ \A i \in 1..Len(Chunks(parts)[k]) :
                        MemberCells(parts)[k][i + 1] = Chunks(parts)[k][i]
<1> DEFINE B == Bodies(parts, D)  c == Chunks(parts)  m == MemberCells(parts)  n == Len(c)
           E == Ents(parts)
<1>1. c \in Seq(Seq(E)) /\ n \in Nat
  BY ChunksIs
<1>2. E \subseteq B
  BY DEF Bodies
<1>3. DOMAIN c = 1..n
  <2> DEFINE S == Seq(E)
  <2>1. c \in Seq(S)
    BY <1>1
  <2> HIDE DEF c, S
  <2> QED
    BY <2>1
<1>4. ASSUME NEW k \in 1..n
      PROVE  /\ m[k] \in Seq(B) /\ Len(m[k]) = Len(c[k]) + 1 /\ m[k][1] = ChunkHead(parts, k)
             /\ \A i \in 1..Len(c[k]) : m[k][i + 1] = c[k][i]
             /\ Len(c[k]) \in Nat
  <2> DEFINE es == c[k]  next == NextOf(parts, k)
  <2>1. es \in Seq(E)
    <3> DEFINE S == Seq(E)
    <3>1. c \in Seq(S) /\ k \in 1..Len(c)
      BY <1>1
    <3> HIDE DEF c, S, n
    <3>2. c[k] \in S
      BY <3>1
    <3> QED
      BY <3>2 DEF S
  <2>2. m[k] = BlockCells(next, hash_algo, es)
    BY <1>3, Zenon DEF MemberCells
  <2>3. BlockCell(Len(es), next, hash_algo, TableHash(hash_algo, next, es)) \in B
    BY <1>3 DEF Bodies, ChunkHead
  <2>6. ChunkHead(parts, k) = BlockCell(Len(es), next, hash_algo, TableHash(hash_algo, next, es))
    BY Zenon DEF ChunkHead
  <2> HIDE DEF B, c, m, n, E, es, next
  <2>4. es \in Seq(B) /\ Len(es) \in Nat
    BY <2>1, <1>2
  <2>5. /\ BlockCells(next, hash_algo, es) \in Seq(B)
        /\ Len(BlockCells(next, hash_algo, es)) = Len(es) + 1
        /\ BlockCells(next, hash_algo, es)[1] =
              BlockCell(Len(es), next, hash_algo, TableHash(hash_algo, next, es))
        /\ \A i \in 1..Len(es) : BlockCells(next, hash_algo, es)[i + 1] = es[i]
    <3>1. 0 \in Nat
      OBVIOUS
    <3> QED
      BY <2>4, <2>3, <3>1, WriteBlockIs
  <2> QED
    BY <2>2, <2>4, <2>5, <2>6, Zenon DEF es
<1>5. m = [k \in 1..n |-> m[k]]
  BY <1>3, Zenon DEF MemberCells
<1> HIDE DEF B, c, m, n, E
<1>6. m \in Seq(Seq(B)) /\ Len(m) = n
  <2> DEFINE S == Seq(B)
  <2>1. \A k \in 1..n : m[k] \in S
    BY <1>4
  <2> HIDE DEF S
  <2>2. n \in Nat
    BY <1>1
  <2>3. m \in Seq(S) /\ Len(m) = n
    BY <2>2, <1>5, <2>1
  <2> QED
    BY <2>3 DEF S
<1> QED
  BY <1>4, <1>6, Zenon DEF m, n, c, B

\* A block has one cell more than entries.
LEMMA MemberSizes ==
    ASSUME NEW D, NEW parts \in Seq(Partitions(D)), Placed, NEW k \in 0..Len(Chunks(parts))
    PROVE  Len(Upto(MemberCells(parts), k)) = Len(Upto(Chunks(parts), k)) + k
<1> DEFINE B == Bodies(parts, D)  c == Chunks(parts)  m == MemberCells(parts)  n == Len(c)
           E == Ents(parts)  T == {j \in Nat : Len(Upto(m, j)) = Len(Upto(c, j)) + j}
<1>1. c \in Seq(Seq(E)) /\ n \in Nat
  BY ChunksIs
<1>2. /\ m \in Seq(Seq(B)) /\ Len(m) = n
      /\ \A j \in 1..n : Len(m[j]) = Len(c[j]) + 1 /\ Len(c[j]) \in Nat
  BY MemberCellsIs
<1> HIDE DEF B, c, m, n, E
<1>3. 0 \in T
  <2>1. Upto(m, 0) = <<>> /\ Upto(c, 0) = <<>>
    BY <1>1, <1>2, UptoNone
  <2>2. Len(Upto(m, 0)) = 0 /\ Len(Upto(c, 0)) = 0
    BY <2>1
  <2> QED
    BY <2>2
<1>4. ASSUME NEW j \in 0..(k - 1), j \in T
      PROVE  j + 1 \in T
  <2>1. j + 1 \in 1..n /\ (j + 1) - 1 = j /\ j \in 0..n /\ j + 1 \in Nat /\ j \in Nat
    BY <1>1 DEF n, c
  <2>2. Len(Upto(m, j + 1)) = Len(Upto(m, j)) + Len(m[j + 1])
    <3>1. j + 1 \in 1..Len(m)
      BY <2>1, <1>2
    <3>2. Len(Upto(m, j + 1)) = Len(Upto(m, (j + 1) - 1)) + Len(m[j + 1])
      BY <3>1, <1>2, UptoNext
    <3> QED
      BY <3>2, <2>1
  <2>3. Len(Upto(c, j + 1)) = Len(Upto(c, j)) + Len(c[j + 1])
    <3>1. j + 1 \in 1..Len(c)
      BY <2>1 DEF n
    <3>2. Len(Upto(c, j + 1)) = Len(Upto(c, (j + 1) - 1)) + Len(c[j + 1])
      BY <3>1, <1>1, UptoNext
    <3> QED
      BY <3>2, <2>1
  <2>4. Len(Upto(m, j)) = Len(Upto(c, j)) + j
    BY <1>4
  <2>5. Len(Upto(c, j)) \in Nat
    BY <2>1, <1>1, UptoType DEF n
  <2>6. Len(m[j + 1]) = Len(c[j + 1]) + 1 /\ Len(c[j + 1]) \in Nat
    BY <1>2, <2>1
  <2>7. Len(Upto(m, j + 1)) = Len(Upto(c, j + 1)) + (j + 1)
    <3> DEFINE mj == Len(Upto(m, j))  mj1 == Len(Upto(m, j + 1))  me == Len(m[j + 1])
               cj == Len(Upto(c, j))  cj1 == Len(Upto(c, j + 1))  ce == Len(c[j + 1])
    <3>1. /\ mj1 = mj + me /\ cj1 = cj + ce /\ mj = cj + j /\ me = ce + 1
          /\ cj \in Nat /\ ce \in Nat /\ j \in Nat
      BY <2>1, <2>2, <2>3, <2>4, <2>5, <2>6, Zenon
    <3> HIDE DEF mj, mj1, me, cj, cj1, ce
    <3>2. mj1 = cj1 + (j + 1)
      BY <3>1
    <3> QED
      BY <3>2, Zenon DEF mj1, cj1
  <2> QED
    BY <2>1, <2>7
<1> HIDE DEF T
<1>5. k \in Nat
  BY <1>1 DEF n, c
<1>6. 0..k \subseteq T
  BY <1>3, <1>4, <1>5, UpTo
<1>7. k \in T
  BY <1>5, <1>6
<1> QED
  BY <1>7 DEF T, m, c

\* Where the blocks go: each after the one before.
LEMMA OffsetIs ==
    ASSUME NEW D, NEW parts \in Seq(Partitions(D)), Placed, NEW k \in 1..(Len(Chunks(parts)) + 1)
    PROVE  /\ Offset(parts, k) = SessionStart(parts) + 1 + Len(Upto(MemberCells(parts), k - 1))
           /\ Offset(parts, k) \in Nat
<1>1. Len(Chunks(parts)) \in Nat
  BY ChunksIs
<1>2. k - 1 \in 0..Len(Chunks(parts)) /\ k - 1 \in Nat
  BY <1>1
<1>3. Len(Upto(MemberCells(parts), k - 1)) = Len(Upto(Chunks(parts), k - 1)) + (k - 1)
  BY <1>2, MemberSizes
<1>4. Len(Upto(Chunks(parts), k - 1)) \in Nat
  BY <1>2, ChunksIs, UptoType
<1>5. SessionStart(parts) \in Nat
  BY DataIs DEF SessionStart, Placed
<1>6. Offset(parts, k) = SessionStart(parts) + 1 + Len(Upto(Chunks(parts), k - 1)) + (k - 1) * 1
  BY Zenon DEF Offset, Upto, TableHeaderSize
<1> QED
  BY <1>2, <1>3, <1>4, <1>5, <1>6

-----------------------------------------------------------------------------
(* What a commit writes, from eof on.                                      *)

Flat(parts) == FlattenSeq(MemberCells(parts))
Content(parts) == Data(parts) \o <<Record(parts)>>
Inner(parts) == Content(parts) \o Flat(parts)
Body(parts) == Inner(parts) \o HeadCells(parts)
Cells(parts) == Body(parts) \o <<TrailerCell(HeadAt(parts))>>

LEMMA CellsAre ==
    ASSUME NEW D, NEW parts \in Seq(Partitions(D)), Placed
    PROVE  /\ Body(parts) \in Seq(Bodies(parts, D))
           /\ Cells(parts) \in Seq(Bodies(parts, D) \cup {TrailerCell(HeadAt(parts))})
           /\ Concatenated(Content(parts), Data(parts), <<Record(parts)>>)
           /\ Concatenated(Inner(parts), Content(parts), Flat(parts))
           /\ Concatenated(Body(parts), Inner(parts), HeadCells(parts))
           /\ Concatenated(Cells(parts), Body(parts), <<TrailerCell(HeadAt(parts))>>)
           /\ Content(parts) \in Seq(Bodies(parts, D))
           /\ Flat(parts) \in Seq(Bodies(parts, D))
           /\ Inner(parts) \in Seq(Bodies(parts, D))
<1> DEFINE B == Bodies(parts, D)  r == <<Record(parts)>>  t == <<TrailerCell(HeadAt(parts))>>
           TT == {TrailerCell(HeadAt(parts))}
<1>1. Data(parts) \in Seq(B)
  <2>1. D \subseteq B
    BY DEF Bodies
  <2>2. Data(parts) \in Seq(D)
    BY DataIs
  <2> HIDE DEF B
  <2> QED
    BY <2>1, <2>2
<1>2. r \in Seq(B)
  BY DEF Bodies
<1>3. MemberCells(parts) \in Seq(Seq(B))
  BY MemberCellsIs
<1>4. HeadCells(parts) \in Seq(B)
  BY HeadCellsIs
<1>5. t \in Seq(TT)
  OBVIOUS
<1> HIDE DEF B, r, t, TT
<1>6. Content(parts) \in Seq(B) /\ Concatenated(Content(parts), Data(parts), r)
  BY <1>1, <1>2, ConcatIs DEF Content, r
<1>7. Flat(parts) \in Seq(B)
  BY <1>3, FlattenType DEF Flat
<1>8. Inner(parts) \in Seq(B) /\ Concatenated(Inner(parts), Content(parts), Flat(parts))
  BY <1>6, <1>7, ConcatIs DEF Inner
<1>9. Body(parts) \in Seq(B) /\ Concatenated(Body(parts), Inner(parts), HeadCells(parts))
  BY <1>4, <1>8, ConcatIs DEF Body
<1>10. Body(parts) \in Seq(B \cup TT) /\ t \in Seq(B \cup TT)
  BY <1>5, <1>9
<1>11. Cells(parts) \in Seq(B \cup TT) /\ Concatenated(Cells(parts), Body(parts), t)
  BY <1>10, ConcatIs DEF Cells, t
<1> QED
  BY <1>6, <1>7, <1>8, <1>9, <1>11 DEF B, r, t, TT

\* Where the HEAD block and the trailer are.
LEMMA PlacesAre ==
    ASSUME NEW D, NEW parts \in Seq(Partitions(D)), Placed
    PROVE  /\ SessionStart(parts) = eof + Len(Data(parts)) /\ Len(Data(parts)) \in Nat
           /\ Len(Content(parts)) = Len(Data(parts)) + 1
           /\ HeadAt(parts) = eof + Len(Inner(parts)) /\ HeadAt(parts) \in Nat
           /\ HeadAt(parts) = SessionStart(parts) + 1 + Len(Flat(parts)) /\ Len(Flat(parts)) \in Nat
           /\ TrailerAt(parts) = HeadAt(parts) + 1 + Len(HeadEs(parts))
           /\ TrailerAt(parts) = eof + Len(Body(parts))
           /\ Len(HeadEs(parts)) \in Nat \ {0}
           /\ Len(Cells(parts)) = TrailerAt(parts) - eof + 1
<1> DEFINE n == Len(Chunks(parts))
<1>1. n \in Nat /\ n + 1 \in 1..(n + 1) /\ (n + 1) - 1 = n
  BY ChunksIs
<1>2. HeadAt(parts) = SessionStart(parts) + 1 + Len(Upto(MemberCells(parts), n))
      /\ HeadAt(parts) \in Nat
  <2>1. /\ Offset(parts, n + 1) = SessionStart(parts) + 1 + Len(Upto(MemberCells(parts), (n + 1) - 1))
        /\ Offset(parts, n + 1) \in Nat
    BY <1>1, OffsetIs
  <2> QED
    BY <1>1, <2>1, Zenon DEF HeadAt
<1>3. Upto(MemberCells(parts), n) = Flat(parts)
  <2>1. MemberCells(parts) \in Seq(Seq(Bodies(parts, D))) /\ Len(MemberCells(parts)) = n
    BY MemberCellsIs
  <2> DEFINE S == Seq(Bodies(parts, D))  m == MemberCells(parts)
  <2>2. m \in Seq(S) /\ Len(m) = n
    BY <2>1
  <2> HIDE DEF S, m, n
  <2>3. Upto(m, Len(m)) = FlattenSeq(m)
    BY <2>2, UptoAll
  <2> QED
    BY <2>2, <2>3, Zenon DEF Flat, m
<1>4. Len(Flat(parts)) \in Nat /\ Len(Inner(parts)) \in Nat /\ Len(Body(parts)) \in Nat
      /\ Len(Cells(parts)) \in Nat /\ Len(Content(parts)) \in Nat
  <2>1. /\ Flat(parts) \in Seq(Bodies(parts, D)) /\ Inner(parts) \in Seq(Bodies(parts, D))
        /\ Body(parts) \in Seq(Bodies(parts, D)) /\ Content(parts) \in Seq(Bodies(parts, D))
        /\ Cells(parts) \in Seq(Bodies(parts, D) \cup {TrailerCell(HeadAt(parts))})
    BY CellsAre
  <2> QED
    BY <2>1
<1>5. Len(Data(parts)) \in Nat
  BY DataIs
<1>6. /\ Len(Content(parts)) = Len(Data(parts)) + 1
      /\ Len(Inner(parts)) = Len(Content(parts)) + Len(Flat(parts))
      /\ Len(Body(parts)) = Len(Inner(parts)) + Len(HeadCells(parts))
      /\ Len(Cells(parts)) = Len(Body(parts)) + 1
  BY CellsAre DEF Concatenated
<1>7. Len(HeadCells(parts)) = HeadTake(Len(parts)) + 2 /\ Len(HeadEs(parts)) = HeadTake(Len(parts)) + 1
  BY HeadCellsIs, HeadEsIs
<1>8. HeadTake(Len(parts)) \in Nat
  <2>1. Len(parts) \in Nat
    OBVIOUS
  <2> QED
    BY <2>1, HeadTakeIs
<1>9. TrailerAt(parts) = HeadAt(parts) + 1 + Len(HeadEs(parts)) * 1
  BY Zenon DEF TrailerAt, TableHeaderSize, EntrySize
<1>10. SessionStart(parts) = eof + Len(Data(parts)) /\ eof \in Nat
  BY DEF SessionStart, Placed
<1>11. HeadAt(parts) = SessionStart(parts) + 1 + Len(Flat(parts)) /\ HeadAt(parts) \in Nat
  BY <1>2, <1>3
<1> DEFINE ld == Len(Data(parts))  lc == Len(Content(parts))  li == Len(Inner(parts))
           lf == Len(Flat(parts))  lb == Len(Body(parts))  lh == Len(HeadCells(parts))
           le == Len(HeadEs(parts))  lz == Len(Cells(parts))  take == HeadTake(Len(parts))
           ss == SessionStart(parts)  head == HeadAt(parts)  trl == TrailerAt(parts)
<1>12. /\ ld \in Nat /\ lf \in Nat /\ take \in Nat /\ eof \in Nat /\ head \in Nat
       /\ lc = ld + 1 /\ li = lc + lf /\ lb = li + lh /\ lz = lb + 1 /\ lh = take + 2
       /\ le = take + 1 /\ trl = head + 1 + le * 1 /\ ss = eof + ld /\ head = ss + 1 + lf
  BY <1>4, <1>5, <1>6, <1>7, <1>8, <1>9, <1>10, <1>11, Zenon
<1> HIDE DEF n, ld, lc, li, lf, lb, lh, le, lz, take, ss, head, trl
<1>13. /\ ss = eof + ld /\ ld \in Nat /\ lc = ld + 1 /\ head = eof + li /\ head \in Nat
       /\ head = ss + 1 + lf /\ lf \in Nat /\ trl = head + 1 + le /\ trl = eof + lb
       /\ le \in Nat \ {0} /\ lz = trl - eof + 1
  BY <1>12
<1> QED
  BY <1>13, Zenon DEF ld, lc, li, lf, lb, lh, le, lz, take, ss, head, trl

LEMMA MembersAre ==
    ASSUME NEW D, NEW parts \in Seq(Partitions(D)), Placed
    PROVE  FlattenSeq(Members(parts)) = WriteCells(SessionStart(parts) + 1, Flat(parts))
<1> DEFINE B == Bodies(parts, D)  c == Chunks(parts)  m == MemberCells(parts)  w == Members(parts)
           e == SessionStart(parts) + 1  n == Len(c)  P == Nat \X B  E == Ents(parts)
<1>1. c \in Seq(Seq(E)) /\ n \in Nat
  BY ChunksIs
<1>2. m \in Seq(Seq(B)) /\ Len(m) = n
  BY MemberCellsIs
<1>3. DOMAIN c = 1..n
  <2> DEFINE S == Seq(E)
  <2>1. c \in Seq(S)
    BY <1>1
  <2> HIDE DEF c, S
  <2> QED
    BY <2>1
<1>4. e \in Nat
  BY DataIs DEF SessionStart, Placed
<1>5. ASSUME NEW k \in 1..n
      PROVE  w[k] = WriteCells(e + Len(Upto(m, k - 1)), m[k])
             /\ w[k] \in Seq(P)
  <2> DEFINE es == c[k]  next == NextOf(parts, k)  off == Offset(parts, k)
             x == e + Len(Upto(m, k - 1))
  <2>1. off = x /\ off \in Nat
    <3>1. k \in 1..(Len(Chunks(parts)) + 1)
      BY <1>1
    <3> QED
      BY <3>1, OffsetIs
  <2>2. w[k] = WriteBlock(off, next, hash_algo, es)
    BY <1>3, Zenon DEF Members, Offsets
  <2>3. m[k] = BlockCells(next, hash_algo, es)
    BY <1>3, Zenon DEF MemberCells
  <2>4. BlockCell(Len(es), next, hash_algo, TableHash(hash_algo, next, es)) \in B
    BY <1>3 DEF Bodies, ChunkHead
  <2>5. es \in Seq(B)
    <3> DEFINE S == Seq(E)
    <3>1. c \in Seq(S) /\ k \in 1..Len(c)
      BY <1>1
    <3>2. E \subseteq B
      BY DEF Bodies
    <3>4. c[k] \in S
      <4> HIDE DEF c, S, n
      <4> QED
        BY <3>1
    <3> HIDE DEF c, E, B
    <3> QED
      BY <3>2, <3>4
  <2> HIDE DEF B, c, m, w, n, E, es, next, off, e, x
  <2>6. WriteBlock(off, next, hash_algo, es) = WriteCells(off, BlockCells(next, hash_algo, es))
        /\ BlockCells(next, hash_algo, es) \in Seq(B)
    BY <2>1, <2>4, <2>5, WriteBlockIs
  <2>7. WriteCells(off, m[k]) \in Seq(Nat \X B)
    BY <2>1, <2>3, <2>6, WriteCellsInRow
  <2>8. w[k] = WriteCells(off, m[k])
    BY <2>2, <2>3, <2>6, Zenon
  <2>9. w[k] \in Seq(P)
    BY <2>7, <2>8, Zenon
  <2> QED
    BY <2>1, <2>8, <2>9, Zenon DEF x
<1>6. w = [k \in 1..n |-> w[k]]
  BY <1>3, Zenon DEF Members
<1>7. \A k \in 1..Len(m) : m[k] \in Seq(B)
  <2> DEFINE S == Seq(B)
  <2>1. m \in Seq(S)
    BY <1>2
  <2> HIDE DEF m, S
  <2>2. \A k \in 1..Len(m) : m[k] \in S
    BY <2>1
  <2> QED
    BY <2>2 DEF S
<1> HIDE DEF B, c, m, w, n, E, e, P
<1>8. w \in Seq(Seq(P)) /\ Len(w) = n
  <2> DEFINE S == Seq(P)
  <2>1. \A k \in 1..n : w[k] \in S
    BY <1>5
  <2>2. n \in Nat
    BY <1>1
  <2> HIDE DEF S
  <2>3. w \in Seq(S) /\ Len(w) = n
    BY <2>2, <2>1, <1>6
  <2> QED
    BY <2>3 DEF S
<1>9. FlattenSeq(w) = WriteCells(e, FlattenSeq(m))
  <2>1. Len(w) = Len(m) /\ \A k \in 1..Len(m) : w[k] = WriteCells(e + Len(Upto(m, k - 1)), m[k])
    BY <1>2, <1>5, <1>8
  <2>2. w \in Seq(Seq(Nat \X B)) /\ m \in Seq(Seq(B))
    BY <1>2, <1>8 DEF P
  <2>3. Runs(w, e, m)
    BY <2>1, Zenon DEF Runs
  <2> QED
    BY <1>4, <2>2, <2>3, WriteCellsFlatten
<1> QED
  BY <1>9, Zenon DEF w, e, m, Flat

\* The writes of a commit are its cells, one after the other from eof on.
LEMMA WritesAre ==
    ASSUME NEW D, NEW parts \in Seq(Partitions(D)), Placed
    PROVE  Writes(parts) = WriteCells(eof, Cells(parts))
<1> DEFINE B == Bodies(parts, D) \cup {TrailerCell(HeadAt(parts))}
           a == Content(parts)  f == Flat(parts)  i == Inner(parts)  h == HeadCells(parts)
           b == Body(parts)  t == <<TrailerCell(HeadAt(parts))>>
           ha == HeadAt(parts)  ta == TrailerAt(parts)
<1>1. /\ a \in Seq(B) /\ f \in Seq(B) /\ i \in Seq(B) /\ h \in Seq(B) /\ b \in Seq(B)
      /\ t \in Seq(B)
  <2> DEFINE C == Bodies(parts, D)
  <2>1. a \in Seq(C) /\ f \in Seq(C) /\ i \in Seq(C) /\ b \in Seq(C)
    BY CellsAre
  <2>2. h \in Seq(C)
    BY HeadCellsIs
  <2>3. C \subseteq B /\ t \in Seq(B)
    OBVIOUS
  <2> HIDE DEF C, B, a, f, i, h, b, t
  <2> QED
    BY <2>1, <2>2, <2>3
<1>2. /\ eof \in Nat /\ SessionStart(parts) + 1 = eof + Len(a)
      /\ ha = eof + Len(i) /\ ta = eof + Len(b) /\ ha \in Nat
  <2> HIDE DEF b
  <2>1. /\ SessionStart(parts) = eof + Len(Data(parts)) /\ Len(Data(parts)) \in Nat
        /\ Len(a) = Len(Data(parts)) + 1
    BY PlacesAre
  <2>2. ha = eof + Len(i) /\ ta = eof + Len(b) /\ ha \in Nat
    BY PlacesAre DEF b
  <2>3. eof \in Nat
    BY DEF Placed
  <2> DEFINE ld == Len(Data(parts))  la == Len(a)  ss == SessionStart(parts)
  <2> HIDE DEF ld, la, ss
  <2>4. ss = eof + ld /\ ld \in Nat /\ la = ld + 1
    BY <2>1 DEF ld, la, ss
  <2>5. ss + 1 = eof + la
    BY <2>3, <2>4
  <2> QED
    BY <2>2, <2>3, <2>5 DEF la, ss
<1>3. FlattenSeq(Members(parts)) = WriteCells(eof + Len(a), f)
  BY <1>2, MembersAre
<1>4. WriteBlock(ha, HeadLink(parts), hash_algo, HeadEs(parts)) = WriteCells(eof + Len(i), h)
  <2> DEFINE es == HeadEs(parts)  next == HeadLink(parts)  C == Bodies(parts, D)
  <2>1. es \in Seq(C)
    BY HeadEsIs
  <2>2. BlockCell(Len(es), next, hash_algo, TableHash(hash_algo, next, es)) \in C
    BY DEF Bodies, HeadHead
  <2>4. ha \in Nat
    BY <1>2
  <2> HIDE DEF B, a, f, i, h, b, t, ta, es, next, C, ha
  <2>3. WriteBlock(ha, next, hash_algo, es) = WriteCells(ha, BlockCells(next, hash_algo, es))
        /\ BlockCells(next, hash_algo, es) \in Seq(C)
    BY <2>1, <2>2, <2>4, WriteBlockIs
  <2> QED
    BY <1>2, <2>3, Zenon DEF es, next, HeadCells, ha, h
<1>5. <<<<ta, TrailerCell(HeadAt(parts))>>>> = WriteCells(eof + Len(b), t)
  <2> DEFINE x == TrailerCell(HeadAt(parts))
  <2>1. ta \in Int
    <3>1. Len(b) \in Nat
      <4> HIDE DEF B, b
      <4> QED
        BY <1>1
    <3> QED
      BY <1>2, <3>1
  <2> HIDE DEF x, ta
  <2>2. WriteCells(ta, <<x>>) = [k \in 1..1 |-> <<ta + k - 1, <<x>>[k]>>]
    BY DEF WriteCells
  <2>3. WriteCells(ta, <<x>>) = <<<<ta, x>>>>
    BY <2>1, <2>2
  <2> QED
    BY <1>2, <2>3, Zenon DEF x
<1>6. Writes(parts) = ((WriteCells(eof, a) \o WriteCells(eof + Len(a), f))
                        \o WriteCells(eof + Len(i), h)) \o WriteCells(eof + Len(b), t)
  BY <1>3, <1>4, <1>5, Zenon DEF Writes, Content
<1>7. i = a \o f /\ b = i \o h /\ Cells(parts) = b \o t
  BY Zenon DEF Inner, Body, Cells
<1> HIDE DEF B, a, f, i, h, b, t
<1>8. Joins(WriteCells(eof, a \o f), WriteCells(eof, a), WriteCells(eof + Len(a), f))
  BY <1>1, <1>2, WriteCellsConcat
<1>9. Joins(WriteCells(eof, i \o h), WriteCells(eof, i), WriteCells(eof + Len(i), h))
  BY <1>1, <1>2, WriteCellsConcat
<1>10. Joins(WriteCells(eof, b \o t), WriteCells(eof, b), WriteCells(eof + Len(b), t))
  BY <1>1, <1>2, WriteCellsConcat
<1> QED
  BY <1>6, <1>7, <1>8, <1>9, <1>10, Zenon DEF Joins

-----------------------------------------------------------------------------
(* What is published stays.                                                *)

\* The sessions are of any size and the data cells any but trailers: data that
\* ends in the bytes of a trailer is taken for one once it is the last thing in
\* the file, which is what the run nested_trailer shows.
PlainSessions(D) == Sessions \subseteq Seq(Partitions(D)) /\ \A d \in D : d.t # "trl"

\* The file starts with what create wrote, and nothing at or past the append
\* position is a trailer.  That a failed commit left anything else there, or that
\* the append position is past the end of the file, does no harm.
StayInv ==
    /\ \E C : file \in Seq(C)
    /\ Len(file) >= 2 /\ file[1] = HeaderCell(Sentinel) /\ file[2] = TrailerCell(0)
    /\ eof \in Nat
    /\ open => eof >= 2 /\ \A o \in eof..(Len(file) - 1) : file[o + 1].t # "trl"

LEMMA BodiesPlain ==
    ASSUME NEW D, PlainSessions(D), NEW parts \in Seq(Partitions(D)), Placed
    PROVE  \A c \in Bodies(parts, D) : c.t # "trl"
<1>1. \A c \in Ents(parts) : c.t = "ent"
  <2>1. DOMAIN parts = 1..Len(parts)
    OBVIOUS
  <2>2. \A i \in 1..Len(parts) : Es(parts)[i].t = "ent"
    BY EsFields
  <2> QED
    BY <2>1, <2>2 DEF Ents
<1>2. Record(parts).t = "ses" /\ SesEntry(parts).t = "ent" /\ HeadHead(parts).t = "blk"
  BY DEF Record, SessionCell, SesEntry, Entry, HeadHead, BlockCell
<1>3. \A k \in DOMAIN Chunks(parts) : ChunkHead(parts, k).t = "blk"
  BY DEF ChunkHead, BlockCell
<1>4. \A d \in D : d.t # "trl"
  BY DEF PlainSessions
<1> QED
  BY <1>1, <1>2, <1>3, <1>4 DEF Bodies

\* A commit that fails leaves the append position where it was, or further on.
LEMMA EofAdvances ==
    ASSUME NEW D, NEW parts \in Seq(Partitions(D)), Placed,
           NEW k \in DOMAIN CommitPlan(parts).eof_after
    PROVE  /\ k \in 0..(Len(Cells(parts)) - 1)
           /\ CommitPlan(parts).eof_after[k] \in Nat
           /\ CommitPlan(parts).eof_after[k] >= eof
<1> DEFINE n == TrailerAt(parts) - eof
           begun(j) == {Es(parts)[i].start : i \in Begun(parts, j)}
           after(j) == IF j < Len(Data(parts)) THEN Max(begun(j)) ELSE TrailerAt(parts)
<1>1. CommitPlan(parts).eof_after = [j \in 0..n |-> after(j)]
  BY PlanIs, Zenon
<1>2. k \in 0..n /\ CommitPlan(parts).eof_after[k] = after(k)
  BY <1>1, Zenon
<1>3. /\ eof \in Nat /\ TrailerAt(parts) \in Nat /\ TrailerAt(parts) >= eof
      /\ n = Len(Cells(parts)) - 1 /\ n \in Nat
  <2>1. eof \in Nat
    BY DEF Placed
  <2>2. TrailerAt(parts) = eof + Len(Body(parts)) /\ Len(Cells(parts)) = TrailerAt(parts) - eof + 1
    BY PlacesAre
  <2>3. Len(Body(parts)) \in Nat
    <3>1. Body(parts) \in Seq(Bodies(parts, D))
      BY CellsAre
    <3> QED
      BY <3>1
  <2> QED
    BY <2>1, <2>2, <2>3
<1>4. CASE k < Len(Data(parts))
  <2> DEFINE T == begun(k)
  <2>1. \A i \in 1..Len(parts) : Es(parts)[i].start \in Nat /\ Es(parts)[i].start >= eof
    <3>1. \A i \in 1..Len(parts) : Es(parts)[i].start = eof + Len(Upto(Datas(parts), i - 1))
      BY EsFields
    <3>2. ASSUME NEW i \in 1..Len(parts)
          PROVE  Len(Upto(Datas(parts), i - 1)) \in Nat
      <4>1. Datas(parts) \in Seq(Seq(D)) /\ i - 1 \in 0..Len(Datas(parts))
        BY DataIs
      <4> QED
        BY <4>1, UptoType
    <3> QED
      BY <1>3, <3>1, <3>2
  <2>2. DOMAIN Es(parts) = 1..Len(parts)
    <3>1. Es(parts) \in Seq(Ents(parts)) /\ Len(Es(parts)) = Len(parts)
      BY EsIs
    <3> QED
      BY <3>1
  <2>3. T \in SUBSET Nat /\ \A t \in T : t >= eof /\ t <= eof + k
    BY <2>1, <2>2 DEF Begun
  <2>4. T # {}
    <3>1. Datas(parts) \in Seq(Seq(D)) /\ Len(Datas(parts)) = Len(parts)
      BY DataIs
    <3>2. k + 1 \in 1..Len(FlattenSeq(Datas(parts)))
      <4>1. Len(Data(parts)) \in Nat
        BY DataIs
      <4> QED
        BY <1>2, <1>3, <1>4, <4>1 DEF Data
    <3>3. PICK i \in 1..Len(Datas(parts)) : \E j \in 1..Len(Datas(parts)[i]) :
                k + 1 = Len(Upto(Datas(parts), i - 1)) + j
      BY <3>1, <3>2, FlattenWhere
    <3>4. PICK j \in 1..Len(Datas(parts)[i]) : k + 1 = Len(Upto(Datas(parts), i - 1)) + j
      BY <3>3
    <3>5. i \in 1..Len(parts)
      BY <3>1
    <3>6. Es(parts)[i].start = eof + Len(Upto(Datas(parts), i - 1))
          /\ Es(parts)[i].used = Len(parts[i].data)
      BY <3>5, EsFields
    <3>7. Datas(parts)[i] = parts[i].data /\ Len(parts[i].data) \in Nat
      <4>1. DOMAIN parts = 1..Len(parts)
        OBVIOUS
      <4>2. Datas(parts)[i] = parts[i].data
        BY <3>5, <4>1 DEF Datas
      <4>3. parts[i] \in Partitions(D)
        BY <3>5
      <4>4. parts[i].data \in Seq(D)
        BY <4>3 DEF Partitions
      <4> QED
        BY <4>2, <4>4
    <3>8. Len(Upto(Datas(parts), i - 1)) \in Nat
      <4>1. i - 1 \in 0..Len(Datas(parts))
        BY <3>1, <3>5
      <4> QED
        BY <3>1, <4>1, UptoType
    <3>9. Es(parts)[i].used > 0 /\ Es(parts)[i].start <= eof + k
      <4> DEFINE u == Len(Upto(Datas(parts), i - 1))  l == Len(parts[i].data)
                 st == Es(parts)[i].start  us == Es(parts)[i].used
      <4>1. /\ k + 1 = u + j /\ j \in 1..l /\ u \in Nat /\ l \in Nat /\ st = eof + u /\ us = l
            /\ k \in 0..n /\ eof \in Nat /\ n \in Nat
        BY <1>2, <1>3, <3>4, <3>6, <3>7, <3>8
      <4> HIDE DEF u, l, st, us, n
      <4>2. us > 0 /\ st <= eof + k
        BY <4>1
      <4> QED
        BY <4>2 DEF us, st
    <3>10. i \in Begun(parts, k)
      BY <2>2, <3>5, <3>9 DEF Begun
    <3> QED
      BY <3>10
  <2> HIDE DEF T
  <2>5. eof + k \in Nat
    BY <1>2, <1>3
  <2>6. Max(T) \in T
    BY <2>3, <2>4, <2>5, MaxOfNat
  <2> QED
    BY <1>2, <1>3, <1>4, <2>3, <2>6 DEF T
<1>5. CASE ~(k < Len(Data(parts)))
  BY <1>2, <1>3, <1>5
<1> QED
  BY <1>4, <1>5

\* What is in the file after k writes of a commit.
After(parts, k) == Apply(file, SubSeq(Writes(parts), 1, k))

LEMMA AfterIs ==
    ASSUME NEW D, NEW parts \in Seq(Partitions(D)), StayInv, NEW k \in 0..Len(Cells(parts))
    PROVE  /\ \E C : After(parts, k) \in Seq(C)
           /\ Overlaid(After(parts, k), file, Cells(parts), eof, k)
           /\ Len(After(parts, k)) \in Nat /\ Len(file) \in Nat
<1>1. PICK C0 : file \in Seq(C0)
  BY DEF StayInv
<1> DEFINE B == Bodies(parts, D) \cup {TrailerCell(HeadAt(parts))}
           C == (C0 \cup B) \cup {Zero}  cells == Cells(parts)  zero == Zero
<1>2. Placed
  BY DEF Placed, StayInv
<1>3. cells \in Seq(B)
  BY <1>2, CellsAre
<1>4. Writes(parts) = WriteCells(eof, cells)
  BY <1>2, WritesAre
<1>5. eof \in Nat
  BY DEF StayInv
<1>6. C0 \subseteq C /\ B \subseteq C /\ Zero \in C
  OBVIOUS
<1> HIDE DEF B, C, cells
<1>7. file \in Seq(C) /\ cells \in Seq(C)
  BY <1>1, <1>3, <1>6
<1>8. k \in 0..Len(cells)
  BY DEF cells
<1>9. /\ Apply(file, SubSeq(WriteCells(eof, cells), 1, k)) \in Seq(C)
      /\ Overlaid(Apply(file, SubSeq(WriteCells(eof, cells), 1, k)), file, cells, eof, k)
  BY <1>5, <1>6, <1>7, <1>8, ApplyCells
<1>10. After(parts, k) \in Seq(C) /\ Overlaid(After(parts, k), file, cells, eof, k)
  BY <1>4, <1>9, Zenon DEF After
<1>11. Len(After(parts, k)) \in Nat /\ Len(file) \in Nat
  <2> HIDE DEF After
  <2> QED
    BY <1>7, <1>10
<1> QED
  BY <1>10, <1>11 DEF cells

\* Below the append position nothing changes.
LEMMA AfterKeeps ==
    ASSUME NEW D, NEW parts \in Seq(Partitions(D)), StayInv, open, NEW k \in 0..Len(Cells(parts))
    PROVE  /\ Len(After(parts, k)) >= Len(file)
           /\ \A o \in 0..(eof - 1) : o < Len(file) => After(parts, k)[o + 1] = file[o + 1]
           /\ \A o \in eof..(Len(After(parts, k)) - 1) :
                \/ o < eof + k /\ After(parts, k)[o + 1] = Cells(parts)[o - eof + 1]
                \/ ~(o < eof + k) /\ o < Len(file) /\ After(parts, k)[o + 1] = file[o + 1]
                \/ ~(o < eof + k) /\ After(parts, k)[o + 1] = Zero
<1> DEFINE r == After(parts, k)  cells == Cells(parts)  lr == Len(r)  lf == Len(file)  zero == Zero
<1>1. Overlaid(r, file, cells, eof, k) /\ lr \in Nat /\ lf \in Nat
  BY AfterIs
<1>2. eof \in Nat /\ k \in Nat
  <2>1. Len(Cells(parts)) \in Nat
    <3>1. Cells(parts) \in Seq(Bodies(parts, D) \cup {TrailerCell(HeadAt(parts))})
      BY CellsAre DEF Placed, StayInv
    <3> QED
      BY <3>1
  <2> QED
    BY <2>1 DEF StayInv
<1>3. /\ lr = IF k = 0 \/ eof + k <= lf THEN lf ELSE eof + k
      /\ \A o \in 0..(lr - 1) :
            r[o + 1] = IF eof <= o /\ o < eof + k THEN cells[o - eof + 1]
                       ELSE IF o < lf THEN file[o + 1] ELSE zero
  BY <1>1, Zenon DEF Overlaid
<1> HIDE DEF r, cells, lr, lf, zero
<1>4. lr >= lf
  BY <1>1, <1>2, <1>3
<1>5. \A o \in 0..(eof - 1) : o < lf => r[o + 1] = file[o + 1]
  BY <1>1, <1>2, <1>3, <1>4
<1>6. \A o \in eof..(lr - 1) :
        \/ o < eof + k /\ r[o + 1] = cells[o - eof + 1]
        \/ ~(o < eof + k) /\ o < lf /\ r[o + 1] = file[o + 1]
        \/ ~(o < eof + k) /\ r[o + 1] = zero
  BY <1>1, <1>2, <1>3
<1> QED
  BY <1>4, <1>5, <1>6, Zenon DEF r, cells, lr, lf, zero

\* Past it there is no trailer, but for the last write of a commit that ends.
LEMMA AfterPlain ==
    ASSUME NEW D, PlainSessions(D), NEW parts \in Seq(Partitions(D)), StayInv, open,
           NEW k \in 0..Len(Cells(parts)),
           NEW o \in eof..(Len(After(parts, k)) - 1), k = Len(Cells(parts)) => o # TrailerAt(parts)
    PROVE  After(parts, k)[o + 1].t # "trl"
<1> DEFINE r == After(parts, k)
<1>1. Placed /\ eof \in Nat
  BY DEF Placed, StayInv
<1>2. /\ Len(Cells(parts)) = TrailerAt(parts) - eof + 1
      /\ TrailerAt(parts) = eof + Len(Body(parts))
  BY <1>1, PlacesAre
<1>3. /\ Body(parts) \in Seq(Bodies(parts, D))
      /\ \A i \in 1..Len(Body(parts)) : Cells(parts)[i] = Body(parts)[i]
  BY <1>1, CellsAre DEF Concatenated
<1>4. Len(Body(parts)) \in Nat /\ Len(r) \in Nat /\ Len(file) \in Nat
  BY <1>3, AfterIs
<1>5. CASE o < eof + k /\ r[o + 1] = Cells(parts)[o - eof + 1]
  <2>1. o - eof + 1 \in 1..Len(Body(parts))
    <3> DEFINE lb == Len(Body(parts))  lc == Len(Cells(parts))  ta == TrailerAt(parts)  lr == Len(r)
    <3>1. /\ lb \in Nat /\ lc = ta - eof + 1 /\ ta = eof + lb /\ eof \in Nat /\ k \in 0..lc
          /\ o < eof + k /\ (k = lc => o # ta) /\ o \in eof..(lr - 1) /\ lr \in Nat
      BY <1>1, <1>2, <1>4, <1>5
    <3> HIDE DEF lb, lc, ta, lr
    <3>2. o - eof + 1 \in 1..lb
      BY <3>1
    <3> QED
      BY <3>2 DEF lb
  <2>2. Body(parts)[o - eof + 1] \in Bodies(parts, D)
    BY <2>1, <1>3
  <2>3. Body(parts)[o - eof + 1].t # "trl"
    BY <2>2, <1>1, BodiesPlain
  <2> QED
    BY <1>3, <1>5, <2>1, <2>3
<1>6. CASE o < Len(file) /\ r[o + 1] = file[o + 1]
  <2>1. o \in eof..(Len(file) - 1)
    BY <1>1, <1>4, <1>6
  <2> QED
    BY <2>1, <1>6 DEF StayInv
<1>7. CASE r[o + 1] = Zero
  BY <1>7 DEF Zero
<1> QED
  BY <1>5, <1>6, <1>7, AfterKeeps

\* So whatever part of a commit is done, the invariant holds from the append
\* position the handle then has.
LEMMA AfterStays ==
    ASSUME NEW D, PlainSessions(D), NEW parts \in Seq(Partitions(D)), StayInv, open,
           NEW k \in 0..Len(Cells(parts)), file' = After(parts, k), eof' \in Nat,
           open' => /\ eof' >= eof
                    /\ k = Len(Cells(parts)) => eof' > TrailerAt(parts)
    PROVE  StayInv'
<1> DEFINE r == After(parts, k)
<1>1. /\ \E C : r \in Seq(C)
      /\ Len(r) \in Nat /\ Len(file) \in Nat
  BY AfterIs
<1>2. /\ Len(r) >= Len(file)
      /\ \A o \in 0..(eof - 1) : o < Len(file) => r[o + 1] = file[o + 1]
  BY AfterKeeps
<1>3. Len(file) >= 2 /\ file[1] = HeaderCell(Sentinel) /\ file[2] = TrailerCell(0)
      /\ eof \in Nat /\ eof >= 2
  BY DEF StayInv
<1>4. Len(r) >= 2 /\ r[1] = file[1] /\ r[2] = file[2]
  <2>1. 0 \in 0..(eof - 1) /\ 1 \in 0..(eof - 1) /\ 0 < Len(file) /\ 1 < Len(file)
        /\ 0 + 1 = 1 /\ 1 + 1 = 2
    BY <1>1, <1>3
  <2>2. r[0 + 1] = file[0 + 1] /\ r[1 + 1] = file[1 + 1]
    BY <1>2, <2>1
  <2>3. Len(r) >= 2
    BY <1>1, <1>2, <1>3
  <2> QED
    BY <2>1, <2>2, <2>3
<1>5. ASSUME open', NEW o \in eof'..(Len(r) - 1)
      PROVE  r[o + 1].t # "trl"
  <2>1. eof' >= eof /\ (k = Len(Cells(parts)) => eof' > TrailerAt(parts))
    BY <1>5
  <2>2. o \in eof..(Len(r) - 1)
    BY <2>1, <1>1, <1>3
  <2>3. k = Len(Cells(parts)) => o # TrailerAt(parts)
    <3>1. TrailerAt(parts) \in Int
      <4>1. TrailerAt(parts) = eof + Len(Body(parts)) /\ Body(parts) \in Seq(Bodies(parts, D))
        BY PlacesAre, CellsAre DEF Placed, StayInv
      <4>2. Len(Body(parts)) \in Nat
        BY <4>1
      <4> QED
        BY <4>1, <4>2, <1>3
    <3> QED
      BY <2>1, <3>1, <1>1
  <2> QED
    BY <2>2, <2>3, AfterPlain
<1>6. open' => eof' >= 2
  BY <1>3
<1> QED
  BY <1>1, <1>3, <1>4, <1>5, <1>6, Zenon DEF StayInv

\* What Next does to the file: nothing, or the first k writes of a commit.
Writing(parts, k) ==
    /\ open /\ parts \in Sessions /\ k \in 0..Len(Cells(parts))
    /\ file' = After(parts, k)
    /\ open' => /\ eof' >= eof
                /\ k = Len(Cells(parts)) => eof' > TrailerAt(parts)
    /\ eof' \in Nat

LEMMA PlanFields ==
    ASSUME NEW parts
    PROVE  /\ CommitPlan(parts).writes = Writes(parts)
           /\ CommitPlan(parts).head = HeadAt(parts)
           /\ CommitPlan(parts).hash = TableHash(hash_algo, HeadLink(parts), HeadEs(parts))
           /\ CommitPlan(parts).eof = TrailerAt(parts) + 1
<1> DEFINE w == Writes(parts)  h == HeadAt(parts)
           t == TableHash(hash_algo, HeadLink(parts), HeadEs(parts))
           e == TrailerAt(parts) + TrailerSize
           a == [k \in 0..(TrailerAt(parts) - eof) |->
                    IF k < Len(Data(parts)) THEN Max({Es(parts)[i].start : i \in Begun(parts, k)})
                    ELSE TrailerAt(parts)]
<1>1. CommitPlan(parts) = [writes |-> w, head |-> h, hash |-> t, eof |-> e, eof_after |-> a]
  BY PlanIs, Zenon
<1>2. e = TrailerAt(parts) + 1
  BY DEF TrailerSize
<1> HIDE DEF w, h, t, e, a
<1>3. /\ CommitPlan(parts).writes = w /\ CommitPlan(parts).head = h
      /\ CommitPlan(parts).hash = t /\ CommitPlan(parts).eof = e
  BY <1>1
<1> QED
  BY <1>2, <1>3, Zenon DEF w, h, t

\* The writes of a commit are as many as its cells.
LEMMA WritesCount ==
    ASSUME NEW D, NEW parts \in Seq(Partitions(D)), Placed
    PROVE  /\ Len(Writes(parts)) = Len(Cells(parts)) /\ Len(Cells(parts)) \in Nat \ {0}
           /\ SubSeq(Writes(parts), 1, Len(Cells(parts))) = Writes(parts)
           /\ TrailerAt(parts) \in Nat /\ TrailerAt(parts) >= eof
<1> DEFINE B == Bodies(parts, D) \cup {TrailerCell(HeadAt(parts))}  w == Writes(parts)
           c == Cells(parts)  P == Nat \X B
<1>1. c \in Seq(B) /\ w = WriteCells(eof, c) /\ eof \in Nat
  BY CellsAre, WritesAre DEF Placed
<1> HIDE DEF B, P, w, c
<1>2. w \in Seq(P) /\ Len(w) = Len(c)
  BY <1>1, WriteCellsInRow DEF P
<1>3. Len(c) \in Nat
  BY <1>1
<1>4. SubSeq(w, 1, Len(w)) = w
  BY <1>2
<1>5. Len(c) = TrailerAt(parts) - eof + 1 /\ TrailerAt(parts) = eof + Len(Body(parts))
  BY PlacesAre DEF c
<1>6. Len(Body(parts)) \in Nat
  <2>1. Body(parts) \in Seq(Bodies(parts, D))
    BY CellsAre
  <2> QED
    BY <2>1
<1>7. TrailerAt(parts) \in Nat /\ TrailerAt(parts) >= eof /\ Len(c) # 0
  BY <1>1, <1>5, <1>6
<1> QED
  BY <1>2, <1>3, <1>4, <1>7 DEF w, c

LEMMA PlannedIs ==
    ASSUME NEW s, NEW p \in CommitPlans(s)
    PROVE  open /\ p = CommitPlan(s)
BY DEF CommitPlans

LEMMA NextWrites ==
    ASSUME NEW D, PlainSessions(D), StayInv, Next
    PROVE  Close \/ Open \/ \E parts, k : Writing(parts, k)
<1>1. ASSUME NEW s \in Sessions
      PROVE  s \in Seq(Partitions(D))
  BY DEF PlainSessions
<1>2. Placed
  BY DEF Placed, StayInv
<1>3. ASSUME NEW s \in Sessions, NEW p \in CommitPlans(s),
             file' = Apply(file, p.writes), eof' = p.eof
      PROVE  Writing(s, Len(Cells(s)))
  <2>1. open /\ p = CommitPlan(s)
    BY PlannedIs
  <2>2. p.writes = Writes(s) /\ p.eof = TrailerAt(s) + 1
    BY <2>1, PlanFields
  <2>3. /\ Len(Cells(s)) \in Nat \ {0} /\ SubSeq(Writes(s), 1, Len(Cells(s))) = Writes(s)
        /\ TrailerAt(s) \in Nat /\ TrailerAt(s) >= eof
    BY <1>1, <1>2, WritesCount
  <2>4. file' = After(s, Len(Cells(s)))
    BY <1>3, <2>2, <2>3, Zenon DEF After
  <2>5. eof' \in Nat /\ eof' >= eof /\ eof' > TrailerAt(s)
    BY <1>2, <1>3, <2>2, <2>3 DEF Placed
  <2> QED
    BY <2>1, <2>3, <2>4, <2>5 DEF Writing
<1>4. ASSUME NEW s \in Sessions, CommitFails(s)
      PROVE  \E k : Writing(s, k)
  <2>1. PICK p \in CommitPlans(s) : \E k \in DOMAIN p.eof_after :
            file' = Apply(file, SubSeq(p.writes, 1, k)) /\ eof' = p.eof_after[k]
    BY <1>4 DEF CommitFails, OnlyEofMoves
  <2>2. PICK k \in DOMAIN p.eof_after :
            file' = Apply(file, SubSeq(p.writes, 1, k)) /\ eof' = p.eof_after[k]
    BY <2>1
  <2>3. open /\ p = CommitPlan(s)
    BY <2>1, PlannedIs
  <2>4. p.writes = Writes(s)
    BY <2>3, PlanFields
  <2>5. k \in 0..(Len(Cells(s)) - 1) /\ eof' \in Nat /\ eof' >= eof
    BY <1>1, <1>2, <2>2, <2>3, EofAdvances
  <2>6. Len(Cells(s)) \in Nat
    BY <1>1, <1>2, WritesCount
  <2>7. file' = After(s, k)
    BY <2>2, <2>4, Zenon DEF After
  <2>8. Writing(s, k)
    BY <2>3, <2>5, <2>6, <2>7 DEF Writing
  <2> QED
    BY <2>8
<1>5. ASSUME NEW s \in Sessions, CommitCrashes(s)
      PROVE  \E k : Writing(s, k)
  <2>1. PICK p \in CommitPlans(s) : \E k \in 0..(Len(p.writes) - 1) :
            file' = Apply(file, SubSeq(p.writes, 1, k)) /\ Forget
    BY <1>5 DEF CommitCrashes
  <2>2. PICK k \in 0..(Len(p.writes) - 1) : file' = Apply(file, SubSeq(p.writes, 1, k)) /\ Forget
    BY <2>1
  <2>3. open /\ p = CommitPlan(s)
    BY <2>1, PlannedIs
  <2>4. p.writes = Writes(s)
    BY <2>3, PlanFields
  <2>5. Len(Writes(s)) = Len(Cells(s)) /\ Len(Cells(s)) \in Nat
    BY <1>1, <1>2, WritesCount
  <2>6. file' = After(s, k)
    BY <2>2, <2>4, Zenon DEF After
  <2>7. open' = FALSE /\ eof' = 0
    BY <2>2 DEF Forget
  <2>8. k \in 0..Len(Cells(s)) /\ k # Len(Cells(s))
    BY <2>4, <2>5
  <2>9. Writing(s, k)
    BY <2>3, <2>6, <2>7, <2>8 DEF Writing
  <2> QED
    BY <2>9
<1>6. ASSUME NEW s \in Sessions, Commit(s) \/ LastFlushFails(s)
      PROVE  \E k : Writing(s, k)
  <2>1. \E p \in CommitPlans(s) : file' = Apply(file, p.writes) /\ eof' = p.eof
    BY <1>6 DEF Commit, LastFlushFails, OnlyEofMoves
  <2> QED
    BY <1>3, <2>1
<1> QED
  BY <1>4, <1>5, <1>6 DEF Next

LEMMA StayInit ==
    ASSUME Init
    PROVE  StayInv
<1>1. file \in Seq({HeaderCell(Sentinel), TrailerCell(0)}) /\ Len(file) = 2
      /\ file[1] = HeaderCell(Sentinel) /\ file[2] = TrailerCell(0)
  BY DEF Init
<1>2. eof = 2
  BY DEF Init, HeaderSize, TrailerSize
<1>3. eof..(Len(file) - 1) = {}
  BY <1>1, <1>2
<1>4. \E C : file \in Seq(C)
  BY <1>1
<1> QED
  BY <1>1, <1>2, <1>3, <1>4 DEF StayInv

LEMMA StayNext ==
    ASSUME NEW D, PlainSessions(D), StayInv, [Next]_vars
    PROVE  StayInv'
<1>1. CASE UNCHANGED vars
  BY <1>1 DEF vars, writer, StayInv
<1>2. CASE \E parts, k : Writing(parts, k)
  <2>1. PICK parts, k : Writing(parts, k)
    BY <1>2
  <2>2. parts \in Seq(Partitions(D)) /\ open /\ k \in 0..Len(Cells(parts))
        /\ file' = After(parts, k) /\ eof' \in Nat
        /\ (open' => /\ eof' >= eof
                     /\ k = Len(Cells(parts)) => eof' > TrailerAt(parts))
    BY <2>1 DEF Writing, PlainSessions
  <2> QED
    BY <2>2, AfterStays
<1>3. CASE Close
  BY <1>3 DEF Close, Forget, StayInv
<1>4. CASE Open
  <2>1. file' = file /\ eof' = Len(file)
    BY <1>4 DEF Open, AppendPosition
  <2>2. Len(file) \in Nat
    <3>1. PICK C : file \in Seq(C)
      BY DEF StayInv
    <3> QED
      BY <3>1
  <2>3. eof'..(Len(file') - 1) = {}
    BY <2>1, <2>2
  <2> QED
    BY <2>1, <2>2, <2>3 DEF StayInv
<1> QED
  BY <1>1, <1>2, <1>3, <1>4, NextWrites

-----------------------------------------------------------------------------
(* CommittedBytesStay.                                                     *)

\* The trailer that create wrote is one of those a reader considers.
LEMMA TrailersAre ==
    ASSUME StayInv
    PROVE  /\ Trailers(file) \in SUBSET Nat /\ Len(file) \in Nat
           /\ Max(Trailers(file)) \in Trailers(file)
           /\ \A o \in Trailers(file) : o <= Max(Trailers(file))
           /\ Max(Trailers(file)) \in 1..(Len(file) - 1)
           /\ open => Max(Trailers(file)) < eof
<1> DEFINE T == Trailers(file)
<1>1. Len(file) \in Nat /\ Len(file) >= 2 /\ file[2] = TrailerCell(0)
  <2>1. PICK C : file \in Seq(C)
    BY DEF StayInv
  <2> QED
    BY <2>1 DEF StayInv
<1>2. T \subseteq 0..(Len(file) - 1) /\ \A o \in T : file[o + 1].t = "trl"
  BY DEF Trailers
<1>3. 1 \in T
  <2>1. 1 \in 0..(Len(file) - 1) /\ file[1 + 1].t = "trl" /\ file[1 + 1].head = 0
    BY <1>1 DEF TrailerCell
  <2> QED
    BY <2>1 DEF Trailers
<1>4. T \in SUBSET Nat /\ \A o \in T : o <= Len(file)
  BY <1>1, <1>2
<1> HIDE DEF T
<1>5. Max(T) \in T /\ \A o \in T : o <= Max(T)
  BY <1>1, <1>3, <1>4, MaxOfNat
<1>6. Max(T) \in 1..(Len(file) - 1)
  <2> DEFINE m == Max(T)  n == Len(file)
  <2>1. m \in 0..(n - 1) /\ 1 <= m /\ n \in Nat
    BY <1>1, <1>2, <1>3, <1>5
  <2> HIDE DEF m, n
  <2>2. m \in 1..(n - 1)
    BY <2>1
  <2> QED
    BY <2>2 DEF m, n
<1>7. ASSUME open
      PROVE  Max(T) < eof
  <2>1. eof \in Nat /\ \A o \in eof..(Len(file) - 1) : file[o + 1].t # "trl"
    BY <1>7 DEF StayInv
  <2>2. file[Max(T) + 1].t = "trl"
    BY <1>2, <1>5
  <2> QED
    BY <1>1, <1>6, <2>1, <2>2
<1> QED
  BY <1>1, <1>4, <1>5, <1>6, <1>7 DEF T

\* Two files that agree on their first n cells.
LEMMA SamePrefix ==
    ASSUME NEW C, NEW f \in Seq(C), NEW C2, NEW g \in Seq(C2), NEW n \in 0..Len(f),
           n <= Len(g), \A i \in 1..n : g[i] = f[i]
    PROVE  IsPrefix(SubSeq(f, 1, n), g)
<1> DEFINE s == SubSeq(f, 1, n)  t == SubSeq(g, 1, Len(s))
<1>1. s \in Seq(C) /\ Len(s) = n /\ \A i \in 1..n : s[i] = f[i]
  OBVIOUS
<1>2. t \in Seq(C2) /\ Len(t) = n /\ \A i \in 1..n : t[i] = g[i]
  BY <1>1
<1>3. SubSeq(s, 1, Len(s)) = s
  BY <1>1
<1>4. s = t
  BY <1>1, <1>2
<1>5. Len(s) <= Len(g)
  BY <1>1
<1> HIDE DEF s
<1> QED
  BY <1>3, <1>4, <1>5 DEF IsPrefix

LEMMA StepKeeps ==
    ASSUME NEW D, PlainSessions(D), StayInv, [Next]_vars
    PROVE  IsPrefix(SubSeq(file, 1, Max(Trailers(file)) + 1), file')
<1> DEFINE n == Max(Trailers(file)) + 1
<1>1. n \in 2..Len(file) /\ Len(file) \in Nat /\ (open => n <= eof)
  <2>1. Max(Trailers(file)) \in 1..(Len(file) - 1) /\ Len(file) \in Nat
        /\ (open => Max(Trailers(file)) < eof) /\ eof \in Nat
    BY TrailersAre DEF StayInv
  <2> QED
    BY <2>1
<1>2. PICK C : file \in Seq(C)
  BY DEF StayInv
<1> HIDE DEF n
<1>3. CASE file' = file
  BY <1>1, <1>2, <1>3, SamePrefix DEF n
<1>4. CASE \E parts, k : Writing(parts, k)
  <2>1. PICK parts, k : Writing(parts, k)
    BY <1>4
  <2>2. parts \in Seq(Partitions(D)) /\ open /\ k \in 0..Len(Cells(parts))
        /\ file' = After(parts, k)
    BY <2>1 DEF Writing, PlainSessions
  <2>3. /\ \E C2 : After(parts, k) \in Seq(C2)
        /\ Len(After(parts, k)) \in Nat
    BY <2>2, AfterIs
  <2>4. PICK C2 : After(parts, k) \in Seq(C2)
    BY <2>3
  <2>5. /\ Len(After(parts, k)) >= Len(file)
        /\ \A o \in 0..(eof - 1) : o < Len(file) => After(parts, k)[o + 1] = file[o + 1]
    BY <2>2, AfterKeeps
  <2> DEFINE r == After(parts, k)
  <2> HIDE DEF r
  <2>6. \A i \in 1..n : r[i] = file[i]
    <3>1. ASSUME NEW i \in 1..n
          PROVE  r[i] = file[i]
      <4>1. i - 1 \in 0..(eof - 1) /\ i - 1 < Len(file) /\ (i - 1) + 1 = i
        BY <1>1, <2>2 DEF StayInv
      <4> QED
        BY <2>5, <4>1 DEF r
    <3> QED
      BY <3>1
  <2>7. n \in 0..Len(file) /\ n <= Len(r) /\ r \in Seq(C2)
    BY <1>1, <2>3, <2>4, <2>5 DEF r
  <2>8. IsPrefix(SubSeq(file, 1, n), r)
    BY <1>2, <2>6, <2>7, SamePrefix
  <2> QED
    BY <2>2, <2>8 DEF r, n
<1>5. CASE UNCHANGED vars
  BY <1>3, <1>5 DEF vars
<1>6. CASE Close
  BY <1>3, <1>6 DEF Close
<1>7. CASE Open
  BY <1>3, <1>7 DEF Open
<1> QED
  BY <1>4, <1>5, <1>6, <1>7, NextWrites

\* In every behaviour the file starts as create left it and nothing at or past the
\* append position of an open handle is a trailer.
THEOREM StayAlways ==
    ASSUME NEW D, PlainSessions(D)
    PROVE  Spec => []StayInv
<1>1. Init => StayInv
  BY StayInit
<1>2. StayInv /\ [Next]_vars => StayInv'
  BY StayNext
<1> QED
  BY <1>1, <1>2, PTL DEF Spec

\* Whatever fails or dies under a commit, and however often, no write ever touches
\* what lies up to the newest trailer: CommittedBytesStay for sessions of every
\* size, any number of them, and every interleaving of crashes and failures.
THEOREM CommittedStay ==
    ASSUME NEW D, PlainSessions(D)
    PROVE  Spec => CommittedBytesStay
<1>1. StayInv /\ [Next]_vars
        => [IsPrefix(SubSeq(file, 1, Max(Trailers(file)) + 1), file')]_vars
  BY StepKeeps
<1>2. Spec => []StayInv
  BY StayAlways
<1> QED
  BY <1>1, <1>2, PTL DEF Spec, CommittedBytesStay

-----------------------------------------------------------------------------
(* Published sessions.  One is given by the offsets of its blocks, the HEAD *)
(* block first, and the history of a file by its sessions, newest first.    *)

Count(f, off) == At(f, off).count

\* A whole block, all of it below lim.
BlockIn(f, off, lim) ==
    /\ off \in Nat \ {0} /\ At(f, off).t = "blk"
    /\ Count(f, off) \in 0..MaxEntries /\ off + Count(f, off) < lim
    /\ \A i \in 1..Count(f, off) : At(f, off + i).t = "ent"

Row(f, off) == [i \in 1..Count(f, off) |-> At(f, off + i)]

\* The blocks of a session are linked in their order and on to the older session.
BlocksIn(f, b, older, lim) ==
    \A k \in 1..Len(b) :
        /\ BlockIn(f, b[k], lim)
        /\ At(f, b[k]).next = IF k < Len(b) THEN b[k + 1] ELSE older
        /\ At(f, b[k]).hash = TableHash(At(f, b[k]).algo, At(f, b[k]).next, Row(f, b[k]))

\* An entry, and its data below lim.
EntryIn(f, e, lim) ==
    /\ e.type \in {Raw, NodeType, SessionType} /\ e.uid # Nil
    /\ e.start \in Nat /\ e.used \in Nat /\ e.max = e.used /\ e.start + e.used <= lim
    /\ e.hash = Digest(e.algo, SubSeq(f, e.start + 1, e.start + e.used))
    /\ e.type # Raw => e.used = 1
    /\ e.type = NodeType => At(f, e.start).t = "node"

\* The first entry of the HEAD block is the session entry, and there is no other.
EntriesIn(f, b, lim) ==
    /\ Count(f, b[1]) >= 1
    /\ \A k \in 1..Len(b) : \A i \in 1..Count(f, b[k]) :
        /\ EntryIn(f, At(f, b[k] + i), lim)
        /\ At(f, b[k] + i).type = SessionType <=> k = 1 /\ i = 1

NodeId(f, e) == At(f, e.start).id

\* No two entries of a session are records of one node.
NodesApart(f, b) ==
    \A k, l \in 1..Len(b) : \A i \in 1..Count(f, b[k]), j \in 1..Count(f, b[l]) :
        /\ At(f, b[k] + i).type = NodeType /\ At(f, b[l] + j).type = NodeType
        /\ NodeId(f, At(f, b[k] + i)) = NodeId(f, At(f, b[l] + j))
        => k = l /\ i = j

\* The session record of the HEAD block at off.
RecordAt(f, off) == At(f, At(f, off + 1).start)

MemberHashes(f, b) == [k \in 1..(Len(b) - 1) |-> At(f, b[k + 1]).hash]

\* It counts the blocks, covers the MEMBER blocks and names the older session.
RecordIn(f, b, older) ==
    LET rec == RecordAt(f, b[1]) IN
    /\ rec.t = "ses" /\ rec.seq \in Nat /\ rec.block_count = Len(b)
    /\ Verifies(rec.digest_algo)
        => rec.digest = MemberDigest(rec.digest_algo, MemberHashes(f, b))
    /\ older = 0 => rec.prev_algo = "None" /\ rec.prev_hash = <<>>
    /\ older # 0 => /\ rec.prev_algo = At(f, older).algo /\ rec.prev_hash = At(f, older).hash
                    /\ RecordAt(f, older).seq < rec.seq

SessionIn(f, b, older, lim) ==
    /\ Len(b) >= 1 /\ BlocksIn(f, b, older, lim) /\ EntriesIn(f, b, lim)
    /\ NodesApart(f, b) /\ RecordIn(f, b, older)

OlderOf(N, n) == IF n < Len(N) THEN N[n + 1][1] ELSE 0
HeadOf(N) == IF Len(N) = 0 THEN 0 ELSE N[1][1]

Published(f, N, lim) ==
    /\ N \in Seq(Seq(Nat))
    /\ \A n \in 1..Len(N) : SessionIn(f, N[n], OlderOf(N, n), lim)
    /\ Len(FlattenSeq(N)) <= lim

-----------------------------------------------------------------------------
(* A block as the reader reads it.                                         *)

LEMMA BlockReads ==
    ASSUME NEW C, NEW f \in Seq(C), NEW lim \in Nat, lim <= Len(f), NEW off, BlockIn(f, off, lim)
    PROVE  /\ off \in Nat /\ BlockReadable(f, off) /\ BlockAt(f, off) = At(f, off)
           /\ EntriesAt(f, off) = Row(f, off)
           /\ off + Count(f, off) < Len(f) /\ Count(f, off) \in Nat
<1> DEFINE c == Count(f, off)
<1>1. /\ off \in Nat /\ c \in Nat /\ off + c < Len(f) /\ off + c < lim /\ At(f, off).t = "blk"
      /\ \A i \in 1..c : At(f, off + i).t = "ent"
  BY CommitAssumption DEF BlockIn
<1>2. BlockAt(f, off) = At(f, off)
  BY <1>1 DEF BlockAt, At
<1>3. off \in 0..(Len(f) - 1)
  BY <1>1
<1>4. BlockParses(f, off)
  BY <1>1, <1>3 DEF BlockParses, At
<1>5. BlockAt(f, off).count = c
  BY <1>2, Zenon DEF Count
<1> HIDE DEF c
<1>6. \A i \in 1..c : EntryCell(f, off, i) = At(f, off + i)
  <2>1. ASSUME NEW i \in 1..c
        PROVE  off + TableHeaderSize + i = (off + i) + 1
    BY <1>1 DEF TableHeaderSize
  <2> QED
    BY <2>1, Zenon DEF EntryCell, At
<1>7. BlockReadable(f, off)
  <2>1. off + TableHeaderSize + BlockAt(f, off).count <= Len(f)
    BY <1>1, <1>5 DEF TableHeaderSize
  <2>2. \A i \in 1..BlockAt(f, off).count : EntryCell(f, off, i).t \in {"ent", "zero"}
    BY <1>1, <1>5, <1>6
  <2> QED
    BY <1>4, <2>1, <2>2 DEF BlockReadable
<1>8. EntriesAt(f, off) = Row(f, off)
  <2>1. \A i \in 1..c : (IF EntryCell(f, off, i).t = "ent" THEN EntryCell(f, off, i) ELSE NilEntry)
                          = At(f, off + i)
    BY <1>1, <1>6
  <2>2. EntriesAt(f, off) = [i \in 1..c |-> At(f, off + i)]
    BY <2>1, <1>5, Zenon DEF EntriesAt
  <2> QED
    BY <2>2 DEF Row, c
<1> QED
  BY <1>1, <1>2, <1>7, <1>8 DEF c


\* All blocks of a file, newest session first, and 0.
BlockRow(N) == FlattenSeq(N) \o <<0>>

LEMMA BlockRowIs ==
    ASSUME NEW N \in Seq(Seq(Nat)), \A n \in 1..Len(N) : Len(N[n]) >= 1
    PROVE  /\ BlockRow(N) \in Seq(Nat) /\ Len(FlattenSeq(N)) \in Nat
           /\ Len(BlockRow(N)) = Len(FlattenSeq(N)) + 1
           /\ BlockRow(N)[Len(FlattenSeq(N)) + 1] = 0
           /\ \A x \in 1..Len(FlattenSeq(N)) : BlockRow(N)[x] = FlattenSeq(N)[x]
           /\ BlockRow(N)[1] = HeadOf(N)
           /\ \A x \in 1..Len(FlattenSeq(N)) : \E n \in 1..Len(N) : \E k \in 1..Len(N[n]) :
                /\ BlockRow(N)[x] = N[n][k]
                /\ BlockRow(N)[x + 1] = IF k < Len(N[n]) THEN N[n][k + 1] ELSE OlderOf(N, n)
<1> DEFINE S == Seq(Nat)  c == FlattenSeq(N)  w == BlockRow(N)  z == <<0>>  ln == Len(N)
<1>1. N \in Seq(S) /\ ln \in Nat
  <2> HIDE DEF S
  <2> QED
    BY DEF S
<1>2. c \in Seq(Nat)
  BY FlattenType
<1>3. Len(c) \in Nat
  <2> HIDE DEF c
  <2> QED
    BY <1>2
<1>4. z \in Seq(Nat) /\ Len(z) = 1 /\ z[1] = 0 /\ 1 \in 1..Len(z)
  OBVIOUS
<1>5. w \in Seq(Nat) /\ Concatenated(w, c, z)
  <2> HIDE DEF c, z
  <2> QED
    BY <1>2, <1>4, ConcatIs, Zenon DEF BlockRow, c, z
<1>6. /\ Len(w) = Len(c) + 1 /\ w[Len(c) + 1] = 0
      /\ \A x \in 1..Len(c) : w[x] = c[x]
  BY <1>4, <1>5, Zenon DEF Concatenated
<1> HIDE DEF w, z
\* Where the first block of the n-th session is.
<1>7. ASSUME NEW n \in 1..(ln + 1)
      PROVE  /\ Len(Upto(N, n - 1)) \in Nat
             /\ w[Len(Upto(N, n - 1)) + 1] = IF n <= ln THEN N[n][1] ELSE 0
  <2>1. n - 1 \in 0..ln
    BY <1>1
  <2>2. Len(Upto(N, n - 1)) \in Nat
    BY <2>1, UptoType
  <2>3. CASE n <= ln
    <3>1. n \in 1..Len(N) /\ N[n] \in Seq(Nat)
      <4>1. n \in 1..ln
        BY <1>1, <2>3
      <4> HIDE DEF S
      <4>2. N[n] \in S
        BY <1>1, <4>1
      <4> QED
        BY <4>1, <4>2 DEF S
    <3>2. 1 \in 1..Len(N[n])
      BY <3>1
    <3>3. /\ Len(Upto(N, n - 1)) + 1 \in 1..Len(FlattenSeq(N))
          /\ FlattenSeq(N)[Len(Upto(N, n - 1)) + 1] = N[n][1]
      BY <3>1, <3>2, FlattenAt
    <3> QED
      BY <2>2, <2>3, <3>3, <1>6
  <2>4. CASE ~(n <= ln)
    <3>1. n - 1 = ln
      BY <1>1, <2>4
    <3>2. Upto(N, ln) = c
      <4> HIDE DEF S
      <4> QED
        BY <1>1, UptoAll
    <3>3. Len(Upto(N, n - 1)) = Len(c)
      BY <3>1, <3>2, Zenon
    <3> QED
      BY <2>2, <2>4, <3>3, <1>6, Zenon
  <2> QED
    BY <2>3, <2>4
<1>8. w[1] = HeadOf(N)
  <2>1. 1 \in 1..(ln + 1) /\ 1 - 1 = 0
    BY <1>1
  <2>2. Upto(N, 0) = <<>>
    <3> HIDE DEF S
    <3> QED
      BY <1>1, UptoNone
  <2>3. Len(Upto(N, 0)) = 0
    BY <2>2
  <2>4. w[0 + 1] = IF 1 <= ln THEN N[1][1] ELSE 0
    BY <1>7, <2>1, <2>3
  <2> QED
    BY <1>1, <2>4 DEF HeadOf
<1>9. ASSUME NEW x \in 1..Len(c)
      PROVE  \E n \in 1..Len(N) : \E k \in 1..Len(N[n]) :
                /\ w[x] = N[n][k]
                /\ w[x + 1] = IF k < Len(N[n]) THEN N[n][k + 1] ELSE OlderOf(N, n)
  <2>1. PICK n \in 1..Len(N) : \E k \in 1..Len(N[n]) : x = Len(Upto(N, n - 1)) + k
    BY FlattenWhere
  <2>2. PICK k \in 1..Len(N[n]) : x = Len(Upto(N, n - 1)) + k
    BY <2>1
  <2>3. N[n] \in Seq(Nat)
    <3> HIDE DEF S
    <3>1. N[n] \in S
      BY <1>1
    <3> QED
      BY <3>1 DEF S
  <2>4. w[x] = N[n][k]
    <3>1. FlattenSeq(N)[Len(Upto(N, n - 1)) + k] = N[n][k]
      BY FlattenAt
    <3> QED
      BY <2>2, <3>1, <1>6
  <2>5. n \in 1..(ln + 1) /\ n + 1 \in 1..(ln + 1) /\ (n + 1) - 1 = n
    BY <1>1
  <2>6. Len(Upto(N, n - 1)) \in Nat
    BY <1>7, <2>5
  <2>7. CASE k < Len(N[n])
    <3>1. k + 1 \in 1..Len(N[n])
      BY <2>3, <2>7
    <3>2. /\ Len(Upto(N, n - 1)) + (k + 1) \in 1..Len(FlattenSeq(N))
          /\ FlattenSeq(N)[Len(Upto(N, n - 1)) + (k + 1)] = N[n][k + 1]
      <4> DEFINE j == k + 1
      <4>1. j \in 1..Len(N[n])
        BY <3>1
      <4> HIDE DEF j
      <4>2. /\ Len(Upto(N, n - 1)) + j \in 1..Len(FlattenSeq(N))
            /\ FlattenSeq(N)[Len(Upto(N, n - 1)) + j] = N[n][j]
        BY <4>1, FlattenAt
      <4> QED
        BY <4>2 DEF j
    <3>3. x + 1 = Len(Upto(N, n - 1)) + (k + 1)
      BY <2>2, <2>6
    <3> QED
      BY <2>4, <2>7, <3>2, <3>3, <1>6
  <2>8. CASE ~(k < Len(N[n]))
    <3>1. k = Len(N[n]) /\ k \in Nat
      BY <2>3, <2>8
    <3>2. Len(Upto(N, n)) = Len(Upto(N, n - 1)) + Len(N[n])
      BY UptoNext
    <3>3. x + 1 = Len(Upto(N, (n + 1) - 1)) + 1
      BY <2>2, <2>5, <3>1, <3>2, Zenon
    <3>4. w[x + 1] = IF n + 1 <= ln THEN N[n + 1][1] ELSE 0
      BY <2>5, <3>3, <1>7
    <3>5. n + 1 <= ln <=> n < Len(N)
      BY <1>1
    <3>6. w[x + 1] = OlderOf(N, n)
      BY <3>4, <3>5, Zenon DEF OlderOf
    <3> QED
      BY <2>4, <2>8, <3>6
  <2> QED
    BY <2>7, <2>8
<1> QED
  BY <1>3, <1>5, <1>6, <1>8, <1>9 DEF w, c

\* What is published is read to its end, block after block.
LEMMA ChainIs ==
    ASSUME NEW C, NEW f \in Seq(C), NEW lim \in Nat, lim <= Len(f), NEW N, Published(f, N, lim)
    PROVE  /\ Walk(f, HeadOf(N)) = BlockRow(N) /\ ChainReadable(f, HeadOf(N))
           /\ \A x \in DOMAIN Chain(f, HeadOf(N)) : \E n \in 1..Len(N) : \E k \in 1..Len(N[n]) :
                Chain(f, HeadOf(N))[x] = N[n][k]
<1> DEFINE w == BlockRow(N)  r == Len(FlattenSeq(N))
<1>1. N \in Seq(Seq(Nat)) /\ r <= lim /\ \A n \in 1..Len(N) : SessionIn(f, N[n], OlderOf(N, n), lim)
  BY Zenon DEF Published
<1>2. \A n \in 1..Len(N) : Len(N[n]) >= 1 /\ BlocksIn(f, N[n], OlderOf(N, n), lim)
  BY <1>1, Zenon DEF SessionIn
<1>3. /\ w \in Seq(Nat) /\ r \in Nat /\ Len(w) = r + 1 /\ w[r + 1] = 0 /\ w[1] = HeadOf(N)
      /\ \A x \in 1..r : \E n \in 1..Len(N) : \E k \in 1..Len(N[n]) :
                /\ w[x] = N[n][k]
                /\ w[x + 1] = IF k < Len(N[n]) THEN N[n][k + 1] ELSE OlderOf(N, n)
  BY <1>1, <1>2, BlockRowIs
<1> HIDE DEF w, r
<1>4. Chained(f, w, r)
  <2>1. ASSUME NEW x \in 1..r
        PROVE  w[x] # 0 /\ BlockReadable(f, w[x]) /\ BlockAt(f, w[x]).next = w[x + 1]
    <3>1. PICK n \in 1..Len(N) : \E k \in 1..Len(N[n]) :
                /\ w[x] = N[n][k]
                /\ w[x + 1] = IF k < Len(N[n]) THEN N[n][k + 1] ELSE OlderOf(N, n)
      BY <1>3
    <3>2. PICK k \in 1..Len(N[n]) :
                /\ w[x] = N[n][k]
                /\ w[x + 1] = IF k < Len(N[n]) THEN N[n][k + 1] ELSE OlderOf(N, n)
      BY <3>1
    <3>3. /\ BlockIn(f, N[n][k], lim)
          /\ At(f, N[n][k]).next = IF k < Len(N[n]) THEN N[n][k + 1] ELSE OlderOf(N, n)
      BY <1>2, Zenon DEF BlocksIn
    <3>4. BlockReadable(f, N[n][k]) /\ BlockAt(f, N[n][k]) = At(f, N[n][k])
      BY <3>3, BlockReads
    <3>5. N[n][k] # 0
      BY <3>3 DEF BlockIn
    <3> QED
      BY <3>2, <3>3, <3>4, <3>5, Zenon
  <2> QED
    BY <1>3, <2>1, Zenon DEF Chained
<1>5. Len(f) \in Nat /\ r <= Len(f)
  BY <1>1, <1>3
<1>6. Walk(f, HeadOf(N)) = w
  BY <1>3, <1>4, <1>5, WalkIs
<1>7. ChainReadable(f, HeadOf(N))
  BY <1>3, <1>6, Zenon DEF ChainReadable, Last
<1>8. Chain(f, HeadOf(N)) = SubSeq(w, 1, (r + 1) - 1)
  BY <1>3, <1>6, Zenon DEF Chain, Front
<1>9. /\ DOMAIN SubSeq(w, 1, (r + 1) - 1) = 1..r
      /\ \A x \in 1..r : SubSeq(w, 1, (r + 1) - 1)[x] = w[x]
  <2>1. (r + 1) - 1 = r /\ r \in 0..Len(w)
    BY <1>3
  <2>2. /\ SubSeq(w, 1, r) \in Seq(Nat)
        /\ Len(SubSeq(w, 1, r)) = IF 1 <= r THEN r - 1 + 1 ELSE 0
        /\ \A i \in 1..Len(SubSeq(w, 1, r)) : SubSeq(w, 1, r)[i] = w[1 + i - 1]
    BY <1>3, <2>1, SliceType
  <2> DEFINE s == SubSeq(w, 1, r)
  <2> HIDE DEF s
  <2>3. s \in Seq(Nat) /\ Len(s) = r /\ \A i \in 1..r : s[i] = w[i]
    BY <1>3, <2>2 DEF s
  <2>4. DOMAIN s = 1..r
    BY <2>3
  <2> QED
    BY <2>1, <2>3, <2>4, Zenon DEF s
<1> QED
  BY <1>3, <1>6, <1>7, <1>8, <1>9, Zenon DEF w

LEMMA EntryValid ==
    ASSUME NEW C, NEW f \in Seq(C), NEW lim \in Nat, lim <= Len(f), NEW e, EntryIn(f, e, lim)
    PROVE  /\ ValidEntry(f, e) /\ DataReadable(f, e) /\ e.start + e.used <= Len(f)
           /\ e.used = 1 => ReadData(f, e)[1] = At(f, e.start)
<1>1. /\ e.type # Reserved /\ e.uid # Nil /\ e.used <= e.max
      /\ e.start \in Nat /\ e.used \in Nat /\ e.start + e.used <= Len(f)
      /\ e.hash = Digest(e.algo, ReadData(f, e))
  BY DEF EntryIn, Reserved, Raw, NodeType, SessionType, ReadData
<1>2. DataReadable(f, e)
  BY <1>1 DEF DataReadable
<1>3. ASSUME e.used = 1
      PROVE  ReadData(f, e)[1] = At(f, e.start)
  <2> DEFINE x == e.start + 1
  <2>1. x \in Nat \ {0} /\ x \in 0..Len(f) /\ e.start + e.used = x /\ x + 1 - 1 = x
    BY <1>1, <1>3
  <2> HIDE DEF x
  <2>2. /\ Len(SubSeq(f, x, x)) = IF x <= x THEN x - x + 1 ELSE 0
        /\ \A i \in 1..Len(SubSeq(f, x, x)) : SubSeq(f, x, x)[i] = f[x + i - 1]
    BY <2>1, SliceType
  <2>3. Len(SubSeq(f, x, x)) = 1
    BY <2>1, <2>2
  <2>4. SubSeq(f, x, x)[1] = f[x]
    BY <2>1, <2>2, <2>3
  <2> QED
    BY <2>1, <2>4, Zenon DEF ReadData, At, x
<1> QED
  BY <1>1, <1>2, <1>3 DEF ValidEntry

\* Every hash of what is published verifies, of blocks and of data.
LEMMA PublishedVerifies ==
    ASSUME NEW C, NEW f \in Seq(C), NEW lim \in Nat, lim <= Len(f), NEW N, Published(f, N, lim)
    PROVE  Verify(f, HeadOf(N))
<1>1. /\ ChainReadable(f, HeadOf(N))
      /\ \A x \in DOMAIN Chain(f, HeadOf(N)) : \E n \in 1..Len(N) : \E k \in 1..Len(N[n]) :
                Chain(f, HeadOf(N))[x] = N[n][k]
  BY ChainIs
<1>2. ASSUME NEW n \in 1..Len(N), NEW k \in 1..Len(N[n])
      PROVE  ValidBlock(f, N[n][k])
  <2> DEFINE b == N[n]  off == N[n][k]
  <2>1. BlocksIn(f, b, OlderOf(N, n), lim) /\ EntriesIn(f, b, lim)
    BY Zenon DEF Published, SessionIn
  <2>2. /\ BlockIn(f, off, lim)
        /\ At(f, off).hash = TableHash(At(f, off).algo, At(f, off).next, Row(f, off))
    BY <2>1, Zenon DEF BlocksIn
  <2>3. \A i \in 1..Count(f, off) : EntryIn(f, At(f, off + i), lim)
    BY <2>1, Zenon DEF EntriesIn
  <2> HIDE DEF b, off
  <2>4. /\ BlockAt(f, off) = At(f, off) /\ EntriesAt(f, off) = Row(f, off)
        /\ Count(f, off) \in Nat
    BY <2>2, BlockReads
  <2>5. \A i \in 1..Count(f, off) : ValidEntry(f, At(f, off + i))
    BY <2>3, EntryValid
  <2>6. DOMAIN Row(f, off) = 1..Count(f, off)
        /\ \A i \in 1..Count(f, off) : Row(f, off)[i] = At(f, off + i)
    BY DEF Row
  <2>7. ValidBlock(f, off)
    BY <2>2, <2>4, <2>5, <2>6, Zenon DEF ValidBlock
  <2> QED
    BY <2>7 DEF off
<1> QED
  BY <1>1, <1>2, Zenon DEF Verify

-----------------------------------------------------------------------------
(* A session.                                                              *)

LEMMA MemberOf ==
    ASSUME NEW C, NEW f \in Seq(C), NEW lim \in Nat, lim <= Len(f), NEW b, NEW older,
           SessionIn(f, b, older, lim), NEW k \in 1..Len(b)
    PROVE  /\ BlockIn(f, b[k], lim) /\ b[k] \in Nat \ {0} /\ BlockReadable(f, b[k])
           /\ BlockAt(f, b[k]) = At(f, b[k]) /\ EntriesAt(f, b[k]) = Row(f, b[k])
           /\ Count(f, b[k]) \in Nat
           /\ At(f, b[k]).next = IF k < Len(b) THEN b[k + 1] ELSE older
           /\ \A i \in 1..Count(f, b[k]) :
                /\ EntryIn(f, At(f, b[k] + i), lim)
                /\ At(f, b[k] + i).type = SessionType <=> k = 1 /\ i = 1
<1>1. /\ BlockIn(f, b[k], lim)
      /\ At(f, b[k]).next = IF k < Len(b) THEN b[k + 1] ELSE older
  BY Zenon DEF SessionIn, BlocksIn
<1>2. \A i \in 1..Count(f, b[k]) :
                /\ EntryIn(f, At(f, b[k] + i), lim)
                /\ At(f, b[k] + i).type = SessionType <=> k = 1 /\ i = 1
  BY Zenon DEF SessionIn, EntriesIn
<1>3. b[k] \in Nat \ {0}
  BY <1>1 DEF BlockIn
<1> DEFINE off == b[k]
<1> HIDE DEF off
<1>4. /\ BlockReadable(f, off) /\ BlockAt(f, off) = At(f, off) /\ EntriesAt(f, off) = Row(f, off)
      /\ Count(f, off) \in Nat
  <2>1. BlockIn(f, off, lim)
    BY <1>1 DEF off
  <2> QED
    BY <2>1, BlockReads
<1> QED
  BY <1>1, <1>2, <1>3, <1>4, Zenon DEF off

LEMMA RecordRead ==
    ASSUME NEW C, NEW f \in Seq(C), NEW lim \in Nat, lim <= Len(f), NEW b \in Seq(Nat), NEW older,
           SessionIn(f, b, older, lim)
    PROVE  HeadReadable(f, b[1]) /\ SessionRecord(f, b[1]) = RecordAt(f, b[1])
<1> DEFINE off == b[1]  es == EntriesAt(f, off)  T == OfType(es, SessionType)
           c == Count(f, off)  e == At(f, off + 1)
<1>1. 1 \in 1..Len(b)
  BY DEF SessionIn
<1>2. /\ BlockReadable(f, off) /\ es = Row(f, off) /\ c \in Nat
      /\ \A i \in 1..c : /\ EntryIn(f, At(f, off + i), lim)
                         /\ At(f, off + i).type = SessionType <=> 1 = 1 /\ i = 1
  BY <1>1, MemberOf
<1>3. c >= 1 /\ RecordAt(f, off).t = "ses"
  BY Zenon DEF SessionIn, EntriesIn, RecordIn
<1>4. DOMAIN es = 1..c /\ (\A i \in 1..c : es[i] = At(f, off + i)) /\ 1 \in 1..c
  <2> HIDE DEF e
  <2>1. DOMAIN Row(f, off) = 1..c /\ \A i \in 1..c : Row(f, off)[i] = At(f, off + i)
    BY DEF Row
  <2>2. 1 \in 1..c
    BY <1>2, <1>3
  <2> HIDE DEF c, off, es
  <2> QED
    BY <1>2, <2>1, <2>2, Zenon
<1> HIDE DEF off, es, c
<1>5. T = {1}
  BY <1>2, <1>4 DEF OfType
<1>6. SessionEntry(f, off) = e
  <2>1. (CHOOSE i \in T : TRUE) = 1
    <3> HIDE DEF T
    <3> QED
      BY <1>5
  <2>2. SessionEntry(f, off) = es[CHOOSE i \in T : TRUE]
    BY Zenon DEF SessionEntry, es
  <2> QED
    BY <2>1, <2>2, <1>4, Zenon
<1>7. EntryIn(f, e, lim) /\ e.type = SessionType
  BY <1>2, <1>4
<1>8. e.used = 1
  BY <1>7 DEF EntryIn, Raw, SessionType
<1> HIDE DEF e, T
<1>9. DataReadable(f, e) /\ ReadData(f, e)[1] = At(f, e.start)
  BY <1>7, <1>8, EntryValid
<1>10. SessionRecord(f, off) = RecordAt(f, off)
  BY <1>6, <1>9, Zenon DEF SessionRecord, RecordAt, e
<1>11. \E i \in T : T = {i}
  BY <1>5
<1>12. HeadReadable(f, off)
  BY <1>2, <1>3, <1>6, <1>8, <1>9, <1>10, <1>11, Zenon DEF HeadReadable, es, T
<1> QED
  BY <1>10, <1>12 DEF off

LEMMA BlocksRead ==
    ASSUME NEW C, NEW f \in Seq(C), NEW lim \in Nat, lim <= Len(f), NEW b \in Seq(Nat), NEW older,
           SessionIn(f, b, older, lim)
    PROVE  SessionBlocks(f, b[1]) = b
<1> DEFINE off == b[1]  m == SessionRecord(f, off).block_count
           nx(x) == IF BlockReadable(f, x) THEN BlockAt(f, x).next ELSE 0
           h == CHOOSE h : h = [n \in 1..m |-> IF n = 1 THEN off ELSE nx(h[n - 1])]
<1>1. m = Len(b)
  <2>1. SessionRecord(f, off) = RecordAt(f, off)
    BY RecordRead
  <2>2. RecordAt(f, off).block_count = Len(b)
    BY Zenon DEF SessionIn, RecordIn
  <2> QED
    BY <2>1, <2>2, Zenon
<1>2. SessionBlocks(f, off) = [n \in 1..m |-> h[n]]
  BY Zenon DEF SessionBlocks
<1> HIDE DEF m
<1>3. m \in Nat /\ m >= 1 /\ b = [n \in 1..m |-> b[n]]
  BY <1>1 DEF SessionIn
<1>4. ASSUME NEW n \in 1..m, n # 1
      PROVE  b[n] = nx(b[n - 1])
  <2> DEFINE k == n - 1
  <2>1. k \in 1..Len(b) /\ k < Len(b) /\ k + 1 = n
    BY <1>1, <1>3, <1>4
  <2> HIDE DEF k, nx
  <2>2. BlockReadable(f, b[k]) /\ BlockAt(f, b[k]) = At(f, b[k])
        /\ At(f, b[k]).next = IF k < Len(b) THEN b[k + 1] ELSE older
    BY <2>1, MemberOf
  <2>3. nx(b[k]) = b[k + 1]
    BY <2>1, <2>2, Zenon DEF nx
  <2> QED
    BY <2>1, <2>3, Zenon DEF k
<1> HIDE DEF nx
<1>5. b = [n \in 1..m |-> IF n = 1 THEN off ELSE nx(b[n - 1])]
  <2>1. \A n \in 1..m : b[n] = IF n = 1 THEN off ELSE nx(b[n - 1])
    BY <1>4, Zenon
  <2> QED
    BY <2>1, <1>3, Zenon
<1>6. h = [n \in 1..m |-> IF n = 1 THEN off ELSE nx(h[n - 1])]
  BY <1>5, Zenon
<1> HIDE DEF h, off
<1> DEFINE S == {n \in Nat : n = 0 \/ h[n] = b[n]}
<1>7. 0 \in S
  OBVIOUS
<1>8. \A k \in 0..(m - 1) : k \in S => k + 1 \in S
  <2>1. ASSUME NEW k \in 0..(m - 1), k \in S
        PROVE  k + 1 \in S
    <3>1. k + 1 \in 1..m /\ (k + 1) - 1 = k /\ k + 1 \in Nat
      BY <1>3
    <3>2. h[k + 1] = (IF k + 1 = 1 THEN off ELSE nx(h[(k + 1) - 1]))
          /\ b[k + 1] = IF k + 1 = 1 THEN off ELSE nx(b[(k + 1) - 1])
      BY <3>1, <1>5, <1>6, Zenon
    <3>3. h[k + 1] = b[k + 1]
      <4>1. CASE k = 0
        <5>1. k + 1 = 1
          BY <4>1
        <5> QED
          BY <5>1, <3>2, Zenon
      <4>2. CASE k # 0
        <5>1. h[k] = b[k]
          BY <2>1, <4>2
        <5> QED
          BY <5>1, <3>1, <3>2, Zenon
      <4> QED
        BY <4>1, <4>2
    <3> QED
      BY <3>1, <3>3
  <2> QED
    BY <2>1
<1>9. \A n \in 1..m : h[n] = b[n]
  <2> HIDE DEF S
  <2>1. 0..m \subseteq S
    BY <1>3, <1>7, <1>8, UpTo
  <2>2. \A n \in 1..m : n \in S /\ n # 0
    BY <1>3, <2>1
  <2> QED
    BY <2>2 DEF S
<1>10. [n \in 1..m |-> h[n]] = b
  BY <1>3, <1>9, Zenon
<1> QED
  BY <1>2, <1>10, Zenon DEF off

\* The entries of a session, block by block.
Rows(f, b) == [k \in 1..Len(b) |-> Row(f, b[k])]
Entered(f, b) == {At(f, b[k] + i) : k \in 1..Len(b), i \in Nat}

Counts(f, b) == \A k \in 1..Len(b) : Count(f, b[k]) \in Nat

LEMMA RowsAre ==
    ASSUME NEW f, NEW b \in Seq(Nat), Counts(f, b)
    PROVE  /\ Rows(f, b) \in Seq(Seq(Entered(f, b))) /\ Len(Rows(f, b)) = Len(b)
           /\ \A k \in 1..Len(b) : /\ Rows(f, b)[k] = Row(f, b[k])
                                   /\ Len(Row(f, b[k])) = Count(f, b[k])
                                   /\ \A i \in 1..Count(f, b[k]) : Row(f, b[k])[i] = At(f, b[k] + i)
<1> DEFINE E == Entered(f, b)  S == Seq(E)
<1>1. ASSUME NEW k \in 1..Len(b)
      PROVE  /\ Row(f, b[k]) \in S /\ Len(Row(f, b[k])) = Count(f, b[k])
             /\ \A i \in 1..Count(f, b[k]) : Row(f, b[k])[i] = At(f, b[k] + i)
  <2> DEFINE c == Count(f, b[k])
  <2>1. c \in Nat
    BY Zenon DEF Counts
  <2>2. \A i \in 1..c : At(f, b[k] + i) \in E
    <3>1. 1..c \subseteq Nat
      BY <2>1
    <3> QED
      BY <3>1 DEF Entered
  <2> HIDE DEF E, c
  <2>3. Row(f, b[k]) = [i \in 1..c |-> At(f, b[k] + i)]
    BY Zenon DEF Row, c
  <2> DEFINE r == Row(f, b[k])
  <2> HIDE DEF r
  <2>4. r \in Seq(E) /\ Len(r) = c /\ \A i \in 1..c : r[i] = At(f, b[k] + i)
    BY <2>1, <2>2, <2>3 DEF r
  <2> QED
    BY <2>4 DEF r, c
<1>2. Len(b) \in Nat
  OBVIOUS
<1> DEFINE n == Len(b)
<1> HIDE DEF S, n
<1>3. Rows(f, b) = [k \in 1..n |-> Row(f, b[k])] /\ n \in Nat
  BY <1>2, Zenon DEF Rows, n
<1>4. \A k \in 1..n : Row(f, b[k]) \in S
  BY <1>1 DEF n
<1>5. Rows(f, b) \in Seq(S) /\ Len(Rows(f, b)) = n /\ \A k \in 1..n : Rows(f, b)[k] = Row(f, b[k])
  BY <1>3, <1>4
<1> QED
  BY <1>1, <1>5 DEF S, n

LEMMA EntriesRead ==
    ASSUME NEW C, NEW f \in Seq(C), NEW lim \in Nat, lim <= Len(f), NEW b \in Seq(Nat), NEW older,
           SessionIn(f, b, older, lim)
    PROVE  /\ SessionEntries(f, b[1]) = FlattenSeq(Rows(f, b))
           /\ DOMAIN SessionEntries(f, b[1]) = 1..Len(FlattenSeq(Rows(f, b)))
           /\ \A x \in 1..Len(FlattenSeq(Rows(f, b))) :
                \E k \in 1..Len(b) : \E i \in 1..Count(f, b[k]) :
                    /\ FlattenSeq(Rows(f, b))[x] = At(f, b[k] + i)
                    /\ x = Len(Upto(Rows(f, b), k - 1)) + i
<1> DEFINE rs == Rows(f, b)  E == Entered(f, b)
<1>1. \A k \in 1..Len(b) : Count(f, b[k]) \in Nat /\ EntriesAt(f, b[k]) = Row(f, b[k])
  BY MemberOf
<1>2. /\ rs \in Seq(Seq(E)) /\ Len(rs) = Len(b)
      /\ \A k \in 1..Len(b) : /\ rs[k] = Row(f, b[k])
                              /\ Len(Row(f, b[k])) = Count(f, b[k])
                              /\ \A i \in 1..Count(f, b[k]) : Row(f, b[k])[i] = At(f, b[k] + i)
  <2>1. Counts(f, b)
    BY <1>1 DEF Counts
  <2> QED
    BY <2>1, RowsAre
<1>3. SessionBlocks(f, b[1]) = b /\ DOMAIN b = 1..Len(b)
  BY BlocksRead
<1>4. [n \in 1..Len(b) |-> EntriesAt(f, b[n])] = rs
  BY <1>1, Zenon DEF Rows
<1>5. SessionEntries(f, b[1]) = FlattenSeq([n \in 1..Len(b) |-> EntriesAt(f, b[n])])
  <2> DEFINE bs == SessionBlocks(f, b[1])
  <2>1. SessionEntries(f, b[1]) = FlattenSeq([n \in DOMAIN bs |-> EntriesAt(f, bs[n])])
    BY Zenon DEF SessionEntries
  <2>2. bs = b
    BY <1>3
  <2> HIDE DEF bs
  <2>3. [n \in DOMAIN bs |-> EntriesAt(f, bs[n])] = [n \in 1..Len(b) |-> EntriesAt(f, b[n])]
    BY <1>3, <2>2
  <2> QED
    BY <2>1, <2>3, Zenon
<1> HIDE DEF rs
<1> DEFINE es == FlattenSeq(rs)
<1>6. es \in Seq(E)
  BY <1>2, FlattenType
<1>7. DOMAIN es = 1..Len(es)
  <2> HIDE DEF es, E
  <2> QED
    BY <1>6
<1>8. ASSUME NEW x \in 1..Len(es)
      PROVE  \E k \in 1..Len(b) : \E i \in 1..Count(f, b[k]) :
                    /\ es[x] = At(f, b[k] + i)
                    /\ x = Len(Upto(rs, k - 1)) + i
  <2>1. PICK k \in 1..Len(rs) : \E i \in 1..Len(rs[k]) : x = Len(Upto(rs, k - 1)) + i
    BY <1>2, FlattenWhere
  <2>2. PICK i \in 1..Len(rs[k]) : x = Len(Upto(rs, k - 1)) + i
    BY <2>1
  <2>3. FlattenSeq(rs)[Len(Upto(rs, k - 1)) + i] = rs[k][i]
    BY <1>2, FlattenAt
  <2>4. k \in 1..Len(b) /\ i \in 1..Count(f, b[k]) /\ rs[k][i] = At(f, b[k] + i)
    BY <1>2, <2>2, Zenon
  <2> QED
    BY <2>2, <2>3, <2>4, Zenon
<1> QED
  BY <1>4, <1>5, <1>7, <1>8, Zenon DEF rs

LEMMA SessionReads ==
    ASSUME NEW C, NEW f \in Seq(C), NEW lim \in Nat, lim <= Len(f), NEW b \in Seq(Nat), NEW older,
           SessionIn(f, b, older, lim)
    PROVE  SessionReadable(f, b[1])
<1> DEFINE es == FlattenSeq(Rows(f, b))  record(n) == ReadData(f, es[n])[1]
<1>1. HeadReadable(f, b[1])
  BY RecordRead
<1>2. SessionBlocks(f, b[1]) = b /\ DOMAIN b = 1..Len(b)
  BY BlocksRead
<1>3. \A k \in 1..Len(b) :
           /\ b[k] \in Nat \ {0} /\ BlockReadable(f, b[k])
           /\ EntriesAt(f, b[k]) = Row(f, b[k])
           /\ \A i \in 1..Count(f, b[k]) :
                /\ EntryIn(f, At(f, b[k] + i), lim)
                /\ At(f, b[k] + i).type = SessionType <=> k = 1 /\ i = 1
  BY MemberOf
<1>4. ASSUME NEW n \in (1..Len(b)) \ {1}
      PROVE  OfType(EntriesAt(f, b[n]), SessionType) = {}
  <2>1. EntriesAt(f, b[n]) = Row(f, b[n])
    BY <1>3
  <2>2. DOMAIN Row(f, b[n]) = 1..Count(f, b[n])
        /\ \A i \in 1..Count(f, b[n]) : Row(f, b[n])[i] = At(f, b[n] + i)
    BY DEF Row
  <2>3. \A i \in 1..Count(f, b[n]) : At(f, b[n] + i).type # SessionType
    BY <1>3
  <2>4. \A i \in DOMAIN Row(f, b[n]) : Row(f, b[n])[i].type # SessionType
    BY <2>2, <2>3, Zenon
  <2> QED
    BY <2>1, <2>4, Zenon DEF OfType
<1>5. /\ SessionEntries(f, b[1]) = es /\ DOMAIN es = 1..Len(es)
      /\ \A x \in 1..Len(es) :
                \E k \in 1..Len(b) : \E i \in 1..Count(f, b[k]) :
                    /\ es[x] = At(f, b[k] + i)
                    /\ x = Len(Upto(Rows(f, b), k - 1)) + i
  BY EntriesRead
<1> HIDE DEF es
<1>6. ASSUME NEW n \in OfType(es, NodeType)
      PROVE  /\ DataReadable(f, es[n]) /\ es[n].used = 1 /\ record(n).t = "node"
             /\ record(n) = At(f, es[n].start)
  <2>1. n \in 1..Len(es) /\ es[n].type = NodeType
    BY <1>5 DEF OfType
  <2>2. PICK k \in 1..Len(b) : \E i \in 1..Count(f, b[k]) : es[n] = At(f, b[k] + i)
    BY <1>5, <2>1
  <2>3. EntryIn(f, es[n], lim)
    BY <1>3, <2>2
  <2>4. es[n].used = 1 /\ At(f, es[n].start).t = "node"
    BY <2>1, <2>3 DEF EntryIn, NodeType, Raw
  <2>5. DataReadable(f, es[n]) /\ record(n) = At(f, es[n].start)
    BY <2>3, <2>4, EntryValid
  <2> QED
    BY <2>4, <2>5, Zenon
<1>7. ASSUME NEW m \in OfType(es, NodeType), NEW n \in OfType(es, NodeType),
             record(m).id = record(n).id
      PROVE  m = n
  <2>1. m \in 1..Len(es) /\ es[m].type = NodeType /\ n \in 1..Len(es) /\ es[n].type = NodeType
    BY <1>5 DEF OfType
  <2>2. PICK k \in 1..Len(b) : \E i \in 1..Count(f, b[k]) :
            es[m] = At(f, b[k] + i) /\ m = Len(Upto(Rows(f, b), k - 1)) + i
    BY <1>5, <2>1
  <2>3. PICK i \in 1..Count(f, b[k]) :
            es[m] = At(f, b[k] + i) /\ m = Len(Upto(Rows(f, b), k - 1)) + i
    BY <2>2
  <2>4. PICK l \in 1..Len(b) : \E j \in 1..Count(f, b[l]) :
            es[n] = At(f, b[l] + j) /\ n = Len(Upto(Rows(f, b), l - 1)) + j
    BY <1>5, <2>1
  <2>5. PICK j \in 1..Count(f, b[l]) :
            es[n] = At(f, b[l] + j) /\ n = Len(Upto(Rows(f, b), l - 1)) + j
    BY <2>4
  <2>6. record(m) = At(f, es[m].start) /\ record(n) = At(f, es[n].start)
    BY <1>6
  <2> HIDE DEF record
  <2>7. NodeId(f, At(f, b[k] + i)) = NodeId(f, At(f, b[l] + j))
    BY <1>7, <2>3, <2>5, <2>6, Zenon DEF NodeId
  <2>8. NodesApart(f, b)
    BY Zenon DEF SessionIn
  <2>9. k = l /\ i = j
    <3>1. At(f, b[k] + i).type = NodeType /\ At(f, b[l] + j).type = NodeType
      BY <2>1, <2>3, <2>5, Zenon
    <3> DEFINE u == At(f, b[k] + i)  v == At(f, b[l] + j)
    <3>2. (u.type = NodeType /\ v.type = NodeType /\ NodeId(f, u) = NodeId(f, v)) => k = l /\ i = j
      BY <2>8, Zenon DEF NodesApart
    <3> QED
      BY <3>1, <3>2, <2>7
  <2> QED
    BY <2>3, <2>5, <2>9, Zenon
<1> DEFINE off == b[1]
<1> HIDE DEF off, record
<1>8. \A n \in 1..Len(b) : b[n] # 0 /\ BlockReadable(f, b[n])
  BY <1>3
<1> QED
  <2>1. /\ HeadReadable(f, off) /\ SessionBlocks(f, off) = b /\ SessionEntries(f, off) = es
    BY <1>1, <1>2, <1>5 DEF off
  <2>2. /\ \A n \in DOMAIN b : b[n] # 0 /\ BlockReadable(f, b[n])
        /\ \A n \in DOMAIN b \ {1} : OfType(EntriesAt(f, b[n]), SessionType) = {}
    BY <1>2, <1>4, <1>8, Zenon
  <2>3. /\ \A n \in OfType(es, NodeType) :
             DataReadable(f, es[n]) /\ es[n].used = 1 /\ ReadData(f, es[n])[1].t = "node"
        /\ \A m, n \in OfType(es, NodeType) :
             ReadData(f, es[m])[1].id = ReadData(f, es[n])[1].id => m = n
    BY <1>6, <1>7, Zenon DEF record
  <2>4. SessionReadable(f, off)
    BY <2>1, <2>2, <2>3, Zenon DEF SessionReadable
  <2> QED
    BY <2>4 DEF off

-----------------------------------------------------------------------------
(* The chain of sessions.                                                  *)

\* The HEAD blocks w are linked, each by the last block of its session, and last
\* comes 0.
HeadsLinked(f, w, r) ==
    /\ w[r + 1] = 0
    /\ \A i \in 1..r : /\ w[i] # 0 /\ SessionReadable(f, w[i])
                       /\ BlockAt(f, Last(SessionBlocks(f, w[i]))).next = w[i + 1]

LEMMA HeadWalkIs ==
    ASSUME NEW f, NEW w \in Seq(Nat), NEW r \in Nat, Len(w) = r + 1, r <= Len(f),
           Len(f) \in Nat, HeadsLinked(f, w, r)
    PROVE  HeadWalk(f, w[1]) = w
<1> DEFINE m == Len(f)
           step(met) == IF Last(met) # 0 /\ SessionReadable(f, Last(met))
                        THEN Append(met, BlockAt(f, Last(SessionBlocks(f, Last(met)))).next)
                        ELSE met
           h == CHOOSE h : h = [n \in 0..m |-> IF n = 0 THEN <<w[1]>> ELSE step(h[n - 1])]
           g == [n \in 0..m |-> Met(w, r, n)]
<1>1. HeadWalk(f, w[1]) = h[m]
  BY Zenon DEF HeadWalk
<1>2. g[0] = <<w[1]>> /\ 0 \in 0..m /\ m \in 0..m
  <2>1. 0 \in 0..m /\ m \in 0..m
    OBVIOUS
  <2>2. Met(w, r, 0) = SubSeq(w, 1, 1)
    BY DEF Met
  <2>3. SubSeq(w, 1, 1) = <<w[1]>>
    <3>1. 1 \in 0..Len(w)
      OBVIOUS
    <3>2. /\ SubSeq(w, 1, 1) \in Seq(Nat) /\ Len(SubSeq(w, 1, 1)) = 1
          /\ \A i \in 1..Len(SubSeq(w, 1, 1)) : SubSeq(w, 1, 1)[i] = w[1 + i - 1]
      BY <3>1, SliceType
    <3> DEFINE s == SubSeq(w, 1, 1)
    <3> HIDE DEF s
    <3>3. s \in Seq(Nat) /\ Len(s) = 1 /\ s[1] = w[1]
      BY <3>2 DEF s
    <3>4. s = <<w[1]>>
      BY <3>3
    <3> QED
      BY <3>4 DEF s
  <2> QED
    BY <2>1, <2>2, <2>3
<1>3. ASSUME NEW n \in 1..m
      PROVE  Met(w, r, n) = step(Met(w, r, n - 1))
  <2>1. n \in Nat \ {0}
    OBVIOUS
  <2> DEFINE x == Met(w, r, n - 1)
  <2>2. CASE n <= r
    <3>1. Last(x) = w[n] /\ Met(w, r, n) = Append(x, w[n + 1])
      BY <2>1, <2>2, MetStep
    <3>2. n \in 1..r
      BY <2>2
    <3>3. /\ w[n] # 0 /\ SessionReadable(f, w[n])
          /\ BlockAt(f, Last(SessionBlocks(f, w[n]))).next = w[n + 1]
      BY <3>2 DEF HeadsLinked
    <3> HIDE DEF x
    <3>4. Met(w, r, n) = step(x)
      BY <3>1, <3>3
    <3> QED
      BY <3>4 DEF x
  <2>3. CASE n > r
    <3>1. Last(x) = w[r + 1] /\ Met(w, r, n) = x
      BY <2>1, <2>3, MetStep
    <3>2. w[r + 1] = 0
      BY DEF HeadsLinked
    <3> HIDE DEF x
    <3>3. Met(w, r, n) = step(x)
      BY <3>1, <3>2
    <3> QED
      BY <3>3 DEF x
  <2> QED
    BY <2>2, <2>3
<1>4. g = [n \in 0..m |-> IF n = 0 THEN <<w[1]>> ELSE step(g[n - 1])]
  <2>1. ASSUME NEW n \in 0..m
        PROVE  Met(w, r, n) = IF n = 0 THEN <<w[1]>> ELSE step(g[n - 1])
    <3>1. CASE n = 0
      <4>1. g[0] = Met(w, r, 0)
        BY <1>2
      <4> QED
        BY <3>1, <4>1, <1>2, Zenon
    <3>2. CASE n # 0
      <4>1. n \in 1..m /\ n - 1 \in 0..m
        BY <3>2
      <4>2. g[n - 1] = Met(w, r, n - 1)
        BY <4>1
      <4> HIDE DEF g, step
      <4> QED
        BY <3>2, <4>1, <4>2, <1>3, Zenon
    <3> QED
      BY <3>1, <3>2
  <2> QED
    BY <2>1, Zenon
<1> HIDE DEF g, step, m
<1>5. h = [n \in 0..m |-> IF n = 0 THEN <<w[1]>> ELSE step(h[n - 1])]
  BY <1>4, Zenon DEF h
<1> HIDE DEF h
<1> DEFINE S == {n \in Nat : h[n] = g[n]}
<1>6. 0 \in S
  <2>1. h[0] = <<w[1]>>
    BY <1>2, <1>5, Zenon
  <2> QED
    BY <1>2, <2>1
<1>7. \A k \in 0..(m - 1) : k \in S => k + 1 \in S
  <2>1. ASSUME NEW k \in 0..(m - 1), k \in S
        PROVE  k + 1 \in S
    <3>1. k + 1 \in 0..m /\ (k + 1) - 1 = k /\ k + 1 # 0 /\ k + 1 \in Nat
      BY DEF m
    <3>2. h[k + 1] = step(h[(k + 1) - 1]) /\ g[k + 1] = step(g[(k + 1) - 1])
      BY <3>1, <1>4, <1>5, Zenon
    <3>3. h[k] = g[k]
      BY <2>1
    <3>4. h[k + 1] = g[k + 1]
      BY <3>1, <3>2, <3>3, Zenon
    <3> QED
      BY <3>1, <3>4
  <2> QED
    BY <2>1
<1>8. m \in S
  <2>1. m \in Nat
    BY DEF m
  <2> HIDE DEF S
  <2>2. 0..m \subseteq S
    BY <1>6, <1>7, <2>1, UpTo
  <2> QED
    BY <2>2, <1>2
<1>9. g[m] = w
  <2>1. Met(w, r, m) = SubSeq(w, 1, r + 1)
    BY DEF Met, m
  <2>2. SubSeq(w, 1, r + 1) = w
    OBVIOUS
  <2> QED
    BY <1>2, <2>1, <2>2 DEF g
<1> QED
  BY <1>1, <1>8, <1>9

\* There are no more sessions than blocks.
LEMMA SessionsFew ==
    ASSUME NEW N \in Seq(Seq(Nat)), \A n \in 1..Len(N) : Len(N[n]) >= 1
    PROVE  Len(N) <= Len(FlattenSeq(N)) /\ Len(N) \in Nat
<1> DEFINE S == {k \in Nat : k \in 0..Len(N) => Len(Upto(N, k)) >= k}  ln == Len(N)  Q == Seq(Nat)
<1>1. ln \in Nat /\ N \in Seq(Q)
  <2> HIDE DEF Q
  <2> QED
    BY DEF Q
<1>2. 0 \in S
  <2>1. Upto(N, 0) = <<>>
    <3> HIDE DEF Q
    <3> QED
      BY <1>1, UptoNone
  <2>2. Len(Upto(N, 0)) = 0
    BY <2>1
  <2> QED
    BY <2>2
<1>3. \A k \in 0..(ln - 1) : k \in S => k + 1 \in S
  <2>1. ASSUME NEW k \in 0..(ln - 1), k \in S
        PROVE  k + 1 \in S
    <3> DEFINE n == k + 1
    <3>1. n \in 1..ln /\ n \in Nat /\ n - 1 = k /\ k \in 0..ln /\ n \in 0..ln
      BY <1>1
    <3> HIDE DEF n
    <3>2. Len(Upto(N, n)) = Len(Upto(N, n - 1)) + Len(N[n])
      BY <3>1, UptoNext
    <3>3. Len(Upto(N, k)) \in Nat /\ Len(Upto(N, k)) >= k /\ Len(N[n]) >= 1
      BY <2>1, <3>1, UptoType
    <3>4. Len(N[n]) \in Nat
      <4>1. N[n] \in Q
        <5> HIDE DEF Q
        <5> QED
          BY <1>1, <3>1
      <4> QED
        BY <4>1
    <3>5. Len(Upto(N, n)) >= n
      <4> DEFINE a == Len(Upto(N, n))  b == Len(Upto(N, k))  c == Len(N[n])
      <4>1. a = b + c /\ b \in Nat /\ c \in Nat /\ b >= k /\ c >= 1 /\ n - 1 = k /\ n \in Nat
        BY <3>1, <3>2, <3>3, <3>4
      <4> HIDE DEF a, b, c
      <4>2. a >= n
        BY <4>1
      <4> QED
        BY <4>2 DEF a
    <3> QED
      BY <3>1, <3>5 DEF n
  <2> QED
    BY <2>1
<1>4. ln \in S
  <2> HIDE DEF S
  <2>1. 0..ln \subseteq S
    BY <1>1, <1>2, <1>3, UpTo
  <2> QED
    BY <1>1, <2>1
<1>5. Upto(N, ln) = FlattenSeq(N)
  <2> HIDE DEF Q
  <2> QED
    BY <1>1, UptoAll
<1>6. Len(Upto(N, ln)) >= ln
  BY <1>1, <1>4
<1> QED
  BY <1>1, <1>5, <1>6, Zenon

HeadRow(N) == [n \in 1..(Len(N) + 1) |-> IF n <= Len(N) THEN N[n][1] ELSE 0]

\* The sessions of a published history, by themselves.
LEMMA HistoryIs ==
    ASSUME NEW f, NEW lim, NEW N, Published(f, N, lim)
    PROVE  /\ N \in Seq(Seq(Nat)) /\ Len(N) \in Nat
           /\ \A n \in 1..Len(N) :
                /\ N[n] \in Seq(Nat) /\ Len(N[n]) >= 1 /\ N[n][1] \in Nat \ {0}
                /\ SessionIn(f, N[n], OlderOf(N, n), lim)
<1> DEFINE S == Seq(Nat)
<1>1. N \in Seq(S) /\ \A n \in 1..Len(N) : SessionIn(f, N[n], OlderOf(N, n), lim)
  BY DEF Published
<1> HIDE DEF S
<1>2. Len(N) \in Nat
  BY <1>1
<1>3. ASSUME NEW n \in 1..Len(N)
      PROVE  N[n] \in Seq(Nat) /\ Len(N[n]) >= 1 /\ N[n][1] \in Nat \ {0}
  <2>1. N[n] \in Seq(Nat)
    <3>1. N[n] \in S
      BY <1>1
    <3> QED
      BY <3>1 DEF S
  <2>2. Len(N[n]) >= 1 /\ BlocksIn(f, N[n], OlderOf(N, n), lim)
    BY <1>1, Zenon DEF SessionIn
  <2>3. 1 \in 1..Len(N[n])
    BY <2>1, <2>2
  <2>4. BlockIn(f, N[n][1], lim)
    BY <2>2, <2>3, Zenon DEF BlocksIn
  <2>5. N[n][1] \in Nat \ {0}
    BY <2>4 DEF BlockIn
  <2> QED
    BY <2>1, <2>2, <2>5
<1> QED
  BY <1>1, <1>2, <1>3 DEF S

LEMMA HeadsAre ==
    ASSUME NEW C, NEW f \in Seq(C), NEW lim \in Nat, lim <= Len(f), NEW N, Published(f, N, lim)
    PROVE  /\ Last(HeadWalk(f, HeadOf(N))) = 0
           /\ Heads(f, HeadOf(N)) = [n \in 1..Len(N) |-> N[n][1]]
<1> DEFINE w == HeadRow(N)  r == Len(N)
<1>1. /\ N \in Seq(Seq(Nat)) /\ r \in Nat
      /\ \A n \in 1..r :
                /\ N[n] \in Seq(Nat) /\ Len(N[n]) >= 1 /\ N[n][1] \in Nat \ {0}
                /\ SessionIn(f, N[n], OlderOf(N, n), lim)
  BY HistoryIs
<1>2. r <= Len(f) /\ Len(f) \in Nat
  <2>1. r <= Len(FlattenSeq(N)) /\ Len(FlattenSeq(N)) <= lim
    BY <1>1, SessionsFew DEF Published
  <2>2. Len(FlattenSeq(N)) \in Nat
    <3>1. FlattenSeq(N) \in Seq(Nat)
      BY <1>1, FlattenType
    <3> QED
      BY <3>1
  <2> QED
    BY <1>1, <2>1, <2>2
<1> HIDE DEF r
<1>3. /\ w \in Seq(Nat) /\ Len(w) = r + 1 /\ w[r + 1] = 0
      /\ \A n \in 1..r : w[n] = N[n][1]
  <2>1. w = [n \in 1..(r + 1) |-> IF n <= r THEN N[n][1] ELSE 0]
    BY Zenon DEF HeadRow, r
  <2>2. \A n \in 1..(r + 1) : (IF n <= r THEN N[n][1] ELSE 0) \in Nat
    BY <1>1
  <2> DEFINE el == [n \in 1..(r + 1) |-> IF n <= r THEN N[n][1] ELSE 0]
  <2>3. r \in Nat /\ r + 1 \in 1..(r + 1) /\ ~(r + 1 <= r) /\ r + 1 \in Nat
        /\ \A n \in 1..r : n <= r /\ n \in 1..(r + 1)
    BY <1>1
  <2>4. el[r + 1] = 0 /\ \A n \in 1..r : el[n] = N[n][1]
    BY <2>3, Zenon
  <2>5. el \in Seq(Nat) /\ Len(el) = r + 1
    BY <2>2, <2>3
  <2> QED
    BY <2>1, <2>4, <2>5, Zenon
<1> HIDE DEF w
<1>4. w[1] = HeadOf(N)
  <2>1. CASE r = 0
    <3>1. r + 1 = 1
      BY <2>1
    <3> QED
      BY <2>1, <3>1, <1>3, Zenon DEF HeadOf, r
  <2>2. CASE r # 0
    <3>1. 1 \in 1..r
      BY <1>1, <2>2
    <3> QED
      BY <2>2, <3>1, <1>3, Zenon DEF HeadOf, r
  <2> QED
    BY <2>1, <2>2
<1>5. \A n \in 1..r : w[n + 1] = OlderOf(N, n)
  <2>1. ASSUME NEW n \in 1..r
        PROVE  w[n + 1] = OlderOf(N, n)
    <3>1. CASE n < r
      <4>1. n + 1 \in 1..r
        BY <1>1, <3>1
      <4> QED
        BY <3>1, <4>1, <1>3, Zenon DEF OlderOf, r
    <3>2. CASE ~(n < r)
      <4>1. n = r
        BY <1>1, <3>2
      <4> QED
        BY <3>2, <4>1, <1>3, Zenon DEF OlderOf, r
    <3> QED
      BY <3>1, <3>2
  <2> QED
    BY <2>1
<1>6. HeadsLinked(f, w, r)
  <2>1. ASSUME NEW i \in 1..r
        PROVE  /\ w[i] # 0 /\ SessionReadable(f, w[i])
               /\ BlockAt(f, Last(SessionBlocks(f, w[i]))).next = w[i + 1]
    <3> DEFINE b == N[i]  k == Len(b)
    <3>1. b \in Seq(Nat) /\ SessionIn(f, b, OlderOf(N, i), lim) /\ w[i] = b[1] /\ b[1] # 0
          /\ k >= 1
      BY <1>1, <1>3
    <3> HIDE DEF b
    <3>2. SessionReadable(f, b[1]) /\ SessionBlocks(f, b[1]) = b
      BY <3>1, SessionReads, BlocksRead
    <3>3. k \in 1..Len(b) /\ ~(k < Len(b))
      BY <3>1
    <3> HIDE DEF k
    <3>4. BlockAt(f, b[k]) = At(f, b[k])
          /\ At(f, b[k]).next = IF k < Len(b) THEN b[k + 1] ELSE OlderOf(N, i)
      BY <3>1, <3>3, MemberOf
    <3>5. Last(b) = b[k]
      BY Zenon DEF Last, k
    <3> QED
      BY <1>5, <3>1, <3>2, <3>3, <3>4, <3>5, Zenon
  <2> QED
    BY <1>3, <2>1, Zenon DEF HeadsLinked
<1>7. HeadWalk(f, HeadOf(N)) = w
  BY <1>1, <1>2, <1>3, <1>4, <1>6, HeadWalkIs
<1>8. Last(HeadWalk(f, HeadOf(N))) = 0
  BY <1>3, <1>7, Zenon DEF Last
<1>9. Front(w) = [n \in 1..r |-> N[n][1]]
  <2>1. Front(w) = SubSeq(w, 1, (r + 1) - 1)
    BY <1>3, Zenon DEF Front
  <2>2. (r + 1) - 1 = r /\ r \in 0..Len(w)
    BY <1>1, <1>3
  <2>3. /\ SubSeq(w, 1, r) \in Seq(Nat)
        /\ Len(SubSeq(w, 1, r)) = IF 1 <= r THEN r - 1 + 1 ELSE 0
        /\ \A i \in 1..Len(SubSeq(w, 1, r)) : SubSeq(w, 1, r)[i] = w[1 + i - 1]
    BY <1>3, <2>2, SliceType
  <2> DEFINE s == SubSeq(w, 1, r)
  <2> HIDE DEF s
  <2>4. s \in Seq(Nat) /\ Len(s) = r /\ \A i \in 1..r : s[i] = w[i]
    BY <1>1, <2>3 DEF s
  <2>5. s = [i \in 1..r |-> w[i]]
    BY <2>4
  <2>6. [i \in 1..r |-> w[i]] = [n \in 1..r |-> N[n][1]]
    BY <1>3, Zenon
  <2> QED
    BY <2>1, <2>2, <2>5, <2>6, Zenon DEF s
<1> QED
  BY <1>7, <1>8, <1>9, Zenon DEF Heads, r

\* A published history scans, its sessions numbered upwards.
LEMMA PublishedScans ==
    ASSUME NEW C, NEW f \in Seq(C), NEW lim \in Nat, lim <= Len(f), NEW N, Published(f, N, lim)
    PROVE  Scannable(f, HeadOf(N))
<1> DEFINE hs == Heads(f, HeadOf(N))
<1>1. Last(HeadWalk(f, HeadOf(N))) = 0 /\ hs = [n \in 1..Len(N) |-> N[n][1]]
  BY HeadsAre
<1>2. Len(N) \in Nat
      /\ \A n \in 1..Len(N) :
                /\ N[n] \in Seq(Nat) /\ Len(N[n]) >= 1 /\ N[n][1] \in Nat \ {0}
                /\ SessionIn(f, N[n], OlderOf(N, n), lim)
  BY HistoryIs
<1> HIDE DEF hs
<1>3. ASSUME NEW n \in DOMAIN hs \ {1}
      PROVE  SessionRecord(f, hs[n]).seq < SessionRecord(f, hs[n - 1]).seq
  <2> DEFINE m == n - 1
  <2>1. n \in 1..Len(N) /\ m \in 1..Len(N) /\ m < Len(N) /\ m + 1 = n
    BY <1>1, <1>2
  <2> HIDE DEF m
  <2>2. hs[n] = N[n][1] /\ hs[m] = N[m][1]
    BY <1>1, <2>1
  <2>3. SessionRecord(f, N[n][1]) = RecordAt(f, N[n][1])
        /\ SessionRecord(f, N[m][1]) = RecordAt(f, N[m][1])
    <3>1. N[n] \in Seq(Nat) /\ SessionIn(f, N[n], OlderOf(N, n), lim)
          /\ N[m] \in Seq(Nat) /\ SessionIn(f, N[m], OlderOf(N, m), lim)
      BY <1>2, <2>1
    <3> DEFINE b == N[n]  c == N[m]
    <3>2. b \in Seq(Nat) /\ SessionIn(f, b, OlderOf(N, n), lim)
          /\ c \in Seq(Nat) /\ SessionIn(f, c, OlderOf(N, m), lim)
      BY <3>1
    <3> HIDE DEF b, c
    <3>3. SessionRecord(f, b[1]) = RecordAt(f, b[1]) /\ SessionRecord(f, c[1]) = RecordAt(f, c[1])
      BY <3>2, RecordRead
    <3> QED
      BY <3>3 DEF b, c
  <2>4. OlderOf(N, m) = N[n][1] /\ N[n][1] # 0
    BY <1>2, <2>1 DEF OlderOf
  <2>5. RecordIn(f, N[m], N[n][1])
    BY <1>2, <2>1, <2>4, Zenon DEF SessionIn
  <2>6. RecordAt(f, N[n][1]).seq < RecordAt(f, N[m][1]).seq
    BY <2>4, <2>5, Zenon DEF RecordIn
  <2> QED
    BY <2>2, <2>3, <2>6, Zenon DEF m
<1> QED
  BY <1>1, <1>3, Zenon DEF Scannable, hs

\* The hashes of the MEMBER blocks as verify_chain collects them.
LEMMA MembersRead ==
    ASSUME NEW C, NEW f \in Seq(C), NEW lim \in Nat, lim <= Len(f), NEW b \in Seq(Nat), NEW older,
           SessionIn(f, b, older, lim), NEW bs, bs = Tail(SessionBlocks(f, b[1]))
    PROVE  [k \in DOMAIN bs |-> BlockAt(f, bs[k]).hash] = MemberHashes(f, b)
<1>1. SessionBlocks(f, b[1]) = b
  BY BlocksRead
<1>2. Len(b) \in Nat /\ Len(b) >= 1
  BY DEF SessionIn
<1>3. bs \in Seq(Nat) /\ Len(bs) = Len(b) - 1 /\ \A k \in 1..(Len(b) - 1) : bs[k] = b[k + 1]
  <2>1. bs = Tail(b) /\ b # <<>>
    BY <1>1, <1>2
  <2>2. Tail(b) \in Seq(Nat) /\ Len(Tail(b)) = Len(b) - 1
    BY <2>1, <1>2
  <2>3. \A k \in 1..(Len(b) - 1) : Tail(b)[k] = b[k + 1]
    BY <2>1, <1>2
  <2> QED
    BY <2>1, <2>2, <2>3, Zenon
<1> DEFINE n == Len(b) - 1
<1>4. DOMAIN bs = 1..n
  BY <1>3
<1>5. \A k \in 1..n : BlockAt(f, bs[k]).hash = At(f, b[k + 1]).hash
  <2>1. ASSUME NEW k \in 1..n
        PROVE  BlockAt(f, bs[k]).hash = At(f, b[k + 1]).hash
    <3> DEFINE j == k + 1
    <3>1. j \in 1..Len(b)
      BY <1>2
    <3> HIDE DEF j
    <3>2. BlockAt(f, b[j]) = At(f, b[j])
      BY <3>1, MemberOf
    <3>3. bs[k] = b[j]
      BY <1>3 DEF j
    <3> QED
      BY <3>2, <3>3, Zenon DEF j
  <2> QED
    BY <2>1
<1> QED
  BY <1>4, <1>5, Zenon DEF MemberHashes

LEMMA PublishedChains ==
    ASSUME NEW C, NEW f \in Seq(C), NEW lim \in Nat, lim <= Len(f), NEW N, Published(f, N, lim)
    PROVE  ChainVerifies(f, HeadOf(N))
<1> DEFINE hs == Heads(f, HeadOf(N))
           members(n) == LET bs == Tail(SessionBlocks(f, hs[n]))
                         IN  [k \in DOMAIN bs |-> BlockAt(f, bs[k]).hash]
           rec(n) == SessionRecord(f, hs[n])
           older(n) == BlockAt(f, hs[n + 1])
<1>1. hs = [n \in 1..Len(N) |-> N[n][1]]
  BY HeadsAre
<1>2. Len(N) \in Nat
      /\ \A n \in 1..Len(N) :
                /\ N[n] \in Seq(Nat) /\ Len(N[n]) >= 1 /\ N[n][1] \in Nat \ {0}
                /\ SessionIn(f, N[n], OlderOf(N, n), lim)
  BY HistoryIs
<1> HIDE DEF hs
<1>3. DOMAIN hs = 1..Len(N) /\ Len(hs) = Len(N) /\ \A n \in 1..Len(N) : hs[n] = N[n][1]
  BY <1>1, <1>2
<1>4. ASSUME NEW n \in 1..Len(N)
      PROVE  /\ HashEq(rec(n).digest_algo, rec(n).digest,
                       MemberDigest(rec(n).digest_algo, members(n)))
             /\ IF n < Len(hs)
                THEN /\ rec(n).prev_algo = older(n).algo
                     /\ HashEq(older(n).algo, rec(n).prev_hash, older(n).hash)
                ELSE rec(n).prev_algo = "None" /\ rec(n).prev_hash = <<>>
  <2> DEFINE b == N[n]  bs == Tail(SessionBlocks(f, b[1]))
  <2>1. b \in Seq(Nat) /\ SessionIn(f, b, OlderOf(N, n), lim) /\ hs[n] = b[1]
    BY <1>2, <1>3
  <2> HIDE DEF b
  <2>2. rec(n) = RecordAt(f, b[1])
    <3>1. SessionRecord(f, b[1]) = RecordAt(f, b[1])
      BY <2>1, RecordRead
    <3> QED
      BY <2>1, <3>1, Zenon
  <2>3. members(n) = MemberHashes(f, b)
    <3>1. [k \in DOMAIN bs |-> BlockAt(f, bs[k]).hash] = MemberHashes(f, b)
      BY <2>1, MembersRead
    <3> DEFINE cs == Tail(SessionBlocks(f, hs[n]))
    <3>2. cs = bs
      BY <2>1, Zenon
    <3>3. members(n) = [k \in DOMAIN cs |-> BlockAt(f, cs[k]).hash]
      BY Zenon
    <3> HIDE DEF cs, bs
    <3> QED
      BY <3>1, <3>2, <3>3
  <2>4. RecordIn(f, b, OlderOf(N, n))
    BY <2>1, Zenon DEF SessionIn
  <2> HIDE DEF members, rec
  <2>5. HashEq(rec(n).digest_algo, rec(n).digest, MemberDigest(rec(n).digest_algo, members(n)))
    BY <2>2, <2>3, <2>4, Zenon DEF RecordIn, HashEq
  <2>6. CASE n < Len(hs)
    <3> DEFINE m == n + 1
    <3>1. m \in 1..Len(N) /\ OlderOf(N, n) = N[m][1] /\ N[m][1] # 0
      BY <1>2, <1>3, <2>6 DEF OlderOf
    <3> HIDE DEF m
    <3>2. BlockAt(f, N[m][1]) = At(f, N[m][1])
      <4> DEFINE c == N[m]
      <4>1. SessionIn(f, c, OlderOf(N, m), lim) /\ c \in Seq(Nat) /\ Len(c) >= 1
        BY <1>2, <3>1
      <4> HIDE DEF c
      <4>2. 1 \in 1..Len(c)
        BY <4>1
      <4>3. BlockAt(f, c[1]) = At(f, c[1])
        BY <4>1, <4>2, MemberOf
      <4> QED
        BY <4>3 DEF c
    <3>3. older(n) = At(f, OlderOf(N, n))
      <4>1. hs[m] = N[m][1]
        BY <1>3, <3>1
      <4> QED
        BY <3>1, <3>2, <4>1, Zenon DEF m
    <3>4. rec(n).prev_algo = older(n).algo /\ rec(n).prev_hash = older(n).hash
      BY <2>2, <2>4, <3>1, <3>3, Zenon DEF RecordIn
    <3> HIDE DEF older
    <3> QED
      BY <2>5, <2>6, <3>4, Zenon DEF HashEq
  <2>7. CASE ~(n < Len(hs))
    <3>1. OlderOf(N, n) = 0
      BY <1>3, <2>7, Zenon DEF OlderOf
    <3>2. rec(n).prev_algo = "None" /\ rec(n).prev_hash = <<>>
      BY <2>2, <2>4, <3>1, Zenon DEF RecordIn
    <3> QED
      BY <2>5, <2>7, <3>2, Zenon
  <2> QED
    BY <2>6, <2>7
<1> QED
  BY <1>3, <1>4, Zenon DEF ChainVerifies, hs

-----------------------------------------------------------------------------
(* What is published stays published in a file that agrees with this one   *)
(* below some offset.                                                      *)

Agree(f, g, lim) == \A o \in 0..(lim - 1) : At(g, o) = At(f, o)

LEMMA BlockStays ==
    ASSUME NEW f, NEW g, NEW lim \in Nat, Agree(f, g, lim), NEW lim2 \in Nat, lim <= lim2,
           NEW off, BlockIn(f, off, lim)
    PROVE  /\ BlockIn(g, off, lim2) /\ At(g, off) = At(f, off) /\ Count(g, off) = Count(f, off)
           /\ Row(g, off) = Row(f, off)
           /\ \A i \in 1..Count(f, off) : At(g, off + i) = At(f, off + i)
<1> DEFINE c == Count(f, off)
<1>1. /\ off \in Nat \ {0} /\ c \in 0..MaxEntries /\ c \in Nat /\ off + c < lim
      /\ At(f, off).t = "blk" /\ \A i \in 1..c : At(f, off + i).t = "ent"
  BY CommitAssumption DEF BlockIn
<1>2. At(g, off) = At(f, off)
  <2>1. off \in 0..(lim - 1)
    BY <1>1
  <2> QED
    BY <2>1, Zenon DEF Agree
<1>3. Count(g, off) = c
  BY <1>2, Zenon DEF Count
<1> HIDE DEF c
<1>4. \A i \in 1..c : At(g, off + i) = At(f, off + i)
  <2>1. \A i \in 1..c : off + i \in 0..(lim - 1)
    BY <1>1
  <2> QED
    BY <2>1, Zenon DEF Agree
<1>5. off + c < lim2
  BY <1>1
<1>6. BlockIn(g, off, lim2)
  BY <1>1, <1>2, <1>3, <1>4, <1>5, Zenon DEF BlockIn
<1>7. Row(g, off) = Row(f, off)
  <2>1. Row(f, off) = [i \in 1..c |-> At(f, off + i)] /\ Row(g, off) = [i \in 1..c |-> At(g, off + i)]
    BY <1>3, Zenon DEF Row, c
  <2>2. [i \in 1..c |-> At(f, off + i)] = [i \in 1..c |-> At(g, off + i)]
    BY <1>4, Zenon
  <2> QED
    BY <2>1, <2>2, Zenon
<1> QED
  BY <1>2, <1>3, <1>4, <1>6, <1>7 DEF c

LEMMA EntryStays ==
    ASSUME NEW C, NEW f \in Seq(C), NEW C2, NEW g \in Seq(C2), NEW lim \in Nat,
           lim <= Len(f), lim <= Len(g), Agree(f, g, lim), NEW lim2 \in Nat, lim <= lim2,
           NEW e, EntryIn(f, e, lim)
    PROVE  /\ EntryIn(g, e, lim2)
           /\ e.used = 1 => At(g, e.start) = At(f, e.start)
           /\ ReadData(g, e) = ReadData(f, e)
<1> DEFINE s == e.start  u == e.used
<1>1. s \in Nat /\ u \in Nat /\ s + u <= lim
  BY DEF EntryIn
<1>2. SubSeq(g, s + 1, s + u) = SubSeq(f, s + 1, s + u)
  <2> DEFINE x == s + 1  y == s + u
  <2>1. x \in Nat \ {0} /\ y \in 0..Len(f) /\ y \in 0..Len(g) /\ y <= lim /\ y \in Nat
    BY <1>1
  <2>2. \A i \in x..y : g[i] = f[i]
    <3>1. ASSUME NEW i \in x..y
          PROVE  g[i] = f[i]
      <4>1. i - 1 \in 0..(lim - 1) /\ (i - 1) + 1 = i
        BY <1>1, <2>1
      <4> QED
        BY <4>1, Zenon DEF Agree, At
    <3> QED
      BY <3>1
  <2> HIDE DEF x, y
  <2> DEFINE p == SubSeq(f, x, y)  q == SubSeq(g, x, y)
  <2>3. p \in Seq(C) /\ Len(p) = (IF x <= y THEN y - x + 1 ELSE 0)
        /\ \A i \in 1..Len(p) : p[i] = f[x + i - 1]
    BY <2>1, SliceType
  <2>4. q \in Seq(C2) /\ Len(q) = (IF x <= y THEN y - x + 1 ELSE 0)
        /\ \A i \in 1..Len(q) : q[i] = g[x + i - 1]
    BY <2>1, SliceType
  <2> HIDE DEF p, q
  <2>5. \A i \in 1..Len(p) : p[i] = q[i]
    <3>1. ASSUME NEW i \in 1..Len(p)
          PROVE  p[i] = q[i]
      <4>1. x + i - 1 \in x..y
        BY <2>1, <2>3
      <4> QED
        BY <2>2, <2>3, <2>4, <4>1
    <3> QED
      BY <3>1
  <2>6. p = q
    BY <2>3, <2>4, <2>5
  <2> QED
    BY <2>6 DEF p, q, x, y
<1>3. u = 1 => At(g, s) = At(f, s)
  <2>1. u = 1 => s \in 0..(lim - 1)
    BY <1>1
  <2> QED
    BY <2>1, Zenon DEF Agree
<1>4. s + u <= lim2
  BY <1>1
<1>5. /\ e.type \in {Raw, NodeType, SessionType} /\ e.uid # Nil /\ e.max = u
      /\ e.hash = Digest(e.algo, SubSeq(f, s + 1, s + u))
      /\ e.type # Raw => u = 1
      /\ e.type = NodeType => At(f, s).t = "node"
  BY Zenon DEF EntryIn
<1>6. e.type = NodeType => At(g, s).t = "node"
  BY <1>3, <1>5 DEF NodeType, Raw
<1> QED
  BY <1>1, <1>2, <1>3, <1>4, <1>5, <1>6, Zenon DEF EntryIn, ReadData

\* The record of a HEAD block is the same in both files.
RecordKept(f, g, off) == At(g, off) = At(f, off) /\ RecordAt(g, off) = RecordAt(f, off)

LEMMA HeadStays ==
    ASSUME NEW C, NEW f \in Seq(C), NEW C2, NEW g \in Seq(C2), NEW lim \in Nat,
           lim <= Len(f), lim <= Len(g), Agree(f, g, lim),
           NEW b \in Seq(Nat), NEW older, SessionIn(f, b, older, lim)
    PROVE  RecordKept(f, g, b[1])
<1> DEFINE off == b[1]  e == At(f, off + 1)
<1>1. 1 \in 1..Len(b)
  BY DEF SessionIn
<1>2. /\ BlockIn(f, off, lim) /\ Count(f, off) \in Nat
      /\ \A i \in 1..Count(f, off) :
                /\ EntryIn(f, At(f, off + i), lim)
                /\ At(f, off + i).type = SessionType <=> 1 = 1 /\ i = 1
  BY <1>1, MemberOf
<1>3. Count(f, off) >= 1
  BY Zenon DEF SessionIn, EntriesIn
<1> HIDE DEF off
<1>4. 1 \in 1..Count(f, off)
  BY <1>2, <1>3
<1>5. EntryIn(f, e, lim) /\ e.type = SessionType
  BY <1>2, <1>4
<1>6. At(g, off) = At(f, off) /\ \A i \in 1..Count(f, off) : At(g, off + i) = At(f, off + i)
  BY <1>2, BlockStays
<1>7. At(g, off + 1) = e
  BY <1>4, <1>6
<1> HIDE DEF e
<1>8. e.used = 1
  BY <1>5 DEF EntryIn, SessionType, Raw
<1>9. At(g, e.start) = At(f, e.start)
  BY <1>5, <1>8, EntryStays
<1> QED
  BY <1>6, <1>7, <1>9, Zenon DEF RecordKept, RecordAt, off, e

LEMMA SessionStays ==
    ASSUME NEW C, NEW f \in Seq(C), NEW C2, NEW g \in Seq(C2), NEW lim \in Nat,
           lim <= Len(f), lim <= Len(g), Agree(f, g, lim), NEW lim2 \in Nat, lim <= lim2,
           NEW b \in Seq(Nat), NEW older, older = 0 \/ RecordKept(f, g, older),
           SessionIn(f, b, older, lim)
    PROVE  SessionIn(g, b, older, lim2)
<1>1. Len(b) >= 1 /\ 1 \in 1..Len(b)
  BY DEF SessionIn
<1>2. ASSUME NEW k \in 1..Len(b)
      PROVE  /\ BlockIn(g, b[k], lim2) /\ At(g, b[k]) = At(f, b[k])
             /\ Count(g, b[k]) = Count(f, b[k]) /\ Row(g, b[k]) = Row(f, b[k])
             /\ \A i \in 1..Count(f, b[k]) : At(g, b[k] + i) = At(f, b[k] + i)
  <2> DEFINE off == b[k]
  <2>1. BlockIn(f, off, lim)
    BY MemberOf
  <2> HIDE DEF off
  <2>2. /\ BlockIn(g, off, lim2) /\ At(g, off) = At(f, off)
        /\ Count(g, off) = Count(f, off) /\ Row(g, off) = Row(f, off)
        /\ \A i \in 1..Count(f, off) : At(g, off + i) = At(f, off + i)
    BY <2>1, BlockStays
  <2> QED
    BY <2>2 DEF off
<1>3. ASSUME NEW k \in 1..Len(b), NEW i \in 1..Count(f, b[k])
      PROVE  /\ EntryIn(f, At(f, b[k] + i), lim) /\ EntryIn(g, At(f, b[k] + i), lim2)
             /\ At(f, b[k] + i).used = 1
                 => At(g, At(f, b[k] + i).start) = At(f, At(f, b[k] + i).start)
  <2> DEFINE e == At(f, b[k] + i)
  <2>1. EntryIn(f, e, lim)
    BY MemberOf
  <2> HIDE DEF e
  <2>2. EntryIn(g, e, lim2) /\ (e.used = 1 => At(g, e.start) = At(f, e.start))
    BY <2>1, EntryStays
  <2> QED
    BY <2>1, <2>2 DEF e
<1>4. BlocksIn(g, b, older, lim2)
  <2>1. BlocksIn(f, b, older, lim)
    BY Zenon DEF SessionIn
  <2> QED
    BY <2>1, <1>2, Zenon DEF BlocksIn
<1>5. EntriesIn(g, b, lim2)
  <2>1. EntriesIn(f, b, lim)
    BY Zenon DEF SessionIn
  <2>2. Count(g, b[1]) >= 1
    BY <2>1, <1>1, <1>2, Zenon DEF EntriesIn
  <2>3. ASSUME NEW k \in 1..Len(b), NEW i \in 1..Count(g, b[k])
        PROVE  /\ EntryIn(g, At(g, b[k] + i), lim2)
               /\ At(g, b[k] + i).type = SessionType <=> k = 1 /\ i = 1
    <3>1. i \in 1..Count(f, b[k]) /\ At(g, b[k] + i) = At(f, b[k] + i)
      BY <1>2
    <3>2. At(f, b[k] + i).type = SessionType <=> k = 1 /\ i = 1
      BY <3>1, MemberOf
    <3> QED
      BY <3>1, <3>2, <1>3, Zenon
  <2> QED
    BY <2>2, <2>3, Zenon DEF EntriesIn
<1>6. NodesApart(g, b)
  <2>1. NodesApart(f, b)
    BY Zenon DEF SessionIn
  <2>2. ASSUME NEW k \in 1..Len(b), NEW i \in 1..Count(f, b[k]), At(f, b[k] + i).type = NodeType
        PROVE  NodeId(g, At(f, b[k] + i)) = NodeId(f, At(f, b[k] + i))
    <3>1. At(f, b[k] + i).used = 1
      BY <1>3, <2>2 DEF EntryIn, NodeType, Raw
    <3> QED
      BY <3>1, <1>3, Zenon DEF NodeId
  <2>3. ASSUME NEW k \in 1..Len(b), NEW l \in 1..Len(b),
               NEW i \in 1..Count(g, b[k]), NEW j \in 1..Count(g, b[l]),
               At(g, b[k] + i).type = NodeType, At(g, b[l] + j).type = NodeType,
               NodeId(g, At(g, b[k] + i)) = NodeId(g, At(g, b[l] + j))
        PROVE  k = l /\ i = j
    <3>1. i \in 1..Count(f, b[k]) /\ j \in 1..Count(f, b[l])
          /\ At(g, b[k] + i) = At(f, b[k] + i) /\ At(g, b[l] + j) = At(f, b[l] + j)
      BY <1>2
    <3> DEFINE u == At(f, b[k] + i)  v == At(f, b[l] + j)
    <3>2. u.type = NodeType /\ v.type = NodeType
      BY <2>3, <3>1, Zenon
    <3>3. NodeId(f, u) = NodeId(f, v)
      BY <2>2, <2>3, <3>1, <3>2, Zenon
    <3>4. (u.type = NodeType /\ v.type = NodeType /\ NodeId(f, u) = NodeId(f, v)) => k = l /\ i = j
      BY <2>1, <3>1, Zenon DEF NodesApart
    <3> QED
      BY <3>2, <3>3, <3>4
  <2> QED
    BY <2>3, Zenon DEF NodesApart
<1>7. RecordKept(f, g, b[1])
  BY HeadStays
<1>8. RecordIn(g, b, older)
  <2>1. RecordIn(f, b, older)
    BY Zenon DEF SessionIn
  <2>2. MemberHashes(g, b) = MemberHashes(f, b)
    <3>1. ASSUME NEW k \in 1..(Len(b) - 1)
          PROVE  At(g, b[k + 1]).hash = At(f, b[k + 1]).hash
      <4>1. k + 1 \in 1..Len(b)
        BY <1>1
      <4> QED
        BY <4>1, <1>2
    <3> QED
      BY <3>1, Zenon DEF MemberHashes
  <2>3. RecordAt(g, b[1]) = RecordAt(f, b[1])
    BY <1>7, Zenon DEF RecordKept
  <2>4. older # 0 => At(g, older) = At(f, older) /\ RecordAt(g, older) = RecordAt(f, older)
    BY Zenon DEF RecordKept
  <2> QED
    BY <2>1, <2>2, <2>3, <2>4, Zenon DEF RecordIn
<1> QED
  BY <1>1, <1>4, <1>5, <1>6, <1>7, <1>8, Zenon DEF SessionIn

LEMMA PublishedStays ==
    ASSUME NEW C, NEW f \in Seq(C), NEW C2, NEW g \in Seq(C2), NEW lim \in Nat,
           lim <= Len(f), lim <= Len(g), Agree(f, g, lim), NEW lim2 \in Nat, lim <= lim2,
           NEW N, Published(f, N, lim)
    PROVE  /\ Published(g, N, lim2)
           /\ \A n \in 1..Len(N) : RecordKept(f, g, N[n][1])
<1>1. /\ N \in Seq(Seq(Nat)) /\ Len(N) \in Nat
      /\ \A n \in 1..Len(N) : N[n] \in Seq(Nat) /\ SessionIn(f, N[n], OlderOf(N, n), lim)
  BY HistoryIs
<1>2. ASSUME NEW n \in 1..Len(N)
      PROVE  RecordKept(f, g, N[n][1])
  <2> DEFINE b == N[n]
  <2>1. b \in Seq(Nat) /\ SessionIn(f, b, OlderOf(N, n), lim)
    BY <1>1
  <2> HIDE DEF b
  <2>2. RecordKept(f, g, b[1])
    BY <2>1, HeadStays
  <2> QED
    BY <2>2 DEF b
<1>3. ASSUME NEW n \in 1..Len(N)
      PROVE  SessionIn(g, N[n], OlderOf(N, n), lim2)
  <2> DEFINE b == N[n]  older == OlderOf(N, n)
  <2>1. b \in Seq(Nat) /\ SessionIn(f, b, older, lim)
    BY <1>1
  <2>2. older = 0 \/ RecordKept(f, g, older)
    <3>1. CASE n < Len(N)
      <4>1. n + 1 \in 1..Len(N)
        BY <1>1, <3>1
      <4> QED
        BY <3>1, <4>1, <1>2, Zenon DEF OlderOf
    <3>2. CASE ~(n < Len(N))
      BY <3>2, Zenon DEF OlderOf
    <3> QED
      BY <3>1, <3>2
  <2> HIDE DEF b, older
  <2>3. SessionIn(g, b, older, lim2)
    BY <2>1, <2>2, SessionStays
  <2> QED
    BY <2>3 DEF b, older
<1>4. Len(FlattenSeq(N)) <= lim2
  <2>1. FlattenSeq(N) \in Seq(Nat)
    BY <1>1, FlattenType
  <2>2. Len(FlattenSeq(N)) \in Nat
    BY <2>1
  <2> QED
    BY <2>2 DEF Published
<1> QED
  BY <1>1, <1>2, <1>3, <1>4, Zenon DEF Published

-----------------------------------------------------------------------------
(* What a commit publishes.                                                *)

LEMMA DivIs ==
    ASSUME NEW x \in Nat, NEW m \in Nat \ {0}
    PROVE  x \div m \in Nat /\ (x \div m) * m <= x
OBVIOUS

LEMMA Products ==
    ASSUME NEW a \in Nat, NEW b \in Nat, NEW m \in Nat, a <= b
    PROVE  a * m <= b * m /\ a * m \in Nat /\ b * m \in Nat /\ (a + 1) * m = a * m + m
OBVIOUS

\* Where the entries of a MEMBER block come from.
LEMMA ChunkAt ==
    ASSUME NEW E, NEW es \in Seq(E), NEW k \in 1..Len(MemberChunks(es))
    PROVE  /\ Len(MemberChunks(es)[k]) \in 1..MaxEntries
           /\ MemberChunks(es)[k] \in Seq(E)
           /\ \A i \in 1..Len(MemberChunks(es)[k]) :
                /\ HeadTake(Len(es)) + (k - 1) * MaxEntries + i \in 1..Len(es)
                /\ MemberChunks(es)[k][i] = es[HeadTake(Len(es)) + (k - 1) * MaxEntries + i]
<1> DEFINE rest == SubSeq(es, HeadTake(Len(es)) + 1, Len(es))  lr == Len(rest)  le == Len(es)
           n == (lr + MaxEntries - 1) \div MaxEntries  t == HeadTake(Len(es))
           part(j) == SubSeq(rest, (j - 1) * MaxEntries + 1, Min({j * MaxEntries, lr}))
           p == (k - 1) * MaxEntries  q == k * MaxEntries  m == MaxEntries
<1>1. m \in Nat /\ m > 1
  BY CommitAssumption
<1>2. t \in 0..le /\ le \in Nat
  BY HeadTakeIs
<1>3. rest \in Seq(E) /\ lr = le - t /\ lr \in Nat /\ \A i \in 1..lr : rest[i] = es[t + i]
  <2> DEFINE x == t + 1
  <2>1. x \in Nat \ {0} /\ le \in 0..Len(es)
    BY <1>2
  <2> HIDE DEF x, t
  <2>2. /\ SubSeq(es, x, le) \in Seq(E)
        /\ Len(SubSeq(es, x, le)) = IF x <= le THEN le - x + 1 ELSE 0
        /\ \A i \in 1..Len(SubSeq(es, x, le)) : SubSeq(es, x, le)[i] = es[x + i - 1]
    BY <2>1, SliceType
  <2>3. rest = SubSeq(es, x, le)
    BY DEF x, t
  <2> HIDE DEF rest, le
  <2>4. rest \in Seq(E) /\ lr = IF x <= le THEN le - x + 1 ELSE 0
    BY <2>2, <2>3
  <2>5. lr = le - t
    BY <1>2, <2>4 DEF x
  <2>6. \A i \in 1..lr : rest[i] = es[x + i - 1]
    BY <2>2, <2>3, Zenon
  <2>7. lr \in Nat /\ \A i \in 1..lr : x + i - 1 = t + i
    BY <1>2, <2>5, <2>4 DEF x
  <2> QED
    BY <2>4, <2>5, <2>6, <2>7, Zenon
<1>4. MemberChunks(es) = [j \in 1..n |-> part(j)]
  BY Zenon DEF MemberChunks
<1> HIDE DEF rest, lr, t, m
<1>5. n \in Nat /\ n * m <= lr + m - 1
  <2> DEFINE y == lr + m - 1
  <2>1. y \in Nat /\ m \in Nat \ {0} /\ n = y \div m
    BY <1>1, <1>3 DEF m
  <2> HIDE DEF y, n
  <2>2. n \in Nat /\ n * m <= y
    BY <2>1, DivIs
  <2> QED
    BY <2>2 DEF y
<1> HIDE DEF n
<1>6. k \in 1..n /\ MemberChunks(es)[k] = part(k)
  <2>1. Len(MemberChunks(es)) = n /\ DOMAIN MemberChunks(es) = 1..n
    BY <1>4, <1>5
  <2>2. k \in 1..n
    BY <2>1
  <2> QED
    BY <2>2, <1>4, Zenon
<1>7. /\ p \in Nat /\ q \in Nat /\ q = p + m /\ p < lr
  <2> DEFINE j == k - 1
  <2>1. j \in Nat /\ k \in Nat /\ j + 1 = k /\ k <= n
    BY <1>5, <1>6
  <2>2. j * m \in Nat /\ (j + 1) * m = j * m + m
    BY <1>1, <2>1, Products
  <2>3. k * m <= n * m
    BY <1>1, <1>5, <2>1, Products
  <2>4. p = j * m /\ q = k * m /\ q = p + m /\ p \in Nat
    BY <2>1, <2>2 DEF m
  <2> HIDE DEF p, q, j
  <2>5. n * m \in Nat
    BY <1>1, <1>5, Products
  <2>6. q \in Nat
    BY <1>1, <2>4
  <2> DEFINE nm == n * m
  <2>7. q <= nm /\ nm \in Nat /\ nm <= lr + m - 1
    BY <1>5, <2>3, <2>4, <2>5
  <2> HIDE DEF nm
  <2>8. p \in Nat /\ q = p + m /\ lr \in Nat /\ m \in Nat
    BY <1>1, <1>3, <2>4, Zenon
  <2>9. p < lr
    BY <2>7, <2>8
  <2> QED
    BY <2>6, <2>8, <2>9
<1> DEFINE y == Min({q, lr})
<1> HIDE DEF p, q
<1>8. y = IF q <= lr THEN q ELSE lr
  BY <1>3, <1>7, MinOfTwo
<1> HIDE DEF y
<1> DEFINE x == p + 1  s == SubSeq(rest, x, y)
<1>9. MemberChunks(es)[k] = s
  BY <1>6, Zenon DEF p, q, y
<1>10. x \in Nat \ {0} /\ y \in 0..lr /\ x <= y /\ y - x + 1 \in 1..m
  BY <1>1, <1>3, <1>7, <1>8
<1> HIDE DEF s
<1>11. /\ s \in Seq(E) /\ Len(s) = y - x + 1
       /\ \A i \in 1..Len(s) : s[i] = rest[x + i - 1]
  <2>1. y \in 0..Len(rest)
    BY <1>10 DEF lr
  <2> HIDE DEF x
  <2>2. /\ SubSeq(rest, x, y) \in Seq(E)
        /\ Len(SubSeq(rest, x, y)) = IF x <= y THEN y - x + 1 ELSE 0
        /\ \A i \in 1..Len(SubSeq(rest, x, y)) : SubSeq(rest, x, y)[i] = rest[x + i - 1]
    BY <1>3, <1>10, <2>1, SliceType
  <2> QED
    BY <1>10, <2>2, Zenon DEF s
<1>12. ASSUME NEW i \in 1..Len(s)
       PROVE  t + p + i \in 1..le /\ s[i] = es[t + p + i]
  <2>1. x + i - 1 = p + i /\ p + i \in 1..lr /\ i \in Nat
    BY <1>3, <1>7, <1>10, <1>11
  <2>2. rest[p + i] = es[t + (p + i)]
    BY <1>3, <2>1
  <2>3. t + (p + i) = t + p + i /\ t + p + i \in 1..le
    BY <1>2, <1>3, <1>7, <2>1
  <2>4. s[i] = rest[p + i]
    BY <1>11, <2>1
  <2> QED
    BY <2>2, <2>3, <2>4, Zenon
<1>13. Len(s) \in 1..m
  BY <1>10, <1>11
<1> QED
  BY <1>9, <1>11, <1>12, <1>13, Zenon DEF t, p, m

\* The blocks of the new session and their entries, which are the session entry
\* and the entries of the partitions From, each in one place.
NewBlocks(parts) == <<HeadAt(parts)>> \o Offsets(parts)
Held(parts, k) == IF k = 1 THEN HeadEs(parts) ELSE Chunks(parts)[k - 1]
From(parts, k, i) ==
    IF k = 1 THEN i - 1 ELSE HeadTake(Len(parts)) + (k - 2) * MaxEntries + i
LinkOf(parts, k) == IF k < Len(NewBlocks(parts)) THEN NewBlocks(parts)[k + 1] ELSE head_offset

LEMMA NewBlocksAre ==
    ASSUME NEW D, NEW parts \in Seq(Partitions(D)), Placed
    PROVE  /\ NewBlocks(parts) \in Seq(Nat) /\ Len(NewBlocks(parts)) = Len(Chunks(parts)) + 1
           /\ Len(Chunks(parts)) \in Nat /\ NewBlocks(parts)[1] = HeadAt(parts)
           /\ \A k \in 1..Len(Chunks(parts)) : NewBlocks(parts)[k + 1] = Offset(parts, k)
<1> DEFINE c == Chunks(parts)  n == Len(c)  os == Offsets(parts)  h == <<HeadAt(parts)>>
           z == NewBlocks(parts)
<1>1. DOMAIN c = 1..n /\ n \in Nat
  <2> DEFINE S == Seq(Ents(parts))
  <2>1. c \in Seq(S) /\ n \in Nat
    BY ChunksIs
  <2> HIDE DEF c, S
  <2> QED
    BY <2>1
<1>2. \A k \in 1..n : Offset(parts, k) \in Nat
  <2>1. \A k \in 1..n : k \in 1..(Len(Chunks(parts)) + 1)
    BY <1>1
  <2> QED
    BY <2>1, OffsetIs
<1>3. HeadAt(parts) \in Nat
  BY PlacesAre
<1>4. os = [k \in 1..n |-> Offset(parts, k)]
  BY <1>1, Zenon DEF Offsets
<1> HIDE DEF c, n, os
<1>5. os \in Seq(Nat) /\ Len(os) = n /\ \A k \in 1..n : os[k] = Offset(parts, k)
  BY <1>1, <1>2, <1>4
<1>6. h \in Seq(Nat) /\ Len(h) = 1 /\ h[1] = HeadAt(parts) /\ 1 \in 1..Len(h)
  BY <1>3
<1> HIDE DEF h
<1>7. z \in Seq(Nat) /\ Concatenated(z, h, os)
  BY <1>5, <1>6, ConcatIs, Zenon DEF NewBlocks, h, os
<1> HIDE DEF z
<1>8. /\ Len(z) = 1 + n /\ z[1] = HeadAt(parts) /\ \A k \in 1..n : z[1 + k] = os[k]
  BY <1>5, <1>6, <1>7, Zenon DEF Concatenated
<1>9. 1 + n = n + 1 /\ \A k \in 1..n : 1 + k = k + 1
  BY <1>1
<1>10. \A k \in 1..n : z[k + 1] = Offset(parts, k)
  BY <1>5, <1>8, <1>9
<1> QED
  BY <1>1, <1>7, <1>8, <1>9, <1>10, Zenon DEF z, n, c

LEMMA HeldIs ==
    ASSUME NEW D, NEW parts \in Seq(Partitions(D)), Placed, NEW k \in 1..Len(NewBlocks(parts))
    PROVE  /\ Len(Held(parts, k)) \in 1..MaxEntries
           /\ Held(parts, k) = [i \in 1..Len(Held(parts, k)) |-> Held(parts, k)[i]]
           /\ \A i \in 1..Len(Held(parts, k)) :
                \/ k = 1 /\ i = 1 /\ Held(parts, k)[i] = SesEntry(parts)
                \/ /\ ~(k = 1 /\ i = 1) /\ From(parts, k, i) \in 1..Len(parts)
                   /\ Held(parts, k)[i] = Es(parts)[From(parts, k, i)]
<1> DEFINE n == Len(parts)  t == HeadTake(n)  hd == Held(parts, k)  m == MaxEntries
<1>1. m \in Nat /\ m > 1 /\ n \in Nat
  BY CommitAssumption
<1>2. t \in 0..n /\ t < m
  BY <1>1, HeadTakeIs
<1> HIDE DEF n, t, m
<1>3. CASE k = 1
  <2>1. hd = HeadEs(parts)
    BY <1>3, Zenon DEF Held
  <2>2. /\ HeadEs(parts) \in Seq(Bodies(parts, D)) /\ Len(HeadEs(parts)) = t + 1
        /\ HeadEs(parts)[1] = SesEntry(parts)
        /\ \A i \in 1..t : HeadEs(parts)[i + 1] = Es(parts)[i]
    BY HeadEsIs DEF t, n
  <2> DEFINE B == Bodies(parts, D)
  <2> HIDE DEF hd, B
  <2>3. hd \in Seq(B) /\ Len(hd) = t + 1 /\ hd[1] = SesEntry(parts)
        /\ \A i \in 1..t : hd[i + 1] = Es(parts)[i]
    BY <2>1, <2>2 DEF B
  <2>4. Len(hd) \in 1..m /\ hd = [i \in 1..Len(hd) |-> hd[i]]
    BY <1>1, <1>2, <2>3
  <2>5. ASSUME NEW i \in 1..Len(hd), i # 1
        PROVE  i - 1 \in 1..n /\ hd[i] = Es(parts)[i - 1]
    <3>1. i - 1 \in 1..t /\ (i - 1) + 1 = i
      BY <1>1, <1>2, <2>3, <2>5
    <3>2. hd[(i - 1) + 1] = Es(parts)[i - 1]
      BY <2>3, <3>1
    <3> QED
      BY <1>1, <1>2, <3>1, <3>2
  <2>6. \A i \in 1..Len(hd) : From(parts, k, i) = i - 1
    BY <1>3, Zenon DEF From
  <2> QED
    BY <1>3, <2>3, <2>4, <2>5, <2>6, Zenon DEF hd, m, n
<1>4. CASE k # 1
  <2> DEFINE j == k - 1  c == Chunks(parts)  E == Ents(parts)
  <2>1. j \in 1..Len(c) /\ j - 1 = k - 2
    <3>1. Len(NewBlocks(parts)) = Len(c) + 1 /\ Len(c) \in Nat
      BY NewBlocksAre
    <3> QED
      BY <1>4, <3>1
  <2>2. Es(parts) \in Seq(E) /\ Len(Es(parts)) = n
    BY EsIs DEF n
  <2>3. hd = c[j]
    BY <1>4, Zenon DEF Held
  <2> HIDE DEF hd, E, j
  <2>4. /\ Len(c[j]) \in 1..MaxEntries /\ c[j] \in Seq(E)
        /\ \A i \in 1..Len(c[j]) :
                /\ HeadTake(Len(Es(parts))) + (j - 1) * MaxEntries + i \in 1..Len(Es(parts))
                /\ c[j][i] = Es(parts)[HeadTake(Len(Es(parts))) + (j - 1) * MaxEntries + i]
    BY <2>1, <2>2, ChunkAt DEF Chunks
  <2> HIDE DEF c
  <2>5. \A i \in 1..Len(hd) : From(parts, k, i) = t + (j - 1) * MaxEntries + i
    BY <1>4, <2>1, Zenon DEF From, t, n
  <2>6. Len(hd) \in 1..m /\ hd \in Seq(E)
    BY <2>3, <2>4 DEF m
  <2>7. hd = [i \in 1..Len(hd) |-> hd[i]]
    BY <2>6
  <2>8. \A i \in 1..Len(hd) :
                /\ From(parts, k, i) \in 1..n
                /\ hd[i] = Es(parts)[From(parts, k, i)]
    BY <2>2, <2>3, <2>4, <2>5, Zenon DEF t
  <2> QED
    BY <1>4, <2>6, <2>7, <2>8, Zenon DEF hd, m, n
<1> QED
  BY <1>3, <1>4

\* No partition is entered twice.
LEMMA FromApart ==
    ASSUME NEW n \in Nat, NEW parts, n = Len(parts), NEW t \in Nat, t = HeadTake(n),
           NEW k \in Nat \ {0}, NEW l \in Nat \ {0}, NEW i \in Nat \ {0}, NEW j \in Nat \ {0},
           i <= (IF k = 1 THEN t + 1 ELSE MaxEntries), j <= (IF l = 1 THEN t + 1 ELSE MaxEntries),
           From(parts, k, i) = From(parts, l, j)
    PROVE  k = l /\ i = j
<1> DEFINE m == MaxEntries  u == (k - 2) * m  v == (l - 2) * m
<1>1. m \in Nat /\ m > 1
  BY CommitAssumption
<1>2. From(parts, k, i) = (IF k = 1 THEN i - 1 ELSE t + u + i)
      /\ From(parts, l, j) = (IF l = 1 THEN j - 1 ELSE t + v + j)
  BY Zenon DEF From
<1> HIDE DEF m
<1>3. k # 1 => u \in Nat
  <2>1. k # 1 => k - 2 \in Nat
    OBVIOUS
  <2> QED
    BY <1>1, <2>1, Products
<1>4. l # 1 => v \in Nat
  <2>1. l # 1 => l - 2 \in Nat
    OBVIOUS
  <2> QED
    BY <1>1, <2>1, Products
<1>5. ASSUME k # 1, l # 1, k < l
      PROVE  u + m <= v
  <2> DEFINE a == k - 2  b == l - 2  c == a + 1
  <2>1. a \in Nat /\ b \in Nat /\ c \in Nat /\ c <= b
    BY <1>5
  <2>2. c * m <= b * m
    BY <1>1, <2>1, Products
  <2>3. (a + 1) * m = a * m + m
    BY <1>1, <2>1, Products
  <2> QED
    BY <2>2, <2>3, Zenon
<1>6. ASSUME k # 1, l # 1, l < k
      PROVE  v + m <= u
  <2> DEFINE a == l - 2  b == k - 2  c == a + 1
  <2>1. a \in Nat /\ b \in Nat /\ c \in Nat /\ c <= b
    BY <1>6
  <2>2. c * m <= b * m
    BY <1>1, <2>1, Products
  <2>3. (a + 1) * m = a * m + m
    BY <1>1, <2>1, Products
  <2> QED
    BY <2>2, <2>3, Zenon
<1>7. k = l => u = v
  OBVIOUS
<1> HIDE DEF u, v
<1>8. i <= (IF k = 1 THEN t + 1 ELSE m) /\ j <= (IF l = 1 THEN t + 1 ELSE m)
  BY DEF m
<1>9. (IF k = 1 THEN i - 1 ELSE t + u + i) = (IF l = 1 THEN j - 1 ELSE t + v + j)
  BY <1>2, Zenon
<1>10. CASE k = 1 /\ l = 1
  BY <1>9, <1>10
<1>11. CASE k = 1 /\ l # 1
  BY <1>4, <1>8, <1>9, <1>11
<1>12. CASE k # 1 /\ l = 1
  BY <1>3, <1>8, <1>9, <1>12
<1>13. CASE k # 1 /\ l # 1
  <2>1. u \in Nat /\ v \in Nat /\ u + i = v + j /\ i <= m /\ j <= m
    <3>1. u \in Nat /\ v \in Nat
      BY <1>3, <1>4, <1>13, Zenon
    <3>2. i <= m /\ j <= m
      BY <1>8, <1>13, Zenon
    <3>3. t + u + i = t + v + j
      BY <1>9, <1>13, Zenon
    <3>4. u + i = v + j
      BY <3>1, <3>3
    <3> QED
      BY <3>1, <3>2, <3>4
  <2>2. ~(k < l)
    BY <1>1, <1>5, <1>13, <2>1
  <2>3. ~(l < k)
    BY <1>1, <1>6, <1>13, <2>1
  <2>4. k = l
    BY <2>2, <2>3
  <2> QED
    BY <1>7, <2>1, <2>4
<1> QED
  BY <1>10, <1>11, <1>12, <1>13

LEMMA CellsByPart ==
    ASSUME NEW D, NEW parts \in Seq(Partitions(D)), Placed
    PROVE  /\ \A x \in 1..Len(Data(parts)) : Cells(parts)[x] = Data(parts)[x]
           /\ Cells(parts)[Len(Data(parts)) + 1] = Record(parts)
           /\ \A x \in 1..Len(Flat(parts)) : Cells(parts)[Len(Content(parts)) + x] = Flat(parts)[x]
           /\ \A x \in 1..Len(HeadCells(parts)) :
                    Cells(parts)[Len(Inner(parts)) + x] = HeadCells(parts)[x]
           /\ Cells(parts)[Len(Body(parts)) + 1] = TrailerCell(HeadAt(parts))
           /\ Len(Data(parts)) \in Nat /\ Len(Content(parts)) = Len(Data(parts)) + 1
           /\ Len(Flat(parts)) \in Nat /\ Len(Inner(parts)) = Len(Content(parts)) + Len(Flat(parts))
           /\ Len(HeadCells(parts)) \in Nat
           /\ Len(Body(parts)) = Len(Inner(parts)) + Len(HeadCells(parts))
           /\ Len(Cells(parts)) = Len(Body(parts)) + 1
<1> DEFINE d == Data(parts)  co == Content(parts)  fl == Flat(parts)  inn == Inner(parts)
           h == HeadCells(parts)  bo == Body(parts)  z == Cells(parts)
           r == <<Record(parts)>>  t == <<TrailerCell(HeadAt(parts))>>
<1>1. /\ Concatenated(co, d, r) /\ Concatenated(inn, co, fl) /\ Concatenated(bo, inn, h) /\ Concatenated(z, bo, t)
  BY CellsAre
<1>2. Len(d) \in Nat /\ Len(fl) \in Nat
  BY DataIs, PlacesAre
<1>3. Len(h) \in Nat
  <2>1. h \in Seq(Bodies(parts, D))
    BY HeadCellsIs
  <2> HIDE DEF h
  <2> QED
    BY <2>1
<1>4. Len(r) = 1 /\ r[1] = Record(parts) /\ Len(t) = 1 /\ t[1] = TrailerCell(HeadAt(parts))
  OBVIOUS
<1> HIDE DEF d, co, fl, inn, h, bo, z, r, t
<1>5. Len(co) = Len(d) + 1 /\ (\A i \in 1..Len(d) : co[i] = d[i]) /\ co[Len(d) + 1] = Record(parts)
  <2>1. 1 \in 1..1
    OBVIOUS
  <2> QED
    BY <1>1, <1>4, <2>1, Zenon DEF Concatenated
<1>6. Len(inn) = Len(co) + Len(fl) /\ (\A i \in 1..Len(co) : inn[i] = co[i])
      /\ \A i \in 1..Len(fl) : inn[Len(co) + i] = fl[i]
  BY <1>1, Zenon DEF Concatenated
<1>7. Len(bo) = Len(inn) + Len(h) /\ (\A i \in 1..Len(inn) : bo[i] = inn[i])
      /\ \A i \in 1..Len(h) : bo[Len(inn) + i] = h[i]
  BY <1>1, Zenon DEF Concatenated
<1>8. Len(z) = Len(bo) + 1 /\ (\A i \in 1..Len(bo) : z[i] = bo[i])
      /\ z[Len(bo) + 1] = TrailerCell(HeadAt(parts))
  <2>1. 1 \in 1..1
    OBVIOUS
  <2> QED
    BY <1>1, <1>4, <2>1, Zenon DEF Concatenated
<1> DEFINE ld == Len(d)  lc == Len(co)  lf == Len(fl)  li == Len(inn)  lh == Len(h)  lb == Len(bo)
<1>9. ld \in Nat /\ lf \in Nat /\ lh \in Nat /\ lc = ld + 1 /\ li = lc + lf /\ lb = li + lh
  BY <1>2, <1>3, <1>5, <1>6, <1>7
<1> HIDE DEF ld, lc, lf, li, lh, lb
<1>10. /\ \A x \in 1..ld : x \in 1..lc /\ x \in 1..li /\ x \in 1..lb
       /\ ld + 1 \in 1..lc /\ ld + 1 \in 1..li /\ ld + 1 \in 1..lb
       /\ \A x \in 1..lf : lc + x \in 1..li /\ lc + x \in 1..lb
       /\ \A x \in 1..lh : li + x \in 1..lb
  BY <1>9
<1>11. \A x \in 1..ld : z[x] = d[x]
  BY <1>5, <1>6, <1>7, <1>8, <1>10, Zenon DEF ld, lc, li, lb
<1>12. z[ld + 1] = Record(parts)
  BY <1>5, <1>6, <1>7, <1>8, <1>10, Zenon DEF ld, lc, li, lb
<1>13. \A x \in 1..lf : z[lc + x] = fl[x]
  BY <1>6, <1>7, <1>8, <1>10, Zenon DEF lc, li, lb, lf
<1>14. \A x \in 1..lh : z[li + x] = h[x]
  BY <1>7, <1>8, <1>10, Zenon DEF li, lb, lh
<1> QED
  BY <1>8, <1>9, <1>11, <1>12, <1>13, <1>14, Zenon
    DEF ld, lc, lf, li, lh, lb, d, co, fl, inn, h, bo, z

\* The cells of a session are in the file g.
Laid(g, parts) == \A x \in 1..Len(Cells(parts)) : At(g, eof + x - 1) = Cells(parts)[x]

LEMMA LaidAre ==
    ASSUME NEW D, NEW parts \in Seq(Partitions(D)), Placed, NEW g, Laid(g, parts)
    PROVE  /\ \A x \in 1..Len(Data(parts)) : At(g, eof + x - 1) = Data(parts)[x]
           /\ At(g, SessionStart(parts)) = Record(parts)
           /\ \A x \in 1..Len(Flat(parts)) : At(g, SessionStart(parts) + x) = Flat(parts)[x]
           /\ \A x \in 1..Len(HeadCells(parts)) :
                    At(g, HeadAt(parts) + x - 1) = HeadCells(parts)[x]
           /\ At(g, TrailerAt(parts)) = TrailerCell(HeadAt(parts))
<1> DEFINE z == Cells(parts)  ld == Len(Data(parts))  lc == Len(Content(parts))
           lf == Len(Flat(parts))  li == Len(Inner(parts))  lh == Len(HeadCells(parts))
           lb == Len(Body(parts))  lz == Len(z)  ss == SessionStart(parts)  ha == HeadAt(parts)
           ta == TrailerAt(parts)  d == Data(parts)  fl == Flat(parts)  h == HeadCells(parts)
<1>1. /\ \A x \in 1..ld : z[x] = d[x]
      /\ z[ld + 1] = Record(parts)
      /\ \A x \in 1..lf : z[lc + x] = fl[x]
      /\ \A x \in 1..lh : z[li + x] = h[x]
      /\ z[lb + 1] = TrailerCell(ha)
  BY CellsByPart
<1>2. /\ ld \in Nat /\ lc = ld + 1 /\ lf \in Nat /\ li = lc + lf /\ lh \in Nat /\ lb = li + lh
      /\ lz = lb + 1
  BY CellsByPart
<1>3. ss = eof + ld /\ ha = eof + li /\ ta = eof + lb /\ eof \in Nat
  BY PlacesAre DEF Placed
<1>4. \A x \in 1..lz : At(g, eof + x - 1) = z[x]
  BY Zenon DEF Laid
<1> HIDE DEF z, ld, lc, lf, li, lh, lb, lz, ss, ha, ta, d, fl, h
<1>5. \A x \in 1..ld : x \in 1..lz
  BY <1>2
<1>6. ld + 1 \in 1..lz /\ eof + (ld + 1) - 1 = ss
  BY <1>2, <1>3
<1>7. \A x \in 1..lf : lc + x \in 1..lz /\ eof + (lc + x) - 1 = ss + x
  BY <1>2, <1>3
<1>8. \A x \in 1..lh : li + x \in 1..lz /\ eof + (li + x) - 1 = ha + x - 1
  BY <1>2, <1>3
<1>9. lb + 1 \in 1..lz /\ eof + (lb + 1) - 1 = ta
  BY <1>2, <1>3
<1>10. \A x \in 1..ld : At(g, eof + x - 1) = d[x]
  BY <1>1, <1>4, <1>5, Zenon
<1>11. At(g, ss) = Record(parts)
  BY <1>1, <1>4, <1>6, Zenon
<1>12. \A x \in 1..lf : At(g, ss + x) = fl[x]
  <2>1. ASSUME NEW x \in 1..lf
        PROVE  At(g, ss + x) = fl[x]
    <3>1. At(g, eof + (lc + x) - 1) = z[lc + x]
      BY <1>4, <1>7
    <3> QED
      BY <1>1, <1>7, <3>1, Zenon
  <2> QED
    BY <2>1
<1>13. \A x \in 1..lh : At(g, ha + x - 1) = h[x]
  <2>1. ASSUME NEW x \in 1..lh
        PROVE  At(g, ha + x - 1) = h[x]
    <3>1. At(g, eof + (li + x) - 1) = z[li + x]
      BY <1>4, <1>8
    <3> QED
      BY <1>1, <1>8, <3>1, Zenon
  <2> QED
    BY <2>1
<1>14. At(g, ta) = TrailerCell(ha)
  BY <1>1, <1>4, <1>9, Zenon
<1> QED
  BY <1>10, <1>11, <1>12, <1>13, <1>14, Zenon DEF ld, lf, lh, ss, ha, ta, d, fl, h

LEMMA HeadLaid ==
    ASSUME NEW D, NEW parts \in Seq(Partitions(D)), Placed, NEW g, Laid(g, parts)
    PROVE  /\ At(g, HeadAt(parts)) = HeadHead(parts)
           /\ \A i \in 1..Len(HeadEs(parts)) : At(g, HeadAt(parts) + i) = HeadEs(parts)[i]
           /\ HeadLink(parts) = LinkOf(parts, 1)
           /\ HeadAt(parts) >= eof /\ HeadAt(parts) + Len(HeadEs(parts)) < TrailerAt(parts)
<1> DEFINE h == HeadAt(parts)  c == HeadCells(parts)  es == HeadEs(parts)  l == Len(es)
           lc == Len(c)
<1>1. /\ HeadAt(parts) \in Nat /\ HeadAt(parts) = eof + Len(Inner(parts))
      /\ TrailerAt(parts) = HeadAt(parts) + 1 + l /\ l \in Nat
  BY PlacesAre
<1>2. Len(Inner(parts)) \in Nat
  BY CellsByPart
<1>3. lc = HeadTake(Len(parts)) + 2 /\ c[1] = HeadHead(parts) /\ \A i \in 1..l : c[i + 1] = es[i]
  BY HeadCellsIs
<1>4. l = HeadTake(Len(parts)) + 1 /\ HeadTake(Len(parts)) \in Nat
  <2>1. Len(parts) \in Nat
    OBVIOUS
  <2> QED
    BY <2>1, HeadEsIs, HeadTakeIs
<1>5. \A x \in 1..lc : At(g, h + x - 1) = c[x]
  BY LaidAre
<1>6. HeadLink(parts) = LinkOf(parts, 1)
  <2>1. /\ Len(NewBlocks(parts)) = Len(Chunks(parts)) + 1 /\ Len(Chunks(parts)) \in Nat
        /\ \A k \in 1..Len(Chunks(parts)) : NewBlocks(parts)[k + 1] = Offset(parts, k)
    BY NewBlocksAre
  <2> DEFINE m == Len(Chunks(parts))  nb == NewBlocks(parts)  os == Offsets(parts)
  <2>2. DOMAIN Chunks(parts) = 1..m
    <3> DEFINE cs == Chunks(parts)  S == Seq(Ents(parts))
    <3>1. cs \in Seq(S)
      BY ChunksIs
    <3> HIDE DEF cs, S
    <3>2. DOMAIN cs = 1..Len(cs)
      BY <3>1
    <3> QED
      BY <3>2 DEF cs
  <2>3. DOMAIN os = 1..m /\ (m >= 1 => os[1] = Offset(parts, 1))
    BY <2>1, <2>2 DEF Offsets
  <2>4. os = <<>> <=> m = 0
    <3>1. os = [k \in 1..m |-> os[k]]
      BY <2>2, Zenon DEF Offsets
    <3>2. m \in Nat
      BY <2>1
    <3> DEFINE E == {os[k] : k \in 1..m}
    <3> HIDE DEF os, m
    <3>3. \A k \in 1..m : os[k] \in E
      OBVIOUS
    <3> HIDE DEF E
    <3>4. os \in Seq(E) /\ Len(os) = m
      BY <3>1, <3>2, <3>3
    <3> QED
      BY <3>2, <3>4
  <2>5. m >= 1 => nb[2] = Offset(parts, 1)
    <3>1. m >= 1 => 1 \in 1..m
      BY <2>1
    <3>2. 1 + 1 = 2
      OBVIOUS
    <3> QED
      BY <2>1, <3>1, <3>2
  <2> HIDE DEF m, nb, os
  <2>6. 1 < Len(nb) <=> m >= 1
    BY <2>1 DEF m, nb
  <2>7. m = 0 \/ m >= 1
    BY <2>1 DEF m
  <2> QED
    BY <2>3, <2>4, <2>5, <2>6, <2>7 DEF HeadLink, HeadNext, LinkOf, nb, os
<1> HIDE DEF h, c, es, l, lc
<1>7. 1 \in 1..lc /\ \A i \in 1..l : i + 1 \in 1..lc
  BY <1>3, <1>4
<1>8. h \in Nat
  BY <1>1 DEF h
<1>9. At(g, h) = c[1]
  <2>1. h + 1 - 1 = h
    BY <1>8
  <2> QED
    BY <1>5, <1>7, <2>1
<1>10. \A i \in 1..l : At(g, h + i) = es[i]
  <2> TAKE i \in 1..l
  <2>1. h + (i + 1) - 1 = h + i
    BY <1>8
  <2>2. At(g, h + (i + 1) - 1) = c[i + 1]
    BY <1>5, <1>7
  <2> QED
    BY <1>3, <2>1, <2>2
<1> QED
  BY <1>1, <1>2, <1>3, <1>6, <1>9, <1>10 DEF h, es, l, Placed

LEMMA MemberLaid ==
    ASSUME NEW D, NEW parts \in Seq(Partitions(D)), Placed, NEW g, Laid(g, parts),
           NEW j \in 1..Len(Chunks(parts))
    PROVE  /\ At(g, Offset(parts, j)) = ChunkHead(parts, j)
           /\ \A i \in 1..Len(Chunks(parts)[j]) :
                At(g, Offset(parts, j) + i) = Chunks(parts)[j][i]
           /\ NextOf(parts, j) = LinkOf(parts, j + 1)
           /\ Offset(parts, j) \in Nat /\ Offset(parts, j) >= eof
           /\ Offset(parts, j) + Len(Chunks(parts)[j]) < TrailerAt(parts)
<1> DEFINE m == MemberCells(parts)  c == Chunks(parts)[j]  fl == Flat(parts)  n == Len(Chunks(parts))
           u == Len(Upto(m, j - 1))  ss == SessionStart(parts)  B == Bodies(parts, D)
           o == Offset(parts, j)  lc == Len(c)
<1>1. /\ m \in Seq(Seq(B)) /\ Len(m) = n /\ Len(m[j]) = lc + 1 /\ lc \in Nat
      /\ m[j][1] = ChunkHead(parts, j) /\ \A i \in 1..lc : m[j][i + 1] = c[i]
  BY MemberCellsIs
<1>2. n \in Nat
  BY ChunksIs
<1>3. o = ss + 1 + u
  <2>1. j \in 1..(n + 1)
    BY <1>2
  <2> QED
    BY <2>1, OffsetIs
<1>4. u \in Nat
  <2>1. j - 1 \in 0..Len(m)
    BY <1>1, <1>2
  <2> DEFINE jj == j - 1
  <2> HIDE DEF m, B, jj
  <2>2. jj \in 0..Len(m) => Len(Upto(m, jj)) \in Nat
    BY <1>1, UptoType
  <2> QED
    BY <2>1, <2>2 DEF jj
<1>5. \A i \in 1..(lc + 1) : u + i \in 1..Len(fl) /\ fl[u + i] = m[j][i]
  <2>1. j \in 1..Len(m)
    BY <1>1
  <2> HIDE DEF m, B, lc
  <2>2. \A i \in 1..Len(m[j]) : /\ Len(Upto(m, j - 1)) + i \in 1..Len(FlattenSeq(m))
                                /\ FlattenSeq(m)[Len(Upto(m, j - 1)) + i] = m[j][i]
    <3> SUFFICES ASSUME NEW i \in 1..Len(m[j])
                 PROVE  /\ Len(Upto(m, j - 1)) + i \in 1..Len(FlattenSeq(m))
                        /\ FlattenSeq(m)[Len(Upto(m, j - 1)) + i] = m[j][i]
      OBVIOUS
    <3>1. m \in Seq(Seq(B))
      BY <1>1
    <3> QED
      BY <2>1, <3>1, FlattenAt, Zenon
  <2>3. fl = FlattenSeq(m)
    BY Zenon DEF Flat, m
  <2> QED
    BY <1>1, <2>2, <2>3
<1>6. \A x \in 1..Len(fl) : At(g, ss + x) = fl[x]
  BY LaidAre
<1>7. /\ ss = eof + Len(Data(parts)) /\ Len(Data(parts)) \in Nat /\ Len(fl) \in Nat
      /\ HeadAt(parts) = ss + 1 + Len(fl)
      /\ TrailerAt(parts) = HeadAt(parts) + 1 + Len(HeadEs(parts)) /\ Len(HeadEs(parts)) \in Nat
  BY PlacesAre
<1>8. NextOf(parts, j) = LinkOf(parts, j + 1)
  <2>1. /\ Len(NewBlocks(parts)) = n + 1
        /\ \A k \in 1..n : NewBlocks(parts)[k + 1] = Offset(parts, k)
    BY NewBlocksAre
  <2> DEFINE nb == NewBlocks(parts)  j1 == j + 1
  <2>2. j < n <=> j1 < Len(nb)
    BY <1>2, <2>1
  <2>3. j < n => nb[j1 + 1] = Offset(parts, j1)
    <3>1. j < n => j1 \in 1..n
      BY <1>2
    <3> QED
      BY <2>1, <3>1
  <2> HIDE DEF nb, j1, n
  <2> QED
    BY <2>2, <2>3, Zenon DEF NextOf, LinkOf, nb, j1, n
<1>9. ss \in Nat /\ eof \in Nat
  BY <1>7 DEF Placed
<1> HIDE DEF m, c, fl, n, u, ss, B, o, lc
<1>10. \A i \in 1..(lc + 1) : At(g, o + i - 1) = m[j][i]
  <2> TAKE i \in 1..(lc + 1)
  <2>1. ss + (u + i) = o + i - 1
    BY <1>1, <1>3, <1>4, <1>9
  <2>2. At(g, ss + (u + i)) = m[j][i]
    BY <1>5, <1>6
  <2> QED
    BY <2>1, <2>2
<1>11. o \in Nat
  BY <1>3, <1>4, <1>9
<1>12. At(g, o) = ChunkHead(parts, j)
  <2>1. 1 \in 1..(lc + 1) /\ o + 1 - 1 = o
    BY <1>1, <1>11
  <2> QED
    BY <1>1, <1>10, <2>1
<1>13. \A i \in 1..lc : At(g, o + i) = c[i]
  <2> TAKE i \in 1..lc
  <2>1. o + (i + 1) - 1 = o + i /\ i + 1 \in 1..(lc + 1)
    BY <1>1, <1>11
  <2>2. At(g, o + (i + 1) - 1) = m[j][i + 1]
    BY <1>10, <2>1
  <2> QED
    BY <1>1, <2>1, <2>2
<1>14. u + lc + 1 <= Len(fl)
  <2>1. lc + 1 \in 1..(lc + 1)
    BY <1>1
  <2>2. u + (lc + 1) \in 1..Len(fl)
    BY <1>5, <2>1
  <2> QED
    BY <1>1, <1>4, <1>7, <2>2
<1>15. o >= eof /\ o + lc < TrailerAt(parts)
  <2> DEFINE hd == HeadAt(parts)  tr == TrailerAt(parts)  lf == Len(fl)  ld == Len(Data(parts))
             lh == Len(HeadEs(parts))
  <2>1. /\ ss = eof + ld /\ ld \in Nat /\ lf \in Nat /\ hd = ss + 1 + lf /\ tr = hd + 1 + lh
        /\ lh \in Nat /\ lc \in Nat /\ u + lc + 1 <= lf /\ o = ss + 1 + u /\ u \in Nat
        /\ eof \in Nat
    BY <1>1, <1>3, <1>4, <1>7, <1>9, <1>14, Zenon
  <2> HIDE DEF hd, tr, lf, ld, lh
  <2>2. o >= eof /\ o + lc < tr
    BY <2>1
  <2> QED
    BY <2>2 DEF tr
<1> QED
  BY <1>8, <1>11, <1>12, <1>13, <1>15 DEF c, o, lc

\* Every block of the new session, with its entries, where it is linked.
LEMMA BlocksLaid ==
    ASSUME NEW D, NEW parts \in Seq(Partitions(D)), Placed, NEW g, Laid(g, parts),
           NEW k \in 1..Len(NewBlocks(parts))
    PROVE  /\ At(g, NewBlocks(parts)[k]) =
                BlockCell(Len(Held(parts, k)), LinkOf(parts, k), hash_algo,
                          TableHash(hash_algo, LinkOf(parts, k), Held(parts, k)))
           /\ \A i \in 1..Len(Held(parts, k)) :
                At(g, NewBlocks(parts)[k] + i) = Held(parts, k)[i]
           /\ NewBlocks(parts)[k] \in Nat /\ NewBlocks(parts)[k] >= eof
           /\ NewBlocks(parts)[k] + Len(Held(parts, k)) < TrailerAt(parts)
<1>1. /\ Len(NewBlocks(parts)) = Len(Chunks(parts)) + 1 /\ Len(Chunks(parts)) \in Nat
      /\ NewBlocks(parts)[1] = HeadAt(parts)
      /\ \A i \in 1..Len(Chunks(parts)) : NewBlocks(parts)[i + 1] = Offset(parts, i)
  BY NewBlocksAre
<1>2. CASE k = 1
  <2>1. Held(parts, k) = HeadEs(parts) /\ NewBlocks(parts)[k] = HeadAt(parts)
    BY <1>1, <1>2, Zenon DEF Held
  <2>2. /\ At(g, HeadAt(parts)) = HeadHead(parts) /\ HeadLink(parts) = LinkOf(parts, k)
        /\ \A i \in 1..Len(HeadEs(parts)) : At(g, HeadAt(parts) + i) = HeadEs(parts)[i]
        /\ HeadAt(parts) >= eof /\ HeadAt(parts) + Len(HeadEs(parts)) < TrailerAt(parts)
    BY <1>2, HeadLaid
  <2>3. HeadAt(parts) \in Nat
    BY PlacesAre
  <2> QED
    BY <2>1, <2>2, <2>3, Zenon DEF HeadHead
<1>3. CASE k # 1
  <2> DEFINE j == k - 1
  <2>1. j \in 1..Len(Chunks(parts)) /\ k = j + 1
    BY <1>1, <1>3
  <2> HIDE DEF j
  <2>2. Held(parts, k) = Chunks(parts)[j] /\ NewBlocks(parts)[k] = Offset(parts, j)
    BY <1>1, <1>3, <2>1, Zenon DEF Held, j
  <2>3. /\ At(g, Offset(parts, j)) = ChunkHead(parts, j)
        /\ \A i \in 1..Len(Chunks(parts)[j]) :
                At(g, Offset(parts, j) + i) = Chunks(parts)[j][i]
        /\ NextOf(parts, j) = LinkOf(parts, k)
        /\ Offset(parts, j) \in Nat /\ Offset(parts, j) >= eof
        /\ Offset(parts, j) + Len(Chunks(parts)[j]) < TrailerAt(parts)
    BY <2>1, MemberLaid
  <2> QED
    BY <2>2, <2>3, Zenon DEF ChunkHead
<1> QED
  BY <1>2, <1>3

\* The data of each partition is where its entry says.
LEMMA DataLaid ==
    ASSUME NEW D, NEW parts \in Seq(Partitions(D)), Placed, NEW C, NEW g \in Seq(C),
           Laid(g, parts), Len(g) >= TrailerAt(parts), NEW i \in 1..Len(parts)
    PROVE  /\ Es(parts)[i].start \in Nat
           /\ Es(parts)[i].start + Len(parts[i].data) <= TrailerAt(parts)
           /\ SubSeq(g, Es(parts)[i].start + 1, Es(parts)[i].start + Len(parts[i].data))
                = parts[i].data
           /\ Len(parts[i].data) = 1 => At(g, Es(parts)[i].start) = parts[i].data[1]
<1> DEFINE s == Datas(parts)  d == parts[i].data  u == Len(Upto(s, i - 1))  st == Es(parts)[i].start
           l == Len(d)  ld == Len(Data(parts))  da == Data(parts)  tr == TrailerAt(parts)
<1>1. st = eof + u /\ d \in Seq(D) /\ l \in Nat /\ s[i] = d
  BY EsFields
<1>2. s \in Seq(Seq(D)) /\ Len(s) = Len(parts) /\ ld \in Nat /\ Len(parts) \in Nat
  BY DataIs
<1>3. da = FlattenSeq(s)
  BY Zenon DEF Data
<1>4. tr >= eof + ld /\ tr \in Nat
  <2> DEFINE ss == SessionStart(parts)  ha == HeadAt(parts)  lf == Len(Flat(parts))
             lh == Len(HeadEs(parts))
  <2>1. ss = eof + ld /\ ha = ss + 1 + lf /\ lf \in Nat /\ tr = ha + 1 + lh /\ lh \in Nat
        /\ eof \in Nat
    BY PlacesAre DEF Placed
  <2> HIDE DEF ss, ha, lf, lh, tr, ld
  <2> QED
    BY <1>2, <2>1
<1>5. eof \in Nat
  BY DEF Placed
<1>6. \A x \in 1..ld : At(g, eof + x - 1) = da[x]
  BY LaidAre
<1>7. i \in 1..Len(s)
  BY <1>2
<1> HIDE DEF s, d, st, l, ld, da, tr
<1>8. u \in Nat /\ u <= ld
  <2> DEFINE j == i - 1  n == Len(s)
  <2>1. n \in 0..Len(s) /\ j \in 0..n
    BY <1>2, <1>7
  <2> HIDE DEF j, n
  <2>2. Len(Upto(s, j)) \in Nat
    <3>1. j \in 0..Len(s)
      BY <2>1, <1>2 DEF n
    <3> QED
      BY <1>2, <3>1, UptoType
  <2>3. Continues(Upto(s, j), Upto(s, n))
    BY <1>2, <2>1, UptoContinues
  <2>4. Upto(s, n) = da
    BY <1>2, <1>3, UptoAll DEF n
  <2>5. Len(Upto(s, j)) <= ld
    BY <2>3, <2>4, Zenon DEF Continues, ld, da
  <2> QED
    BY <2>2, <2>5 DEF j
<1>9. \A x \in 1..l : u + x \in 1..ld /\ da[u + x] = d[x]
  <2> SUFFICES ASSUME NEW x \in 1..l
               PROVE  u + x \in 1..ld /\ da[u + x] = d[x]
    OBVIOUS
  <2>1. x \in 1..Len(s[i])
    BY <1>1 DEF l
  <2>2. /\ Len(Upto(s, i - 1)) + x \in 1..Len(FlattenSeq(s))
        /\ FlattenSeq(s)[Len(Upto(s, i - 1)) + x] = s[i][x]
    BY <1>2, <1>7, <2>1, FlattenAt, Zenon
  <2> QED
    BY <1>1, <1>3, <2>2, Zenon DEF ld, da
<1> HIDE DEF u
<1>10. st \in Nat /\ st + l <= tr
  <2>1. CASE l = 0
    BY <1>1, <1>4, <1>5, <1>8, <1>2, <2>1
  <2>2. CASE l # 0
    <3>1. l \in 1..l
      BY <1>1, <2>2
    <3>2. u + l \in 1..ld
      BY <1>9, <3>1
    <3> QED
      BY <1>1, <1>2, <1>4, <1>5, <1>8, <3>2
  <2> QED
    BY <2>1, <2>2
<1>11. \A x \in 1..l : g[st + x] = d[x]
  <2> TAKE x \in 1..l
  <2>1. u + x \in 1..ld /\ da[u + x] = d[x]
    BY <1>9
  <2>2. eof + (u + x) - 1 + 1 = st + x
    BY <1>1, <1>5, <1>8
  <2> QED
    BY <1>6, <2>1, <2>2 DEF At
<1>12. SubSeq(g, st + 1, st + l) = d
  <2> DEFINE a == st + 1  b == st + l  q == SubSeq(g, a, b)
  <2>1. a \in Nat \ {0} /\ b \in 0..Len(g)
    <3>1. Len(g) \in Nat /\ Len(g) >= tr
      BY DEF tr
    <3> QED
      <4>1. st \in Nat /\ st + l <= tr /\ l \in Nat /\ tr \in Nat
        BY <1>1, <1>4, <1>10, Zenon
      <4> QED
        BY <3>1, <4>1
  <2>2. (IF a <= b THEN b - a + 1 ELSE 0) = l
    <3>1. st \in Nat /\ l \in Nat
      BY <1>1, <1>10, Zenon
    <3> QED
      BY <3>1
  <2> HIDE DEF a, b
  <2>3. q \in Seq(C) /\ Len(q) = l /\ \A x \in 1..Len(q) : q[x] = g[a + x - 1]
    BY <2>1, <2>2, SliceType
  <2>4. \A x \in 1..l : q[x] = d[x]
    <3> TAKE x \in 1..l
    <3>1. a + x - 1 = st + x
      BY <1>10 DEF a
    <3>2. x \in 1..Len(q)
      BY <2>3
    <3> HIDE DEF q
    <3> QED
      BY <1>11, <2>3, <3>1, <3>2
  <2> HIDE DEF q
  <2>5. q = d
    BY <1>1, <2>3, <2>4 DEF l
  <2> QED
    BY <2>5 DEF q, a, b
<1>13. l = 1 => At(g, st) = d[1]
  <2>1. l = 1 => 1 \in 1..l
    OBVIOUS
  <2> QED
    BY <1>10, <1>11, <2>1 DEF At
<1> QED
  BY <1>10, <1>12, <1>13 DEF st, l, d, tr

\* Of a session: a node record is one cell, and no two are about one node.
Sound(parts) ==
    /\ \A i \in 1..Len(parts) :
        parts[i].type = NodeType => Len(parts[i].data) = 1 /\ parts[i].data[1].t = "node"
    /\ \A i, j \in 1..Len(parts) :
        /\ parts[i].type = NodeType /\ parts[j].type = NodeType
        /\ parts[i].data[1].id = parts[j].data[1].id
        => i = j

\* NIL_UID is no UID that the writer makes.
NilApart == \A n, i \in Nat : Nil # <<n, i>>

LEMMA PartEntryIn ==
    ASSUME NEW D, NEW parts \in Seq(Partitions(D)), Placed, NEW C, NEW g \in Seq(C),
           Laid(g, parts), Len(g) >= TrailerAt(parts), Sound(parts), NilApart, next_seq \in Nat,
           NEW i \in 1..Len(parts)
    PROVE  /\ EntryIn(g, Es(parts)[i], TrailerAt(parts)) /\ Es(parts)[i].t = "ent"
           /\ Es(parts)[i].type # SessionType /\ Es(parts)[i].type = parts[i].type
           /\ parts[i].type = NodeType => NodeId(g, Es(parts)[i]) = parts[i].data[1].id
<1> DEFINE e == Es(parts)[i]  d == parts[i].data  l == Len(d)  tr == TrailerAt(parts)
<1>1. /\ e.t = "ent" /\ e.type = parts[i].type /\ e.uid = <<next_seq, i>> /\ e.max = l /\ e.used = l
      /\ e.algo = hash_algo /\ e.hash = Digest(hash_algo, d) /\ e.type \in {Raw, NodeType}
      /\ l \in Nat
  BY EsFields
<1>2. /\ e.start \in Nat /\ e.start + l <= tr
      /\ SubSeq(g, e.start + 1, e.start + l) = d
      /\ l = 1 => At(g, e.start) = d[1]
  BY DataLaid
<1>3. e.uid # Nil
  <2>1. i \in Nat
    OBVIOUS
  <2>2. Nil # <<next_seq, i>>
    BY <2>1, Zenon DEF NilApart
  <2> QED
    BY <1>1, <2>2
<1>4. parts[i].type = NodeType => l = 1 /\ d[1].t = "node"
  BY DEF Sound
<1>5. Raw # SessionType /\ NodeType # SessionType /\ Raw # NodeType
  BY DEF Raw, SessionType, NodeType
<1>6. e.hash = Digest(e.algo, SubSeq(g, e.start + 1, e.start + e.used))
  BY <1>1, <1>2, Zenon
<1> HIDE DEF e, d, l, tr
<1>7. EntryIn(g, e, tr)
  <2>1. e.type \in {Raw, NodeType, SessionType} /\ (e.type # Raw => e.used = 1)
        /\ (e.type = NodeType => At(g, e.start).t = "node")
    BY <1>1, <1>2, <1>4
  <2>2. e.start \in Nat /\ e.used \in Nat /\ e.max = e.used /\ e.start + e.used <= tr
    BY <1>1, <1>2
  <2> QED
    BY <1>3, <1>6, <2>1, <2>2, Zenon DEF EntryIn
<1>8. parts[i].type = NodeType => NodeId(g, e) = d[1].id
  BY <1>2, <1>4 DEF NodeId
<1> QED
  BY <1>1, <1>5, <1>7, <1>8 DEF e, d, tr

LEMMA RecordFields ==
    ASSUME NEW parts
    PROVE  /\ Record(parts).t = "ses" /\ Record(parts).seq = next_seq
           /\ Record(parts).prev_algo = prev_head_algo /\ Record(parts).prev_hash = prev_head_hash
           /\ Record(parts).block_count = 1 + Len(Chunks(parts))
           /\ Record(parts).digest_algo = DigestAlgo(parts)
           /\ Record(parts).digest = MemberDigest(DigestAlgo(parts), Hashes(parts))
<1> DEFINE n == 1 + Len(Chunks(parts))  a == DigestAlgo(parts)  d == MemberDigest(a, Hashes(parts))
<1>1. Record(parts) = SessionCell(next_seq, prev_head_algo, prev_head_hash, n, a, d)
  BY Zenon DEF Record
<1> HIDE DEF n, a, d
<1> QED
  BY <1>1 DEF SessionCell, n, a, d

LEMMA SesEntryIn ==
    ASSUME NEW D, NEW parts \in Seq(Partitions(D)), Placed, NEW C, NEW g \in Seq(C),
           Laid(g, parts), Len(g) >= TrailerAt(parts), NilApart, next_seq \in Nat
    PROVE  /\ EntryIn(g, SesEntry(parts), TrailerAt(parts)) /\ SesEntry(parts).t = "ent"
           /\ SesEntry(parts).type = SessionType /\ At(g, SesEntry(parts).start) = Record(parts)
<1> DEFINE r == Record(parts)  ss == SessionStart(parts)  e == SesEntry(parts)
           h == Digest(hash_algo, <<r>>)  u == <<next_seq, 0>>  tr == TrailerAt(parts)
<1>1. e = Entry(SessionType, u, ss, 1, 1, hash_algo, h)
  BY Zenon DEF SesEntry
<1>2. At(g, ss) = r
  BY LaidAre
<1>3. ss \in Nat /\ ss + 1 <= tr /\ tr \in Nat
  <2> DEFINE ha == HeadAt(parts)  lf == Len(Flat(parts))  lh == Len(HeadEs(parts))
             ld == Len(Data(parts))
  <2>1. ss = eof + ld /\ ld \in Nat /\ ha = ss + 1 + lf /\ lf \in Nat /\ tr = ha + 1 + lh /\ lh \in Nat
        /\ eof \in Nat
    BY PlacesAre DEF Placed
  <2> HIDE DEF ss, ha, lf, lh, tr, ld
  <2> QED
    BY <2>1
<1>4. u # Nil
  <2>1. 0 \in Nat
    OBVIOUS
  <2> QED
    BY <2>1, Zenon DEF NilApart
<1>5. Raw # SessionType /\ NodeType # SessionType /\ Raw # NodeType
  BY DEF Raw, SessionType, NodeType
<1>6. Len(g) \in Nat /\ Len(g) >= tr
  OBVIOUS
<1> HIDE DEF r, ss, e, h, u, tr
<1>7. SubSeq(g, ss + 1, ss + 1) = <<r>>
  <2> DEFINE a == ss + 1  q == SubSeq(g, a, a)
  <2>1. a \in Nat \ {0} /\ a \in 0..Len(g) /\ a <= a /\ a - a + 1 = 1 /\ a + 1 - 1 = ss + 1
    BY <1>3, <1>6
  <2> HIDE DEF a
  <2>2. q \in Seq(C) /\ Len(q) = 1 /\ \A x \in 1..Len(q) : q[x] = g[a + x - 1]
    BY <2>1, SliceType
  <2> HIDE DEF q
  <2>3. q[1] = r
    BY <1>2, <2>1, <2>2 DEF At
  <2>4. q = <<r>>
    BY <2>2, <2>3
  <2> QED
    BY <2>4 DEF q, a
<1>8. /\ e.t = "ent" /\ e.type = SessionType /\ e.uid = u /\ e.start = ss /\ e.max = 1 /\ e.used = 1
      /\ e.algo = hash_algo /\ e.hash = h
  BY <1>1 DEF Entry
<1>9. EntryIn(g, e, tr)
  <2>1. e.type \in {Raw, NodeType, SessionType} /\ (e.type # Raw => e.used = 1)
        /\ (e.type = NodeType => At(g, e.start).t = "node")
    BY <1>5, <1>8
  <2>2. e.start \in Nat /\ e.used \in Nat /\ e.max = e.used /\ e.start + e.used <= tr
    BY <1>3, <1>8
  <2>3. e.hash = Digest(e.algo, SubSeq(g, e.start + 1, e.start + e.used))
    BY <1>7, <1>8, Zenon DEF h
  <2>4. e.uid # Nil
    BY <1>4, <1>8
  <2> QED
    BY <2>1, <2>2, <2>3, <2>4, Zenon DEF EntryIn
<1> QED
  BY <1>2, <1>8, <1>9 DEF e, r, tr

\* The new blocks: each whole and linked, and what is entered in it.
LEMMA NewBlockIn ==
    ASSUME NEW D, NEW parts \in Seq(Partitions(D)), Placed, eof # 0, NEW C, NEW g \in Seq(C),
           Laid(g, parts), Len(g) >= TrailerAt(parts), Sound(parts), NilApart, next_seq \in Nat,
           NEW k \in 1..Len(NewBlocks(parts)), NEW o, o = NewBlocks(parts)[k]
    PROVE  /\ BlockIn(g, o, TrailerAt(parts)) /\ Count(g, o) = Len(Held(parts, k))
           /\ Count(g, o) >= 1
           /\ At(g, o).next = LinkOf(parts, k) /\ At(g, o).algo = hash_algo
           /\ At(g, o).hash = TableHash(At(g, o).algo, At(g, o).next, Row(g, o))
           /\ At(g, o).hash = TableHash(hash_algo, LinkOf(parts, k), Held(parts, k))
           /\ \A i \in 1..Count(g, o) :
                /\ At(g, o + i) = Held(parts, k)[i]
                /\ EntryIn(g, At(g, o + i), TrailerAt(parts))
                /\ At(g, o + i).type = SessionType <=> k = 1 /\ i = 1
<1> DEFINE h == Held(parts, k)  n == Len(h)  tr == TrailerAt(parts)  l == LinkOf(parts, k)
           x == TableHash(hash_algo, l, h)
<1>1. /\ At(g, o) = BlockCell(n, l, hash_algo, x)
      /\ \A i \in 1..n : At(g, o + i) = h[i]
      /\ o \in Nat /\ o >= eof /\ o + n < tr
  BY BlocksLaid
<1>2. n \in 1..MaxEntries /\ h = [i \in 1..n |-> h[i]]
  BY HeldIs
<1>3. MaxEntries \in Nat /\ eof \in Nat
  BY CommitAssumption DEF Placed
<1>4. ASSUME NEW i \in 1..n
      PROVE  /\ EntryIn(g, h[i], tr) /\ h[i].t = "ent"
             /\ h[i].type = SessionType <=> k = 1 /\ i = 1
  <2>1. CASE k = 1 /\ i = 1 /\ h[i] = SesEntry(parts)
    BY <2>1, SesEntryIn
  <2>2. CASE /\ ~(k = 1 /\ i = 1) /\ From(parts, k, i) \in 1..Len(parts)
             /\ h[i] = Es(parts)[From(parts, k, i)]
    <3> DEFINE f == From(parts, k, i)
    <3>1. f \in 1..Len(parts) /\ h[i] = Es(parts)[f]
      BY <2>2
    <3> HIDE DEF f
    <3>2. EntryIn(g, Es(parts)[f], tr) /\ Es(parts)[f].t = "ent" /\ Es(parts)[f].type # SessionType
      BY <3>1, PartEntryIn
    <3> QED
      BY <2>2, <3>1, <3>2
  <2> QED
    BY <2>1, <2>2, HeldIs
<1> HIDE DEF h, n, tr, l, x
<1>5. At(g, o).t = "blk" /\ At(g, o).count = n /\ At(g, o).next = l /\ At(g, o).algo = hash_algo
      /\ At(g, o).hash = x
  BY <1>1 DEF BlockCell
<1>6. Count(g, o) = n
  BY <1>5 DEF Count
<1>7. Row(g, o) = h
  <2>1. Row(g, o) = [i \in 1..n |-> At(g, o + i)]
    BY <1>6, Zenon DEF Row
  <2> QED
    BY <1>1, <1>2, <2>1
<1>8. BlockIn(g, o, tr)
  <2>1. o \in Nat \ {0}
    BY <1>1, <1>3
  <2>2. n \in 0..MaxEntries
    BY <1>2, <1>3
  <2> QED
    BY <1>1, <1>4, <1>5, <1>6, <2>1, <2>2 DEF BlockIn
<1>9. At(g, o).hash = TableHash(At(g, o).algo, At(g, o).next, Row(g, o))
  BY <1>5, <1>7, Zenon DEF x
<1>10. n >= 1
  BY <1>2, <1>3
<1>11. \A i \in 1..n : /\ At(g, o + i) = h[i] /\ EntryIn(g, At(g, o + i), tr)
                       /\ At(g, o + i).type = SessionType <=> k = 1 /\ i = 1
  BY <1>1, <1>4
<1> QED
  BY <1>5, <1>6, <1>8, <1>9, <1>10, <1>11, Zenon DEF h, n, tr, l, x

\* No node is entered twice.
LEMMA NewNodesApart ==
    ASSUME NEW D, NEW parts \in Seq(Partitions(D)), Placed, eof # 0, NEW C, NEW g \in Seq(C),
           Laid(g, parts), Len(g) >= TrailerAt(parts), Sound(parts), NilApart, next_seq \in Nat
    PROVE  NodesApart(g, NewBlocks(parts))
<1> DEFINE b == NewBlocks(parts)  t == HeadTake(Len(parts))
           e(k, i) == At(g, b[k] + i)
<1>1. Len(parts) \in Nat /\ t \in Nat
  <2>1. Len(parts) \in Nat
    OBVIOUS
  <2> QED
    BY <2>1, HeadTakeIs
<1>2. ASSUME NEW k \in 1..Len(b), NEW i \in 1..Count(g, b[k]), e(k, i).type = NodeType
      PROVE  /\ k \in Nat \ {0} /\ i \in Nat \ {0} /\ i <= (IF k = 1 THEN t + 1 ELSE MaxEntries)
             /\ From(parts, k, i) \in 1..Len(parts)
             /\ parts[From(parts, k, i)].type = NodeType
             /\ NodeId(g, e(k, i)) = parts[From(parts, k, i)].data[1].id
  <2>1. /\ Count(g, b[k]) = Len(Held(parts, k)) /\ At(g, b[k] + i) = Held(parts, k)[i]
        /\ At(g, b[k] + i).type = SessionType <=> k = 1 /\ i = 1
    BY NewBlockIn
  <2>2. NodeType # SessionType
    BY DEF NodeType, SessionType
  <2>3. i \in 1..Len(Held(parts, k))
    BY <2>1
  <2>4. /\ Len(Held(parts, k)) \in 1..MaxEntries
        /\ From(parts, k, i) \in 1..Len(parts) /\ Held(parts, k)[i] = Es(parts)[From(parts, k, i)]
    <3>1. ~(k = 1 /\ i = 1)
      BY <1>2, <2>1, <2>2
    <3> QED
      BY <2>3, <3>1, HeldIs
  <2>5. k = 1 => Len(Held(parts, k)) = t + 1
    BY HeadEsIs DEF Held
  <2> DEFINE f == From(parts, k, i)
  <2>6. f \in 1..Len(parts) /\ e(k, i) = Es(parts)[f]
    BY <2>1, <2>4
  <2> HIDE DEF f
  <2>7. Es(parts)[f].type = parts[f].type
        /\ (parts[f].type = NodeType => NodeId(g, Es(parts)[f]) = parts[f].data[1].id)
    BY <2>6, PartEntryIn
  <2>8. parts[f].type = NodeType /\ NodeId(g, e(k, i)) = parts[f].data[1].id
    BY <1>2, <2>6, <2>7, Zenon
  <2> HIDE DEF b, e, t
  <2>9. k \in Nat \ {0} /\ i \in Nat \ {0} /\ i <= (IF k = 1 THEN t + 1 ELSE MaxEntries)
    <3> DEFINE l == Len(Held(parts, k))
    <3>1. l \in 1..MaxEntries /\ (k = 1 => l = t + 1) /\ i \in 1..l /\ MaxEntries \in Nat
      BY <2>3, <2>4, <2>5, CommitAssumption DEF t
    <3>2. k \in Nat \ {0}
      OBVIOUS
    <3> HIDE DEF l
    <3> QED
      BY <3>1, <3>2
  <2> QED
    BY <2>6, <2>8, <2>9 DEF f
<1>3. ASSUME NEW k \in 1..Len(b), NEW l \in 1..Len(b), NEW i \in 1..Count(g, b[k]),
             NEW j \in 1..Count(g, b[l]), e(k, i).type = NodeType, e(l, j).type = NodeType,
             NodeId(g, e(k, i)) = NodeId(g, e(l, j))
      PROVE  k = l /\ i = j
  <2>1. /\ k \in Nat \ {0} /\ i \in Nat \ {0} /\ i <= (IF k = 1 THEN t + 1 ELSE MaxEntries)
        /\ From(parts, k, i) \in 1..Len(parts) /\ parts[From(parts, k, i)].type = NodeType
        /\ NodeId(g, e(k, i)) = parts[From(parts, k, i)].data[1].id
    BY <1>2, <1>3
  <2>2. /\ l \in Nat \ {0} /\ j \in Nat \ {0} /\ j <= (IF l = 1 THEN t + 1 ELSE MaxEntries)
        /\ From(parts, l, j) \in 1..Len(parts) /\ parts[From(parts, l, j)].type = NodeType
        /\ NodeId(g, e(l, j)) = parts[From(parts, l, j)].data[1].id
    BY <1>2, <1>3
  <2> HIDE DEF e, b
  <2>3. From(parts, k, i) = From(parts, l, j)
    <3> DEFINE x == From(parts, k, i)  y == From(parts, l, j)
    <3>1. /\ x \in 1..Len(parts) /\ y \in 1..Len(parts)
          /\ parts[x].type = NodeType /\ parts[y].type = NodeType
          /\ parts[x].data[1].id = parts[y].data[1].id
      BY <1>3, <2>1, <2>2, Zenon
    <3> HIDE DEF x, y
    <3>2. x = y
      BY <3>1, Zenon DEF Sound
    <3> QED
      BY <3>2 DEF x, y
  <2> QED
    BY <1>1, <2>1, <2>2, <2>3, FromApart
<1> QED
  BY <1>3, Zenon DEF NodesApart, b, e

\* What the handle knows of the newest session is what the file f says of it.
Knows(f) ==
    /\ next_seq \in Nat
    /\ head_offset = 0 => prev_head_algo = "None" /\ prev_head_hash = <<>> /\ next_seq = 1
    /\ head_offset # 0 => /\ prev_head_algo = At(f, head_offset).algo
                          /\ prev_head_hash = At(f, head_offset).hash
                          /\ next_seq = RecordAt(f, head_offset).seq + 1
                          /\ RecordAt(f, head_offset).seq \in Nat

LEMMA NewRecordIn ==
    ASSUME NEW D, NEW parts \in Seq(Partitions(D)), Placed, eof # 0, NEW C, NEW g \in Seq(C),
           Laid(g, parts), Len(g) >= TrailerAt(parts), Sound(parts), NilApart, Knows(g)
    PROVE  /\ RecordIn(g, NewBlocks(parts), head_offset)
           /\ RecordAt(g, HeadAt(parts)) = Record(parts)
<1> DEFINE b == NewBlocks(parts)  n == Len(Chunks(parts))  r == Record(parts)
<1>1. /\ b \in Seq(Nat) /\ Len(b) = n + 1 /\ n \in Nat /\ b[1] = HeadAt(parts)
      /\ \A k \in 1..n : b[k + 1] = Offset(parts, k)
  BY NewBlocksAre
<1>2. next_seq \in Nat
  BY DEF Knows
<1>3. RecordAt(g, HeadAt(parts)) = r
  <2>1. 1 \in 1..Len(b)
    BY <1>1
  <2>2. /\ Count(g, HeadAt(parts)) >= 1 /\ Count(g, HeadAt(parts)) = Len(Held(parts, 1))
        /\ \A i \in 1..Count(g, HeadAt(parts)) : At(g, HeadAt(parts) + i) = Held(parts, 1)[i]
    <3> DEFINE k == 1  o == HeadAt(parts)
    <3>1. k \in 1..Len(NewBlocks(parts)) /\ o = NewBlocks(parts)[k]
      BY <1>1, <2>1
    <3> HIDE DEF k, o
    <3>2. /\ Count(g, o) >= 1 /\ Count(g, o) = Len(Held(parts, k))
          /\ \A i \in 1..Count(g, o) : At(g, o + i) = Held(parts, k)[i]
      BY <1>2, <3>1, NewBlockIn
    <3> QED
      BY <3>2 DEF k, o
  <2>3. Len(Held(parts, 1)) \in 1..MaxEntries
    BY <2>1, HeldIs
  <2>4. 1 \in 1..Count(g, HeadAt(parts))
    BY <2>2, <2>3
  <2>5. At(g, HeadAt(parts) + 1) = Held(parts, 1)[1]
    BY <2>2, <2>4
  <2>6. Held(parts, 1)[1] = SesEntry(parts)
    BY HeadEsIs DEF Held
  <2>7. At(g, SesEntry(parts).start) = Record(parts)
    BY <1>2, SesEntryIn
  <2> QED
    BY <2>5, <2>6, <2>7 DEF RecordAt
<1>4. DOMAIN Chunks(parts) = 1..n /\ (Chunks(parts) = <<>> <=> n = 0)
  <2> DEFINE cs == Chunks(parts)  S == Seq(Ents(parts))
  <2>1. cs \in Seq(S)
    BY ChunksIs
  <2> HIDE DEF cs, S
  <2>2. DOMAIN cs = 1..Len(cs) /\ (cs = <<>> <=> Len(cs) = 0)
    BY <2>1
  <2> QED
    BY <2>2 DEF cs
<1>5. Hashes(parts) = MemberHashes(g, b)
  <2>1. ASSUME NEW k \in 1..n
        PROVE  At(g, b[k + 1]).hash = TableHash(hash_algo, NextOf(parts, k), Chunks(parts)[k])
    <3> DEFINE x == TableHash(hash_algo, NextOf(parts, k), Chunks(parts)[k])
               l == Len(Chunks(parts)[k])  y == NextOf(parts, k)
    <3>1. At(g, b[k + 1]) = ChunkHead(parts, k)
      BY <1>1, <2>1, MemberLaid
    <3>2. ChunkHead(parts, k) = BlockCell(l, y, hash_algo, x)
      BY Zenon DEF ChunkHead
    <3> HIDE DEF x, l, y
    <3>3. BlockCell(l, y, hash_algo, x).hash = x
      BY DEF BlockCell
    <3> QED
      BY <3>1, <3>2, <3>3, Zenon DEF x
  <2>2. Len(b) - 1 = n
    BY <1>1
  <2>3. Hashes(parts) = [k \in 1..n |-> TableHash(hash_algo, NextOf(parts, k), Chunks(parts)[k])]
    BY <1>4, Zenon DEF Hashes
  <2>4. MemberHashes(g, b) = [k \in 1..n |-> At(g, b[k + 1]).hash]
    BY <2>2, Zenon DEF MemberHashes
  <2> QED
    BY <2>1, <2>3, <2>4, Zenon
<1>6. /\ r.t = "ses" /\ r.seq = next_seq /\ r.prev_algo = prev_head_algo
      /\ r.prev_hash = prev_head_hash /\ r.block_count = 1 + n
      /\ r.digest_algo = DigestAlgo(parts)
      /\ r.digest = MemberDigest(DigestAlgo(parts), Hashes(parts))
  BY RecordFields
<1>7. head_offset # 0 => RecordAt(g, head_offset).seq < next_seq
  BY DEF Knows
<1>8. 1 + n = Len(b)
  BY <1>1
<1> HIDE DEF b, n, r
<1>9. r.digest = MemberDigest(r.digest_algo, MemberHashes(g, b))
  BY <1>5, <1>6, Zenon
<1>10. RecordIn(g, b, head_offset)
  BY <1>1, <1>2, <1>3, <1>6, <1>7, <1>8, <1>9, Zenon DEF RecordIn, Knows
<1> QED
  BY <1>3, <1>10 DEF b, r

\* All of the session is as a reader wants it.
LEMMA NewSessionIn ==
    ASSUME NEW D, NEW parts \in Seq(Partitions(D)), Placed, eof # 0, NEW C, NEW g \in Seq(C),
           Laid(g, parts), Len(g) >= TrailerAt(parts), Sound(parts), NilApart, Knows(g)
    PROVE  SessionIn(g, NewBlocks(parts), head_offset, TrailerAt(parts))
<1> DEFINE b == NewBlocks(parts)  tr == TrailerAt(parts)
<1>1. /\ b \in Seq(Nat) /\ Len(b) = Len(Chunks(parts)) + 1 /\ Len(Chunks(parts)) \in Nat
  BY NewBlocksAre
<1>2. next_seq \in Nat
  BY DEF Knows
<1>3. BlocksIn(g, b, head_offset, tr)
  <2> SUFFICES ASSUME NEW k \in 1..Len(b)
               PROVE  /\ BlockIn(g, b[k], tr)
                      /\ At(g, b[k]).next = IF k < Len(b) THEN b[k + 1] ELSE head_offset
                      /\ At(g, b[k]).hash
                            = TableHash(At(g, b[k]).algo, At(g, b[k]).next, Row(g, b[k]))
    BY Zenon DEF BlocksIn
  <2>1. /\ BlockIn(g, b[k], tr) /\ At(g, b[k]).next = LinkOf(parts, k)
        /\ At(g, b[k]).hash = TableHash(At(g, b[k]).algo, At(g, b[k]).next, Row(g, b[k]))
    BY <1>2, NewBlockIn
  <2> QED
    BY <2>1, Zenon DEF LinkOf
<1>4. EntriesIn(g, b, tr)
  <2>1. \A k \in 1..Len(b) :
            /\ Count(g, b[k]) >= 1
            /\ \A i \in 1..Count(g, b[k]) :
                /\ EntryIn(g, At(g, b[k] + i), tr)
                /\ At(g, b[k] + i).type = SessionType <=> k = 1 /\ i = 1
    BY <1>2, NewBlockIn
  <2>2. 1 \in 1..Len(b)
    BY <1>1
  <2> HIDE DEF b, tr
  <2> QED
    BY <2>1, <2>2 DEF EntriesIn
<1>5. NodesApart(g, b)
  BY <1>2, NewNodesApart
<1>6. RecordIn(g, b, head_offset)
  BY NewRecordIn
<1>7. Len(b) >= 1
  BY <1>1
<1> HIDE DEF b, tr
<1>8. SessionIn(g, b, head_offset, tr)
  BY <1>3, <1>4, <1>5, <1>6, <1>7 DEF SessionIn
<1> QED
  BY <1>8 DEF b, tr

-----------------------------------------------------------------------------
(* The trailers.                                                           *)

\* g is f changed at or past e, or past the end of f, and no trailer was there,
\* nor is any now, but perhaps at x.
Changed(f, g, e, x) ==
    /\ Len(f) <= Len(g)
    /\ \A o \in 0..(e - 1) : o < Len(f) => g[o + 1] = f[o + 1]
    /\ \A o \in e..(Len(f) - 1) : f[o + 1].t # "trl"
    /\ \A o \in 0..(Len(g) - 1) : (o >= e \/ o >= Len(f)) /\ o # x => g[o + 1].t # "trl"

LEMMA TrailersAgree ==
    ASSUME NEW C, NEW f \in Seq(C), NEW C2, NEW g \in Seq(C2), NEW e \in Nat, NEW x,
           Changed(f, g, e, x)
    PROVE  /\ Trailers(f) \subseteq Trailers(g)
           /\ \A o \in Trailers(g) : o \in Trailers(f) \/ o = x
           /\ \A o \in Trailers(f) : o < e /\ g[o + 1] = f[o + 1]
<1> DEFINE lf == Len(f)  lg == Len(g)
<1>1. lf \in Nat /\ lg \in Nat /\ lf <= lg
  BY DEF Changed
<1>2. /\ \A o \in 0..(e - 1) : o < lf => g[o + 1] = f[o + 1]
      /\ \A o \in e..(lf - 1) : f[o + 1].t # "trl"
      /\ \A o \in 0..(lg - 1) : (o >= e \/ o >= lf) /\ o # x => g[o + 1].t # "trl"
  BY DEF Changed
<1> DEFINE Fits(h, o) == h[o + 1].head + 1 <= o /\ h[o + 1].head \in 0..(Len(h) - 1)
                          /\ h[h[o + 1].head + 1].t \in {"blk", "zero"}
<1>3. \A h : Trailers(h) = {o \in 0..(Len(h) - 1) : h[o + 1].t = "trl" /\ (h[o + 1].head = 0 \/ Fits(h, o))}
  BY DEF Trailers, BlockParses, TableHeaderSize
<1> HIDE DEF lf, lg
<1>4. ASSUME NEW o \in Trailers(f)
      PROVE  o \in Trailers(g) /\ o < e /\ g[o + 1] = f[o + 1]
  <2>1. /\ o \in 0..(lf - 1) /\ f[o + 1].t = "trl" /\ (f[o + 1].head = 0 \/ Fits(f, o))
    BY <1>3 DEF lf
  <2>2. o < e
    BY <1>1, <1>2, <2>1
  <2>3. g[o + 1] = f[o + 1] /\ o \in 0..(lg - 1)
    BY <1>1, <1>2, <2>1, <2>2
  <2>4. ASSUME Fits(f, o)
        PROVE  Fits(g, o)
    <3> DEFINE p == f[o + 1].head
    <3>1. p + 1 <= o /\ p \in 0..(lf - 1) /\ f[p + 1].t \in {"blk", "zero"}
      BY <2>4 DEF lf
    <3>2. p \in 0..(e - 1) /\ p < lf /\ p \in 0..(lg - 1)
      <4>1. o \in 0..(lf - 1)
        BY <2>1
      <4>2. p + 1 <= o /\ p \in 0..(lf - 1)
        BY <3>1
      <4> HIDE DEF p
      <4> QED
        BY <1>1, <2>2, <4>1, <4>2
    <3>3. g[p + 1] = f[p + 1]
      BY <1>2, <3>2
    <3> QED
      BY <2>3, <3>1, <3>2, <3>3 DEF lg
  <2> HIDE DEF Fits
  <2> QED
    BY <1>3, <2>1, <2>2, <2>3, <2>4 DEF lg
<1>5. ASSUME NEW o \in Trailers(g), o # x
      PROVE  o \in Trailers(f)
  <2>1. o \in 0..(lg - 1) /\ g[o + 1].t = "trl" /\ (g[o + 1].head = 0 \/ Fits(g, o))
    BY <1>3 DEF lg
  <2>2. o < e /\ o < lf
    BY <1>1, <1>2, <1>5, <2>1
  <2>3. g[o + 1] = f[o + 1] /\ o \in 0..(lf - 1)
    BY <1>1, <1>2, <2>1, <2>2
  <2>4. ASSUME Fits(g, o)
        PROVE  Fits(f, o)
    <3> DEFINE p == g[o + 1].head
    <3>1. p + 1 <= o /\ p \in 0..(lg - 1) /\ g[p + 1].t \in {"blk", "zero"}
      BY <2>4 DEF lg
    <3>2. p \in 0..(e - 1) /\ p < lf /\ p \in 0..(lf - 1)
      <4>1. o \in 0..(lg - 1)
        BY <2>1
      <4>2. p + 1 <= o /\ p \in 0..(lg - 1)
        BY <3>1
      <4> HIDE DEF p
      <4> QED
        BY <1>1, <2>2, <4>1, <4>2
    <3>3. g[p + 1] = f[p + 1]
      BY <1>2, <3>2
    <3> QED
      BY <2>3, <3>1, <3>2, <3>3 DEF lf
  <2> HIDE DEF Fits
  <2> QED
    BY <1>3, <2>1, <2>2, <2>3, <2>4 DEF lf
<1> QED
  BY <1>4, <1>5

\* The first k writes of a commit change the file in this way.
LEMMA AfterChanges ==
    ASSUME NEW D, PlainSessions(D), NEW parts \in Seq(Partitions(D)), StayInv, open,
           NEW k \in 0..Len(Cells(parts)), NEW x, k = Len(Cells(parts)) => x = TrailerAt(parts)
    PROVE  Changed(file, After(parts, k), eof, x)
<1> DEFINE g == After(parts, k)
<1>1. /\ Overlaid(g, file, Cells(parts), eof, k) /\ Len(g) \in Nat /\ Len(file) \in Nat
  BY AfterIs
<1>2. /\ Len(g) >= Len(file)
      /\ \A o \in 0..(eof - 1) : o < Len(file) => g[o + 1] = file[o + 1]
  BY AfterKeeps
<1>3. eof \in Nat /\ \A o \in eof..(Len(file) - 1) : file[o + 1].t # "trl"
  BY DEF StayInv
<1>4. ASSUME NEW o \in 0..(Len(g) - 1), o >= eof \/ o >= Len(file), o # x
      PROVE  g[o + 1].t # "trl"
  <2>1. CASE o >= eof
    <3>1. o \in eof..(Len(g) - 1) /\ (k = Len(Cells(parts)) => o # TrailerAt(parts))
      BY <1>1, <1>3, <1>4, <2>1
    <3> QED
      BY <3>1, AfterPlain
  <2>2. CASE ~(o >= eof) /\ o >= Len(file)
    <3> DEFINE c == Cells(parts)  zero == Zero
    <3>1. g[o + 1] = IF eof <= o /\ o < eof + k THEN c[o - eof + 1]
                     ELSE IF o < Len(file) THEN file[o + 1] ELSE zero
      BY <1>1, Zenon DEF Overlaid
    <3> HIDE DEF c, zero, g
    <3>2. g[o + 1] = zero
      BY <1>1, <1>3, <2>2, <3>1
    <3> QED
      BY <3>2 DEF zero, Zero
  <2> QED
    BY <1>4, <2>1, <2>2
<1> HIDE DEF g
<1>5. Changed(file, g, eof, x)
  BY <1>1, <1>2, <1>3, <1>4 DEF Changed
<1> QED
  BY <1>5 DEF g

\* Until the trailer is written nothing is published.
LEMMA PartialTrailers ==
    ASSUME NEW D, PlainSessions(D), NEW parts \in Seq(Partitions(D)), StayInv, open,
           NEW k \in 0..Len(Cells(parts)), k # Len(Cells(parts))
    PROVE  Trailers(After(parts, k)) = Trailers(file)
<1> DEFINE g == After(parts, k)
<1>1. Changed(file, g, eof, -1)
  BY AfterChanges
<1>2. PICK C : file \in Seq(C)
  BY DEF StayInv
<1>3. PICK C2 : g \in Seq(C2)
  BY AfterIs
<1>4. eof \in Nat
  BY DEF StayInv
<1> HIDE DEF g
<1>5. Trailers(file) \subseteq Trailers(g) /\ \A o \in Trailers(g) : o \in Trailers(file) \/ o = -1
  BY <1>1, <1>2, <1>3, <1>4, TrailersAgree
<1>6. \A o \in Trailers(g) : o # -1
  <2>1. Trailers(g) \subseteq 0..(Len(g) - 1)
    BY DEF Trailers
  <2>2. Len(g) \in Nat
    BY <1>3
  <2> QED
    BY <2>1, <2>2
<1> QED
  BY <1>5, <1>6 DEF g

\* The trailer of a commit that ends is the newest, and resolves to its HEAD block.
LEMMA FullTrailers ==
    ASSUME NEW D, PlainSessions(D), NEW parts \in Seq(Partitions(D)), StayInv, open,
           NEW g, g = After(parts, Len(Cells(parts)))
    PROVE  /\ Max(Trailers(g)) = TrailerAt(parts)
           /\ At(g, TrailerAt(parts)).head = HeadAt(parts)
           /\ Laid(g, parts) /\ Len(g) > TrailerAt(parts) /\ TrailerAt(parts) \in Nat
           /\ \A o \in 0..(eof - 1) : o < Len(file) => At(g, o) = At(file, o)
           /\ Len(file) <= Len(g) /\ TrailerAt(parts) > Max(Trailers(file))
<1> DEFINE k == Len(Cells(parts))  tr == TrailerAt(parts)  c == Cells(parts)  lf == Len(file)
           lg == Len(g)  zero == Zero
<1>1. Placed /\ eof \in Nat /\ eof >= 2
  BY DEF Placed, StayInv
<1>2. k \in Nat \ {0} /\ tr \in Nat /\ tr >= eof /\ k = tr - eof + 1
  BY <1>1, WritesCount, PlacesAre
<1>3. k \in 0..Len(Cells(parts))
  BY <1>2
<1>4. Changed(file, g, eof, tr)
  BY <1>3, AfterChanges
<1>5. PICK C : file \in Seq(C)
  BY DEF StayInv
<1>6. PICK C2 : g \in Seq(C2)
  BY <1>3, AfterIs
<1>7. Overlaid(g, file, Cells(parts), eof, k) /\ lg \in Nat /\ lf \in Nat
  BY <1>3, AfterIs
<1>8. /\ Trailers(file) \subseteq Trailers(g)
      /\ \A o \in Trailers(g) : o \in Trailers(file) \/ o = tr
      /\ \A o \in Trailers(file) : o < eof /\ g[o + 1] = file[o + 1]
  <2> HIDE DEF tr
  <2> QED
    BY <1>1, <1>4, <1>5, <1>6, TrailersAgree
<1>9. lg > tr /\ lf <= lg
  <2>1. lg = (IF k = 0 \/ eof + k <= lf THEN lf ELSE eof + k)
    BY <1>7, Zenon DEF Overlaid
  <2> HIDE DEF lg, lf, k, tr
  <2> QED
    BY <1>1, <1>2, <1>7, <2>1
<1>10. \A o \in 0..(lg - 1) : g[o + 1] = IF eof <= o /\ o < eof + k THEN c[o - eof + 1]
                                         ELSE IF o < lf THEN file[o + 1] ELSE zero
  BY <1>7, Zenon DEF Overlaid
<1>11. Laid(g, parts)
  <2> SUFFICES ASSUME NEW x \in 1..k
               PROVE  At(g, eof + x - 1) = c[x]
    BY Zenon DEF Laid
  <2> HIDE DEF lg, lf, k, tr, c, zero
  <2> DEFINE o == eof + x - 1
  <2>1. o \in 0..(lg - 1) /\ eof <= o /\ o < eof + k /\ o - eof + 1 = x
    BY <1>1, <1>2, <1>7, <1>9
  <2> HIDE DEF o
  <2>2. g[o + 1] = c[o - eof + 1]
    BY <1>10, <2>1
  <2> QED
    BY <2>1, <2>2 DEF At, o
<1>12. At(g, tr) = TrailerCell(HeadAt(parts))
  BY <1>1, <1>11, LaidAre
<1>13. \A o \in 0..(eof - 1) : o < lf => At(g, o) = At(file, o)
  <2> HIDE DEF lg, lf, k, tr, c, zero
  <2> SUFFICES ASSUME NEW o \in 0..(eof - 1), o < lf
               PROVE  g[o + 1] = file[o + 1]
    BY DEF At
  <2>1. o \in 0..(lg - 1) /\ ~(eof <= o)
    BY <1>1, <1>7, <1>9
  <2> QED
    BY <1>10, <2>1
<1>14. /\ At(g, HeadAt(parts)) = HeadHead(parts) /\ HeadAt(parts) \in Nat
       /\ HeadAt(parts) + 1 <= tr
  <2>1. At(g, HeadAt(parts)) = HeadHead(parts)
    BY <1>1, <1>11, HeadLaid
  <2>2. /\ HeadAt(parts) \in Nat /\ tr = HeadAt(parts) + 1 + Len(HeadEs(parts))
        /\ Len(HeadEs(parts)) \in Nat
    BY <1>1, PlacesAre
  <2> DEFINE ha == HeadAt(parts)  lh == Len(HeadEs(parts))
  <2> HIDE DEF ha, lh, tr
  <2>3. ha + 1 <= tr
    BY <2>2 DEF ha, lh
  <2> QED
    BY <2>1, <2>2, <2>3 DEF ha
<1>15. tr \in Trailers(g)
  <2> DEFINE ha == HeadAt(parts)
  <2>1. g[tr + 1].t = "trl" /\ g[tr + 1].head = ha
    BY <1>12 DEF At, TrailerCell
  <2>2. g[ha + 1].t = "blk"
    BY <1>14 DEF At, HeadHead, BlockCell
  <2> HIDE DEF ha, tr, lg
  <2>3. ha \in Nat /\ ha + 1 <= tr
    BY <1>14 DEF ha
  <2>4. tr \in 0..(lg - 1) /\ ha \in 0..(lg - 1)
    BY <1>2, <1>7, <1>9, <2>3
  <2> QED
    BY <2>1, <2>2, <2>3, <2>4 DEF Trailers, BlockParses, TableHeaderSize, lg
<1>16. Trailers(g) \in SUBSET Nat /\ \A o \in Trailers(g) : o <= tr
  <2>1. Trailers(file) \in SUBSET Nat
    BY TrailersAre
  <2> HIDE DEF tr
  <2> QED
    BY <1>1, <1>2, <1>8, <2>1
<1>17. Max(Trailers(g)) = tr
  <2> DEFINE T == Trailers(g)
  <2>1. T \in SUBSET Nat /\ T # {} /\ tr \in T /\ \A o \in T : o <= tr
    BY <1>15, <1>16
  <2> HIDE DEF T, tr
  <2>2. Max(T) \in T /\ \A o \in T : o <= Max(T)
    BY <1>2, <2>1, MaxOfNat
  <2>3. Max(T) = tr
    <3>1. Max(T) <= tr /\ tr <= Max(T) /\ Max(T) \in Nat
      BY <2>1, <2>2
    <3> QED
      BY <1>2, <3>1
  <2> QED
    BY <2>3 DEF T
<1>18. tr > Max(Trailers(file))
  <2>1. Max(Trailers(file)) \in 1..(lf - 1) /\ Max(Trailers(file)) < eof
    BY TrailersAre
  <2> DEFINE m == Max(Trailers(file))
  <2> HIDE DEF m, tr, lf
  <2>2. tr > m
    BY <1>1, <1>2, <1>7, <2>1 DEF m
  <2> QED
    BY <2>2 DEF m
<1>19. At(g, tr).head = HeadAt(parts)
  BY <1>12 DEF TrailerCell
<1> QED
  BY <1>2, <1>9, <1>11, <1>13, <1>17, <1>18, <1>19

-----------------------------------------------------------------------------
(* The steps.                                                              *)

\* M is s with x before it.
Before(M, x, s) ==
    Len(M) = Len(s) + 1 /\ M[1] = x /\ \A n \in 1..Len(s) : M[n + 1] = s[n]

LEMMA FlattenCons ==
    ASSUME NEW C, NEW s \in Seq(Seq(C)), NEW x \in Seq(C), NEW M \in Seq(Seq(C)), Before(M, x, s)
    PROVE  Len(FlattenSeq(M)) = Len(x) + Len(FlattenSeq(s))
<1> DEFINE Q == Seq(C)  ls == Len(s)  lm == Len(M)
           S == {k \in Nat : k \in 0..ls => Len(Upto(M, k + 1)) = Len(x) + Len(Upto(s, k))}
<1>1. ls \in Nat /\ lm = ls + 1 /\ s \in Seq(Q) /\ M \in Seq(Q) /\ M[1] = x
      /\ \A n \in 1..ls : M[n + 1] = s[n]
  <2> HIDE DEF Q
  <2> QED
    BY DEF Before, Q
<1>2. Len(x) \in Nat
  OBVIOUS
<1>3. 0 \in S
  <2>1. Upto(M, 0) = <<>> /\ Upto(s, 0) = <<>>
    <3> HIDE DEF Q
    <3> QED
      BY <1>1, UptoNone
  <2> DEFINE n == 1
  <2>2. n \in 1..lm /\ n - 1 = 0 /\ 0 + 1 = n
    BY <1>1
  <2> HIDE DEF n
  <2>3. Len(Upto(M, n)) = Len(Upto(M, n - 1)) + Len(M[n])
    BY <2>2, UptoNext
  <2>4. M[n] = x
    BY <1>1 DEF n
  <2>5. Len(Upto(M, 0 + 1)) = Len(x) + Len(Upto(s, 0))
    <3> DEFINE l == Len(x)
    <3>1. Len(Upto(M, n)) = 0 + l /\ Len(Upto(s, 0)) = 0
      BY <2>1, <2>2, <2>3, <2>4
    <3> HIDE DEF l
    <3> QED
      BY <1>2, <2>2, <3>1 DEF l
  <2> QED
    BY <2>5
<1>4. \A k \in 0..(ls - 1) : k \in S => k + 1 \in S
  <2>1. ASSUME NEW k \in 0..(ls - 1), k \in S
        PROVE  k + 1 \in S
    <3> DEFINE n == k + 1  m == k + 2
    <3>1. /\ n \in 1..ls /\ n \in Nat /\ n - 1 = k /\ k \in 0..ls /\ m \in 1..lm /\ m - 1 = n
          /\ n + 1 = m
      BY <1>1
    <3> HIDE DEF n, m
    <3>2. Len(Upto(s, n)) = Len(Upto(s, n - 1)) + Len(s[n])
      BY <3>1, UptoNext
    <3>3. Len(Upto(M, m)) = Len(Upto(M, m - 1)) + Len(M[m])
      BY <3>1, UptoNext
    <3>4. M[m] = s[n]
      BY <1>1, <3>1
    <3>5. Len(Upto(M, n)) = Len(x) + Len(Upto(s, k))
      BY <2>1, <3>1 DEF n
    <3>6. Len(Upto(s, k)) \in Nat
      BY <3>1, UptoType
    <3>7. Len(s[n]) \in Nat
      <4>1. s[n] \in Q
        <5> HIDE DEF Q
        <5> QED
          BY <1>1, <3>1
      <4> QED
        BY <4>1
    <3>8. Len(Upto(M, n + 1)) = Len(x) + Len(Upto(s, n))
      <4> DEFINE a == Len(Upto(M, m))  b == Len(Upto(M, n))  c == Len(Upto(s, k))
                 d == Len(s[n])  l == Len(x)  e == Len(Upto(s, n))
      <4>1. e = c + d /\ a = b + d /\ b = l + c /\ c \in Nat /\ d \in Nat /\ l \in Nat
        BY <1>2, <3>1, <3>2, <3>3, <3>4, <3>5, <3>6, <3>7, Zenon
      <4> HIDE DEF a, b, c, d, l, e
      <4>2. a = l + e
        BY <4>1
      <4> QED
        BY <3>1, <4>2 DEF a, l, e
    <3> QED
      BY <3>1, <3>8 DEF n
  <2> QED
    BY <2>1
<1>5. ls \in S
  <2> HIDE DEF S
  <2>1. 0..ls \subseteq S
    BY <1>1, <1>3, <1>4, UpTo
  <2>2. ls \in Nat
    BY <1>1
  <2> HIDE DEF ls
  <2> QED
    BY <2>1, <2>2
<1>6. Upto(M, lm) = FlattenSeq(M) /\ Upto(s, ls) = FlattenSeq(s)
  <2> HIDE DEF Q
  <2> QED
    BY <1>1, UptoAll
<1>7. Len(Upto(M, ls + 1)) = Len(x) + Len(Upto(s, ls))
  BY <1>1, <1>5
<1> QED
  BY <1>1, <1>6, <1>7, Zenon

\* A commit whose writes are all done; one that ends with all that, one whose last
\* flush fails, and one that fails or dies before its trailer is written.
Appended(parts) ==
    /\ open /\ parts \in Sessions
    /\ file' = After(parts, Len(Cells(parts)))
    /\ open' = open /\ hash_algo' = hash_algo

Committed(parts) ==
    /\ Appended(parts)
    /\ head_offset' = HeadAt(parts) /\ next_seq' = next_seq + 1
    /\ prev_head_hash' = TableHash(hash_algo, HeadLink(parts), HeadEs(parts))
    /\ prev_head_algo' = hash_algo

SameHead ==
    /\ head_offset' = head_offset /\ next_seq' = next_seq
    /\ prev_head_hash' = prev_head_hash /\ prev_head_algo' = prev_head_algo

Unnoticed(parts) == Appended(parts) /\ SameHead

Partly(parts, k) ==
    /\ open /\ parts \in Sessions /\ k \in 0..Len(Cells(parts)) /\ k # Len(Cells(parts))
    /\ file' = After(parts, k)
    /\ open' => SameHead

\* What each call does, in these terms.
LEMMA CallIs ==
    ASSUME NEW D, PlainSessions(D), StayInv, NEW s \in Sessions
    PROVE  /\ Commit(s) => Committed(s)
           /\ LastFlushFails(s) => Unnoticed(s)
           /\ CommitFails(s) => open' /\ \E k : Partly(s, k)
           /\ CommitCrashes(s) => ~open' /\ \E k : Partly(s, k)
<1>1. s \in Seq(Partitions(D))
  BY DEF PlainSessions
<1>2. Placed
  BY DEF Placed, StayInv
<1>3. ASSUME NEW p \in CommitPlans(s), file' = Apply(file, p.writes)
      PROVE  /\ open /\ file' = After(s, Len(Cells(s))) /\ p.head = HeadAt(s)
             /\ p.hash = TableHash(hash_algo, HeadLink(s), HeadEs(s))
  <2>1. open /\ p = CommitPlan(s)
    BY PlannedIs
  <2>2. /\ p.writes = Writes(s) /\ p.head = HeadAt(s)
        /\ p.hash = TableHash(hash_algo, HeadLink(s), HeadEs(s))
    BY <2>1, PlanFields
  <2>3. SubSeq(Writes(s), 1, Len(Cells(s))) = Writes(s)
    BY <1>1, <1>2, WritesCount
  <2>4. file' = After(s, Len(Cells(s)))
    BY <1>3, <2>2, <2>3, Zenon DEF After
  <2> QED
    BY <2>1, <2>2, <2>4
<1>4. ASSUME Commit(s)
      PROVE  Committed(s)
  <2>1. PICK p \in CommitPlans(s) :
            /\ file' = Apply(file, p.writes) /\ head_offset' = p.head
            /\ prev_head_hash' = NextPrevHash(p) /\ prev_head_algo' = hash_algo
            /\ next_seq' = next_seq + 1 /\ open' = open /\ hash_algo' = hash_algo
    BY <1>4 DEF Commit
  <2> QED
    BY <1>3, <2>1, Zenon DEF Committed, Appended, NextPrevHash
<1>5. ASSUME LastFlushFails(s)
      PROVE  Unnoticed(s)
  <2>1. PICK p \in CommitPlans(s) : file' = Apply(file, p.writes) /\ OnlyEofMoves(p.eof)
    BY <1>5 DEF LastFlushFails
  <2>2. SameHead /\ open' = open /\ hash_algo' = hash_algo
    BY <2>1 DEF OnlyEofMoves, SameHead
  <2> QED
    BY <1>3, <2>1, <2>2, Zenon DEF Unnoticed, Appended
<1>6. ASSUME CommitFails(s)
      PROVE  open' /\ \E k : Partly(s, k)
  <2>1. PICK p \in CommitPlans(s) : \E k \in DOMAIN p.eof_after :
            file' = Apply(file, SubSeq(p.writes, 1, k)) /\ OnlyEofMoves(p.eof_after[k])
    BY <1>6 DEF CommitFails
  <2>2. PICK k \in DOMAIN p.eof_after :
            file' = Apply(file, SubSeq(p.writes, 1, k)) /\ OnlyEofMoves(p.eof_after[k])
    BY <2>1
  <2>3. open /\ p = CommitPlan(s)
    BY <2>1, PlannedIs
  <2>4. p.writes = Writes(s)
    BY <2>3, PlanFields
  <2>5. k \in 0..(Len(Cells(s)) - 1)
    BY <1>1, <1>2, <2>2, <2>3, EofAdvances
  <2>6. Len(Cells(s)) \in Nat
    BY <1>1, <1>2, WritesCount
  <2>7. file' = After(s, k)
    BY <2>2, <2>4, Zenon DEF After
  <2>8. k \in 0..Len(Cells(s)) /\ k # Len(Cells(s))
    BY <2>5, <2>6
  <2>9. SameHead /\ open' = open
    BY <2>2 DEF OnlyEofMoves, SameHead
  <2>10. Partly(s, k)
    BY <2>3, <2>7, <2>8, <2>9 DEF Partly
  <2> QED
    BY <2>3, <2>9, <2>10
<1>7. ASSUME CommitCrashes(s)
      PROVE  ~open' /\ \E k : Partly(s, k)
  <2>1. PICK p \in CommitPlans(s) : \E k \in 0..(Len(p.writes) - 1) :
            file' = Apply(file, SubSeq(p.writes, 1, k)) /\ Forget
    BY <1>7 DEF CommitCrashes
  <2>2. PICK k \in 0..(Len(p.writes) - 1) : file' = Apply(file, SubSeq(p.writes, 1, k)) /\ Forget
    BY <2>1
  <2>3. open /\ p = CommitPlan(s)
    BY <2>1, PlannedIs
  <2>4. p.writes = Writes(s)
    BY <2>3, PlanFields
  <2>5. Len(Writes(s)) = Len(Cells(s)) /\ Len(Cells(s)) \in Nat
    BY <1>1, <1>2, WritesCount
  <2>6. file' = After(s, k)
    BY <2>2, <2>4, Zenon DEF After
  <2>7. open' = FALSE
    BY <2>2 DEF Forget
  <2>8. k \in 0..Len(Cells(s)) /\ k # Len(Cells(s))
    BY <2>4, <2>5
  <2>9. Partly(s, k)
    BY <2>3, <2>6, <2>7, <2>8 DEF Partly
  <2> QED
    BY <2>7, <2>9
<1> QED
  BY <1>4, <1>5, <1>6, <1>7

LEMMA NextIs ==
    ASSUME NEW D, PlainSessions(D), StayInv, Next
    PROVE  \/ Close \/ Open
           \/ \E parts : Committed(parts) \/ Unnoticed(parts)
           \/ \E parts, k : Partly(parts, k)
BY CallIs DEF Next

\* No block of the file has more entries than its u8 can count.
Counted(f) == \A i \in DOMAIN f : f[i].t = "blk" => f[i].count \in 0..MaxEntries

LEMMA CellsCounted ==
    ASSUME NEW D, \A d \in D : d.t = "blk" => d.count \in 0..MaxEntries,
           NEW parts \in Seq(Partitions(D)), Placed
    PROVE  \A x \in 1..Len(Cells(parts)) :
                Cells(parts)[x].t = "blk" => Cells(parts)[x].count \in 0..MaxEntries
<1>1. \A c \in Ents(parts) : c.t # "blk"
  <2>1. DOMAIN parts = 1..Len(parts)
    OBVIOUS
  <2>2. \A i \in 1..Len(parts) : Es(parts)[i].t = "ent"
    BY EsFields
  <2> QED
    BY <2>1, <2>2 DEF Ents
<1>2. Record(parts).t = "ses" /\ SesEntry(parts).t = "ent" /\ TrailerCell(HeadAt(parts)).t = "trl"
  BY DEF Record, SessionCell, SesEntry, Entry, TrailerCell
<1>3. /\ Len(NewBlocks(parts)) = Len(Chunks(parts)) + 1 /\ Len(Chunks(parts)) \in Nat
  BY NewBlocksAre
<1>4. MaxEntries \in Nat
  BY CommitAssumption
<1>5. HeadHead(parts).count \in 0..MaxEntries
  <2>1. 1 \in 1..Len(NewBlocks(parts))
    BY <1>3
  <2>2. Len(Held(parts, 1)) \in 1..MaxEntries
    BY <2>1, HeldIs
  <2>3. Held(parts, 1) = HeadEs(parts)
    BY DEF Held
  <2>4. HeadHead(parts).count = Len(HeadEs(parts))
    BY DEF HeadHead, BlockCell
  <2> QED
    BY <1>4, <2>2, <2>3, <2>4
<1>6. \A k \in DOMAIN Chunks(parts) : ChunkHead(parts, k).count \in 0..MaxEntries
  <2>1. ASSUME NEW k \in DOMAIN Chunks(parts)
        PROVE  ChunkHead(parts, k).count \in 0..MaxEntries
    <3>1. k \in 1..Len(Chunks(parts))
      <4> DEFINE cs == Chunks(parts)  S == Seq(Ents(parts))
      <4>1. cs \in Seq(S) /\ k \in DOMAIN cs
        BY ChunksIs
      <4> HIDE DEF cs, S
      <4>2. k \in 1..Len(cs)
        BY <4>1
      <4> QED
        BY <4>2 DEF cs
    <3> DEFINE j == k + 1
    <3>2. j \in 1..Len(NewBlocks(parts)) /\ j # 1 /\ j - 1 = k
      BY <1>3, <3>1
    <3> HIDE DEF j
    <3>3. Len(Held(parts, j)) \in 1..MaxEntries
      BY <3>2, HeldIs
    <3>4. Held(parts, j) = Chunks(parts)[k]
      BY <3>2 DEF Held
    <3>5. ChunkHead(parts, k).count = Len(Chunks(parts)[k])
      BY DEF ChunkHead, BlockCell
    <3> QED
      BY <1>4, <3>3, <3>4, <3>5
  <2> QED
    BY <2>1
<1> DEFINE B == Bodies(parts, D) \cup {TrailerCell(HeadAt(parts))}  c == Cells(parts)
<1>7. \A b \in B : b.t = "blk" => b.count \in 0..MaxEntries
  BY <1>1, <1>2, <1>5, <1>6 DEF Bodies
<1>8. c \in Seq(B)
  BY CellsAre
<1> HIDE DEF B, c
<1>9. \A x \in 1..Len(c) : c[x] \in B
  BY <1>8
<1> QED
  BY <1>7, <1>9 DEF c

LEMMA AfterCounted ==
    ASSUME NEW D, \A d \in D : d.t = "blk" => d.count \in 0..MaxEntries,
           NEW parts \in Seq(Partitions(D)), StayInv, open, NEW k \in 0..Len(Cells(parts)),
           Counted(file)
    PROVE  Counted(After(parts, k))
<1> DEFINE g == After(parts, k)  c == Cells(parts)  zero == Zero  lg == Len(g)  lf == Len(file)
           Fine(x) == x.t = "blk" => x.count \in 0..MaxEntries
<1>1. Overlaid(g, file, c, eof, k) /\ lg \in Nat /\ lf \in Nat
  BY AfterIs
<1>2. PICK C2 : g \in Seq(C2)
  BY AfterIs
<1>3. PICK C : file \in Seq(C)
  BY DEF StayInv
<1>4. eof \in Nat /\ Placed
  BY DEF StayInv, Placed
<1>5. \A x \in 1..Len(c) : Fine(c[x])
  BY <1>4, CellsCounted
<1>6. \A i \in 1..lf : Fine(file[i])
  BY <1>3 DEF Counted
<1>7. Fine(zero)
  BY DEF Zero
<1>8. \A o \in 0..(lg - 1) : g[o + 1] = IF eof <= o /\ o < eof + k THEN c[o - eof + 1]
                                        ELSE IF o < lf THEN file[o + 1] ELSE zero
  BY <1>1, Zenon DEF Overlaid
<1>9. Len(c) \in Nat /\ DOMAIN g = 1..lg
  BY <1>2, <1>4, WritesCount
<1> HIDE DEF g, c, zero, lg, lf, Fine
<1>10. ASSUME NEW i \in 1..lg
       PROVE  Fine(g[i])
  <2> DEFINE o == i - 1
  <2>1. o \in 0..(lg - 1) /\ o + 1 = i
    BY <1>1
  <2> HIDE DEF o
  <2>2. g[o + 1] = IF eof <= o /\ o < eof + k THEN c[o - eof + 1]
                   ELSE IF o < lf THEN file[o + 1] ELSE zero
    BY <1>8, <2>1
  <2>3. CASE eof <= o /\ o < eof + k
    <3>1. o - eof + 1 \in 1..Len(c)
      BY <1>1, <1>4, <1>9, <2>1, <2>3 DEF c
    <3>2. g[i] = c[o - eof + 1]
      BY <2>1, <2>2, <2>3
    <3> QED
      BY <1>5, <3>1, <3>2
  <2>4. CASE ~(eof <= o /\ o < eof + k) /\ o < lf
    <3>1. i \in 1..lf
      BY <1>1, <2>1, <2>4
    <3>2. g[i] = file[i]
      BY <2>1, <2>2, <2>4
    <3> QED
      BY <1>6, <3>1, <3>2
  <2>5. CASE ~(eof <= o /\ o < eof + k) /\ ~(o < lf)
    <3>1. g[i] = zero
      BY <2>1, <2>2, <2>5
    <3> QED
      BY <1>7, <3>1
  <2> QED
    BY <2>3, <2>4, <2>5
<1> QED
  BY <1>9, <1>10 DEF Counted, Fine, g

\* The sessions an application may commit: see PlainSessions; a node record is one
\* cell, and there is one to a node; no data looks like a block of too many
\* entries; and NIL_UID is no UID that the writer makes.
SoundSessions(D) ==
    /\ PlainSessions(D) /\ NilApart
    /\ \A d \in D : d.t = "blk" => d.count \in 0..MaxEntries
    /\ \A s \in Sessions : Sound(s)

\* The newest trailer of the file f, and the HEAD block it names.
NewestTrailer(f) == Max(Trailers(f))
NewestHead(f) == At(f, NewestTrailer(f)).head

\* N are the sessions of the file and K those that an open handle goes on from: the
\* same, or N without its newest, which the handle was not told of.
Trails(N, K) == K = N \/ \E b : Before(N, b, K)

Holds(N, K) ==
    /\ Published(file, N, NewestTrailer(file)) /\ HeadOf(N) = NewestHead(file)
    /\ Published(file, K, NewestTrailer(file)) /\ Trails(N, K)
    /\ open => head_offset = HeadOf(K) /\ Knows(file)

\* The chain is published up to the newest trailer, whatever lies beyond it, and
\* the handle knows its newest session or the one before it.
LogInv == StayInv /\ Counted(file) /\ \E N, K : Holds(N, K)

\* What the handle knows is true of a file in which its newest session is kept.
LEMMA KnowsStill ==
    ASSUME NEW f, NEW g, Knows(f), head_offset # 0 => RecordKept(f, g, head_offset)
    PROVE  Knows(g)
BY DEF Knows, RecordKept

\* One more session, before those of N.
LEMMA OnTop ==
    ASSUME NEW S, NEW N \in Seq(S), NEW b \in S
    PROVE  <<b>> \o N \in Seq(S) /\ Before(<<b>> \o N, b, N)
<1> DEFINE x == <<b>>  M == x \o N
<1>1. x \in Seq(S) /\ Len(x) = 1 /\ x[1] = b /\ Len(N) \in Nat
  OBVIOUS
<1> HIDE DEF x
<1>2. M \in Seq(S) /\ Concatenated(M, x, N)
  BY <1>1, ConcatIs
<1> HIDE DEF M
<1>3. Len(M) = 1 + Len(N) /\ (\A i \in 1..1 : M[i] = x[i])
      /\ \A n \in 1..Len(N) : M[1 + n] = N[n]
  BY <1>1, <1>2, Zenon DEF Concatenated
<1>4. \A n \in 1..Len(N) : n + 1 = 1 + n
  BY <1>1
<1>5. Before(M, b, N)
  BY <1>1, <1>3, <1>4 DEF Before
<1> QED
  BY <1>2, <1>5 DEF M, x

LEMMA PublishedOnTop ==
    ASSUME NEW g, NEW lim \in Nat, NEW lim0 \in Nat, NEW N, NEW b \in Seq(Nat),
           Published(g, N, lim), Len(FlattenSeq(N)) <= lim0, Len(b) + lim0 <= lim,
           SessionIn(g, b, HeadOf(N), lim), NEW M \in Seq(Seq(Nat)), Before(M, b, N)
    PROVE  Published(g, M, lim) /\ HeadOf(M) = b[1]
<1> DEFINE S == Seq(Nat)  ln == Len(N)
<1>1. /\ N \in Seq(S) /\ ln \in Nat
      /\ \A n \in 1..ln : SessionIn(g, N[n], OlderOf(N, n), lim)
  BY HistoryIs
<1>2. b \in S /\ Len(b) \in Nat
  OBVIOUS
<1>3. /\ M \in Seq(S) /\ Len(M) = ln + 1 /\ M[1] = b /\ \A n \in 1..ln : M[n + 1] = N[n]
  BY DEF Before
<1> HIDE DEF S
<1>5. HeadOf(M) = b[1]
  <2>1. Len(M) # 0
    BY <1>1, <1>3
  <2> QED
    BY <1>3, <2>1, Zenon DEF HeadOf
<1>6. ASSUME NEW n \in 1..(ln + 1)
      PROVE  SessionIn(g, M[n], OlderOf(M, n), lim)
  <2>1. CASE n = 1
    <3>1. OlderOf(M, n) = HeadOf(N)
      <4>1. CASE ln = 0
        <5>1. ~(n < Len(M))
          BY <1>3, <2>1, <4>1
        <5> QED
          BY <4>1, <5>1, Zenon DEF OlderOf, HeadOf, ln
      <4>2. CASE ln # 0
        <5> DEFINE j == 1  n1 == n + 1
        <5>1. n < Len(M) /\ j \in 1..ln /\ j + 1 = n1
          BY <1>1, <1>3, <2>1, <4>2
        <5>2. M[n1] = N[j]
          BY <1>3, <5>1
        <5> HIDE DEF n1
        <5> QED
          BY <4>2, <5>1, <5>2, Zenon DEF OlderOf, HeadOf, ln, n1
      <4> QED
        BY <4>1, <4>2
    <3> QED
      BY <1>3, <2>1, <3>1
  <2>2. CASE n # 1
    <3> DEFINE j == n - 1  n1 == n + 1  j1 == j + 1
    <3>1. /\ j \in 1..ln /\ j1 = n /\ (n < Len(M) <=> j < ln)
          /\ (j < ln => n \in 1..ln /\ n + 1 = n1)
      <4> DEFINE lm == Len(M)
      <4>1. ln \in Nat /\ lm = ln + 1
        BY <1>1, <1>3
      <4> HIDE DEF lm, ln
      <4>2. /\ j \in 1..ln /\ j1 = n /\ (n < lm <=> j < ln)
            /\ (j < ln => n \in 1..ln /\ n + 1 = n1)
        BY <2>2, <4>1
      <4> QED
        BY <4>2 DEF lm
    <3>2. M[n] = N[j]
      <4>1. M[j + 1] = N[j]
        BY <1>3, <3>1
      <4> QED
        BY <3>1, <4>1
    <3>3. j < ln => M[n1] = N[j1]
      BY <1>3, <3>1
    <3> HIDE DEF j, n1, j1
    <3>4. OlderOf(M, n) = OlderOf(N, j)
      BY <3>1, <3>3, Zenon DEF OlderOf, ln, n1, j1
    <3> QED
      BY <1>1, <3>1, <3>2, <3>4
  <2> QED
    BY <2>1, <2>2
<1>7. Len(FlattenSeq(M)) <= lim
  <2> DEFINE x == Len(FlattenSeq(M))  y == Len(FlattenSeq(N))  lb == Len(b)
  <2>1. x = lb + y
    <3>1. M \in Seq(Seq(Nat)) /\ N \in Seq(Seq(Nat))
      BY <1>1, <1>3 DEF S
    <3> QED
      BY <3>1, FlattenCons
  <2>2. y \in Nat
    <3>1. FlattenSeq(N) \in Seq(Nat)
      BY <1>1, FlattenType DEF S
    <3> QED
      BY <3>1
  <2>3. y <= lim0 /\ lb + lim0 <= lim /\ lb \in Nat
    BY <1>2
  <2> HIDE DEF x, y, lb
  <2>4. x <= lim
    BY <2>1, <2>2, <2>3
  <2> QED
    BY <2>4 DEF x
<1>8. Published(g, M, lim)
  <2>1. M \in Seq(Seq(Nat))
    BY <1>3 DEF S
  <2>2. \A n \in 1..Len(M) : SessionIn(g, M[n], OlderOf(M, n), lim)
    BY <1>3, <1>6, Zenon
  <2> QED
    BY <1>7, <2>1, <2>2, Zenon DEF Published
<1> QED
  BY <1>5, <1>8

\* A session has at least as many cells as blocks.
LEMMA BlocksFit ==
    ASSUME NEW D, NEW parts \in Seq(Partitions(D)), Placed
    PROVE  Len(NewBlocks(parts)) + eof <= TrailerAt(parts)
<1> DEFINE n == Len(Chunks(parts))  m == MemberCells(parts)  lf == Len(Flat(parts))
           u == Len(Upto(Chunks(parts), n))  tr == TrailerAt(parts)  lh == Len(HeadEs(parts))
           ha == HeadAt(parts)  ss == SessionStart(parts)  ld == Len(Data(parts))
           lb == Len(NewBlocks(parts))
<1>1. lb = n + 1 /\ n \in Nat
  BY NewBlocksAre
<1>2. /\ ss = eof + ld /\ ld \in Nat /\ ha = ss + 1 + lf /\ lf \in Nat
      /\ tr = ha + 1 + lh /\ lh \in Nat /\ eof \in Nat
  BY PlacesAre DEF Placed
<1>3. Len(Upto(m, n)) = u + n
  <2>1. n \in 0..n
    BY <1>1
  <2> QED
    BY <2>1, MemberSizes
<1>4. Upto(m, n) = Flat(parts)
  <2> DEFINE Q == Seq(Bodies(parts, D))
  <2>1. m \in Seq(Q) /\ Len(m) = n
    BY MemberCellsIs
  <2> HIDE DEF Q, m, n
  <2>2. Upto(m, Len(m)) = FlattenSeq(m)
    BY <2>1, UptoAll
  <2> QED
    BY <2>1, <2>2, Zenon DEF Flat, m
<1>5. u \in Nat
  <2> DEFINE E == Ents(parts)  c == Chunks(parts)
  <2>1. c \in Seq(Seq(E)) /\ n \in 0..Len(c)
    BY <1>1, ChunksIs
  <2> HIDE DEF E, c, n
  <2>2. Len(Upto(c, n)) \in Nat
    BY <2>1, UptoType
  <2> QED
    BY <2>2 DEF c, n
<1>6. lf = u + n
  BY <1>3, <1>4, Zenon
<1> HIDE DEF n, lf, u, tr, lh, ha, ss, ld, lb
<1>7. lb + eof <= tr
  BY <1>1, <1>2, <1>5, <1>6
<1> QED
  BY <1>7 DEF lb, tr

\* A file of which nothing up to the newest trailer changes keeps its history.
LEMMA HistoryKept ==
    ASSUME StayInv, NEW C2, NEW g \in Seq(C2), Len(file) <= Len(g), NEW lim, lim = NewestTrailer(file),
           \A o \in 0..lim : At(g, o) = At(file, o),
           NEW N, Published(file, N, lim), NEW lim2 \in Nat, lim <= lim2
    PROVE  /\ Published(g, N, lim2) /\ At(g, lim).head = NewestHead(file)
           /\ HeadOf(N) # 0 => RecordKept(file, g, HeadOf(N))
<1>1. PICK C : file \in Seq(C)
  BY DEF StayInv
<1>2. lim \in 1..(Len(file) - 1) /\ Len(file) \in Nat
  BY TrailersAre DEF NewestTrailer
<1>3. lim \in Nat /\ lim <= Len(file) /\ lim <= Len(g)
  BY <1>2
<1>4. Agree(file, g, lim)
  BY <1>3 DEF Agree
<1>5. Published(g, N, lim2) /\ \A n \in 1..Len(N) : RecordKept(file, g, N[n][1])
  BY <1>1, <1>3, <1>4, PublishedStays
<1>6. At(g, lim).head = NewestHead(file)
  <2>1. lim \in 0..lim
    BY <1>3
  <2> QED
    BY <2>1, Zenon DEF NewestHead
<1>7. HeadOf(N) # 0 => RecordKept(file, g, HeadOf(N))
  <2>1. Len(N) \in Nat
    BY HistoryIs
  <2>2. HeadOf(N) # 0 => 1 \in 1..Len(N) /\ HeadOf(N) = N[1][1]
    <3>1. Len(N) # 0 => 1 \in 1..Len(N)
      BY <2>1
    <3> QED
      BY <3>1, Zenon DEF HeadOf
  <2> QED
    BY <1>5, <2>2
<1> QED
  BY <1>5, <1>6, <1>7

\* What the writes of a commit keep: everything up to the newest trailer.
LEMMA AfterAgrees ==
    ASSUME NEW D, NEW parts \in Seq(Partitions(D)), StayInv, open, NEW k \in 0..Len(Cells(parts)),
           NEW g, g = After(parts, k), NEW lim, lim = NewestTrailer(file)
    PROVE  /\ \A o \in 0..lim : At(g, o) = At(file, o)
           /\ Len(file) <= Len(g) /\ lim \in Nat /\ lim < eof /\ \E C2 : g \in Seq(C2)
<1>1. Len(g) >= Len(file) /\ \A o \in 0..(eof - 1) : o < Len(file) => g[o + 1] = file[o + 1]
  BY AfterKeeps
<1>2. lim \in 1..(Len(file) - 1) /\ Len(file) \in Nat /\ lim < eof
  BY TrailersAre DEF NewestTrailer
<1>3. (\E C2 : g \in Seq(C2)) /\ Len(g) \in Nat /\ eof \in Nat
  BY AfterIs DEF StayInv
<1>4. \A o \in 0..lim : o \in 0..(eof - 1) /\ o < Len(file)
  BY <1>2, <1>3
<1> QED
  BY <1>1, <1>2, <1>3, <1>4 DEF At

\* A commit that ends publishes its session on top of those there were.
LEMMA CommitPublishes ==
    ASSUME NEW D, SoundSessions(D), StayInv, NEW parts, Appended(parts), NEW K,
           NEW K0, Holds(K0, K)
    PROVE  \E M :
            /\ Published(file', M, NewestTrailer(file')) /\ HeadOf(M) = NewestHead(file')
            /\ HeadOf(M) = HeadAt(parts) /\ Before(M, NewBlocks(parts), K)
            /\ Published(file', K, NewestTrailer(file'))
            /\ Committed(parts) => Knows(file)'
            /\ Unnoticed(parts) => Knows(file)'
<1> DEFINE g == After(parts, Len(Cells(parts)))  tr == TrailerAt(parts)  b == NewBlocks(parts)
           lim == NewestTrailer(file)  ha == HeadAt(parts)
<1>1. open /\ parts \in Sessions /\ file' = g
  BY DEF Appended
<1>2. /\ PlainSessions(D) /\ NilApart /\ parts \in Seq(Partitions(D)) /\ Sound(parts)
  BY <1>1 DEF SoundSessions, PlainSessions
<1>3. StayInv /\ Placed /\ eof \in Nat /\ eof # 0 /\ head_offset = HeadOf(K) /\ Knows(file)
      /\ Published(file, K, lim)
  BY <1>1 DEF Holds, StayInv, Placed
<1>4. Len(Cells(parts)) \in 0..Len(Cells(parts)) /\ tr \in Nat
  <2>1. Len(Cells(parts)) \in Nat \ {0} /\ tr \in Nat
    BY <1>2, <1>3, WritesCount
  <2> QED
    BY <2>1
<1>5. /\ NewestTrailer(g) = tr /\ At(g, tr).head = ha /\ Laid(g, parts) /\ Len(g) > tr
      /\ tr > lim
  BY <1>1, <1>2, <1>3, FullTrailers DEF NewestTrailer
<1>6. /\ \A o \in 0..lim : At(g, o) = At(file, o)
      /\ Len(file) <= Len(g) /\ lim \in Nat /\ lim < eof /\ \E C2 : g \in Seq(C2)
  BY <1>1, <1>2, <1>3, <1>4, AfterAgrees
<1>7. PICK C2 : g \in Seq(C2)
  BY <1>6
<1>8. Len(g) \in Nat
  BY <1>7
<1> HIDE DEF g, tr, b, lim, ha
<1>9. lim <= tr /\ Len(g) >= tr
  BY <1>4, <1>5, <1>6, <1>8
<1>10. /\ Published(g, K, tr) /\ (HeadOf(K) # 0 => RecordKept(file, g, HeadOf(K)))
  BY <1>3, <1>4, <1>6, <1>7, <1>9, HistoryKept DEF lim
<1>11. Knows(g)
  BY <1>3, <1>10, KnowsStill
<1>12. SessionIn(g, b, HeadOf(K), tr)
  BY <1>2, <1>3, <1>5, <1>7, <1>9, <1>11, NewSessionIn DEF b, tr
<1>13. /\ b \in Seq(Nat) /\ b[1] = ha
  BY <1>2, <1>3, NewBlocksAre DEF b, ha
<1>14. Len(b) + eof <= tr /\ Len(b) \in Nat
  BY <1>2, <1>3, <1>13, BlocksFit DEF b, tr
<1>15. Len(FlattenSeq(K)) <= lim
  BY <1>3 DEF Published
<1>16. Len(b) + lim <= tr
  BY <1>3, <1>4, <1>6, <1>14
<1>17. PICK M : Published(g, M, tr) /\ HeadOf(M) = ha /\ Before(M, b, K)
  <2> DEFINE M == <<b>> \o K  S == Seq(Nat)
  <2>1. K \in Seq(S) /\ b \in S
    BY <1>3, <1>13 DEF Published
  <2> HIDE DEF S
  <2>3. M \in Seq(S) /\ Before(M, b, K)
    BY <2>1, OnTop
  <2> HIDE DEF M
  <2>4. M \in Seq(Seq(Nat))
    BY <2>3 DEF S
  <2>2. Published(g, M, tr) /\ HeadOf(M) = b[1] /\ Before(M, b, K)
    BY <1>4, <1>6, <1>10, <1>12, <1>13, <1>15, <1>16, <2>3, <2>4, PublishedOnTop
  <2> QED
    BY <1>13, <2>2
<1>18. NewestHead(g) = ha
  BY <1>5, Zenon DEF NewestHead
<1>19. ASSUME Committed(parts)
       PROVE  Knows(file)'
  <2>8. /\ head_offset' = ha /\ next_seq' = next_seq + 1
        /\ prev_head_hash' = TableHash(hash_algo, HeadLink(parts), HeadEs(parts))
        /\ prev_head_algo' = hash_algo
    BY <1>19 DEF Committed, ha
  <2>1. /\ RecordAt(g, ha) = Record(parts) /\ Record(parts).seq = next_seq
    BY <1>2, <1>3, <1>5, <1>7, <1>9, <1>11, NewRecordIn, RecordFields DEF ha, tr
  <2>2. At(g, ha) = HeadHead(parts)
    BY <1>2, <1>3, <1>5, HeadLaid DEF ha
  <2>3. /\ HeadHead(parts).algo = hash_algo
        /\ HeadHead(parts).hash = TableHash(hash_algo, HeadLink(parts), HeadEs(parts))
    <3> DEFINE n == Len(HeadEs(parts))  x == TableHash(hash_algo, HeadLink(parts), HeadEs(parts))
               l == HeadLink(parts)
    <3>1. HeadHead(parts) = BlockCell(n, l, hash_algo, x)
      BY Zenon DEF HeadHead
    <3> HIDE DEF n, x, l
    <3>2. HeadHead(parts).algo = hash_algo /\ HeadHead(parts).hash = x
      BY <3>1 DEF BlockCell
    <3> QED
      BY <3>2 DEF x
  <2>4. next_seq \in Nat
    BY <1>3 DEF Knows
  <2>5. ha # 0
    <3>1. ha >= eof
      BY <1>2, <1>3, <1>5, HeadLaid DEF ha
    <3>2. ha \in Nat
      BY <1>2, <1>3, PlacesAre DEF ha
    <3> QED
      BY <1>3, <3>1, <3>2
  <2>6. /\ next_seq' \in Nat /\ head_offset' # 0
        /\ prev_head_algo' = At(file', head_offset').algo
        /\ prev_head_hash' = At(file', head_offset').hash
    BY <1>1, <2>2, <2>3, <2>4, <2>5, <2>8
  <2>7. /\ next_seq' = RecordAt(file', head_offset').seq + 1
        /\ RecordAt(file', head_offset').seq \in Nat
    BY <1>1, <2>1, <2>4, <2>8
  <2> QED
    BY <2>6, <2>7 DEF Knows
<1>20. ASSUME Unnoticed(parts)
       PROVE  Knows(file)'
  BY <1>1, <1>11, <1>20 DEF Unnoticed, SameHead, Knows
<1>21. NewestTrailer(file') = tr /\ NewestHead(file') = ha
  BY <1>1, <1>5, <1>18
<1> QED
  BY <1>1, <1>10, <1>17, <1>19, <1>20, <1>21 DEF b, ha

\* One that does not end publishes nothing and loses nothing.
LEMMA PartlyKeeps ==
    ASSUME NEW D, SoundSessions(D), StayInv, NEW parts, NEW k, Partly(parts, k),
           NEW N, NEW K, Holds(N, K)
    PROVE  Holds(N, K)' /\ NewestTrailer(file') = NewestTrailer(file)
<1> DEFINE g == After(parts, k)  lim == NewestTrailer(file)
<1>1. /\ open /\ parts \in Sessions /\ k \in 0..Len(Cells(parts)) /\ k # Len(Cells(parts))
      /\ file' = g
      /\ open' => SameHead
  BY DEF Partly
<1>2. PlainSessions(D) /\ parts \in Seq(Partitions(D))
  BY <1>1 DEF SoundSessions, PlainSessions
<1>3. /\ head_offset = HeadOf(K) /\ Knows(file) /\ Trails(N, K) /\ HeadOf(N) = NewestHead(file)
      /\ Published(file, N, lim) /\ Published(file, K, lim)
  BY <1>1 DEF Holds
<1>4. NewestTrailer(g) = lim
  <2>1. Trailers(g) = Trailers(file)
    BY <1>1, <1>2, <1>3, PartialTrailers
  <2> QED
    BY <2>1, Zenon DEF NewestTrailer
<1>5. /\ \A o \in 0..lim : At(g, o) = At(file, o)
      /\ Len(file) <= Len(g) /\ lim \in Nat /\ \E C2 : g \in Seq(C2)
  BY <1>1, <1>2, <1>3, AfterAgrees
<1>6. PICK C2 : g \in Seq(C2)
  BY <1>5
<1> HIDE DEF g, lim
<1>7. lim <= lim
  BY <1>5
<1>8. /\ Published(g, N, lim) /\ Published(g, K, lim) /\ At(g, lim).head = NewestHead(file)
      /\ (HeadOf(K) # 0 => RecordKept(file, g, HeadOf(K)))
  BY <1>3, <1>5, <1>6, <1>7, HistoryKept DEF lim
<1>9. NewestHead(g) = NewestHead(file)
  BY <1>4, <1>8, Zenon DEF NewestHead
<1>10. Knows(g)
  BY <1>3, <1>8, KnowsStill
<1>11. open' => head_offset' = HeadOf(K) /\ Knows(file)'
  BY <1>1, <1>3, <1>10, Zenon DEF Knows, SameHead
<1>12. NewestTrailer(file') = lim /\ HeadOf(N) = NewestHead(file')
  BY <1>1, <1>3, <1>4, <1>9
<1> QED
  BY <1>1, <1>3, <1>8, <1>11, <1>12 DEF lim, Holds

\* What a reader reads of the newest session of a history.
LEMMA KnownRead ==
    ASSUME StayInv, NEW K, Published(file, K, NewestTrailer(file)), HeadOf(K) # 0
    PROVE  /\ BlockAt(file, HeadOf(K)) = At(file, HeadOf(K))
           /\ SessionRecord(file, HeadOf(K)) = RecordAt(file, HeadOf(K))
           /\ RecordAt(file, HeadOf(K)).seq \in Nat
<1> DEFINE lim == NewestTrailer(file)  b == K[1]  older == OlderOf(K, 1)
<1>1. PICK C : file \in Seq(C)
  BY DEF StayInv
<1>2. lim \in Nat /\ lim <= Len(file)
  <2>1. lim \in 1..(Len(file) - 1) /\ Len(file) \in Nat
    BY TrailersAre DEF NewestTrailer
  <2> HIDE DEF lim
  <2> QED
    BY <2>1
<1>3. Len(K) \in Nat
  BY HistoryIs
<1>4. 1 \in 1..Len(K) /\ HeadOf(K) = b[1]
  <2>1. Len(K) # 0 => 1 \in 1..Len(K)
    BY <1>3
  <2> QED
    BY <2>1, Zenon DEF HeadOf
<1>5. b \in Seq(Nat) /\ Len(b) >= 1 /\ SessionIn(file, b, older, lim)
  BY <1>4, HistoryIs
<1> HIDE DEF b, older, lim
<1>6. SessionRecord(file, b[1]) = RecordAt(file, b[1])
  BY <1>1, <1>2, <1>5, RecordRead
<1>7. BlockAt(file, b[1]) = At(file, b[1])
  <2> DEFINE k == 1
  <2>1. k \in 1..Len(b)
    BY <1>5
  <2> HIDE DEF k
  <2>2. BlockAt(file, b[k]) = At(file, b[k])
    BY <1>1, <1>2, <1>5, <2>1, MemberOf
  <2> QED
    BY <2>2 DEF k
<1>8. RecordAt(file, b[1]).seq \in Nat
  BY <1>5, Zenon DEF SessionIn, RecordIn
<1> QED
  BY <1>4, <1>6, <1>7, <1>8

\* The head that the newest trailer leads a reader to.
LEMMA NewestIs ==
    ASSUME StayInv, NEW N, HeadOf(N) = NewestHead(file)
    PROVE  ResolveHead(file) = HeadOf(N)
<1>1. file[1].pto = Sentinel
  BY DEF StayInv, HeaderCell
<1> QED
  BY <1>1, Zenon DEF ResolveHead, NewestHead, NewestTrailer, At

LEMMA LogInit ==
    ASSUME Init
    PROVE  LogInv
<1>1. StayInv
  BY StayInit
<1>2. file = <<HeaderCell(Sentinel), TrailerCell(0)>> /\ Len(file) = 2
  BY DEF Init
<1>3. DOMAIN file = 1..2 /\ file[1].t = "hdr" /\ file[2].t = "trl" /\ file[2].head = 0
  BY <1>2 DEF HeaderCell, TrailerCell
<1>4. Counted(file)
  BY <1>3 DEF Counted
<1>5. NewestTrailer(file) = 1
  <2>1. Max(Trailers(file)) \in 1..(Len(file) - 1)
    BY <1>1, TrailersAre
  <2> DEFINE m == Max(Trailers(file))
  <2>2. m \in 1..(2 - 1)
    BY <1>2, <2>1
  <2> HIDE DEF m
  <2>3. m = 1
    BY <2>2
  <2> QED
    BY <2>3 DEF m, NewestTrailer
<1>6. NewestHead(file) = 0
  BY <1>3, <1>5 DEF NewestHead, At
<1>7. Published(file, <<>>, NewestTrailer(file)) /\ HeadOf(<<>>) = 0
  <2>1. <<>> \in Seq(Seq(Nat)) /\ Len(<<>>) = 0
    OBVIOUS
  <2>2. Len(FlattenSeq(<<>>)) <= 1
    BY FlattenEmpty
  <2>3. Published(file, <<>>, 1)
    <3> DEFINE e == <<>>
    <3>1. e \in Seq(Seq(Nat)) /\ 1..Len(e) = {} /\ Len(FlattenSeq(e)) <= 1
      BY <2>1, <2>2
    <3> HIDE DEF e
    <3>2. Published(file, e, 1)
      BY <3>1 DEF Published
    <3> QED
      BY <3>2 DEF e
  <2> QED
    BY <1>5, <2>1, <2>3 DEF HeadOf
<1>8. head_offset = 0 /\ Knows(file)
  BY DEF Init, Knows
<1>9. \E N : Holds(N, N)
  BY <1>6, <1>7, <1>8 DEF Holds, Trails
<1> QED
  BY <1>1, <1>4, <1>9 DEF LogInv

LEMMA OpenKnows ==
    ASSUME LogInv, Open
    PROVE  head_offset' = NewestHead(file) /\ Knows(file)' /\ file' = file
<1>1. PICK N : Published(file, N, NewestTrailer(file)) /\ HeadOf(N) = NewestHead(file)
  BY DEF LogInv, Holds
<1> DEFINE h == HeadOf(N)
<1>2. /\ ResolveHead(file) = h
      /\ h # 0 => /\ BlockAt(file, h) = At(file, h)
                  /\ SessionRecord(file, h) = RecordAt(file, h)
                  /\ RecordAt(file, h).seq \in Nat
  BY <1>1, NewestIs, KnownRead DEF LogInv
<1> HIDE DEF h
<1>3. /\ head_offset' = h /\ file' = file
      /\ prev_head_hash' = IF h = 0 THEN <<>> ELSE BlockAt(file, h).hash
      /\ prev_head_algo' = IF h = 0 THEN "None" ELSE BlockAt(file, h).algo
      /\ next_seq' = IF h = 0 THEN 1 ELSE SessionRecord(file, h).seq + 1
  BY <1>2, Zenon DEF Open
<1>4. CASE h = 0
  <2>1. /\ head_offset' = 0 /\ prev_head_hash' = <<>> /\ prev_head_algo' = "None" /\ next_seq' = 1
    BY <1>3, <1>4
  <2>2. Knows(file)'
    BY <2>1 DEF Knows
  <2> QED
    BY <1>1, <1>3, <2>2 DEF h
<1>5. CASE h # 0
  <2>1. /\ head_offset' # 0 /\ prev_head_hash' = At(file', head_offset').hash
        /\ prev_head_algo' = At(file', head_offset').algo
        /\ next_seq' = RecordAt(file', head_offset').seq + 1
        /\ RecordAt(file', head_offset').seq \in Nat
    BY <1>2, <1>3, <1>5
  <2>2. next_seq' \in Nat
    BY <2>1
  <2>3. Knows(file)'
    BY <2>1, <2>2 DEF Knows
  <2> QED
    BY <1>1, <1>3, <2>3 DEF h
<1> QED
  BY <1>4, <1>5

\* What holds after a commit whose writes are done.
LEMMA EndsHold ==
    ASSUME NEW D, SoundSessions(D), StayInv, NEW parts, Appended(parts),
           NEW N, NEW K, Holds(N, K)
    PROVE  \E M : /\ Before(M, NewBlocks(parts), K)
                  /\ Committed(parts) => Holds(M, M)'
                  /\ Unnoticed(parts) => Holds(M, K)'
<1>1. PICK M :
        /\ Published(file', M, NewestTrailer(file')) /\ HeadOf(M) = NewestHead(file')
        /\ HeadOf(M) = HeadAt(parts) /\ Before(M, NewBlocks(parts), K)
        /\ Published(file', K, NewestTrailer(file'))
        /\ Committed(parts) => Knows(file)'
        /\ Unnoticed(parts) => Knows(file)'
  BY CommitPublishes
<1>2. ASSUME Committed(parts)
      PROVE  Holds(M, M)'
  <2>1. head_offset' = HeadOf(M) /\ Knows(file)'
    BY <1>1, <1>2 DEF Committed
  <2> QED
    BY <1>1, <2>1 DEF Holds, Trails
<1>3. ASSUME Unnoticed(parts)
      PROVE  Holds(M, K)'
  <2>1. head_offset' = HeadOf(K) /\ Knows(file)'
    BY <1>1, <1>3 DEF Unnoticed, Appended, SameHead, Holds
  <2>2. Trails(M, K)
    BY <1>1 DEF Trails
  <2> QED
    BY <1>1, <2>1, <2>2 DEF Holds
<1> QED
  BY <1>1, <1>2, <1>3

LEMMA LogNext ==
    ASSUME NEW D, SoundSessions(D), LogInv, [Next]_vars
    PROVE  LogInv'
<1>1. StayInv /\ PlainSessions(D) /\ StayInv' /\ Counted(file)
  BY StayNext DEF LogInv, SoundSessions
<1>2. PICK N, K : Holds(N, K)
  BY DEF LogInv
<1>3. \A d \in D : d.t = "blk" => d.count \in 0..MaxEntries
  BY DEF SoundSessions
<1>4. CASE UNCHANGED vars
  BY <1>1, <1>2, <1>4 DEF vars, writer, LogInv, Holds, Knows
<1>5. ASSUME NEW parts, Committed(parts) \/ Unnoticed(parts)
      PROVE  LogInv'
  <2>1. Appended(parts)
    BY <1>5 DEF Committed, Unnoticed
  <2>2. parts \in Seq(Partitions(D)) /\ open /\ file' = After(parts, Len(Cells(parts)))
    BY <1>1, <2>1 DEF Appended, PlainSessions
  <2>3. \E M : Holds(M, M)' \/ Holds(M, K)'
    BY <1>1, <1>2, <1>5, <2>1, EndsHold
  <2>4. Counted(file')
    <3>1. Len(Cells(parts)) \in 0..Len(Cells(parts))
      <4>1. Len(Cells(parts)) \in Nat \ {0}
        BY <1>1, <2>2, WritesCount DEF Placed, StayInv
      <4> QED
        BY <4>1
    <3> QED
      BY <1>1, <1>3, <2>2, <3>1, AfterCounted
  <2> QED
    BY <1>1, <2>3, <2>4 DEF LogInv
<1>6. CASE \E parts, k : Partly(parts, k)
  <2>1. PICK parts, k : Partly(parts, k)
    BY <1>6
  <2>2. parts \in Seq(Partitions(D)) /\ open /\ k \in 0..Len(Cells(parts)) /\ file' = After(parts, k)
    BY <1>1, <2>1 DEF Partly, PlainSessions
  <2>3. Holds(N, K)'
    BY <1>1, <1>2, <2>1, PartlyKeeps
  <2>4. Counted(file')
    BY <1>1, <1>3, <2>2, AfterCounted
  <2> QED
    BY <1>1, <2>3, <2>4 DEF LogInv
<1>7. CASE Close
  <2>1. file' = file /\ open' = FALSE
    BY <1>7 DEF Close, Forget
  <2>2. Holds(N, K)'
    BY <1>2, <2>1 DEF Holds
  <2> QED
    BY <1>1, <2>1, <2>2 DEF LogInv
<1>8. CASE Open
  <2>1. head_offset' = NewestHead(file) /\ Knows(file)' /\ file' = file
    BY <1>8, OpenKnows
  <2>2. Holds(N, N)'
    BY <1>2, <2>1 DEF Holds, Trails
  <2> QED
    BY <1>1, <2>1, <2>2 DEF LogInv
<1> QED
  BY <1>1, <1>4, <1>5, <1>6, <1>7, <1>8, NextIs

\* In every state the file holds a whole history of sessions up to its newest
\* trailer, and an open handle knows the newest of them or the one before it.
THEOREM LogAlways ==
    ASSUME NEW D, SoundSessions(D)
    PROVE  Spec => []LogInv
<1>1. Init => LogInv
  BY LogInit
<1>2. LogInv /\ [Next]_vars => LogInv'
  BY LogNext
<1> QED
  BY <1>1, <1>2, PTL DEF Spec

\* The head that a reader finds is that of N, and the one before it that of K.
Placing ==
    \A N, K : Holds(N, K) =>
        /\ Newest = HeadOf(N)
        /\ \A b : Before(N, b, K) => /\ Newest # 0 /\ OlderThan(Newest) = HeadOf(K)
                                     /\ HeadOf(K) # HeadOf(N)

LEMMA HeadsRead ==
    ASSUME StayInv
    PROVE  Placing
<1> SUFFICES ASSUME NEW N, NEW K, Holds(N, K)
             PROVE  /\ Newest = HeadOf(N)
                    /\ \A b : Before(N, b, K) =>
                        /\ Newest # 0 /\ OlderThan(Newest) = HeadOf(K)
                        /\ HeadOf(K) # HeadOf(N)
  BY DEF Placing
<1>1. PICK C : file \in Seq(C)
  BY DEF StayInv
<1> DEFINE lim == NewestTrailer(file)
<1>2. lim \in Nat /\ lim <= Len(file)
  <2>1. lim \in 1..(Len(file) - 1) /\ Len(file) \in Nat
    BY TrailersAre DEF NewestTrailer
  <2> HIDE DEF lim
  <2> QED
    BY <2>1
<1>3. /\ Published(file, N, lim) /\ HeadOf(N) = NewestHead(file) /\ Published(file, K, lim)
  BY DEF Holds
<1> HIDE DEF lim
<1>4. Newest = HeadOf(N)
  BY <1>3, NewestIs DEF Newest
<1>5. ASSUME NEW b, Before(N, b, K)
      PROVE  /\ Newest # 0 /\ OlderThan(Newest) = HeadOf(K) /\ HeadOf(K) # HeadOf(N)
  <2>1. /\ Len(N) \in Nat /\ \A n \in 1..Len(N) : N[n][1] \in Nat \ {0}
                               /\ SessionIn(file, N[n], OlderOf(N, n), lim)
    BY <1>3, HistoryIs
  <2>2. Len(K) \in Nat /\ \A n \in 1..Len(K) : N[n + 1] = K[n]
    BY <1>3, <1>5, HistoryIs DEF Before
  <2>3. Len(N) = Len(K) + 1
    BY <1>5 DEF Before
  <2>4. 1 \in 1..Len(N) /\ HeadOf(N) = N[1][1]
    BY <2>2, <2>3 DEF HeadOf
  <2>5. HeadOf(N) # 0
    BY <2>1, <2>4
  <2>6. HeadOf(K) = OlderOf(N, 1)
    BY <2>2, <2>3 DEF HeadOf, OlderOf
  <2>7. HeadOf(K) # HeadOf(N)
    <3>1. CASE Len(K) = 0
      BY <2>5, <3>1 DEF HeadOf
    <3>2. CASE Len(K) # 0
      <4>1. HeadOf(K) = N[2][1] /\ 2 \in 1..Len(N)
        BY <2>2, <2>3, <3>2 DEF HeadOf
      <4>2. HeadOf(K) # 0
        BY <2>1, <4>1
      <4>3. RecordIn(file, N[1], HeadOf(K))
        BY <2>1, <2>4, <2>6 DEF SessionIn
      <4>4. RecordIn(file, N[2], OlderOf(N, 2))
        BY <2>1, <4>1 DEF SessionIn
      <4>5. RecordAt(file, HeadOf(K)).seq < RecordAt(file, N[1][1]).seq
        BY <4>2, <4>3, Zenon DEF RecordIn
      <4>6. RecordAt(file, HeadOf(K)).seq \in Nat
        BY <4>1, <4>4, Zenon DEF RecordIn
      <4> QED
        BY <2>4, <4>5, <4>6
    <3> QED
      BY <3>1, <3>2
  <2>8. Heads(file, HeadOf(N)) = [n \in 1..Len(N) |-> N[n][1]]
    BY <1>1, <1>2, <1>3, HeadsAre
  <2>9. OlderThan(HeadOf(N)) = HeadOf(K)
    <3> DEFINE hs == Heads(file, HeadOf(N))
    <3>1. Len(hs) = Len(N) /\ (Len(N) > 1 => hs[2] = N[2][1])
      BY <2>1, <2>8
    <3>2. OlderThan(HeadOf(N)) = IF Len(hs) > 1 THEN hs[2] ELSE 0
      BY Zenon DEF OlderThan
    <3> HIDE DEF hs
    <3>3. OlderOf(N, 1) = IF 1 < Len(N) THEN N[1 + 1][1] ELSE 0
      BY Zenon DEF OlderOf
    <3> QED
      BY <2>1, <2>6, <3>1, <3>2, <3>3
  <2> QED
    BY <1>4, <2>5, <2>7, <2>9
<1> QED
  BY <1>4, <1>5

LEMMA LogKnows ==
    ASSUME LogInv
    PROVE  WriterKnowsItsHead
<1>1. PICK N, K : Holds(N, K)
  BY DEF LogInv
<1>2. StayInv
  BY DEF LogInv
<1>3. ASSUME open
      PROVE  /\ head_offset = Newest \/ (Newest # 0 /\ head_offset = OlderThan(Newest))
             /\ head_offset # 0 =>
                /\ prev_head_hash = BlockAt(file, head_offset).hash
                /\ prev_head_algo = BlockAt(file, head_offset).algo
                /\ next_seq = SessionRecord(file, head_offset).seq + 1
             /\ head_offset = 0 => prev_head_algo = "None" /\ prev_head_hash = <<>>
                                     /\ next_seq = 1
  <2>1. /\ head_offset = HeadOf(K) /\ Knows(file) /\ Published(file, K, NewestTrailer(file))
        /\ Trails(N, K)
    BY <1>1, <1>3 DEF Holds
  <2>2. head_offset = Newest \/ (Newest # 0 /\ head_offset = OlderThan(Newest))
    BY <1>1, <1>2, <2>1, HeadsRead DEF Trails, Placing
  <2>3. head_offset # 0 => /\ BlockAt(file, head_offset) = At(file, head_offset)
                           /\ SessionRecord(file, head_offset) = RecordAt(file, head_offset)
    BY <1>2, <2>1, KnownRead
  <2> QED
    BY <2>1, <2>2, <2>3 DEF Knows
<1> QED
  BY <1>3 DEF WriterKnowsItsHead

\* However often commits failed under it, and at whichever write or flush, the
\* handle holds exactly what the file says of its newest session or of the one
\* before it, and so links and numbers its next session after one of these.
THEOREM WriterAlwaysKnows ==
    ASSUME NEW D, SoundSessions(D)
    PROVE  Spec => []WriterKnowsItsHead
<1>1. LogInv => WriterKnowsItsHead
  BY LogKnows
<1> QED
  BY <1>1, LogAlways, PTL

LEMMA LogVerifies ==
    ASSUME LogInv
    PROVE  AlwaysVerifies
<1>1. PICK N : Published(file, N, NewestTrailer(file)) /\ HeadOf(N) = NewestHead(file)
  BY DEF LogInv, Holds
<1>2. StayInv /\ Newest = HeadOf(N)
  BY <1>1, NewestIs DEF LogInv, Newest
<1>3. PICK C : file \in Seq(C)
  BY <1>2 DEF StayInv
<1> DEFINE lim == NewestTrailer(file)
<1>4. lim \in Nat /\ lim <= Len(file) /\ lim \in Trailers(file)
  <2>1. lim \in 1..(Len(file) - 1) /\ Len(file) \in Nat /\ lim \in Trailers(file)
    BY <1>2, TrailersAre DEF NewestTrailer
  <2> HIDE DEF lim
  <2> QED
    BY <2>1
<1>5. Published(file, N, lim)
  BY <1>1
<1>6. HeaderReadable(file)
  <2>1. file # <<>> /\ file[1].t = "hdr"
    BY <1>2, <1>3 DEF StayInv, HeaderCell
  <2> QED
    BY <1>4, <2>1 DEF HeaderReadable
<1> HIDE DEF lim
<1>7. Verify(file, Newest) /\ Scannable(file, Newest) /\ ChainVerifies(file, Newest)
  BY <1>2, <1>3, <1>4, <1>5, PublishedVerifies, PublishedScans, PublishedChains
<1> QED
  BY <1>6, <1>7 DEF AlwaysVerifies, LogInv, Counted

\* In every state, those a failed commit or a crash leaves included, a reader
\* accepts the whole file: every hash, every session and the chain between them.
THEOREM FileAlwaysVerifies ==
    ASSUME NEW D, SoundSessions(D)
    PROVE  Spec => []AlwaysVerifies
<1>1. LogInv => AlwaysVerifies
  BY LogVerifies
<1> QED
  BY <1>1, LogAlways, PTL


(***************************************************************************)
(* The refinement: a file that PfsCommit wrote is a log, and what a reader *)
(* finds in it is exactly the sessions that were committed, in their order.*)
(***************************************************************************)
-----------------------------------------------------------------------------
(* What a reader makes of the entries of a session.                        *)

\* The partition of an entry, if it is one.
PartOf(f, e) ==
    IF e.type = SessionType THEN <<>> ELSE <<[type |-> e.type, data |-> ReadData(f, e)]>>
PartRow(f, es) == [x \in 1..Len(es) |-> PartOf(f, es[x])]

\* All entries of a session, in chain order.
AllRows(f, b) == FlattenSeq(Rows(f, b))

LEMMA PartsRead ==
    ASSUME NEW C, NEW f \in Seq(C), NEW lim \in Nat, lim <= Len(f), NEW b \in Seq(Nat), NEW older,
           SessionIn(f, b, older, lim)
    PROVE  Parts(f, b[1]) = FlattenSeq(PartRow(f, AllRows(f, b)))
<1> DEFINE es == SessionEntries(f, b[1])
<1>1. es = AllRows(f, b) /\ DOMAIN es = 1..Len(es)
  <2>1. /\ SessionEntries(f, b[1]) = FlattenSeq(Rows(f, b))
        /\ DOMAIN SessionEntries(f, b[1]) = 1..Len(FlattenSeq(Rows(f, b)))
    BY EntriesRead
  <2> QED
    BY <2>1, Zenon DEF AllRows
<1>2. Parts(f, b[1]) = FlattenSeq([x \in DOMAIN es |-> PartOf(f, es[x])])
  BY Zenon DEF Parts, PartOf
<1> HIDE DEF es
<1> QED
  BY <1>1, <1>2, Zenon DEF PartRow

\* A session reads the same in a file that keeps it.
LEMMA PartsStay ==
    ASSUME NEW C, NEW f \in Seq(C), NEW C2, NEW g \in Seq(C2), NEW lim \in Nat,
           lim <= Len(f), lim <= Len(g), Agree(f, g, lim),
           NEW b \in Seq(Nat), NEW older, SessionIn(f, b, older, lim),
           NEW lim2 \in Nat, lim2 <= Len(g), SessionIn(g, b, older, lim2)
    PROVE  Parts(g, b[1]) = Parts(f, b[1])
<1> DEFINE es == AllRows(f, b)
<1>1. ASSUME NEW k \in 1..Len(b)
      PROVE  Row(g, b[k]) = Row(f, b[k])
  <2>1. BlockIn(f, b[k], lim) /\ lim <= lim
    BY MemberOf
  <2> QED
    BY <2>1, BlockStays
<1>2. AllRows(g, b) = es
  <2>1. Rows(g, b) = Rows(f, b)
    BY <1>1, Zenon DEF Rows
  <2> QED
    BY <2>1, Zenon DEF AllRows
<1>3. ASSUME NEW x \in 1..Len(es)
      PROVE  PartOf(g, es[x]) = PartOf(f, es[x])
  <2>1. PICK k \in 1..Len(b) : \E i \in 1..Count(f, b[k]) : es[x] = At(f, b[k] + i)
    BY EntriesRead DEF AllRows
  <2>2. PICK i \in 1..Count(f, b[k]) : es[x] = At(f, b[k] + i)
    BY <2>1
  <2>3. EntryIn(f, At(f, b[k] + i), lim)
    BY MemberOf
  <2> DEFINE e == es[x]
  <2>4. EntryIn(f, e, lim) /\ lim <= lim
    BY <2>2, <2>3
  <2> HIDE DEF e
  <2>5. ReadData(g, e) = ReadData(f, e)
    BY <2>4, EntryStays
  <2> QED
    BY <2>5, Zenon DEF PartOf, e
<1> HIDE DEF es
<1>4. PartRow(g, es) = PartRow(f, es)
  BY <1>3, Zenon DEF PartRow
<1>5. /\ Parts(f, b[1]) = FlattenSeq(PartRow(f, AllRows(f, b)))
      /\ Parts(g, b[1]) = FlattenSeq(PartRow(g, AllRows(g, b)))
  BY PartsRead
<1> QED
  BY <1>2, <1>4, <1>5, Zenon DEF es

-----------------------------------------------------------------------------
(* The new session.                                                        *)

\* How long the chunks are: all are full but the last, which takes what is left.
Rest(n) == n - HeadTake(n)
ChunkEnd(c, n, k) == IF k = c THEN Rest(n) ELSE k * MaxEntries

LEMMA ChunkSizes ==
    ASSUME NEW E, NEW es \in Seq(E), NEW c, c = Len(MemberChunks(es))
    PROVE  /\ c \in Nat /\ Rest(Len(es)) \in Nat /\ ChunkEnd(c, Len(es), 0) = 0
           /\ \A k \in 1..c : Len(MemberChunks(es)[k]) =
                ChunkEnd(c, Len(es), k) - (k - 1) * MaxEntries
<1> DEFINE le == Len(es)  t == HeadTake(le)  rest == SubSeq(es, t + 1, le)  lr == Len(rest)
           m == MaxEntries  n == (lr + m - 1) \div m
           part(j) == SubSeq(rest, (j - 1) * m + 1, Min({j * m, lr}))
<1>1. m \in Nat /\ m > 1
  BY CommitAssumption
<1>2. t \in 0..le /\ le \in Nat
  BY HeadTakeIs
<1>3. rest \in Seq(E) /\ lr = le - t /\ lr \in Nat
  <2> DEFINE x == t + 1
  <2>1. x \in Nat \ {0} /\ le \in 0..Len(es)
    BY <1>2
  <2> HIDE DEF x, t
  <2>2. /\ SubSeq(es, x, le) \in Seq(E)
        /\ Len(SubSeq(es, x, le)) = IF x <= le THEN le - x + 1 ELSE 0
    BY <2>1, SliceType
  <2>3. rest = SubSeq(es, x, le)
    BY DEF x
  <2> HIDE DEF rest, le
  <2>4. rest \in Seq(E) /\ lr = IF x <= le THEN le - x + 1 ELSE 0
    BY <2>2, <2>3
  <2> QED
    BY <1>2, <2>4 DEF x
<1>4. MemberChunks(es) = [j \in 1..n |-> part(j)]
  BY Zenon DEF MemberChunks
<1>5. Rest(le) = lr
  BY <1>3 DEF Rest
<1> HIDE DEF rest, lr, t, m, le
<1>6. n \in Nat /\ n * m <= lr + m - 1 /\ lr < n * m + 1 /\ (lr = 0 => n = 0)
  <2> DEFINE y == lr + m - 1
  <2>1. y \in Nat /\ m \in Nat \ {0} /\ n = y \div m
    BY <1>1, <1>3
  <2> HIDE DEF n
  <2>2. n \in Nat /\ n * m <= y /\ y < n * m + m
    <3> HIDE DEF y
    <3>1. y \div m \in Nat /\ (y \div m) * m <= y /\ y < (y \div m) * m + m
      BY <2>1
    <3> QED
      BY <2>1, <3>1
  <2>3. lr = 0 => n = 0
    BY <1>1, <2>1
  <2> DEFINE nm == n * m
  <2>4. nm \in Nat
    BY <1>1, <2>2
  <2> HIDE DEF nm
  <2>5. nm <= y /\ y < nm + m
    BY <2>2 DEF nm
  <2>6. lr < nm + 1
    BY <1>1, <1>3, <2>4, <2>5
  <2> QED
    BY <2>2, <2>3, <2>6 DEF nm
<1> HIDE DEF n, part
<1>7. c = n
  BY <1>4, <1>6
<1>8. ASSUME NEW k \in 1..n
      PROVE  Len(part(k)) = ChunkEnd(n, le, k) - (k - 1) * m
  <2> DEFINE p == (k - 1) * m  q == k * m  nm == n * m
  <2>1. /\ p \in Nat /\ q \in Nat /\ q = p + m /\ nm \in Nat /\ q <= nm
        /\ (k # n => q + m <= nm) /\ (k = n => q = nm)
    <3> DEFINE j == k - 1  i == k + 1
    <3>1. j \in Nat /\ k \in Nat /\ j + 1 = k /\ k <= n /\ i \in Nat /\ (k # n => i <= n)
      BY <1>6
    <3>2. j * m \in Nat /\ (j + 1) * m = j * m + m /\ (k + 1) * m = k * m + m
      BY <1>1, <3>1, Products
    <3>3. k * m <= n * m /\ n * m \in Nat /\ k * m \in Nat /\ (i <= n => i * m <= n * m)
      BY <1>1, <1>6, <3>1, Products
    <3> QED
      BY <3>1, <3>2, <3>3
  <2>2. nm <= lr + m - 1 /\ lr < nm + 1
    BY <1>6
  <2> DEFINE x == p + 1  y == Min({q, lr})
  <2>3. ChunkEnd(n, le, k) = IF k = n THEN lr ELSE q
    BY <1>5, Zenon DEF ChunkEnd, m
  <2> HIDE DEF p, q, nm
  <2>4. y = IF q <= lr THEN q ELSE lr
    BY <1>3, <2>1, MinOfTwo
  <2> HIDE DEF y
  <2>9. m \in Nat /\ m > 1 /\ lr \in Nat
    BY <1>1, <1>3, Zenon
  <2>10. p < lr /\ (k = n => lr <= q) /\ (k # n => q < lr)
    BY <2>1, <2>2, <2>9
  <2>5. y = IF k = n THEN lr ELSE q
    <3>1. k = n => y = lr
      BY <2>1, <2>4, <2>9, <2>10
    <3>2. k # n => y = q
      BY <2>1, <2>4, <2>9, <2>10
    <3> QED
      BY <3>1, <3>2, Zenon
  <2>6. x \in Nat \ {0} /\ y \in 0..lr /\ y - x + 1 = y - p /\ (~(x <= y) => y - p = 0)
    BY <2>1, <2>4, <2>9, <2>10
  <2>7. Len(SubSeq(rest, x, y)) = y - p
    <3>1. y \in 0..Len(rest)
      BY <2>6 DEF lr
    <3> HIDE DEF x
    <3>2. Len(SubSeq(rest, x, y)) = IF x <= y THEN y - x + 1 ELSE 0
      BY <1>3, <2>6, <3>1, SliceType
    <3> QED
      BY <2>6, <3>2
  <2>8. part(k) = SubSeq(rest, x, y)
    BY Zenon DEF part, p, q, y
  <2> QED
    BY <2>3, <2>5, <2>7, <2>8, Zenon DEF p
<1>9. ChunkEnd(n, le, 0) = 0
  <2>1. n = 0 => lr = 0
    BY <1>1, <1>3, <1>6
  <2>2. 0 * m = 0
    BY <1>1
  <2> QED
    BY <1>5, <2>1, <2>2, Zenon DEF ChunkEnd, m
<1>10. \A k \in 1..n : MemberChunks(es)[k] = part(k)
  BY <1>4, Zenon
<1> QED
  BY <1>3, <1>5, <1>6, <1>7, <1>8, <1>9, <1>10, Zenon DEF le, m

\* A sequence of one empty and otherwise one-element rows.
Spread(s, p) ==
    Len(s) = Len(p) + 1 /\ s[1] = <<>> /\ \A x \in 1..Len(p) : s[x + 1] = <<p[x]>>

LEMMA SeqIs ==
    ASSUME NEW S, NEW m \in Nat, NEW s, s = [x \in 1..m |-> s[x]], \A x \in 1..m : s[x] \in S
    PROVE  s \in Seq(S) /\ Len(s) = m
OBVIOUS

LEMMA FlattenSpread ==
    ASSUME NEW S, NEW p \in Seq(S), NEW s \in Seq(Seq(S)), Spread(s, p)
    PROVE  FlattenSeq(s) = p
<1> DEFINE n == Len(p)  T == {k \in Nat : Len(Upto(s, k + 1)) = k}  z == FlattenSeq(s)
<1>1. n \in Nat /\ Len(s) = n + 1 /\ s[1] = <<>> /\ \A x \in 1..n : s[x + 1] = <<p[x]>>
  BY DEF Spread
<1>2. 0 \in T
  <2> DEFINE j == 1
  <2>1. j \in 1..Len(s) /\ j - 1 = 0 /\ j = 0 + 1
    BY <1>1
  <2>2. Len(Upto(s, j)) = Len(Upto(s, j - 1)) + Len(s[j])
    <3> HIDE DEF j
    <3> QED
      BY <2>1, UptoNext
  <2>3. Upto(s, 0) = <<>>
    BY UptoNone
  <2>4. Len(Upto(s, j)) = 0
    BY <1>1, <2>2, <2>3
  <2> QED
    BY <2>1, <2>4
<1>3. ASSUME NEW k \in 0..(n - 1), k \in T
      PROVE  k + 1 \in T
  <2> DEFINE x == k + 1  j == x + 1
  <2>1. x \in 1..n /\ j \in 1..Len(s) /\ j - 1 = x /\ x \in Nat
    BY <1>1
  <2>2. Len(s[j]) = 1
    <3> DEFINE v == p[x]
    <3>1. s[j] = <<v>>
      BY <1>1, <2>1
    <3> HIDE DEF v, j, x
    <3> QED
      BY <3>1
  <2>3. Len(Upto(s, x)) = k
    BY <1>3
  <2> HIDE DEF x, j
  <2>4. Len(Upto(s, j)) = Len(Upto(s, x)) + Len(s[j])
    BY <2>1, UptoNext
  <2>5. Len(Upto(s, j)) = x
    BY <2>2, <2>3, <2>4 DEF x
  <2> QED
    BY <2>1, <2>5 DEF x, j
<1> HIDE DEF T
<1>4. 0..n \subseteq T
  <2> HIDE DEF n
  <2> QED
    BY <1>1, <1>2, <1>3, UpTo
<1>5. Len(z) = n
  <2>1. n \in T
    <3> HIDE DEF n
    <3> QED
      BY <1>1, <1>4
  <2>2. Len(Upto(s, n + 1)) = n
    BY <2>1 DEF T
  <2>3. Upto(s, Len(s)) = z
    BY UptoAll
  <2> QED
    BY <1>1, <2>2, <2>3
<1>6. ASSUME NEW x \in 1..n
      PROVE  z[x] = p[x]
  <2> DEFINE j == x + 1  i == 1  k == x - 1
  <2>1. j \in 1..Len(s) /\ j - 1 = x /\ k \in 0..n /\ k + 1 = x
    BY <1>1
  <2>2. s[j] = <<p[x]>>
    BY <1>1
  <2>3. i \in 1..Len(s[j]) /\ s[j][i] = p[x]
    BY <2>2
  <2>4. Len(Upto(s, x)) = k
    <3>1. k \in T
      BY <1>4, <2>1
    <3> QED
      BY <2>1, <3>1 DEF T
  <2> HIDE DEF j, i
  <2>5. FlattenSeq(s)[Len(Upto(s, j - 1)) + i] = s[j][i]
    BY <2>1, <2>3, FlattenAt
  <2>6. Len(Upto(s, j - 1)) + i = x
    BY <2>1, <2>4 DEF i
  <2> QED
    BY <2>3, <2>5, <2>6
<1>7. z \in Seq(S)
  BY FlattenType
<1> HIDE DEF z, n
<1>8. DOMAIN z = 1..n /\ z = [x \in 1..n |-> z[x]] /\ p = [x \in 1..n |-> p[x]]
  BY <1>5, <1>7 DEF n
<1> QED
  BY <1>6, <1>8, Zenon DEF z

\* How many entries a block of the new session holds.
HeldSize(c, n, k) ==
    IF k = 1 THEN 1 + HeadTake(n) ELSE ChunkEnd(c, n, k - 1) - (k - 2) * MaxEntries

LEMMA HeldSizes ==
    ASSUME NEW D, NEW parts \in Seq(Partitions(D)), Placed, NEW k \in 1..Len(NewBlocks(parts))
    PROVE  Len(Held(parts, k)) = HeldSize(Len(Chunks(parts)), Len(parts), k)
<1> DEFINE n == Len(parts)  c == Len(Chunks(parts))
<1>0. n \in Nat
  OBVIOUS
<1> HIDE DEF n, c
<1>1. /\ Len(NewBlocks(parts)) = c + 1 /\ c \in Nat
  BY NewBlocksAre DEF c
<1>2. CASE k = 1
  <2>1. Held(parts, k) = HeadEs(parts)
    BY <1>2, Zenon DEF Held
  <2>2. Len(HeadEs(parts)) = HeadTake(n) + 1
    BY HeadEsIs DEF n
  <2>3. HeadTake(n) \in Nat
    <3>1. HeadTake(n) \in 0..n
      BY <1>0, HeadTakeIs
    <3> QED
      BY <1>0, <3>1
  <2>4. Len(Held(parts, k)) = 1 + HeadTake(n)
    BY <2>1, <2>2, <2>3
  <2> QED
    BY <1>2, <2>4, Zenon DEF HeldSize, n
<1>3. CASE k # 1
  <2> DEFINE j == k - 1  E == Ents(parts)  es == Es(parts)
  <2>1. j \in 1..c /\ j - 1 = k - 2
    BY <1>1, <1>3
  <2>2. es \in Seq(E) /\ Len(es) = n
    BY EsIs DEF n
  <2>3. c = Len(MemberChunks(es)) /\ Held(parts, k) = MemberChunks(es)[j]
    BY <1>3, Zenon DEF Chunks, Held, c
  <2> HIDE DEF j, E, es
  <2>4. Len(MemberChunks(es)[j]) = ChunkEnd(c, n, j) - (j - 1) * MaxEntries
    BY <2>1, <2>2, <2>3, ChunkSizes
  <2> QED
    BY <1>3, <2>1, <2>3, <2>4, Zenon DEF j, HeldSize, n, c
<1> QED
  BY <1>2, <1>3

\* The rows are as long as the blocks of the new session, of which the first
\* k + 1 hold the session entry and the entries of as many partitions as there
\* is room for.
RowsOf(rs, parts) ==
    /\ Len(rs) = Len(NewBlocks(parts))
    /\ \A k \in 1..Len(rs) : Len(rs[k]) = Len(Held(parts, k))
Filled(rs, c, n) ==
    \A k \in 0..c : Len(Upto(rs, k + 1)) = 1 + HeadTake(n) + ChunkEnd(c, n, k)

LEMMA RowsFilled ==
    ASSUME NEW D, NEW parts \in Seq(Partitions(D)), Placed, NEW E, NEW rs \in Seq(Seq(E)),
           RowsOf(rs, parts)
    PROVE  Filled(rs, Len(Chunks(parts)), Len(parts))
<1> SUFFICES ASSUME NEW n, n = Len(parts), NEW c, c = Len(Chunks(parts))
             PROVE  Filled(rs, c, n)
  OBVIOUS
<1>0. Len(rs) = Len(NewBlocks(parts)) /\ \A k \in 1..Len(rs) : Len(rs[k]) = Len(Held(parts, k))
  BY Zenon DEF RowsOf
<1> DEFINE t == HeadTake(n)  m == MaxEntries  T == {k \in Nat : k <= c => Len(Upto(rs, k + 1)) = 1 + t + ChunkEnd(c, n, k)}
<1>1. Len(NewBlocks(parts)) = c + 1 /\ c \in Nat /\ n \in Nat
  BY NewBlocksAre
<1>2. t \in Nat /\ m \in Nat
  BY <1>1, HeadTakeIs, CommitAssumption
<1>3. ChunkEnd(c, n, 0) = 0 /\ Rest(n) \in Nat
  <2> DEFINE es == Es(parts)  X == Ents(parts)
  <2>1. es \in Seq(X) /\ Len(es) = n
    BY EsIs
  <2>2. c = Len(MemberChunks(es))
    BY Zenon DEF Chunks
  <2> HIDE DEF es, X
  <2> QED
    BY <2>1, <2>2, ChunkSizes
<1>4. 0 \in T
  <2> DEFINE j == 1
  <2>1. j \in 1..Len(rs) /\ j - 1 = 0 /\ j = 0 + 1 /\ j \in 1..Len(NewBlocks(parts))
    BY <1>0, <1>1
  <2>2. Len(Upto(rs, j)) = Len(Upto(rs, j - 1)) + Len(rs[j])
    <3> HIDE DEF j
    <3> QED
      BY <2>1, UptoNext
  <2>3. Len(Upto(rs, 0)) = 0
    BY UptoNone
  <2>4. Len(rs[j]) = 1 + t
    <3>1. j = 1
      OBVIOUS
    <3> HIDE DEF j
    <3>2. Len(Held(parts, j)) = HeldSize(c, n, j)
      BY <2>1, HeldSizes
    <3>3. Len(Held(parts, j)) = 1 + t
      BY <3>1, <3>2 DEF HeldSize
    <3> QED
      BY <1>0, <2>1, <3>3
  <2>5. Len(Upto(rs, j)) = 1 + t
    BY <1>2, <2>1, <2>2, <2>3, <2>4
  <2> QED
    BY <1>2, <1>3, <2>1, <2>5
<1>5. ASSUME NEW k \in 0..(c - 1), k \in T
      PROVE  k + 1 \in T
  <2> DEFINE x == k + 1  j == x + 1
  <2>1. /\ x \in 1..c /\ j \in 1..Len(rs) /\ j - 1 = x /\ j - 2 = k /\ x \in Nat /\ j # 1
        /\ j \in 1..Len(NewBlocks(parts)) /\ k <= c /\ k # c
    <3> DEFINE lr == Len(rs)  lb == Len(NewBlocks(parts))
    <3>1. lr = c + 1 /\ lb = c + 1 /\ c \in Nat
      BY <1>0, <1>1
    <3> HIDE DEF lr, lb
    <3>2. /\ x \in 1..c /\ j \in 1..lr /\ j - 1 = x /\ j - 2 = k /\ x \in Nat /\ j # 1
          /\ j \in 1..lb /\ k <= c /\ k # c
      BY <3>1
    <3> QED
      BY <3>2 DEF lr, lb
  <2>2. Len(Upto(rs, x)) = 1 + t + ChunkEnd(c, n, k)
    BY <1>5, <2>1
  <2> HIDE DEF x, j
  <2>3. Len(Upto(rs, j)) = Len(Upto(rs, x)) + Len(rs[j])
    BY <2>1, UptoNext
  <2>4. Len(rs[j]) = ChunkEnd(c, n, x) - k * m
    <3>3. j \in 1..Len(NewBlocks(parts)) /\ j # 1
      BY <2>1
    <3>4. Len(Held(parts, j)) = HeldSize(c, n, j)
      BY <3>3, HeldSizes
    <3>1. Len(Held(parts, j)) = ChunkEnd(c, n, j - 1) - (j - 2) * MaxEntries
      BY <3>3, <3>4, Zenon DEF HeldSize
    <3>2. Len(rs[j]) = Len(Held(parts, j))
      BY <1>0, <2>1
    <3> QED
      BY <2>1, <3>1, <3>2, Zenon DEF m
  <2>5. ChunkEnd(c, n, k) = k * m
    BY <2>1, Zenon DEF ChunkEnd
  <2>6. ChunkEnd(c, n, x) \in Nat /\ k * m \in Nat
    <3>1. x * m \in Nat /\ k * m \in Nat
      <4>1. k \in Nat /\ x \in Nat
        BY <2>1
      <4> HIDE DEF m
      <4> QED
        BY <1>2, <4>1
    <3> QED
      BY <1>3, <3>1 DEF ChunkEnd
  <2> DEFINE u == k * m  v == ChunkEnd(c, n, x)
  <2>7. Len(Upto(rs, j)) = 1 + t + v
    <3>1. Len(Upto(rs, j)) = (1 + t + u) + (v - u)
      BY <2>2, <2>3, <2>4, <2>5, Zenon
    <3>2. u \in Nat /\ v \in Nat
      BY <2>6
    <3> HIDE DEF u, v, t
    <3> QED
      BY <1>2, <3>1, <3>2
  <2> QED
    BY <2>1, <2>7 DEF x, j
<1> HIDE DEF T
<1>6. 0..c \subseteq T
  BY <1>1, <1>4, <1>5, UpTo
<1> SUFFICES ASSUME NEW k \in 0..c
             PROVE  Len(Upto(rs, k + 1)) = 1 + t + ChunkEnd(c, n, k)
  BY Zenon DEF Filled, t
<1>7. k \in T
  BY <1>6
<1>8. k <= c
  BY <1>1
<1> QED
  BY <1>7, <1>8 DEF T

\* The entries of the new session as the reader finds them: the session entry,
\* then those of the partitions in their order.
LEMMA NewRows ==
    ASSUME NEW D, NEW parts \in Seq(Partitions(D)), Placed, eof # 0, NEW C, NEW g \in Seq(C),
           Laid(g, parts), Len(g) >= TrailerAt(parts), Sound(parts), NilApart, next_seq \in Nat,
           NEW b, b = NewBlocks(parts), NEW n, n = Len(parts)
    PROVE  /\ AllRows(g, b) \in Seq(Entered(g, b)) /\ Len(AllRows(g, b)) = n + 1
           /\ AllRows(g, b)[1] = SesEntry(parts)
           /\ \A x \in 1..n : AllRows(g, b)[x + 1] = Es(parts)[x]
<1> DEFINE rs == Rows(g, b)  E == Entered(g, b)  es == AllRows(g, b)  c == Len(Chunks(parts))
           t == HeadTake(n)  m == MaxEntries  lb == Len(b)
<1>1. /\ b \in Seq(Nat) /\ lb = c + 1 /\ c \in Nat /\ n \in Nat
  BY NewBlocksAre
<1>2. ASSUME NEW k \in 1..Len(b)
      PROVE  /\ Count(g, b[k]) \in Nat /\ Count(g, b[k]) = Len(Held(parts, k))
             /\ \A i \in 1..Count(g, b[k]) : At(g, b[k] + i) = Held(parts, k)[i]
  <2> DEFINE o == b[k]
  <2>1. k \in 1..Len(NewBlocks(parts)) /\ o = NewBlocks(parts)[k]
    BY <1>2
  <2> HIDE DEF o
  <2>2. /\ Count(g, o) = Len(Held(parts, k))
        /\ \A i \in 1..Count(g, o) : At(g, o + i) = Held(parts, k)[i]
    BY <2>1, NewBlockIn
  <2>3. Len(Held(parts, k)) \in 1..MaxEntries
    BY <2>1, HeldIs
  <2>4. Count(g, o) \in Nat
    BY <2>2, <2>3
  <2> QED
    BY <2>2, <2>4 DEF o
<1>3. /\ rs \in Seq(Seq(E)) /\ Len(rs) = lb
      /\ \A k \in 1..lb : Len(rs[k]) = Len(Held(parts, k))
      /\ \A k \in 1..lb : \A i \in 1..Len(rs[k]) : rs[k][i] = Held(parts, k)[i]
  <2>1. /\ rs \in Seq(Seq(E)) /\ Len(rs) = Len(b)
        /\ \A k \in 1..Len(b) : /\ rs[k] = Row(g, b[k]) /\ Len(Row(g, b[k])) = Count(g, b[k])
                                /\ \A i \in 1..Count(g, b[k]) : Row(g, b[k])[i] = At(g, b[k] + i)
    <3>1. b \in Seq(Nat) /\ Counts(g, b)
      BY <1>1, <1>2 DEF Counts
    <3> QED
      BY <3>1, RowsAre
  <2> HIDE DEF rs, E
  <2>2. \A k \in 1..Len(b) : Len(rs[k]) = Len(Held(parts, k))
    BY <1>2, <2>1, Zenon
  <2>3. ASSUME NEW k \in 1..Len(b), NEW i \in 1..Len(rs[k])
        PROVE  rs[k][i] = Held(parts, k)[i]
    <3>1. rs[k] = Row(g, b[k]) /\ i \in 1..Count(g, b[k])
      BY <2>1, <2>3, Zenon
    <3>2. Row(g, b[k])[i] = At(g, b[k] + i)
      BY <2>1, <3>1, Zenon
    <3>3. At(g, b[k] + i) = Held(parts, k)[i]
      BY <1>2, <3>1, Zenon
    <3> QED
      BY <3>1, <3>2, <3>3, Zenon
  <2> QED
    BY <2>1, <2>2, <2>3
<1>4. es = FlattenSeq(rs)
  BY Zenon DEF AllRows
<1>5. t \in Nat /\ m \in Nat
  BY <1>1, HeadTakeIs, CommitAssumption
<1>6. \A k \in 0..c : Len(Upto(rs, k + 1)) = 1 + t + ChunkEnd(c, n, k)
  <2> HIDE DEF rs, E
  <2>1. RowsOf(rs, parts)
    BY <1>3, Zenon DEF RowsOf, lb
  <2>2. Filled(rs, Len(Chunks(parts)), Len(parts))
    BY <1>3, <2>1, RowsFilled
  <2> QED
    BY <2>2, Zenon DEF Filled, t, c
<1> HIDE DEF rs, E, es, c, t, m, lb
<1>7. es \in Seq(E)
  BY <1>3, <1>4, FlattenType
<1>8. Len(es) = n + 1
  <2>1. c \in 0..c
    BY <1>1
  <2>2. Len(Upto(rs, c + 1)) = 1 + t + ChunkEnd(c, n, c)
    BY <1>6, <2>1
  <2>3. ChunkEnd(c, n, c) = n - t
    BY Zenon DEF ChunkEnd, Rest, t
  <2>4. Upto(rs, c + 1) = es
    <3>1. Upto(rs, Len(rs)) = es
      BY <1>3, <1>4, UptoAll
    <3> QED
      BY <1>1, <1>3, <3>1
  <2> QED
    BY <1>1, <1>5, <2>2, <2>3, <2>4
<1>9. ASSUME NEW x \in 1..(n + 1)
      PROVE  \/ x = 1 /\ es[x] = SesEntry(parts)
             \/ x # 1 /\ es[x] = Es(parts)[x - 1]
  <2>1. x \in 1..Len(FlattenSeq(rs))
    BY <1>4, <1>8
  <2>2. PICK k \in 1..Len(rs) : \E i \in 1..Len(rs[k]) : x = Len(Upto(rs, k - 1)) + i
    BY <1>3, <2>1, FlattenWhere
  <2>3. PICK i \in 1..Len(rs[k]) : x = Len(Upto(rs, k - 1)) + i
    BY <2>2
  <2>4. FlattenSeq(rs)[Len(Upto(rs, k - 1)) + i] = rs[k][i]
    BY <1>3, FlattenAt
  <2>5. k \in 1..lb /\ es[x] = Held(parts, k)[i]
    BY <1>3, <1>4, <2>3, <2>4
  <2>6. k \in 1..Len(NewBlocks(parts)) /\ i \in 1..Len(Held(parts, k))
    BY <1>3, <2>5 DEF lb
  <2>7. \/ k = 1 /\ i = 1 /\ Held(parts, k)[i] = SesEntry(parts)
        \/ /\ ~(k = 1 /\ i = 1) /\ From(parts, k, i) \in 1..n
           /\ Held(parts, k)[i] = Es(parts)[From(parts, k, i)]
    BY <2>6, HeldIs
  <2>8. CASE k = 1
    <3>1. Len(Upto(rs, 0)) = 0
      BY <1>3, UptoNone
    <3>2. k - 1 = 0 /\ i \in Nat
      BY <2>8
    <3>3. x = i
      BY <2>3, <3>1, <3>2
    <3>4. From(parts, k, i) = i - 1
      BY <2>8, Zenon DEF From
    <3> QED
      BY <2>5, <2>7, <2>8, <3>3, <3>4
  <2>9. CASE k # 1
    <3> DEFINE j == k - 2
    <3>1. j \in 0..c /\ j # c /\ j + 1 = k - 1
      <4>1. k \in 1..lb /\ lb = c + 1 /\ c \in Nat
        BY <1>1, <2>5, Zenon
      <4> QED
        BY <2>9, <4>1
    <3>2. Len(Upto(rs, j + 1)) = 1 + t + ChunkEnd(c, n, j)
      BY <1>6, <3>1
    <3>3. ChunkEnd(c, n, j) = j * m
      BY <3>1, Zenon DEF ChunkEnd, m
    <3>4. From(parts, k, i) = t + j * m + i
      BY <2>9, Zenon DEF From, t, m
    <3>5. j \in Nat /\ i \in Nat
      BY <3>1
    <3> HIDE DEF j
    <3>6. j * m \in Nat
      BY <1>5, <3>5
    <3>7. x = 1 + t + j * m + i
      BY <2>3, <3>1, <3>2, <3>3
    <3> DEFINE u == j * m
    <3> HIDE DEF u
    <3>8. u \in Nat /\ x = 1 + t + u + i /\ From(parts, k, i) = t + u + i
      BY <3>4, <3>6, <3>7 DEF u
    <3>9. From(parts, k, i) = x - 1 /\ (i # 0 => x # 1)
      BY <1>5, <3>5, <3>8
    <3>10. i # 0
      OBVIOUS
    <3> QED
      BY <2>5, <2>7, <2>9, <3>9, <3>10
  <2> QED
    BY <2>8, <2>9
<1>10. es[1] = SesEntry(parts)
  <2>1. 1 \in 1..(n + 1)
    BY <1>1
  <2> QED
    BY <1>9, <2>1
<1>11. ASSUME NEW x \in 1..n
       PROVE  es[x + 1] = Es(parts)[x]
  <2>1. x + 1 \in 1..(n + 1) /\ x + 1 # 1 /\ (x + 1) - 1 = x
    BY <1>1
  <2>2. es[x + 1] = Es(parts)[(x + 1) - 1]
    BY <1>9, <2>1
  <2> QED
    BY <2>1, <2>2
<1> QED
  BY <1>7, <1>8, <1>10, <1>11 DEF es, E

\* What a reader finds in the new session is what was committed.
LEMMA NewParts ==
    ASSUME NEW D, NEW parts \in Seq(Partitions(D)), Placed, eof # 0, NEW C, NEW g \in Seq(C),
           Laid(g, parts), Len(g) >= TrailerAt(parts), Sound(parts), NilApart, Knows(g)
    PROVE  Parts(g, HeadAt(parts)) = parts
<1> DEFINE b == NewBlocks(parts)  n == Len(parts)  tr == TrailerAt(parts)  es == AllRows(g, b)
           P == Partitions(D)  s == PartRow(g, es)
<1>1. SessionIn(g, b, head_offset, tr)
  BY NewSessionIn
<1>2. b \in Seq(Nat) /\ b[1] = HeadAt(parts) /\ n \in Nat
  BY NewBlocksAre
<1>3. tr \in Nat /\ next_seq \in Nat
  <2> DEFINE ha == HeadAt(parts)  lh == Len(HeadEs(parts))
  <2>1. ha \in Nat /\ tr = ha + 1 + lh /\ lh \in Nat
    BY PlacesAre
  <2>2. next_seq \in Nat
    BY Zenon DEF Knows
  <2> HIDE DEF ha, lh, tr
  <2> QED
    BY <2>1, <2>2
<1>4. /\ Len(es) = n + 1 /\ es[1] = SesEntry(parts) /\ \A x \in 1..n : es[x + 1] = Es(parts)[x]
  BY <1>3, NewRows
<1>5. PartOf(g, SesEntry(parts)) = <<>>
  BY DEF PartOf, SesEntry, Entry
<1>6. ASSUME NEW x \in 1..n
      PROVE  parts[x] \in P /\ PartOf(g, Es(parts)[x]) = <<parts[x]>>
  <2> DEFINE e == Es(parts)[x]  p == parts[x]
  <2>1. e.type # SessionType /\ e.type = p.type
    BY <1>3, PartEntryIn
  <2>2. e.used = Len(p.data)
    BY EsFields
  <2>3. SubSeq(g, e.start + 1, e.start + Len(p.data)) = p.data
    BY DataLaid
  <2>4. p \in P
    OBVIOUS
  <2> HIDE DEF e, p
  <2>5. ReadData(g, e) = p.data
    BY <2>2, <2>3, Zenon DEF ReadData
  <2>6. p = [type |-> p.type, data |-> p.data]
    BY <2>4 DEF Partitions
  <2>7. PartOf(g, e) = <<[type |-> e.type, data |-> ReadData(g, e)]>>
    BY <2>1, Zenon DEF PartOf
  <2>8. PartOf(g, e) = <<p>>
    BY <2>1, <2>5, <2>6, <2>7, Zenon
  <2> QED
    BY <2>4, <2>8 DEF e, p
<1> HIDE DEF b, tr, es, P
<1>7. s = [x \in 1..(n + 1) |-> PartOf(g, es[x])]
  BY <1>4, Zenon DEF PartRow
<1> HIDE DEF s, n
<1>8. /\ s[1] = <<>> /\ \A x \in 1..n : s[x + 1] = <<parts[x]>>
  <2>1. 1 \in 1..(n + 1) /\ \A x \in 1..n : x + 1 \in 1..(n + 1)
    BY <1>2
  <2>2. s[1] = PartOf(g, es[1])
    BY <1>7, <2>1, Zenon
  <2>3. ASSUME NEW x \in 1..n
        PROVE  s[x + 1] = <<parts[x]>>
    <3>1. s[x + 1] = PartOf(g, es[x + 1])
      BY <1>7, <2>1, Zenon
    <3>2. es[x + 1] = Es(parts)[x]
      BY <1>4, <2>3, Zenon
    <3>3. PartOf(g, Es(parts)[x]) = <<parts[x]>>
      BY <1>6, <2>3, Zenon
    <3> QED
      BY <3>1, <3>2, <3>3, Zenon
  <2> QED
    BY <1>4, <1>5, <2>2, <2>3, Zenon
<1>9. s \in Seq(Seq(P)) /\ Len(s) = n + 1
  <2> DEFINE S == Seq(P)
  <2>1. <<>> \in S /\ \A x \in 1..n : <<parts[x]>> \in S
    BY <1>6
  <2>2. ASSUME NEW x \in 1..(n + 1)
        PROVE  s[x] \in S
    <3>1. CASE x = 1
      BY <1>8, <2>1, <3>1, Zenon
    <3>2. CASE x # 1
      <4> DEFINE y == x - 1
      <4>1. y \in 1..n /\ y + 1 = x
        BY <1>2, <3>2
      <4> HIDE DEF y, S
      <4>2. s[y + 1] = <<parts[y]>> /\ <<parts[y]>> \in S
        BY <1>8, <2>1, <4>1, Zenon
      <4> QED
        BY <4>1, <4>2
    <3> QED
      BY <3>1, <3>2
  <2> HIDE DEF S
  <2>3. s = [x \in 1..(n + 1) |-> s[x]]
    BY <1>7, Zenon
  <2>4. n + 1 \in Nat
    BY <1>2
  <2> DEFINE m == n + 1
  <2> HIDE DEF m
  <2>6. (\A x \in 1..m : s[x] \in S) /\ s = [x \in 1..m |-> s[x]] /\ m \in Nat
    BY <2>2, <2>3, <2>4, Zenon DEF m
  <2>5. s \in Seq(S) /\ Len(s) = m
    BY <2>6, SeqIs
  <2> QED
    BY <2>5 DEF m, S
<1>10. parts \in Seq(P)
  BY DEF P
<1>11. FlattenSeq(s) = parts
  <2>1. Spread(s, parts)
    BY <1>8, <1>9, Zenon DEF Spread, n
  <2> QED
    BY <1>9, <1>10, <2>1, FlattenSpread
<1>12. Parts(g, b[1]) = FlattenSeq(s)
  <2>1. tr <= Len(g)
    BY <1>3 DEF tr
  <2> QED
    BY <1>1, <1>2, <1>3, <2>1, PartsRead DEF s, es
<1> QED
  BY <1>2, <1>11, <1>12

-----------------------------------------------------------------------------
(* The log that a reader finds in a file.                                  *)

\* A file as open accepts it, with the published history N.
Whole(f, N) ==
    /\ \E C : f \in Seq(C)
    /\ f # <<>> /\ f[1].t = "hdr" /\ f[1].pto = Sentinel
    /\ NewestTrailer(f) \in Trailers(f) /\ NewestTrailer(f) \in Nat
    /\ NewestTrailer(f) <= Len(f)
    /\ Published(f, N, NewestTrailer(f)) /\ HeadOf(N) = NewestHead(f)

\* The sessions of a history, oldest first.
LogOf(f, N) == [n \in 1..Len(N) |-> Parts(f, N[(Len(N) - n) + 1][1])]

LEMMA LogIs ==
    ASSUME NEW f, NEW N, Whole(f, N)
    PROVE  Log(f) = LogOf(f, N)
<1> DEFINE lim == NewestTrailer(f)  h == HeadOf(N)  hs == Heads(f, h)  ln == Len(N)
<1>1. PICK C : f \in Seq(C)
  BY DEF Whole
<1>2. /\ f # <<>> /\ f[1].t = "hdr" /\ f[1].pto = Sentinel /\ lim \in Trailers(f)
      /\ lim \in Nat /\ lim <= Len(f) /\ Published(f, N, lim) /\ h = NewestHead(f)
  BY DEF Whole
<1>3. ResolveHead(f) = h
  BY <1>2, Zenon DEF ResolveHead, NewestHead, NewestTrailer, At
<1>4. HeaderReadable(f)
  BY <1>2 DEF HeaderReadable
<1> HIDE DEF lim, h
<1>5. Verify(f, HeadOf(N)) /\ Scannable(f, HeadOf(N))
  BY <1>1, <1>2, PublishedVerifies, PublishedScans
<1>6. Readable(f)
  BY <1>3, <1>4, <1>5, Zenon DEF Readable, Verify, h
<1>7. hs = [n \in 1..ln |-> N[n][1]] /\ ln \in Nat
  <2>1. Heads(f, HeadOf(N)) = [n \in 1..Len(N) |-> N[n][1]]
    BY <1>1, <1>2, HeadsAre
  <2>2. Len(N) \in Nat
    BY <1>2, HistoryIs
  <2> QED
    BY <2>1, <2>2 DEF h
<1> DEFINE rs == Reverse(hs)
<1>8. Log(f) = [n \in DOMAIN rs |-> Parts(f, rs[n])]
  <2>1. Log(f) = LET rh == Reverse(Heads(f, ResolveHead(f))) IN [n \in DOMAIN rh |-> Parts(f, rh[n])]
    BY <1>6, Zenon DEF Log
  <2> QED
    BY <1>3, <2>1, Zenon
<1> HIDE DEF hs, ln
<1>9. Len(hs) = ln
  BY <1>7
<1>10. rs = [n \in 1..ln |-> hs[(ln - n) + 1]]
  BY <1>9, Zenon DEF Reverse
<1>11. \A n \in 1..ln : rs[n] = N[(ln - n) + 1][1]
  <2> TAKE n \in 1..ln
  <2>1. (ln - n) + 1 \in 1..ln
    BY <1>7
  <2>2. rs[n] = hs[(ln - n) + 1]
    BY <1>10, Zenon
  <2> QED
    BY <1>7, <2>1, <2>2, Zenon
<1>12. DOMAIN rs = 1..ln
  BY <1>10, Zenon
<1> HIDE DEF rs
<1> QED
  BY <1>8, <1>11, <1>12, Zenon DEF LogOf, ln

\* A history reads the same in a file that keeps it.
LEMMA LogStays ==
    ASSUME NEW C, NEW f \in Seq(C), NEW C2, NEW g \in Seq(C2), NEW lim \in Nat,
           lim <= Len(f), lim <= Len(g), Agree(f, g, lim), NEW N, Published(f, N, lim)
    PROVE  \A n \in 1..Len(N) : Parts(g, N[n][1]) = Parts(f, N[n][1])
<1> SUFFICES ASSUME NEW n \in 1..Len(N)
             PROVE  Parts(g, N[n][1]) = Parts(f, N[n][1])
  OBVIOUS
<1>1. lim <= lim
  OBVIOUS
<1>2. Published(g, N, lim)
  BY <1>1, PublishedStays
<1> DEFINE b == N[n]  older == OlderOf(N, n)
<1>3. b \in Seq(Nat) /\ SessionIn(f, b, older, lim)
  BY HistoryIs
<1>4. SessionIn(g, b, older, lim)
  BY <1>2, HistoryIs
<1> HIDE DEF b, older
<1>5. Parts(g, b[1]) = Parts(f, b[1])
  BY <1>3, <1>4, PartsStay
<1> QED
  BY <1>5 DEF b

LEMMA LogKept ==
    ASSUME NEW N, NEW f, NEW g, \A n \in 1..Len(N) : Parts(g, N[n][1]) = Parts(f, N[n][1]),
           Len(N) \in Nat
    PROVE  LogOf(g, N) = LogOf(f, N)
<1> DEFINE ln == Len(N)
<1>1. ASSUME NEW n \in 1..ln
      PROVE  Parts(g, N[(ln - n) + 1][1]) = Parts(f, N[(ln - n) + 1][1])
  <2>1. (ln - n) + 1 \in 1..ln
    OBVIOUS
  <2> QED
    BY <2>1
<1> QED
  BY <1>1, Zenon DEF LogOf

\* A session on top of a history is the last of the log.
LEMMA SameSeq ==
    ASSUME NEW S, NEW s \in Seq(S), NEW t \in Seq(S), Len(s) = Len(t),
           \A n \in 1..Len(s) : s[n] = t[n]
    PROVE  s = t
OBVIOUS

LEMMA LogGrows ==
    ASSUME NEW N, NEW M, NEW b, NEW f, NEW g, Len(N) \in Nat, Before(M, b, N),
           \A n \in 1..Len(N) : Parts(g, N[n][1]) = Parts(f, N[n][1]),
           NEW p, p = Parts(g, b[1]), NEW x, x = LogOf(f, N), NEW y, y = LogOf(g, M)
    PROVE  SubSeq(y, 1, Len(y) - 1) = x /\ y = Append(x, p)
<1> DEFINE ln == Len(N)  m == Len(M)  S == {Parts(g, M[n][1]) : n \in 1..m}
<1>1. m = ln + 1 /\ M[1] = b /\ \A n \in 1..ln : M[n + 1] = N[n]
  BY DEF Before
<1>2. y = [n \in 1..m |-> Parts(g, M[(m - n) + 1][1])]
  BY Zenon DEF LogOf
<1>9. m \in Nat /\ m - 1 = ln /\ m # 0
  BY <1>1
<1>3. x = [n \in 1..ln |-> Parts(f, N[(ln - n) + 1][1])]
  BY Zenon DEF LogOf
<1>4. ASSUME NEW n \in 1..ln
      PROVE  y[n] = x[n] /\ n \in 1..m
  <2> DEFINE j == (ln - n) + 1
  <2>1. j \in 1..ln /\ (m - n) + 1 = j + 1 /\ n \in 1..m
    BY <1>1
  <2>2. M[j + 1] = N[j] /\ Parts(g, N[j][1]) = Parts(f, N[j][1])
    BY <1>1, <2>1
  <2> HIDE DEF j
  <2>3. y[n] = Parts(g, M[j + 1][1])
    BY <1>2, <2>1
  <2>4. x[n] = Parts(f, N[j][1])
    BY <1>3 DEF j
  <2> QED
    BY <2>1, <2>2, <2>3, <2>4
<1>5. y[m] = p
  <2>1. m \in 1..m /\ (m - m) + 1 = 1
    BY <1>9
  <2>2. y[m] = Parts(g, M[(m - m) + 1][1])
    BY <1>2, <2>1, Zenon
  <2> QED
    BY <1>1, <2>1, <2>2
<1>6. ASSUME NEW n \in 1..m
      PROVE  y[n] \in S
  <2>1. (m - n) + 1 \in 1..m
    BY <1>9
  <2>2. y[n] = Parts(g, M[(m - n) + 1][1])
    BY <1>2, Zenon
  <2> QED
    BY <2>1, <2>2
<1> HIDE DEF S, ln, m
<1>7. ln \in Nat
  BY DEF ln
<1>8. y = [n \in 1..m |-> y[n]]
  BY <1>2, Zenon
<1>11. y \in Seq(S) /\ Len(y) = m
  BY <1>6, <1>8, <1>9, SeqIs
<1> DEFINE z == SubSeq(y, 1, ln)
<1>13. z = [n \in 1..ln |-> y[n]]
  BY <1>7, <1>9, <1>11
<1>14. x = [n \in 1..ln |-> x[n]]
  BY <1>3, Zenon DEF ln
<1> HIDE DEF z
<1>15. z = x
  BY <1>4, <1>13, <1>14, Zenon
<1>16. z = SubSeq(y, 1, Len(y) - 1)
  BY <1>9, <1>11 DEF z
<1>17. x \in Seq(S) /\ Len(x) = ln
  BY <1>4, <1>6, <1>7, <1>14, SeqIs
<1>18. p \in S
  <2>1. m \in 1..m
    BY <1>9
  <2> QED
    BY <1>5, <1>6, <2>1
<1>19. \A n \in 1..m : y[n] = IF n <= ln THEN x[n] ELSE p
  BY <1>4, <1>5, <1>7, <1>9
<1>20. y = Append(x, p)
  <2> DEFINE a == Append(x, p)
  <2>1. a \in Seq(S) /\ Len(a) = ln + 1 /\ \A n \in 1..(ln + 1) : a[n] = IF n <= ln THEN x[n] ELSE p
    BY <1>7, <1>17, <1>18
  <2>2. m = ln + 1
    BY <1>7, <1>9
  <2> HIDE DEF a
  <2> QED
    BY <1>11, <1>19, <2>1, <2>2, SameSeq DEF a
<1> QED
  BY <1>15, <1>16, <1>20

-----------------------------------------------------------------------------
(* The steps.                                                              *)

LEMMA HistoryReads ==
    ASSUME StayInv, NEW N, Published(file, N, NewestTrailer(file)), HeadOf(N) = NewestHead(file)
    PROVE  Whole(file, N)
<1>1. PICK C : file \in Seq(C)
  BY DEF StayInv
<1>2. file # <<>> /\ file[1].t = "hdr" /\ file[1].pto = Sentinel
  BY <1>1 DEF StayInv, HeaderCell
<1> DEFINE lim == NewestTrailer(file)
<1>3. lim \in 1..(Len(file) - 1) /\ Len(file) \in Nat /\ lim \in Trailers(file)
  BY TrailersAre DEF NewestTrailer
<1> HIDE DEF lim
<1>4. lim \in Nat /\ lim <= Len(file)
  BY <1>3
<1> QED
  BY <1>1, <1>2, <1>3, <1>4, Zenon DEF Whole, lim

\* As a step: the history of the file of the next state.
IsRead(f) ==
    \A N : Published(f, N, NewestTrailer(f)) /\ HeadOf(N) = NewestHead(f) => Log(f) = LogOf(f, N)

LEMMA FileIsRead ==
    ASSUME StayInv
    PROVE  IsRead(file)
BY HistoryReads, LogIs DEF IsRead

\* A commit that ends: the session that it adds, and the others as they were.
LEMMA CommitReads ==
    ASSUME NEW D, SoundSessions(D), StayInv, NEW parts, Appended(parts),
           NEW K0, NEW N, Holds(K0, N)
    PROVE  /\ Parts(file', NewBlocks(parts)[1]) = parts
           /\ \A n \in 1..Len(N) : Parts(file', N[n][1]) = Parts(file, N[n][1])
<1> DEFINE g == After(parts, Len(Cells(parts)))  tr == TrailerAt(parts)
           lim == NewestTrailer(file)  ha == HeadAt(parts)
<1>1. open /\ parts \in Sessions /\ file' = g
  BY DEF Appended
<1>2. /\ PlainSessions(D) /\ NilApart /\ parts \in Seq(Partitions(D)) /\ Sound(parts)
  BY <1>1 DEF SoundSessions, PlainSessions
<1>3. StayInv /\ Placed /\ eof \in Nat /\ eof # 0 /\ head_offset = HeadOf(N) /\ Knows(file)
      /\ Published(file, N, lim)
  BY <1>1 DEF Holds, StayInv, Placed
<1>4. Len(Cells(parts)) \in 0..Len(Cells(parts)) /\ tr \in Nat
  <2>1. Len(Cells(parts)) \in Nat \ {0} /\ tr \in Nat
    BY <1>2, <1>3, WritesCount
  <2> QED
    BY <2>1
<1>5. Laid(g, parts) /\ Len(g) > tr
  BY <1>1, <1>2, <1>3, FullTrailers
<1>6. /\ \A o \in 0..lim : At(g, o) = At(file, o)
      /\ Len(file) <= Len(g) /\ lim \in Nat /\ lim < eof /\ \E C2 : g \in Seq(C2)
  BY <1>1, <1>2, <1>3, <1>4, AfterAgrees
<1>7. PICK C2 : g \in Seq(C2)
  BY <1>6
<1>8. PICK C : file \in Seq(C)
  BY <1>3 DEF StayInv
<1>9. lim \in 1..(Len(file) - 1) /\ Len(file) \in Nat
  BY <1>3, TrailersAre DEF NewestTrailer
<1>10. Len(g) \in Nat
  BY <1>7
<1> HIDE DEF g, tr, lim, ha
<1>11. Len(g) >= tr /\ lim <= lim /\ lim <= Len(file) /\ lim <= Len(g)
  BY <1>4, <1>5, <1>6, <1>9, <1>10
<1>12. HeadOf(N) # 0 => RecordKept(file, g, HeadOf(N))
  BY <1>3, <1>6, <1>7, <1>11, HistoryKept DEF lim
<1>13. Knows(g)
  BY <1>3, <1>12, KnowsStill
<1>14. Parts(g, HeadAt(parts)) = parts
  BY <1>2, <1>3, <1>5, <1>7, <1>11, <1>13, NewParts DEF tr
<1>15. NewBlocks(parts)[1] = HeadAt(parts)
  BY <1>2, <1>3, NewBlocksAre
<1>16. \A n \in 1..Len(N) : Parts(g, N[n][1]) = Parts(file, N[n][1])
  <2>1. Agree(file, g, lim)
    BY <1>6 DEF Agree
  <2>2. Published(file, N, lim)
    BY <1>3
  <2> QED
    BY <1>6, <1>7, <1>8, <1>11, <2>1, <2>2, LogStays
<1> QED
  BY <1>1, <1>14, <1>15, <1>16

\* One that does not end: all as it was.
LEMMA PartlyReads ==
    ASSUME NEW D, SoundSessions(D), StayInv, NEW parts, NEW k, Partly(parts, k),
           NEW N, Published(file, N, NewestTrailer(file))
    PROVE  \A n \in 1..Len(N) : Parts(file', N[n][1]) = Parts(file, N[n][1])
<1> DEFINE g == After(parts, k)  lim == NewestTrailer(file)
<1>1. open /\ parts \in Sessions /\ k \in 0..Len(Cells(parts)) /\ file' = g
  BY DEF Partly
<1>2. PlainSessions(D) /\ parts \in Seq(Partitions(D))
  BY <1>1 DEF SoundSessions, PlainSessions
<1>3. StayInv
  OBVIOUS
<1>4. /\ \A o \in 0..lim : At(g, o) = At(file, o)
      /\ Len(file) <= Len(g) /\ lim \in Nat /\ \E C2 : g \in Seq(C2)
  BY <1>1, <1>2, <1>3, AfterAgrees
<1>5. PICK C2 : g \in Seq(C2)
  BY <1>4
<1>6. PICK C : file \in Seq(C)
  BY <1>3 DEF StayInv
<1>7. lim \in 1..(Len(file) - 1) /\ Len(file) \in Nat
  BY <1>3, TrailersAre DEF NewestTrailer
<1>8. Len(g) \in Nat
  BY <1>5
<1> HIDE DEF g, lim
<1>9. lim <= Len(file) /\ lim <= Len(g) /\ lim \in Nat
  BY <1>4, <1>7, <1>8
<1>10. Agree(file, g, lim) /\ Published(file, N, lim)
  BY <1>4 DEF Agree, lim
<1> QED
  BY <1>1, <1>5, <1>6, <1>9, <1>10, LogStays

-----------------------------------------------------------------------------
(* The log as a variable.                                                  *)

\* What the refinement rests on: the invariant of the file, and log being what a
\* reader finds in it.
RefInv == LogInv /\ log = Log(file)

LEMMA LogStartsEmpty ==
    ASSUME Init
    PROVE  Log(file) = <<>> /\ Newest = 0
<1>1. LogInv
  BY LogInit
<1>2. StayInv
  BY <1>1 DEF LogInv
<1>3. PICK N : Published(file, N, NewestTrailer(file)) /\ HeadOf(N) = NewestHead(file)
  BY <1>1 DEF LogInv, Holds
<1>4. NewestHead(file) = 0
  <2>1. NewestTrailer(file) \in 1..(Len(file) - 1) /\ Len(file) = 2
    BY <1>2, TrailersAre DEF NewestTrailer, Init
  <2> DEFINE m == NewestTrailer(file)
  <2>2. m \in 1..(2 - 1)
    BY <2>1
  <2> HIDE DEF m
  <2>3. m = 1
    BY <2>2
  <2>4. file[2].head = 0
    BY DEF Init, TrailerCell
  <2> QED
    BY <2>3, <2>4 DEF m, NewestHead, At
<1>5. Len(N) = 0
  <2>1. Len(N) \in Nat /\ \A n \in 1..Len(N) : N[n][1] \in Nat \ {0}
    BY <1>3, HistoryIs
  <2> DEFINE ln == Len(N)
  <2>2. HeadOf(N) = IF ln = 0 THEN 0 ELSE N[1][1]
    BY DEF HeadOf
  <2> HIDE DEF ln
  <2>3. ASSUME ln # 0
        PROVE  FALSE
    <3>1. 1 \in 1..ln
      BY <2>1, <2>3 DEF ln
    <3>2. N[1][1] \in Nat \ {0}
      BY <2>1, <3>1 DEF ln
    <3> QED
      BY <1>3, <1>4, <2>2, <2>3, <3>2
  <2> QED
    BY <2>3 DEF ln
<1>6. Log(file) = LogOf(file, N)
  BY <1>2, <1>3, FileIsRead DEF IsRead
<1>7. LogOf(file, N) = <<>>
  <2>1. LogOf(file, N) = [n \in 1..0 |-> Parts(file, N[(Len(N) - n) + 1][1])]
    BY <1>5, Zenon DEF LogOf
  <2> QED
    BY <2>1
<1>8. Newest = 0
  BY <1>2, <1>3, <1>4, NewestIs DEF Newest
<1> QED
  BY <1>6, <1>7, <1>8

LEMMA RefInit ==
    ASSUME MCInit
    PROVE  RefInv
BY LogInit DEF MCInit, RefInv

LEMMA RefNext ==
    ASSUME NEW D, SoundSessions(D), RefInv, [Next /\ Observe]_mcvars
    PROVE  RefInv'
<1>1. [Next]_vars
  BY DEF mcvars
<1>2. LogInv'
  BY <1>1, LogNext DEF RefInv
<1>3. CASE Observe
  <2>1. log' = Log(file')
    BY <1>3 DEF Observe
  <2> QED
    BY <1>2, <2>1 DEF RefInv
<1>4. CASE UNCHANGED mcvars
  BY <1>2, <1>4 DEF RefInv, mcvars, vars
<1> QED
  BY <1>3, <1>4

\* The handle is behind when the sessions it goes on from are not all there are.
Lagging ==
    \A N, K : Holds(N, K) =>
        /\ K = N \/ ~open => ~Behind
        /\ open => \A b : Before(N, b, K) => Behind

LEMMA BehindIs ==
    ASSUME StayInv
    PROVE  Lagging
<1> SUFFICES ASSUME NEW N, NEW K, Holds(N, K)
             PROVE  /\ K = N \/ ~open => ~Behind
                    /\ open => \A b : Before(N, b, K) => Behind
  BY DEF Lagging
<1>1. Newest = HeadOf(N) /\ \A b : Before(N, b, K) => HeadOf(K) # HeadOf(N)
  BY HeadsRead DEF Placing
<1>2. open => head_offset = HeadOf(K)
  BY DEF Holds
<1> QED
  BY <1>1, <1>2 DEF Behind

\* What a commit adds to is the log of the sessions the handle goes on from.
LEMMA KnownIs ==
    ASSUME RefInv, open, NEW N, NEW K, Holds(N, K)
    PROVE  Abstract!Known = LogOf(file, K)
<1>1. StayInv /\ log = Log(file)
  BY DEF RefInv, LogInv
<1>2. /\ Published(file, N, NewestTrailer(file)) /\ HeadOf(N) = NewestHead(file) /\ Trails(N, K)
      /\ Published(file, K, NewestTrailer(file))
  BY DEF Holds
<1>3. log = LogOf(file, N)
  BY <1>1, <1>2, FileIsRead DEF IsRead
<1>4. CASE K = N
  <2>1. ~Behind
    BY <1>1, <1>4, BehindIs DEF Lagging
  <2> QED
    BY <1>3, <1>4, <2>1 DEF Abstract!Known
<1>5. CASE \E b : Before(N, b, K)
  <2>1. PICK b : Before(N, b, K)
    BY <1>5
  <2>2. Behind
    BY <1>1, <2>1, BehindIs DEF Lagging
  <2>3. Len(K) \in Nat
    BY <1>2, HistoryIs
  <2> DEFINE x == LogOf(file, K)  p == Parts(file, b[1])
  <2>4. SubSeq(log, 1, Len(log) - 1) = x
    <3> HIDE DEF x, p
    <3>1. x = LogOf(file, K) /\ p = Parts(file, b[1])
      BY DEF x, p
    <3> QED
      BY <1>3, <2>1, <2>3, <3>1, LogGrows
  <2> QED
    BY <2>2, <2>4, Zenon DEF Abstract!Known, Abstract!Front
<1> QED
  BY <1>2, <1>4, <1>5 DEF Trails

\* The facts of the next state that the steps below rest on.
LEMMA NextFacts ==
    ASSUME NEW D, SoundSessions(D), RefInv, [Next]_vars
    PROVE  /\ StayInv /\ StayInv' /\ Lagging' /\ Lagging /\ IsRead(file) /\ IsRead(file')
           /\ PlainSessions(D)
<1>1. StayInv /\ PlainSessions(D) /\ StayInv'
  BY StayNext DEF RefInv, LogInv, SoundSessions
<1>2. (StayInv => Lagging)'
  BY BehindIs, PTL
<1>3. (StayInv => IsRead(file))'
  BY FileIsRead, PTL
<1> QED
  BY <1>1, <1>2, <1>3, BehindIs, FileIsRead

\* A commit whose writes are done adds its session to what the handle knew.
LEMMA AppendStep ==
    ASSUME NEW D, SoundSessions(D), RefInv, [Next]_vars, log' = Log(file'),
           NEW parts, Appended(parts)
    PROVE  /\ Committed(parts) => log' = Append(Abstract!Known, parts) /\ ~Behind'
           /\ Unnoticed(parts) => log' = Append(Abstract!Known, parts) /\ Behind'
<1>1. /\ StayInv /\ Lagging' /\ IsRead(file') /\ open /\ open'
  BY NextFacts DEF Appended
<1>2. PICK N, K : Holds(N, K)
  BY DEF RefInv, LogInv
<1>3. PICK M : /\ Before(M, NewBlocks(parts), K)
               /\ Committed(parts) => Holds(M, M)'
               /\ Unnoticed(parts) => Holds(M, K)'
  BY <1>1, <1>2, EndsHold
<1>4. Abstract!Known = LogOf(file, K)
  BY <1>1, <1>2, KnownIs
<1>5. /\ Parts(file', NewBlocks(parts)[1]) = parts
      /\ \A n \in 1..Len(K) : Parts(file', K[n][1]) = Parts(file, K[n][1])
  BY <1>1, <1>2, CommitReads
<1>6. Len(K) \in Nat
  BY <1>2, HistoryIs DEF Holds
<1>7. LogOf(file', M) = Append(LogOf(file, K), parts)
  <2> DEFINE x == LogOf(file, K)  y == LogOf(file', M)  b == NewBlocks(parts)
  <2>1. Before(M, b, K) /\ parts = Parts(file', b[1])
        /\ \A n \in 1..Len(K) : Parts(file', K[n][1]) = Parts(file, K[n][1])
    BY <1>3, <1>5
  <2> HIDE DEF x, y, b
  <2>2. x = LogOf(file, K) /\ y = LogOf(file', M)
    BY DEF x, y
  <2>3. y = Append(x, parts)
    BY <1>6, <2>1, <2>2, LogGrows
  <2> QED
    BY <2>3 DEF x, y
<1>8. ASSUME NEW K2, Holds(M, K2)'
      PROVE  log' = Append(Abstract!Known, parts)
  <2>1. Published(file', M, NewestTrailer(file')) /\ HeadOf(M) = NewestHead(file')
    BY <1>8 DEF Holds
  <2>2. Log(file') = LogOf(file', M)
    BY <1>1, <2>1 DEF IsRead
  <2> QED
    BY <1>4, <1>7, <2>2
<1>9. ASSUME Committed(parts)
      PROVE  ~Behind'
  BY <1>1, <1>3, <1>9 DEF Lagging
<1>10. ASSUME Unnoticed(parts)
       PROVE  Behind'
  BY <1>1, <1>3, <1>10 DEF Lagging
<1> QED
  BY <1>3, <1>8, <1>9, <1>10

\* One that does not publish leaves the log and the handle's place in it alone.
LEMMA PartlyStep ==
    ASSUME NEW D, SoundSessions(D), RefInv, [Next]_vars, log' = Log(file'),
           NEW parts, NEW k, Partly(parts, k)
    PROVE  /\ log' = log
           /\ open' => (Behind' <=> Behind)
           /\ ~open' => ~Behind'
<1>1. /\ StayInv /\ Lagging' /\ Lagging /\ IsRead(file) /\ IsRead(file') /\ open
  BY NextFacts DEF Partly
<1>2. PICK N, K : Holds(N, K)
  BY DEF RefInv, LogInv
<1>3. Holds(N, K)'
  BY <1>1, <1>2, PartlyKeeps
<1>4. /\ Published(file, N, NewestTrailer(file)) /\ HeadOf(N) = NewestHead(file)
      /\ Published(file', N, NewestTrailer(file')) /\ HeadOf(N) = NewestHead(file')
  BY <1>2, <1>3 DEF Holds
<1>5. \A n \in 1..Len(N) : Parts(file', N[n][1]) = Parts(file, N[n][1])
  BY <1>1, <1>4, PartlyReads
<1>6. Len(N) \in Nat
  BY <1>4, HistoryIs
<1>7. LogOf(file', N) = LogOf(file, N)
  BY <1>5, <1>6, LogKept
<1>8. log' = log
  BY <1>1, <1>4, <1>7 DEF IsRead, RefInv
<1>9. open' => (Behind' <=> Behind)
  BY <1>1, <1>2, <1>3 DEF Lagging, Holds, Trails
<1>10. ~open' => ~Behind'
  BY <1>1, <1>3 DEF Lagging
<1> QED
  BY <1>8, <1>9, <1>10

\* Every call does to the log what EachCallItsOwn says.
LEMMA CallStep ==
    ASSUME NEW D, SoundSessions(D), RefInv, [Next]_vars, log' = Log(file')
    PROVE  EachCallItsOwn
<1>1. /\ StayInv /\ Lagging' /\ Lagging /\ PlainSessions(D) /\ log = Log(file)
  BY NextFacts DEF RefInv
<1>2. ASSUME NEW s \in Sessions
      PROVE  /\ Commit(s) => Abstract!Commit(s)
             /\ LastFlushFails(s) => Abstract!CommitUnnoticed(s)
             /\ CommitFails(s) => Untouched
             /\ CommitCrashes(s) => Abstract!Drop
  <2>1. /\ Commit(s) => Committed(s)
        /\ LastFlushFails(s) => Unnoticed(s)
        /\ CommitFails(s) => open' /\ \E k : Partly(s, k)
        /\ CommitCrashes(s) => ~open' /\ \E k : Partly(s, k)
    BY <1>1, <1>2, CallIs
  <2>2. Commit(s) => Abstract!Commit(s)
    BY <2>1, AppendStep DEF Committed, Abstract!Commit
  <2>3. LastFlushFails(s) => Abstract!CommitUnnoticed(s)
    BY <2>1, AppendStep DEF Unnoticed, Abstract!CommitUnnoticed
  <2>4. CommitFails(s) => Untouched
    <3>1. ASSUME CommitFails(s)
          PROVE  log' = log /\ (Behind' <=> Behind)
      <4>1. open' /\ \E k : Partly(s, k)
        BY <2>1, <3>1
      <4> QED
        BY <4>1, PartlyStep
    <3> QED
      BY <3>1 DEF Untouched
  <2>5. CommitCrashes(s) => Abstract!Drop
    <3>1. ASSUME CommitCrashes(s)
          PROVE  log' = log /\ ~Behind'
      <4>1. ~open' /\ \E k : Partly(s, k)
        BY <2>1, <3>1
      <4> QED
        BY <4>1, PartlyStep
    <3> QED
      BY <3>1 DEF Abstract!Drop
  <2> QED
    BY <2>2, <2>3, <2>4, <2>5
<1>3. PICK N, K : Holds(N, K)
  BY DEF RefInv, LogInv
<1>4. Close => Abstract!Drop
  <2>1. ASSUME Close
        PROVE  log' = log /\ ~Behind'
    BY <1>1, <2>1 DEF Close, Forget, Behind
  <2> QED
    BY <2>1 DEF Abstract!Drop
<1>5. Open => Untouched
  <2>1. ASSUME Open
        PROVE  log' = log /\ ~Behind' /\ ~Behind
    <3>1. file' = file /\ ~open /\ head_offset' = ResolveHead(file)
      BY <2>1, Zenon DEF Open
    <3> QED
      BY <1>1, <3>1 DEF Behind, Newest
  <2> QED
    BY <2>1 DEF Untouched
<1> QED
  BY <1>2, <1>4, <1>5 DEF EachCallItsOwn

LEMMA RefStep ==
    ASSUME NEW D, SoundSessions(D), RefInv, [Next /\ Observe]_mcvars
    PROVE  [Abstract!Next]_<<log, Behind>> /\ [EachCallItsOwn]_mcvars
<1>1. CASE UNCHANGED mcvars
  BY <1>1 DEF mcvars, vars, writer, Behind, Newest
<1>2. CASE Next /\ Observe
  <2>1. log' = Log(file') /\ [Next]_vars
    BY <1>2 DEF Observe
  <2>2. EachCallItsOwn
    BY <2>1, CallStep
  <2>4. Untouched => UNCHANGED <<log, Behind>>
    BY DEF Untouched, Behind
  <2>3. [Abstract!Next]_<<log, Behind>>
    <3>1. CASE \E s \in Sessions : Commit(s) \/ CommitFails(s) \/ LastFlushFails(s) \/ CommitCrashes(s)
      BY <2>2, <2>4, <3>1 DEF EachCallItsOwn, Abstract!Next
    <3>2. CASE Close \/ Open
      BY <2>2, <2>4, <3>2 DEF EachCallItsOwn, Abstract!Next
    <3> QED
      BY <1>2, <3>1, <3>2 DEF Next
  <2> QED
    BY <2>2, <2>3
<1> QED
  BY <1>1, <1>2

\* Whatever sessions an application commits, the file is to a reader a log of them:
\* a commit of s appends s and nothing else; one that fails or dies before its
\* trailer is written, a new process, and what later commits write after the
\* debris, change nothing; and only a handle whose last flush failed takes a
\* session out of the log again, the one it was not told of, by its next commit.
THEOREM FileIsALog ==
    ASSUME NEW D, SoundSessions(D)
    PROVE  MCSpec => IsALog
<1>1. MCInit => RefInv
  BY RefInit
<1>2. MCInit => Abstract!Init
  <2>1. ASSUME MCInit
        PROVE  log = <<>> /\ ~Behind
    <3>1. log = <<>> /\ Newest = 0 /\ head_offset = 0
      BY <2>1, LogStartsEmpty DEF MCInit, Init
    <3> QED
      BY <3>1 DEF Behind
  <2> QED
    BY <2>1 DEF Abstract!Init
<1>3. RefInv /\ [Next /\ Observe]_mcvars => RefInv'
  BY RefNext
<1>4. RefInv /\ [Next /\ Observe]_mcvars =>
        [Abstract!Next]_<<log, Behind>> /\ [EachCallItsOwn]_mcvars
  BY RefStep
<1> QED
  BY <1>1, <1>2, <1>3, <1>4, PTL DEF MCSpec, IsALog, Abstract!Spec

\* The sessions of the run commit are among those the theorems are about.
LEMMA RunIsSound ==
    ASSUME Sessions = MCSessions, node1 # node2, NilApart
    PROVE  \E D : SoundSessions(D)
<1> DEFINE x == [t |-> "byte", v |-> byte]
           D == {x, NodeCell(node1), NodeCell(node2)}
           P == Partitions(D)
           c == ContentPart(byte)
           p == NodePart(node1)
           q == NodePart(node2)
<1>1. \A d \in D : d.t \in {"byte", "node"}
  BY DEF NodeCell
<1>2. <<>> \in Seq(D) /\ \A d \in D : <<d>> \in Seq(D)
  OBVIOUS
<1>3. c \in P /\ p \in P /\ q \in P /\ Empty \in P
  BY <1>2 DEF Partitions, ContentPart, NodePart, Empty
<1>4. /\ c.type = Raw /\ p.type = NodeType /\ q.type = NodeType /\ Empty.type = Raw
      /\ p.data = <<NodeCell(node1)>> /\ q.data = <<NodeCell(node2)>>
  BY DEF ContentPart, NodePart, Empty
<1>5. Raw # NodeType
  BY DEF Raw, NodeType
<1>6. /\ Len(p.data) = 1 /\ p.data[1].t = "node" /\ p.data[1].id = node1
      /\ Len(q.data) = 1 /\ q.data[1].t = "node" /\ q.data[1].id = node2
  BY <1>4 DEF NodeCell
<1> DEFINE e == Empty
<1> HIDE DEF P, c, p, q, e
<1>7. Sessions = {<<>>, <<p>>, <<e, p>>, <<c, p, e, q>>}
  BY Zenon DEF MCSessions, c, p, q, e
<1>8. Sessions \subseteq Seq(P)
  BY <1>3, <1>7 DEF e
<1>9. Sound(<<>>) /\ Sound(<<p>>)
  BY <1>6 DEF Sound
<1>10. Sound(<<e, p>>)
  BY <1>4, <1>5, <1>6 DEF Sound, e
<1>11. Sound(<<c, p, e, q>>)
  BY <1>4, <1>5, <1>6 DEF Sound, e
<1>12. PlainSessions(D)
  BY <1>1, <1>8 DEF PlainSessions, P
<1>13. \A d \in D : d.t = "blk" => d.count \in 0..MaxEntries
  BY <1>1
<1>14. \A s \in Sessions : Sound(s)
  BY <1>7, <1>9, <1>10, <1>11
<1> QED
  BY <1>12, <1>13, <1>14 DEF SoundSessions
=============================================================================
