-------------------------- MODULE PcfLayoutProofs ---------------------------
(***************************************************************************)
(* The placement invariants of PcfLayout, proved for every value of its    *)
(* constants: any record sizes, block capacities, data lengths and          *)
(* reservations, and any number of partitions.                             *)
(***************************************************************************)
EXTENDS PcfLayout, FiniteSetTheorems, SequenceTheorems, TLAPS

-----------------------------------------------------------------------------
(* The inductive invariant.                                                *)

\* While the handle may still edit, the newest trailer is clear of the spare
\* capacity of every block, not just of the entries that are there.
TrailerReserved ==
    ~finalized /\ trailer # 0 =>
        \A i \in 1..Len(blocks) :
            Apart(trailer, trailer + TrailerSize, blocks[i].offset, BlockEnd(i))

IInv ==
    /\ TypeOK
    /\ IsFiniteSet(DOMAIN parts)
    /\ RegionsDisjoint
    /\ TrailerApart
    /\ TrailerReserved
    /\ CountsMatch
    /\ CursorAhead
    /\ Present

-----------------------------------------------------------------------------
(* Arithmetic of block lengths; the provers never look inside BlockLen again. *)

LEMMA BlockLenType ==
    ASSUME NEW n \in Nat
    PROVE  BlockLen(n) \in Nat /\ BlockLen(n) > 0
<1>1. TableHeaderSize \in Nat /\ TableHeaderSize > 0 /\ EntrySize \in Nat
  BY LayoutAssumption
<1>2. n * EntrySize \in Nat
  BY <1>1
<1> QED
  BY <1>1, <1>2 DEF BlockLen

LEMMA BlockLenMono ==
    ASSUME NEW m \in Nat, NEW n \in Nat, m <= n
    PROVE  BlockLen(m) <= BlockLen(n)
<1>1. TableHeaderSize \in Nat /\ EntrySize \in Nat
  BY LayoutAssumption
<1>2. PICK k \in Nat : n = m + k
  <2>1. n - m \in Nat /\ n = m + (n - m)
    OBVIOUS
  <2> QED
    BY <2>1
<1>3. n * EntrySize = m * EntrySize + k * EntrySize
  BY <1>1, <1>2
<1>4. m * EntrySize \in Nat /\ k * EntrySize \in Nat
  BY <1>1, <1>2
<1> QED
  BY <1>1, <1>3, <1>4 DEF BlockLen

LEMMA ClampRange ==
    ASSUME NEW n \in Nat
    PROVE  clamp(n) \in Nat /\ 1 <= clamp(n) /\ clamp(n) <= MaxEntries
  BY LayoutAssumption DEF clamp

-----------------------------------------------------------------------------
(* The initial state.                                                      *)

LEMMA InitIInv == Init => IInv
<1> SUFFICES ASSUME Init PROVE IInv
  OBVIOUS
<1>1. PICK c \in FirstCapacities :
        /\ blocks = <<Block(HeaderSize, clamp(c), 0)>>
        /\ parts = [u \in {} |-> 0]
        /\ data_eof = HeaderSize + BlockLen(clamp(c))
        /\ file_len = HeaderSize + TableHeaderSize
        /\ default_capacity = clamp(c)
        /\ finalized = FALSE
        /\ trailer = 0
  BY DEF Init
<1>2. clamp(c) \in Nat /\ 1 <= clamp(c) /\ clamp(c) <= MaxEntries
  BY ClampRange, LayoutAssumption
<1>3. BlockLen(clamp(c)) \in Nat /\ BlockLen(0) <= BlockLen(clamp(c))
  BY <1>2, BlockLenType, BlockLenMono
<1>4. /\ HeaderSize \in Nat /\ TableHeaderSize \in Nat /\ EntrySize \in Nat
      /\ BlockLen(0) = TableHeaderSize
  BY LayoutAssumption DEF BlockLen
<1>5. /\ Len(blocks) = 1 /\ DOMAIN parts = {}
      /\ blocks[1] = [offset |-> HeaderSize, capacity |-> clamp(c), count |-> 0]
  BY <1>1 DEF Block
<1>6. TypeOK
  <2>1. Block(HeaderSize, clamp(c), 0) \in [offset : Nat, capacity : Nat, count : Nat]
    BY <1>2, <1>4 DEF Block
  <2>2. blocks \in Seq([offset : Nat, capacity : Nat, count : Nat]) /\ blocks # <<>>
    BY <1>1, <2>1
  <2>3. parts \in [{} -> [block : 1..Len(blocks), start : Nat, max : Nat, used : Nat]]
    BY <1>1
  <2>4. {data_eof, file_len, default_capacity, trailer} \subseteq Nat
    BY <1>1, <1>2, <1>3, <1>4
  <2>5. DOMAIN parts \subseteq Uid /\ finalized \in BOOLEAN
    BY <1>1, <1>5
  <2> QED
    BY <2>2, <2>3, <2>4, <2>5, <1>5 DEF TypeOK
<1>7. IsFiniteSet(DOMAIN parts)
  BY <1>5, FS_EmptySet
<1>8. RegionsDisjoint
  BY <1>4, <1>5
     DEF RegionsDisjoint, PartsApart, BlocksApart, PartsOffBlocks, OffHeader
<1>9. TrailerApart /\ TrailerReserved
  BY <1>1 DEF TrailerApart, TrailerReserved
<1>10. CountsMatch
  <2>1. EntriesOf(1) = {}
    BY <1>5 DEF EntriesOf
  <2>2. blocks[1].count = Cardinality(EntriesOf(1))
    <3>1. Cardinality({}) = 0
      BY FS_EmptySet
    <3>2. blocks[1].count = 0
      BY <1>5
    <3> QED
      BY <2>1, <3>1, <3>2
  <2>3. /\ blocks[1].count <= blocks[1].capacity
        /\ blocks[1].capacity <= MaxEntries
    BY <1>2, <1>5
  <2>4. \A i \in 1..Len(blocks) : i = 1
    BY <1>5
  <2> QED
    BY <2>2, <2>3, <2>4 DEF CountsMatch
<1>11. CursorAhead
  BY <1>1, <1>3, <1>4, <1>5 DEF CursorAhead, BlockEnd
<1>12. Present
  BY <1>1, <1>3, <1>4, <1>5 DEF Present, LiveBlockEnd
<1> QED
  BY <1>6, <1>7, <1>8, <1>9, <1>10, <1>11, <1>12 DEF IInv

-----------------------------------------------------------------------------
(* What TypeOK says of one partition and of one block.                     *)

LEMMA PartType ==
    ASSUME TypeOK, NEW u \in DOMAIN parts
    PROVE  /\ u \in Uid
           /\ parts[u].block \in 1..Len(blocks)
           /\ parts[u].start \in Nat /\ parts[u].max \in Nat /\ parts[u].used \in Nat
           /\ PartEnd(u) \in Nat /\ PartEnd(u) = parts[u].start + parts[u].max
<1>1. parts[u] \in [block : 1..Len(blocks), start : Nat, max : Nat, used : Nat]
  BY DEF TypeOK
<1>2. /\ parts[u].block \in 1..Len(blocks)
      /\ parts[u].start \in Nat /\ parts[u].max \in Nat /\ parts[u].used \in Nat
  BY <1>1
<1>3. PartEnd(u) \in Nat /\ PartEnd(u) = parts[u].start + parts[u].max
  BY <1>2 DEF PartEnd
<1>4. u \in Uid
  BY DEF TypeOK
<1> QED
  BY <1>2, <1>3, <1>4

LEMMA BlockType ==
    ASSUME TypeOK, NEW i \in 1..Len(blocks)
    PROVE  /\ blocks[i] \in [offset : Nat, capacity : Nat, count : Nat]
           /\ blocks[i].offset \in Nat
           /\ blocks[i].capacity \in Nat /\ blocks[i].count \in Nat
           /\ BlockEnd(i) \in Nat /\ LiveBlockEnd(i) \in Nat
           /\ BlockEnd(i) = blocks[i].offset + BlockLen(blocks[i].capacity)
           /\ LiveBlockEnd(i) = blocks[i].offset + BlockLen(blocks[i].count)
           /\ BlockEnd(i) > blocks[i].offset /\ LiveBlockEnd(i) > blocks[i].offset
<1>1. blocks[i] \in [offset : Nat, capacity : Nat, count : Nat]
  <2>1. blocks \in Seq([offset : Nat, capacity : Nat, count : Nat])
    BY DEF TypeOK
  <2> QED
    BY <2>1, ElementOfSeq
<1>2. BlockLen(blocks[i].capacity) \in Nat /\ BlockLen(blocks[i].capacity) > 0
  BY <1>1, BlockLenType
<1>3. BlockLen(blocks[i].count) \in Nat /\ BlockLen(blocks[i].count) > 0
  BY <1>1, BlockLenType
<1> QED
  BY <1>1, <1>2, <1>3 DEF BlockEnd, LiveBlockEnd

BlockRec == [offset : Nat, capacity : Nat, count : Nat]

\* Changing one field of one block leaves a sequence of blocks.
LEMMA SetCount ==
    ASSUME TypeOK, NEW i \in 1..Len(blocks), NEW n \in Nat,
           blocks' = [blocks EXCEPT ![i].count = n]
    PROVE  /\ blocks' \in Seq(BlockRec) /\ Len(blocks') = Len(blocks)
           /\ blocks'[i].offset = blocks[i].offset
           /\ blocks'[i].capacity = blocks[i].capacity
           /\ blocks'[i].count = n
           /\ \A j \in 1..Len(blocks) : j # i => blocks'[j] = blocks[j]
<1> DEFINE b == [blocks[i] EXCEPT !.count = n]
<1>1. blocks \in Seq(BlockRec)
  BY DEF TypeOK, BlockRec
<1>2. /\ b \in BlockRec /\ b.count = n
      /\ b.offset = blocks[i].offset /\ b.capacity = blocks[i].capacity
  BY BlockType DEF BlockRec
<1>3. blocks' = [blocks EXCEPT ![i] = b]
  OBVIOUS
<1> HIDE DEF b
<1>4. /\ [blocks EXCEPT ![i] = b] \in Seq(BlockRec)
      /\ Len([blocks EXCEPT ![i] = b]) = Len(blocks)
      /\ \A j \in 1..Len(blocks) :
            [blocks EXCEPT ![i] = b][j] = IF j = i THEN b ELSE blocks[j]
  BY <1>1, <1>2, ExceptSeq
<1> QED
  BY <1>2, <1>3, <1>4

\* Lengths of the file: it grows to the end of what is written and no further.
LEMMA GrownType ==
    ASSUME file_len \in Nat, NEW off \in Nat, NEW n \in Nat
    PROVE  /\ Grown(off, n) \in Nat
           /\ file_len <= Grown(off, n)
           /\ n > 0 => off + n <= Grown(off, n)
           /\ \A m \in Nat : file_len <= m /\ off + n <= m => Grown(off, n) <= m
  BY DEF Grown, Larger

LEMMA LargerType ==
    ASSUME NEW m \in Nat, NEW n \in Nat
    PROVE  /\ Larger(m, n) \in Nat /\ m <= Larger(m, n) /\ n <= Larger(m, n)
           /\ Larger(m, n) \in {m, n}
  BY DEF Larger

-----------------------------------------------------------------------------
(* add_partition into a block with room.                                   *)

LEMMA AddInPlaceIInv ==
    ASSUME IInv, ~finalized,
           NEW u \in Uid, NEW n \in Lengths, NEW r \in Reserves,
           NEW i \in 1..Len(blocks), AddInPlace(u, n, r, i)
    PROVE  IInv'
<1>1. TypeOK /\ n \in Nat /\ r \in Nat
  BY LayoutAssumption DEF IInv
<1>2. /\ data_eof \in Nat /\ file_len \in Nat /\ default_capacity \in Nat
      /\ trailer \in Nat /\ finalized \in BOOLEAN
  BY <1>1 DEF TypeOK
<1>3. /\ blocks[i].count + 1 \in Nat /\ blocks[i].count + 1 <= blocks[i].capacity
      /\ blocks' = [blocks EXCEPT ![i].count = blocks[i].count + 1]
  BY <1>1, BlockType DEF AddInPlace, Roomy
<1>4. /\ blocks' \in Seq(BlockRec) /\ Len(blocks') = Len(blocks)
      /\ \A j \in 1..Len(blocks) : /\ blocks'[j].offset = blocks[j].offset
                                   /\ blocks'[j].capacity = blocks[j].capacity
      /\ blocks'[i].count = blocks[i].count + 1
      /\ \A j \in 1..Len(blocks) : j # i => blocks'[j] = blocks[j]
  BY <1>1, <1>3, SetCount
<1>5. /\ u \notin DOMAIN parts
      /\ DOMAIN parts' = DOMAIN parts \cup {u}
      /\ parts'[u] = [block |-> i, start |-> data_eof, max |-> n + r, used |-> n]
      /\ \A v \in DOMAIN parts : v # u /\ parts'[v] = parts[v]
  <2>1. parts' = Placed(u, i, data_eof, n + r, n) /\ u \notin DOMAIN parts
    BY DEF AddInPlace
  <2> QED
    BY <2>1 DEF Placed
<1>6. /\ data_eof' = data_eof + n + r /\ data_eof' \in Nat
      /\ UNCHANGED <<default_capacity, finalized, trailer>>
  BY <1>1, <1>2 DEF AddInPlace
<1>7. /\ PartEnd(u)' = data_eof + n + r
      /\ \A v \in DOMAIN parts : PartEnd(v)' = PartEnd(v)
  BY <1>1, <1>2, <1>5 DEF PartEnd
<1>8. /\ \A j \in 1..Len(blocks) : BlockEnd(j)' = BlockEnd(j)
      /\ \A j \in 1..Len(blocks) : j # i => LiveBlockEnd(j)' = LiveBlockEnd(j)
      /\ LiveBlockEnd(i)' = blocks[i].offset + BlockLen(blocks[i].count + 1)
  BY <1>4 DEF BlockEnd, LiveBlockEnd
<1>9. /\ LiveBlockEnd(i)' \in Nat
      /\ LiveBlockEnd(i)' <= BlockEnd(i)
  <2>1. /\ BlockLen(blocks[i].count + 1) \in Nat
        /\ BlockLen(blocks[i].count + 1) <= BlockLen(blocks[i].capacity)
    BY <1>1, <1>3, BlockType, BlockLenType, BlockLenMono
  <2>2. /\ blocks[i].offset \in Nat /\ BlockLen(blocks[i].capacity) \in Nat
        /\ BlockEnd(i) = blocks[i].offset + BlockLen(blocks[i].capacity)
    BY <1>1, BlockType, BlockLenType
  <2> QED
    BY <1>8, <2>1, <2>2
<1>10. /\ file_len' \in Nat /\ file_len <= file_len' /\ file_len' <= data_eof'
       /\ LiveBlockEnd(i)' <= file_len'
       /\ n > 0 => data_eof + n <= file_len'
  <2>1. BlockEnd(i) <= data_eof /\ file_len <= data_eof
    BY DEF IInv, CursorAhead
  <2>2. /\ Grown(data_eof, n) \in Nat /\ file_len <= Grown(data_eof, n)
        /\ n > 0 => data_eof + n <= Grown(data_eof, n)
        /\ Grown(data_eof, n) <= data_eof + n + r
    <3>1. \A m \in Nat : file_len <= m /\ data_eof + n <= m => Grown(data_eof, n) <= m
      BY <1>1, <1>2, GrownType
    <3>2. data_eof + n + r \in Nat /\ file_len <= data_eof + n + r
                /\ data_eof + n <= data_eof + n + r
      BY <1>1, <1>2, <2>1
    <3>3. Grown(data_eof, n) <= data_eof + n + r
      BY <3>1, <3>2
    <3> QED
      BY <1>1, <1>2, <3>3, GrownType
  <2>3. file_len' = Larger(Grown(data_eof, n), LiveBlockEnd(i)')
    BY <1>8 DEF AddInPlace
  <2>4. BlockEnd(i) \in Nat
    BY <1>1, BlockType
  <2>5. /\ file_len' \in Nat
        /\ Grown(data_eof, n) <= file_len' /\ LiveBlockEnd(i)' <= file_len'
        /\ file_len' \in {Grown(data_eof, n), LiveBlockEnd(i)'}
    BY <1>9, <2>2, <2>3, LargerType
  <2>6. LiveBlockEnd(i)' <= data_eof'
    <3>1. data_eof <= data_eof'
      BY <1>1, <1>2, <1>6
    <3> QED
      BY <1>2, <1>6, <1>9, <2>1, <2>4, <3>1
  <2>7. Grown(data_eof, n) <= data_eof'
    BY <1>6, <2>2
  <2>8. file_len' <= data_eof'
    BY <2>5, <2>6, <2>7
  <2>9. file_len <= file_len' /\ (n > 0 => data_eof + n <= file_len')
    <3>1. data_eof + n \in Nat
      BY <1>1, <1>2
    <3> QED
      BY <1>1, <1>2, <2>2, <2>5, <3>1
  <2> QED
    BY <2>5, <2>8, <2>9
<1>11. TypeOK'
  <2>1. parts' \in [DOMAIN parts' ->
            [block : 1..Len(blocks'), start : Nat, max : Nat, used : Nat]]
    <3>1. \A v \in DOMAIN parts' :
            parts'[v] \in [block : 1..Len(blocks), start : Nat, max : Nat, used : Nat]
      <4> TAKE v \in DOMAIN parts'
      <4>1. CASE v \in DOMAIN parts
        <5>1. parts[v] \in [block : 1..Len(blocks), start : Nat, max : Nat, used : Nat]
          BY <1>1, <4>1 DEF TypeOK
        <5> QED
          BY <1>5, <4>1, <5>1
      <4>2. CASE v = u
        BY <1>1, <1>2, <1>5, <4>2
      <4> QED
        BY <1>5, <4>1, <4>2
    <3>2. parts' = [v \in DOMAIN parts' |-> parts'[v]]
      BY DEF AddInPlace, Placed
    <3> QED
      BY <1>4, <3>1, <3>2
  <2>2. blocks' # <<>>
    BY <1>1, <1>4 DEF TypeOK
  <2>3. DOMAIN parts' \subseteq Uid
    BY <1>1, <1>5 DEF TypeOK
  <2> QED
    BY <1>2, <1>4, <1>6, <1>10, <2>1, <2>2, <2>3 DEF TypeOK, BlockRec
<1>12. IsFiniteSet(DOMAIN parts)'
  BY <1>5, FS_AddElement DEF IInv
<1>13. RegionsDisjoint'
  <2>1. PartsApart'
    <3> SUFFICES ASSUME NEW v \in DOMAIN parts', NEW w \in DOMAIN parts', v # w
                 PROVE  Apart(parts'[v].start, PartEnd(v)', parts'[w].start, PartEnd(w)')
      BY DEF PartsApart
    <3>1. CASE v \in DOMAIN parts /\ w \in DOMAIN parts
      BY <1>5, <1>7, <3>1 DEF IInv, RegionsDisjoint, PartsApart
    <3>2. \A x \in DOMAIN parts :
            PartEnd(x) <= parts[x].start \/ PartEnd(x) <= data_eof
      BY <1>1, PartType DEF IInv, CursorAhead
    <3>3. CASE v = u /\ w \in DOMAIN parts
      BY <1>1, <1>2, <1>5, <1>7, <3>2, <3>3, PartType DEF Apart
    <3>4. CASE w = u /\ v \in DOMAIN parts
      BY <1>1, <1>2, <1>5, <1>7, <3>2, <3>4, PartType DEF Apart
    <3> QED
      BY <1>5, <3>1, <3>3, <3>4
  <2>2. BlocksApart'
    BY <1>4, <1>8 DEF IInv, RegionsDisjoint, BlocksApart
  <2>3. PartsOffBlocks'
    <3> SUFFICES ASSUME NEW v \in DOMAIN parts', NEW j \in 1..Len(blocks)
                 PROVE  Apart(parts'[v].start, PartEnd(v)', blocks[j].offset, BlockEnd(j))
      BY <1>4, <1>8 DEF PartsOffBlocks
    <3>1. CASE v \in DOMAIN parts
      BY <1>5, <1>7, <3>1 DEF IInv, RegionsDisjoint, PartsOffBlocks
    <3>2. CASE v = u
      <4>1. BlockEnd(j) <= data_eof
        BY DEF IInv, CursorAhead
      <4> QED
        BY <1>5, <3>2, <4>1 DEF Apart
    <3> QED
      BY <1>5, <3>1, <3>2
  <2>4. OffHeader'
    <3>1. data_eof >= HeaderSize
      <4>1. blocks[i].offset >= HeaderSize /\ BlockEnd(i) <= data_eof
        BY DEF IInv, RegionsDisjoint, OffHeader, CursorAhead
      <4>2. /\ blocks[i].offset \in Nat /\ BlockEnd(i) \in Nat
            /\ blocks[i].offset <= BlockEnd(i)
        BY <1>1, BlockType
      <4>3. HeaderSize \in Nat
        BY LayoutAssumption
      <4> QED
        BY <1>2, <4>1, <4>2, <4>3
    <3> QED
      BY <1>4, <1>5, <3>1 DEF IInv, RegionsDisjoint, OffHeader
  <2> QED
    BY <2>1, <2>2, <2>3, <2>4 DEF RegionsDisjoint
<1>14. TrailerReserved'
  BY <1>4, <1>6, <1>8 DEF IInv, TrailerReserved
<1>15. TrailerApart'
  <2> SUFFICES ASSUME trailer # 0 PROVE TrailerApart'
    BY <1>6 DEF TrailerApart
  <2>1. TrailerSize \in Nat /\ trailer + TrailerSize <= file_len
    BY LayoutAssumption DEF IInv, Present
  <2>2. \A j \in 1..Len(blocks) :
            Apart(trailer, trailer + TrailerSize, blocks[j].offset, LiveBlockEnd(j)')
    <3> TAKE j \in 1..Len(blocks)
    <3>1. CASE j # i
      BY <1>8, <3>1 DEF IInv, TrailerApart
    <3>2. CASE j = i
      <4>1. Apart(trailer, trailer + TrailerSize, blocks[i].offset, BlockEnd(i))
        BY DEF IInv, TrailerReserved
      <4> QED
        BY <1>1, <1>2, <1>9, <2>1, <3>2, <4>1, BlockType DEF Apart
    <3> QED
      BY <3>1, <3>2
  <2>3. \A v \in DOMAIN parts' :
            Apart(trailer, trailer + TrailerSize, parts'[v].start, PartEnd(v)')
    <3> TAKE v \in DOMAIN parts'
    <3>1. CASE v \in DOMAIN parts
      BY <1>5, <1>7, <3>1 DEF IInv, TrailerApart
    <3>2. CASE v = u
      <4>1. file_len <= data_eof
        BY DEF IInv, CursorAhead
      <4> QED
        BY <1>2, <1>5, <2>1, <3>2, <4>1 DEF Apart
    <3> QED
      BY <1>5, <3>1, <3>2
  <2> QED
    BY <1>4, <1>6, <2>2, <2>3 DEF TrailerApart
<1>16. CountsMatch'
  <2> SUFFICES ASSUME NEW j \in 1..Len(blocks)
               PROVE  /\ blocks'[j].count = Cardinality(EntriesOf(j)')
                      /\ blocks'[j].count <= blocks'[j].capacity
                      /\ blocks'[j].capacity <= MaxEntries
    BY <1>4 DEF CountsMatch
  <2>1. /\ IsFiniteSet(EntriesOf(j)) /\ u \notin EntriesOf(j)
        /\ blocks[j].count = Cardinality(EntriesOf(j))
        /\ blocks[j].count <= blocks[j].capacity /\ blocks[j].capacity <= MaxEntries
    <3>1. IsFiniteSet(EntriesOf(j))
      BY FS_Subset DEF IInv, EntriesOf
    <3> QED
      BY <1>5, <3>1 DEF IInv, CountsMatch, EntriesOf
  <2>2. CASE j = i
    <3>1. EntriesOf(j)' = EntriesOf(j) \cup {u}
      BY <1>5, <2>2 DEF EntriesOf
    <3>2. Cardinality(EntriesOf(j)') = Cardinality(EntriesOf(j)) + 1
      BY <2>1, <3>1, FS_AddElement
    <3> QED
      BY <1>3, <1>4, <2>1, <2>2, <3>2
  <2>3. CASE j # i
    <3>1. EntriesOf(j)' = EntriesOf(j)
      BY <1>5, <2>3 DEF EntriesOf
    <3> QED
      BY <1>4, <2>1, <2>3, <3>1
  <2> QED
    BY <2>2, <2>3
<1>17. CursorAhead'
  <2>1. \A v \in DOMAIN parts' : parts'[v].max > 0 => PartEnd(v)' <= data_eof'
    BY <1>1, <1>2, <1>5, <1>6, <1>7, PartType DEF IInv, CursorAhead
  <2>2. \A j \in 1..Len(blocks') : BlockEnd(j)' <= data_eof'
    <3> SUFFICES ASSUME NEW j \in 1..Len(blocks) PROVE BlockEnd(j) <= data_eof'
      BY <1>4, <1>8
    <3>1. BlockEnd(j) \in Nat /\ BlockEnd(j) <= data_eof
      BY <1>1, BlockType DEF IInv, CursorAhead
    <3> QED
      BY <1>1, <1>2, <1>6, <3>1
  <2> QED
    BY <1>10, <2>1, <2>2 DEF CursorAhead
<1>18. Present'
  <2>1. \A j \in 1..Len(blocks') : LiveBlockEnd(j)' <= file_len'
    <3> SUFFICES ASSUME NEW j \in 1..Len(blocks) PROVE LiveBlockEnd(j)' <= file_len'
      BY <1>4
    <3>1. CASE j = i
      BY <1>10, <3>1
    <3>2. CASE j # i
      <4>1. LiveBlockEnd(j)' = LiveBlockEnd(j) /\ LiveBlockEnd(j) \in Nat
        BY <1>1, <1>8, <3>2, BlockType
      <4>2. LiveBlockEnd(j) <= file_len
        BY DEF IInv, Present
      <4> QED
        BY <1>2, <1>10, <4>1, <4>2
    <3> QED
      BY <3>1, <3>2
  <2>2. \A v \in DOMAIN parts' :
            /\ parts'[v].used <= parts'[v].max
            /\ parts'[v].used > 0 => parts'[v].start + parts'[v].used <= file_len'
    <3> TAKE v \in DOMAIN parts'
    <3>1. CASE v = u
      BY <1>1, <1>5, <1>10, <3>1
    <3>2. CASE v \in DOMAIN parts
      <4>1. /\ parts[v].used <= parts[v].max
            /\ parts[v].used > 0 => parts[v].start + parts[v].used <= file_len
        BY <3>2 DEF IInv, Present
      <4>2. parts'[v] = parts[v] /\ parts[v].start \in Nat /\ parts[v].used \in Nat
        BY <1>1, <1>5, <3>2, PartType
      <4> QED
        BY <1>2, <1>10, <4>1, <4>2
    <3> QED
      BY <1>5, <3>1, <3>2
  <2>3. trailer # 0 => trailer + TrailerSize <= file_len'
    BY <1>2, <1>10, LayoutAssumption DEF IInv, Present
  <2> QED
    BY <1>6, <2>1, <2>2, <2>3 DEF Present
<1> QED
  BY <1>11, <1>12, <1>13, <1>14, <1>15, <1>16, <1>17, <1>18 DEF IInv

-----------------------------------------------------------------------------
(* add_partition into a new overflow block.                                *)

LEMMA AddInOverflowIInv ==
    ASSUME IInv, ~finalized,
           NEW u \in Uid, NEW n \in Lengths, NEW r \in Reserves,
           AddInOverflow(u, n, r)
    PROVE  IInv'
<1> DEFINE eof1 == data_eof + n + r
           cap == clamp(default_capacity)
<1>1. TypeOK /\ n \in Nat /\ r \in Nat
  BY LayoutAssumption DEF IInv
<1>2. /\ data_eof \in Nat /\ file_len \in Nat /\ default_capacity \in Nat
      /\ trailer \in Nat /\ finalized \in BOOLEAN /\ blocks \in Seq(BlockRec)
  BY <1>1 DEF TypeOK, BlockRec
<1>3. cap \in Nat /\ 1 <= cap /\ cap <= MaxEntries /\ eof1 \in Nat
  <2>1. eof1 \in Nat
    BY <1>1, <1>2
  <2> QED
    BY <1>2, <2>1, ClampRange
<1>4. /\ BlockLen(cap) \in Nat /\ BlockLen(1) \in Nat
      /\ BlockLen(1) > 0 /\ BlockLen(1) <= BlockLen(cap)
  BY <1>3, BlockLenType, BlockLenMono
<1>4a. PICK k \in Nat : k = Len(blocks) + 1
  BY <1>2, LenProperties
<1>5. /\ blocks' = Append(blocks, Block(eof1, cap, 1))
      /\ parts' = Placed(u, k, data_eof, n + r, n)
      /\ u \notin DOMAIN parts
      /\ data_eof' = eof1 + BlockLen(cap)
      /\ file_len' = Larger(Grown(data_eof, n), eof1 + BlockLen(1))
      /\ UNCHANGED <<default_capacity, finalized, trailer>>
  BY <1>4a DEF AddInOverflow
<1> HIDE DEF eof1, cap
<1>6. /\ Len(blocks) \in Nat /\ k = Len(blocks) + 1
      /\ eof1 = data_eof + n + r
  BY <1>2, <1>4a, LenProperties DEF eof1
<1>7. /\ blocks' \in Seq(BlockRec) /\ Len(blocks') = k
      /\ \A j \in 1..Len(blocks) : blocks'[j] = blocks[j]
      /\ blocks'[k] = [offset |-> eof1, capacity |-> cap, count |-> 1]
  <2>1. Block(eof1, cap, 1) \in BlockRec
    BY <1>3 DEF Block, BlockRec
  <2> QED
    BY <1>2, <1>5, <1>6, <2>1 DEF Block
<1>8. 1..Len(blocks') = (1..Len(blocks)) \cup {k} /\ k \notin 1..Len(blocks)
  BY <1>6, <1>7
<1>9. /\ DOMAIN parts' = DOMAIN parts \cup {u}
      /\ parts'[u] = [block |-> k, start |-> data_eof, max |-> n + r, used |-> n]
      /\ \A v \in DOMAIN parts : v # u /\ parts'[v] = parts[v]
  BY <1>5 DEF Placed
<1>10. /\ PartEnd(u)' = eof1
       /\ \A v \in DOMAIN parts : PartEnd(v)' = PartEnd(v)
  BY <1>1, <1>2, <1>6, <1>9 DEF PartEnd
<1>11. /\ BlockEnd(k)' = eof1 + BlockLen(cap)
       /\ LiveBlockEnd(k)' = eof1 + BlockLen(1)
       /\ \A j \in 1..Len(blocks) :
            BlockEnd(j)' = BlockEnd(j) /\ LiveBlockEnd(j)' = LiveBlockEnd(j)
  BY <1>7 DEF BlockEnd, LiveBlockEnd
<1>12. data_eof' \in Nat /\ data_eof <= eof1 /\ eof1 < data_eof'
  BY <1>1, <1>2, <1>3, <1>4, <1>5, <1>6
<1>13. /\ file_len' \in Nat /\ file_len <= file_len' /\ file_len' <= data_eof'
       /\ eof1 + BlockLen(1) <= file_len'
       /\ n > 0 => data_eof + n <= file_len'
  <2>1. file_len <= data_eof
    BY DEF IInv, CursorAhead
  <2>2. \A m \in Nat : file_len <= m /\ data_eof + n <= m => Grown(data_eof, n) <= m
    BY <1>1, <1>2, GrownType
  <2>3. file_len <= eof1 /\ data_eof + n <= eof1
    BY <1>1, <1>2, <1>6, <2>1
  <2>4. /\ Grown(data_eof, n) \in Nat /\ file_len <= Grown(data_eof, n)
        /\ n > 0 => data_eof + n <= Grown(data_eof, n)
        /\ Grown(data_eof, n) <= eof1
    BY <1>1, <1>2, <1>3, <2>2, <2>3, GrownType
  <2>5. eof1 + BlockLen(1) \in Nat
    BY <1>3, <1>4
  <2>6. /\ file_len' \in Nat
        /\ Grown(data_eof, n) <= file_len' /\ eof1 + BlockLen(1) <= file_len'
        /\ file_len' \in {Grown(data_eof, n), eof1 + BlockLen(1)}
    BY <1>5, <2>4, <2>5, LargerType
  <2>7. data_eof' = eof1 + BlockLen(cap)
    BY <1>5
  <2>8. eof1 + BlockLen(1) <= data_eof' /\ eof1 <= data_eof'
    BY <1>3, <1>4, <2>7
  <2>9. data_eof' \in Nat
    BY <1>12
  <2>10. file_len' <= data_eof'
    BY <1>3, <2>4, <2>5, <2>6, <2>8, <2>9
  <2>11. file_len <= file_len' /\ (n > 0 => data_eof + n <= file_len')
    <3>1. data_eof + n \in Nat
      BY <1>1, <1>2
    <3> QED
      BY <1>1, <1>2, <2>4, <2>6, <3>1
  <2> QED
    BY <2>6, <2>10, <2>11
<1>14. TypeOK'
  <2>1. parts' \in [DOMAIN parts' ->
            [block : 1..Len(blocks'), start : Nat, max : Nat, used : Nat]]
    <3>1. \A v \in DOMAIN parts :
            parts'[v] \in [block : 1..Len(blocks'), start : Nat, max : Nat, used : Nat]
      BY <1>1, <1>8, <1>9 DEF TypeOK
    <3>2. parts'[u] \in [block : 1..Len(blocks'), start : Nat, max : Nat, used : Nat]
      BY <1>1, <1>2, <1>8, <1>9
    <3>3. parts' = [v \in DOMAIN parts' |-> parts'[v]]
      BY <1>5 DEF Placed
    <3> QED
      BY <1>9, <3>1, <3>2, <3>3
  <2>2. blocks' # <<>>
    BY <1>6, <1>7
  <2>3. DOMAIN parts' \subseteq Uid
    BY <1>1, <1>9 DEF TypeOK
  <2> QED
    BY <1>2, <1>5, <1>7, <1>12, <1>13, <2>1, <2>2, <2>3 DEF TypeOK, BlockRec
<1>15. IsFiniteSet(DOMAIN parts)'
  BY <1>9, FS_AddElement DEF IInv
<1>16. RegionsDisjoint'
  \* Everything old ends at or before the old cursor.
  <2>1. \A v \in DOMAIN parts :
            PartEnd(v) <= parts[v].start \/ PartEnd(v) <= data_eof
    BY <1>1, PartType DEF IInv, CursorAhead
  <2>2. \A j \in 1..Len(blocks) : BlockEnd(j) <= data_eof
    BY DEF IInv, CursorAhead
  <2>3. PartsApart'
    <3> SUFFICES ASSUME NEW v \in DOMAIN parts', NEW w \in DOMAIN parts', v # w
                 PROVE  Apart(parts'[v].start, PartEnd(v)', parts'[w].start, PartEnd(w)')
      BY DEF PartsApart
    <3>1. CASE v \in DOMAIN parts /\ w \in DOMAIN parts
      BY <1>9, <1>10, <3>1 DEF IInv, RegionsDisjoint, PartsApart
    <3>2. CASE v = u /\ w \in DOMAIN parts
      BY <1>1, <1>2, <1>9, <1>10, <2>1, <3>2, PartType DEF Apart
    <3>3. CASE w = u /\ v \in DOMAIN parts
      BY <1>1, <1>2, <1>9, <1>10, <2>1, <3>3, PartType DEF Apart
    <3> QED
      BY <1>9, <3>1, <3>2, <3>3
  <2>4. BlocksApart'
    <3> SUFFICES ASSUME NEW i \in 1..Len(blocks'), NEW j \in 1..Len(blocks'), i # j
                 PROVE  Apart(blocks'[i].offset, BlockEnd(i)', blocks'[j].offset, BlockEnd(j)')
      BY DEF BlocksApart
    <3>1. CASE i \in 1..Len(blocks) /\ j \in 1..Len(blocks)
      BY <1>7, <1>11, <3>1 DEF IInv, RegionsDisjoint, BlocksApart
    <3>2. CASE i = k /\ j \in 1..Len(blocks)
      <4>1. BlockEnd(j)' <= blocks'[i].offset
        BY <1>1, <1>2, <1>3, <1>7, <1>11, <1>12, <2>2, <3>2, BlockType
      <4> QED
        BY <4>1 DEF Apart
    <3>3. CASE j = k /\ i \in 1..Len(blocks)
      <4>1. BlockEnd(i)' <= blocks'[j].offset
        BY <1>1, <1>2, <1>3, <1>7, <1>11, <1>12, <2>2, <3>3, BlockType
      <4> QED
        BY <4>1 DEF Apart
    <3> QED
      BY <1>8, <3>1, <3>2, <3>3
  <2>5. PartsOffBlocks'
    <3> SUFFICES ASSUME NEW v \in DOMAIN parts', NEW j \in 1..Len(blocks')
                 PROVE  Apart(parts'[v].start, PartEnd(v)', blocks'[j].offset, BlockEnd(j)')
      BY DEF PartsOffBlocks
    <3>1. CASE v \in DOMAIN parts /\ j \in 1..Len(blocks)
      BY <1>7, <1>9, <1>10, <1>11, <3>1 DEF IInv, RegionsDisjoint, PartsOffBlocks
    <3>2. CASE v \in DOMAIN parts /\ j = k
      <4>1. PartEnd(v)' <= parts'[v].start \/ PartEnd(v)' <= blocks'[j].offset
        BY <1>1, <1>2, <1>3, <1>7, <1>9, <1>10, <1>12, <2>1, <3>2, PartType
      <4> QED
        BY <4>1 DEF Apart
    <3>3. CASE v = u /\ j \in 1..Len(blocks)
      <4>1. BlockEnd(j)' <= parts'[v].start
        BY <1>9, <1>11, <2>2, <3>3
      <4> QED
        BY <4>1 DEF Apart
    <3>4. CASE v = u /\ j = k
      <4>1. PartEnd(v)' <= blocks'[j].offset
        BY <1>3, <1>7, <1>10, <3>4
      <4> QED
        BY <4>1 DEF Apart
    <3> QED
      BY <1>8, <1>9, <3>1, <3>2, <3>3, <3>4
  <2>6. OffHeader'
    <3>1. data_eof >= HeaderSize
      <4>1. 1 \in 1..Len(blocks)
        BY <1>1, <1>2, EmptySeq DEF TypeOK
      <4>2. blocks[1].offset >= HeaderSize
        BY <4>1 DEF IInv, RegionsDisjoint, OffHeader
      <4> QED
        BY <1>1, <1>2, <2>2, <4>1, <4>2, BlockType, LayoutAssumption
    <3>2. eof1 >= HeaderSize
      BY <1>2, <1>3, <1>12, <3>1, LayoutAssumption
    <3> QED
      BY <1>7, <1>8, <1>9, <3>1, <3>2 DEF IInv, RegionsDisjoint, OffHeader
  <2> QED
    BY <2>3, <2>4, <2>5, <2>6 DEF RegionsDisjoint
<1>17. TrailerReserved' /\ TrailerApart'
  <2> SUFFICES ASSUME trailer # 0 PROVE TrailerReserved' /\ TrailerApart'
    BY <1>5 DEF TrailerReserved, TrailerApart
  <2>1. TrailerSize \in Nat /\ trailer + TrailerSize <= data_eof
    <3>1. trailer + TrailerSize <= file_len /\ file_len <= data_eof /\ TrailerSize \in Nat
      BY LayoutAssumption DEF IInv, Present, CursorAhead
    <3> QED
      BY <1>2, <3>1
  <2>2. trailer + TrailerSize <= eof1
    BY <1>2, <1>3, <1>12, <2>1
  <2>3. TrailerReserved'
    BY <1>5, <1>7, <1>8, <1>11, <2>2 DEF IInv, TrailerReserved, Apart
  <2>4. TrailerApart'
    BY <1>5, <1>7, <1>8, <1>9, <1>10, <1>11, <2>1, <2>2 DEF IInv, TrailerApart, Apart
  <2> QED
    BY <2>3, <2>4
<1>18. CountsMatch'
  <2>1. \A j \in 1..Len(blocks) : EntriesOf(j)' = EntriesOf(j)
    BY <1>8, <1>9 DEF EntriesOf
  <2>2. EntriesOf(k)' = {u}
    BY <1>1, <1>8, <1>9, PartType DEF EntriesOf
  <2>3. Cardinality({u}) = 1
    BY FS_Singleton
  <2>4. /\ blocks'[k].count = Cardinality(EntriesOf(k)')
        /\ blocks'[k].count <= blocks'[k].capacity
        /\ blocks'[k].capacity <= MaxEntries
    BY <1>3, <1>7, <2>2, <2>3
  <2>5. \A j \in 1..Len(blocks) :
            /\ blocks'[j].count = Cardinality(EntriesOf(j)')
            /\ blocks'[j].count <= blocks'[j].capacity
            /\ blocks'[j].capacity <= MaxEntries
    BY <1>7, <2>1 DEF IInv, CountsMatch
  <2> QED
    BY <1>8, <2>4, <2>5 DEF CountsMatch
<1>19. CursorAhead'
  <2>1. \A v \in DOMAIN parts' : parts'[v].max > 0 => PartEnd(v)' <= data_eof'
    <3>1. \A v \in DOMAIN parts : parts[v].max > 0 => PartEnd(v) <= data_eof
      BY DEF IInv, CursorAhead
    <3>2. \A v \in DOMAIN parts : PartEnd(v) \in Nat
      BY <1>1, PartType
    <3> QED
      BY <1>2, <1>3, <1>9, <1>10, <1>12, <3>1, <3>2
  <2>2. \A j \in 1..Len(blocks') : BlockEnd(j)' <= data_eof'
    <3>1. \A j \in 1..Len(blocks) : BlockEnd(j) \in Nat /\ BlockEnd(j) <= data_eof
      BY <1>1, BlockType DEF IInv, CursorAhead
    <3>2. BlockEnd(k)' <= data_eof'
      BY <1>5, <1>11, <1>12
    <3>3. \A j \in 1..Len(blocks) : BlockEnd(j)' <= data_eof'
      BY <1>2, <1>3, <1>11, <1>12, <3>1
    <3> QED
      BY <1>8, <3>2, <3>3
  <2> QED
    BY <1>13, <2>1, <2>2 DEF CursorAhead
<1>20. Present'
  <2>1. \A j \in 1..Len(blocks') : LiveBlockEnd(j)' <= file_len'
    <3>1. \A j \in 1..Len(blocks) : LiveBlockEnd(j) \in Nat /\ LiveBlockEnd(j) <= file_len
      BY <1>1, BlockType DEF IInv, Present
    <3>2. \A j \in 1..Len(blocks) : LiveBlockEnd(j)' <= file_len'
      BY <1>2, <1>11, <1>13, <3>1
    <3>3. LiveBlockEnd(k)' <= file_len'
      BY <1>11, <1>13
    <3> QED
      BY <1>8, <3>2, <3>3
  <2>2. \A v \in DOMAIN parts' :
            /\ parts'[v].used <= parts'[v].max
            /\ parts'[v].used > 0 => parts'[v].start + parts'[v].used <= file_len'
    BY <1>1, <1>2, <1>9, <1>13, PartType DEF IInv, Present
  <2>3. trailer # 0 => trailer + TrailerSize <= file_len'
    BY <1>2, <1>13, LayoutAssumption DEF IInv, Present
  <2> QED
    BY <1>5, <2>1, <2>2, <2>3 DEF Present
<1> QED
  BY <1>14, <1>15, <1>16, <1>17, <1>18, <1>19, <1>20 DEF IInv

-----------------------------------------------------------------------------
(* update_partition_data.                                                  *)

LEMMA UpdateIInv ==
    ASSUME IInv, ~finalized, NEW u \in Uid, NEW n \in Lengths, Update(u, n)
    PROVE  IInv'
<1>1. TypeOK /\ n \in Nat /\ file_len \in Nat /\ data_eof \in Nat /\ trailer \in Nat
  BY LayoutAssumption DEF IInv, TypeOK
<1>2. /\ u \in DOMAIN parts /\ n <= parts[u].max
      /\ file_len' = Grown(parts[u].start, n)
      /\ UNCHANGED <<blocks, data_eof, default_capacity, finalized, trailer>>
  BY DEF Update
<1>3. /\ DOMAIN parts' = DOMAIN parts
      /\ parts' \in [DOMAIN parts ->
            [block : 1..Len(blocks), start : Nat, max : Nat, used : Nat]]
      /\ \A v \in DOMAIN parts : /\ parts'[v].block = parts[v].block
                                 /\ parts'[v].start = parts[v].start
                                 /\ parts'[v].max = parts[v].max
                                 /\ v # u => parts'[v].used = parts[v].used
      /\ parts'[u].used = n
  <2>1. parts' = [parts EXCEPT ![u] = [parts[u] EXCEPT !.used = n]]
    BY DEF Update
  <2>2. parts \in [DOMAIN parts ->
            [block : 1..Len(blocks), start : Nat, max : Nat, used : Nat]]
    BY <1>1 DEF TypeOK
  <2> QED
    BY <1>1, <1>2, <2>1, <2>2
<1>4. /\ \A v \in DOMAIN parts : PartEnd(v)' = PartEnd(v)
      /\ \A i \in 1..Len(blocks) :
            BlockEnd(i)' = BlockEnd(i) /\ LiveBlockEnd(i)' = LiveBlockEnd(i)
  BY <1>2, <1>3 DEF PartEnd, BlockEnd, LiveBlockEnd
<1>5. /\ file_len' \in Nat /\ file_len <= file_len' /\ file_len' <= data_eof
      /\ n > 0 => parts[u].start + n <= file_len'
  <2>1. /\ parts[u].start \in Nat /\ parts[u].max \in Nat
        /\ PartEnd(u) = parts[u].start + parts[u].max
    BY <1>1, <1>2, PartType
  <2>2. /\ file_len' \in Nat /\ file_len <= file_len'
        /\ n > 0 => parts[u].start + n <= file_len'
    BY <1>1, <1>2, <2>1, GrownType
  <2>3. file_len <= data_eof /\ (parts[u].max > 0 => PartEnd(u) <= data_eof)
    BY <1>2 DEF IInv, CursorAhead
  <2>4. CASE n = 0
    BY <1>2, <2>2, <2>3, <2>4 DEF Grown
  <2>5. CASE n > 0
    <3>1. parts[u].start + n <= data_eof
      BY <1>1, <1>2, <2>1, <2>3, <2>5
    <3> QED
      BY <1>1, <1>2, <2>1, <2>2, <2>3, <3>1, GrownType
  <2> QED
    BY <1>1, <2>2, <2>4, <2>5
<1>6. TypeOK'
  BY <1>1, <1>2, <1>3, <1>5 DEF TypeOK
<1>7. IsFiniteSet(DOMAIN parts)'
  BY <1>3 DEF IInv
<1>8. RegionsDisjoint'
  <2>1. RegionsDisjoint
    BY DEF IInv
  <2>2. PartsApart' /\ BlocksApart' /\ PartsOffBlocks'
    BY <1>2, <1>3, <1>4, <2>1 DEF RegionsDisjoint, PartsApart, BlocksApart, PartsOffBlocks
  <2>3. OffHeader'
    BY <1>2, <1>3, <2>1 DEF RegionsDisjoint, OffHeader
  <2> QED
    BY <2>2, <2>3 DEF RegionsDisjoint
<1>9. TrailerApart' /\ TrailerReserved'
  <2>1. TrailerApart /\ TrailerReserved
    BY DEF IInv
  <2> QED
    BY <1>2, <1>3, <1>4, <2>1 DEF TrailerApart, TrailerReserved
<1>10. CountsMatch'
  <2>1. \A i \in 1..Len(blocks) : EntriesOf(i)' = EntriesOf(i)
    BY <1>3 DEF EntriesOf
  <2> QED
    BY <1>2, <2>1 DEF IInv, CountsMatch
<1>11. CursorAhead'
  <2>1. CursorAhead
    BY DEF IInv
  <2>2. \A v \in DOMAIN parts' : parts'[v].max > 0 => PartEnd(v)' <= data_eof
    BY <1>3, <1>4, <2>1 DEF CursorAhead
  <2>3. \A i \in 1..Len(blocks') : BlockEnd(i)' <= data_eof
    BY <1>2, <1>4, <2>1 DEF CursorAhead
  <2> QED
    BY <1>2, <1>5, <2>2, <2>3 DEF CursorAhead
<1>12. Present'
  <2>1. \A i \in 1..Len(blocks') : LiveBlockEnd(i)' <= file_len'
    <3>1. \A i \in 1..Len(blocks) : LiveBlockEnd(i) \in Nat /\ LiveBlockEnd(i) <= file_len
      BY <1>1, BlockType DEF IInv, Present
    <3> QED
      BY <1>1, <1>2, <1>4, <1>5, <3>1
  <2>2. \A v \in DOMAIN parts' :
            /\ parts'[v].used <= parts'[v].max
            /\ parts'[v].used > 0 => parts'[v].start + parts'[v].used <= file_len'
    <3> TAKE v \in DOMAIN parts'
    <3>1. CASE v = u
      BY <1>2, <1>3, <1>5, <3>1
    <3>2. CASE v # u
      <4>1. /\ v \in DOMAIN parts /\ parts'[v].used = parts[v].used
            /\ parts'[v].start = parts[v].start /\ parts'[v].max = parts[v].max
        BY <1>3, <3>2
      <4>2. /\ parts[v].used <= parts[v].max
            /\ parts[v].used > 0 => parts[v].start + parts[v].used <= file_len
        BY <4>1 DEF IInv, Present
      <4>3. parts[v].start \in Nat /\ parts[v].used \in Nat
        BY <1>1, <4>1, PartType
      <4> QED
        BY <1>1, <1>5, <4>1, <4>2, <4>3
    <3> QED
      BY <3>1, <3>2
  <2>3. trailer # 0 => trailer + TrailerSize <= file_len'
    BY <1>1, <1>5, LayoutAssumption DEF IInv, Present
  <2> QED
    BY <1>2, <2>1, <2>2, <2>3 DEF Present
<1> QED
  BY <1>6, <1>7, <1>8, <1>9, <1>10, <1>11, <1>12 DEF IInv

-----------------------------------------------------------------------------
(* remove_partition.                                                       *)

LEMMA RemoveIInv ==
    ASSUME IInv, ~finalized, NEW u \in Uid, Remove(u)
    PROVE  IInv'
<1>1. /\ TypeOK /\ file_len \in Nat /\ data_eof \in Nat /\ trailer \in Nat
      /\ IsFiniteSet(DOMAIN parts)
  BY DEF IInv, TypeOK
<1>2. /\ u \in DOMAIN parts
      /\ parts' = [v \in DOMAIN parts \ {u} |-> parts[v]]
      /\ blocks' = [blocks EXCEPT ![parts[u].block].count = @ - 1]
      /\ UNCHANGED <<data_eof, file_len, default_capacity, finalized, trailer>>
  BY DEF Remove
<1>3. PICK b \in 1..Len(blocks) : b = parts[u].block
  BY <1>1, <1>2, PartType
<1>4. \A i \in 1..Len(blocks) : IsFiniteSet(EntriesOf(i))
  BY <1>1, FS_Subset DEF EntriesOf
<1>5. \A i \in 1..Len(blocks) :
        /\ blocks[i].count \in Nat /\ blocks[i].capacity \in Nat
        /\ blocks[i].count = Cardinality(EntriesOf(i))
        /\ blocks[i].count <= blocks[i].capacity /\ blocks[i].capacity <= MaxEntries
  BY <1>1, BlockType DEF IInv, CountsMatch
<1>6. u \in EntriesOf(b) /\ blocks[b].count > 0 /\ blocks[b].count - 1 \in Nat
  <2>1. u \in EntriesOf(b)
    BY <1>2, <1>3 DEF EntriesOf
  <2>2. Cardinality(EntriesOf(b)) # 0
    BY <1>4, <2>1, FS_EmptySet
  <2> QED
    BY <1>5, <2>1, <2>2
<1>7. /\ blocks' \in Seq(BlockRec) /\ Len(blocks') = Len(blocks)
      /\ \A j \in 1..Len(blocks) : /\ blocks'[j].offset = blocks[j].offset
                                   /\ blocks'[j].capacity = blocks[j].capacity
      /\ blocks'[b].count = blocks[b].count - 1
      /\ \A j \in 1..Len(blocks) : j # b => blocks'[j] = blocks[j]
  <2>1. blocks' = [blocks EXCEPT ![b].count = blocks[b].count - 1]
    BY <1>2, <1>3
  <2> QED
    BY <1>1, <1>6, <2>1, SetCount
<1>8. /\ DOMAIN parts' = DOMAIN parts \ {u}
      /\ \A v \in DOMAIN parts' : parts'[v] = parts[v] /\ PartEnd(v)' = PartEnd(v)
  BY <1>2 DEF PartEnd
<1>9. \A i \in 1..Len(blocks) :
        /\ BlockEnd(i)' = BlockEnd(i)
        /\ LiveBlockEnd(i)' \in Nat /\ LiveBlockEnd(i)' <= LiveBlockEnd(i)
  <2> TAKE i \in 1..Len(blocks)
  <2>1. BlockEnd(i)' = BlockEnd(i)
    BY <1>7 DEF BlockEnd
  <2>2. /\ LiveBlockEnd(i) = blocks[i].offset + BlockLen(blocks[i].count)
        /\ LiveBlockEnd(i)' = blocks[i].offset + BlockLen(blocks'[i].count)
        /\ blocks[i].offset \in Nat
    BY <1>1, <1>7, BlockType DEF LiveBlockEnd
  <2>3. blocks'[i].count \in Nat /\ blocks'[i].count <= blocks[i].count
    BY <1>5, <1>6, <1>7
  <2>4. /\ BlockLen(blocks'[i].count) <= BlockLen(blocks[i].count)
        /\ BlockLen(blocks'[i].count) \in Nat /\ BlockLen(blocks[i].count) \in Nat
    BY <1>5, <2>3, BlockLenType, BlockLenMono
  <2> QED
    BY <2>1, <2>2, <2>4
<1>10. TypeOK'
  <2>1. parts' \in [DOMAIN parts' ->
            [block : 1..Len(blocks'), start : Nat, max : Nat, used : Nat]]
    BY <1>1, <1>2, <1>7 DEF TypeOK
  <2>2. blocks' # <<>>
    BY <1>1, <1>7 DEF TypeOK
  <2> QED
    BY <1>1, <1>2, <1>7, <1>8, <2>1, <2>2 DEF TypeOK, BlockRec
<1>11. IsFiniteSet(DOMAIN parts)'
  BY <1>1, <1>8, FS_RemoveElement
<1>12. RegionsDisjoint'
  <2>1. RegionsDisjoint
    BY DEF IInv
  <2>2. PartsApart' /\ BlocksApart' /\ PartsOffBlocks'
    BY <1>7, <1>8, <1>9, <2>1 DEF RegionsDisjoint, PartsApart, BlocksApart, PartsOffBlocks
  <2>3. OffHeader'
    BY <1>7, <1>8, <2>1 DEF RegionsDisjoint, OffHeader
  <2> QED
    BY <2>2, <2>3 DEF RegionsDisjoint
<1>13. TrailerReserved'
  BY <1>2, <1>7, <1>9 DEF IInv, TrailerReserved
<1>14. TrailerApart'
  <2> SUFFICES ASSUME trailer # 0 PROVE TrailerApart'
    BY <1>2 DEF TrailerApart
  <2>1. \A i \in 1..Len(blocks) :
            Apart(trailer, trailer + TrailerSize, blocks[i].offset, LiveBlockEnd(i)')
    <3> TAKE i \in 1..Len(blocks)
    <3>1. Apart(trailer, trailer + TrailerSize, blocks[i].offset, LiveBlockEnd(i))
      BY DEF IInv, TrailerApart
    <3>2. /\ LiveBlockEnd(i)' \in Nat /\ LiveBlockEnd(i)' <= LiveBlockEnd(i)
          /\ LiveBlockEnd(i) \in Nat /\ blocks[i].offset \in Nat /\ TrailerSize \in Nat
      BY <1>1, <1>9, BlockType, LayoutAssumption
    <3> QED
      BY <1>1, <3>1, <3>2 DEF Apart
  <2>2. \A v \in DOMAIN parts' :
            Apart(trailer, trailer + TrailerSize, parts'[v].start, PartEnd(v)')
    BY <1>8 DEF IInv, TrailerApart
  <2> QED
    BY <1>2, <1>7, <2>1, <2>2 DEF TrailerApart
<1>15. CountsMatch'
  <2> SUFFICES ASSUME NEW j \in 1..Len(blocks)
               PROVE  /\ blocks'[j].count = Cardinality(EntriesOf(j)')
                      /\ blocks'[j].count <= blocks'[j].capacity
                      /\ blocks'[j].capacity <= MaxEntries
    BY <1>7 DEF CountsMatch
  <2>1. CASE j = b
    <3>1. EntriesOf(j)' = EntriesOf(j) \ {u}
      BY <1>8 DEF EntriesOf
    <3>2. Cardinality(EntriesOf(j)') = Cardinality(EntriesOf(j)) - 1
      BY <1>4, <1>6, <2>1, <3>1, FS_RemoveElement
    <3> QED
      BY <1>5, <1>7, <2>1, <3>2
  <2>2. CASE j # b
    <3>1. EntriesOf(j)' = EntriesOf(j)
      BY <1>3, <1>8, <2>2 DEF EntriesOf
    <3> QED
      BY <1>5, <1>7, <2>2, <3>1
  <2> QED
    BY <2>1, <2>2
<1>16. CursorAhead'
  BY <1>2, <1>7, <1>8, <1>9 DEF IInv, CursorAhead
<1>17. Present'
  <2>1. \A i \in 1..Len(blocks') : LiveBlockEnd(i)' <= file_len'
    <3> SUFFICES ASSUME NEW i \in 1..Len(blocks) PROVE LiveBlockEnd(i)' <= file_len
      BY <1>2, <1>7
    <3>1. LiveBlockEnd(i) \in Nat /\ LiveBlockEnd(i) <= file_len
      BY <1>1, BlockType DEF IInv, Present
    <3> QED
      BY <1>1, <1>9, <3>1
  <2> QED
    BY <1>2, <1>8, <2>1 DEF IInv, Present
<1> QED
  BY <1>10, <1>11, <1>12, <1>13, <1>14, <1>15, <1>16, <1>17 DEF IInv

-----------------------------------------------------------------------------
(* finalize_with_trailer, of a file that contains its reservations.        *)

LEMMA FinalizeIInv ==
    ASSUME IInv, ~finalized, Materialised, Finalize
    PROVE  IInv'
<1>1. /\ TypeOK /\ file_len \in Nat /\ TrailerSize \in Nat /\ TrailerSize > 0
  <2>1. TypeOK
    BY DEF IInv
  <2>2. file_len \in Nat
    BY <2>1 DEF TypeOK
  <2> QED
    BY <2>1, <2>2, LayoutAssumption
<1>2. /\ trailer' = file_len /\ finalized' = TRUE
      /\ file_len' = file_len + TrailerSize /\ data_eof' = file_len + TrailerSize
      /\ UNCHANGED <<blocks, parts, default_capacity>>
  BY DEF Finalize
<1>3. /\ \A v \in DOMAIN parts : PartEnd(v)' = PartEnd(v)
      /\ \A i \in 1..Len(blocks) :
            BlockEnd(i)' = BlockEnd(i) /\ LiveBlockEnd(i)' = LiveBlockEnd(i)
      /\ \A i \in 1..Len(blocks) : EntriesOf(i)' = EntriesOf(i)
  BY <1>2 DEF PartEnd, BlockEnd, LiveBlockEnd, EntriesOf
<1>4. TypeOK' /\ IsFiniteSet(DOMAIN parts)'
  <2>1. file_len + TrailerSize \in Nat
    BY <1>1
  <2>2. TypeOK'
    BY <1>1, <1>2, <2>1 DEF TypeOK
  <2>3. IsFiniteSet(DOMAIN parts)'
    BY <1>2 DEF IInv
  <2> QED
    BY <2>2, <2>3
<1>5. RegionsDisjoint'
  <2>1. RegionsDisjoint
    BY DEF IInv
  <2> QED
    BY <1>2, <1>3, <2>1
       DEF RegionsDisjoint, PartsApart, BlocksApart, PartsOffBlocks, OffHeader
<1>6. TrailerApart'
  <2>1. \A i \in 1..Len(blocks) :
            Apart(file_len, file_len + TrailerSize, blocks[i].offset, LiveBlockEnd(i))
    BY DEF IInv, Present, Apart
  <2>2. \A v \in DOMAIN parts :
            Apart(file_len, file_len + TrailerSize, parts[v].start, PartEnd(v))
    <3> TAKE v \in DOMAIN parts
    <3>1. PartEnd(v) <= parts[v].start \/ PartEnd(v) <= file_len
      BY <1>1, PartType DEF Materialised
    <3> QED
      BY <1>1, <3>1, PartType DEF Apart
  <2> QED
    BY <1>2, <1>3, <2>1, <2>2 DEF TrailerApart
<1>7. TrailerReserved'
  BY <1>2 DEF TrailerReserved
<1>8. CountsMatch'
  BY <1>2, <1>3 DEF IInv, CountsMatch
<1>9. CursorAhead'
  BY <1>1, <1>2 DEF CursorAhead
<1>10. Present'
  <2>1. \A i \in 1..Len(blocks') : LiveBlockEnd(i)' <= file_len'
    <3> SUFFICES ASSUME NEW i \in 1..Len(blocks)
                 PROVE  LiveBlockEnd(i) <= file_len + TrailerSize
      BY <1>2, <1>3
    <3>1. LiveBlockEnd(i) \in Nat /\ LiveBlockEnd(i) <= file_len
      BY <1>1, BlockType DEF IInv, Present
    <3> QED
      BY <1>1, <3>1
  <2>2. \A v \in DOMAIN parts' :
            /\ parts'[v].used <= parts'[v].max
            /\ parts'[v].used > 0 => parts'[v].start + parts'[v].used <= file_len'
    BY <1>1, <1>2, PartType DEF IInv, Present
  <2>3. trailer' + TrailerSize <= file_len'
    BY <1>1, <1>2
  <2> QED
    BY <2>1, <2>2, <2>3 DEF Present
<1> QED
  BY <1>4, <1>5, <1>6, <1>7, <1>8, <1>9, <1>10 DEF IInv

-----------------------------------------------------------------------------
(* Dropping the handle and opening the file again.                         *)

LEMMA ReopenIInv ==
    ASSUME IInv, Materialised, Reopen
    PROVE  IInv'
<1>1. /\ TypeOK /\ file_len \in Nat /\ data_eof \in Nat /\ trailer \in Nat
      /\ blocks \in Seq(BlockRec) /\ Len(blocks) \in Nat
      /\ TrailerSize \in Nat /\ OpenCapacity \in Nat
  BY LayoutAssumption, LenProperties DEF IInv, TypeOK, BlockRec
<1>2. /\ blocks' = [i \in 1..Len(blocks) |->
                        [blocks[i] EXCEPT !.capacity = blocks[i].count]]
      /\ data_eof' = file_len /\ default_capacity' = OpenCapacity /\ finalized' = FALSE
      /\ UNCHANGED <<parts, file_len, trailer>>
  BY DEF Reopen
<1>3. /\ blocks' \in Seq(BlockRec) /\ Len(blocks') = Len(blocks)
      /\ \A i \in 1..Len(blocks) : /\ blocks'[i].offset = blocks[i].offset
                                   /\ blocks'[i].capacity = blocks[i].count
                                   /\ blocks'[i].count = blocks[i].count
  <2>1. \A i \in 1..Len(blocks) :
            /\ [blocks[i] EXCEPT !.capacity = blocks[i].count] \in BlockRec
            /\ [blocks[i] EXCEPT !.capacity = blocks[i].count].offset = blocks[i].offset
            /\ [blocks[i] EXCEPT !.capacity = blocks[i].count].capacity = blocks[i].count
            /\ [blocks[i] EXCEPT !.capacity = blocks[i].count].count = blocks[i].count
    BY <1>1, BlockType DEF BlockRec
  <2>2. blocks' \in [1..Len(blocks) -> BlockRec]
    BY <1>2, <2>1
  <2>3. blocks' \in Seq(BlockRec) /\ Len(blocks') = Len(blocks)
    BY <1>1, <2>2
  <2> QED
    BY <1>2, <2>1, <2>3
<1>4. \A i \in 1..Len(blocks) :
        /\ blocks[i].count \in Nat /\ blocks[i].capacity \in Nat
        /\ blocks[i].count = Cardinality(EntriesOf(i))
        /\ blocks[i].count <= blocks[i].capacity /\ blocks[i].capacity <= MaxEntries
  BY <1>1, BlockType DEF IInv, CountsMatch
<1>5. /\ \A v \in DOMAIN parts : PartEnd(v)' = PartEnd(v)
      /\ \A i \in 1..Len(blocks) : EntriesOf(i)' = EntriesOf(i)
      /\ \A i \in 1..Len(blocks) :
            BlockEnd(i)' = LiveBlockEnd(i) /\ LiveBlockEnd(i)' = LiveBlockEnd(i)
  BY <1>2, <1>3 DEF PartEnd, BlockEnd, LiveBlockEnd, EntriesOf
\* What is no longer reserved: a block shrinks to the entries it has.
<1>6. \A i \in 1..Len(blocks) :
        /\ LiveBlockEnd(i) \in Nat /\ BlockEnd(i) \in Nat /\ blocks[i].offset \in Nat
        /\ LiveBlockEnd(i) <= BlockEnd(i)
  <2> TAKE i \in 1..Len(blocks)
  <2>1. /\ BlockEnd(i) = blocks[i].offset + BlockLen(blocks[i].capacity)
        /\ LiveBlockEnd(i) = blocks[i].offset + BlockLen(blocks[i].count)
        /\ blocks[i].offset \in Nat /\ LiveBlockEnd(i) \in Nat /\ BlockEnd(i) \in Nat
    BY <1>1, BlockType
  <2>2. /\ BlockLen(blocks[i].count) <= BlockLen(blocks[i].capacity)
        /\ BlockLen(blocks[i].count) \in Nat /\ BlockLen(blocks[i].capacity) \in Nat
    BY <1>4, BlockLenType, BlockLenMono
  <2> QED
    BY <2>1, <2>2
<1>7. TypeOK' /\ IsFiniteSet(DOMAIN parts)'
  <2>1. blocks' # <<>>
    BY <1>1, <1>3 DEF TypeOK
  <2> QED
    BY <1>1, <1>2, <1>3, <2>1 DEF IInv, TypeOK, BlockRec
<1>8. RegionsDisjoint'
  <2>1. RegionsDisjoint
    BY DEF IInv
  <2>2. PartsApart'
    BY <1>2, <1>5, <2>1 DEF RegionsDisjoint, PartsApart
  <2>3. BlocksApart'
    <3> SUFFICES ASSUME NEW i \in 1..Len(blocks), NEW j \in 1..Len(blocks), i # j
                 PROVE  Apart(blocks[i].offset, LiveBlockEnd(i),
                              blocks[j].offset, LiveBlockEnd(j))
      BY <1>3, <1>5 DEF BlocksApart
    <3>1. Apart(blocks[i].offset, BlockEnd(i), blocks[j].offset, BlockEnd(j))
      BY <2>1 DEF RegionsDisjoint, BlocksApart
    <3> QED
      BY <1>1, <1>6, <3>1, BlockType DEF Apart
  <2>4. PartsOffBlocks'
    <3> SUFFICES ASSUME NEW v \in DOMAIN parts, NEW j \in 1..Len(blocks)
                 PROVE  Apart(parts[v].start, PartEnd(v), blocks[j].offset, LiveBlockEnd(j))
      BY <1>2, <1>3, <1>5 DEF PartsOffBlocks
    <3>1. Apart(parts[v].start, PartEnd(v), blocks[j].offset, BlockEnd(j))
      BY <2>1 DEF RegionsDisjoint, PartsOffBlocks
    <3>2. BlockEnd(j) > blocks[j].offset
      BY <1>1, BlockType
    <3> QED
      BY <1>1, <1>6, <3>1, <3>2, PartType DEF Apart
  <2>5. OffHeader'
    BY <1>2, <1>3, <2>1 DEF RegionsDisjoint, OffHeader
  <2> QED
    BY <2>2, <2>3, <2>4, <2>5 DEF RegionsDisjoint
<1>9. TrailerApart' /\ TrailerReserved'
  BY <1>2, <1>3, <1>5 DEF IInv, TrailerApart, TrailerReserved
<1>10. CountsMatch'
  <2> SUFFICES ASSUME NEW i \in 1..Len(blocks)
               PROVE  /\ blocks'[i].count = Cardinality(EntriesOf(i)')
                      /\ blocks'[i].count <= blocks'[i].capacity
                      /\ blocks'[i].capacity <= MaxEntries
    BY <1>3 DEF CountsMatch
  <2>1. blocks[i].count <= MaxEntries
    BY <1>4, LayoutAssumption
  <2> QED
    BY <1>3, <1>4, <1>5, <2>1
<1>11. CursorAhead'
  <2>1. \A v \in DOMAIN parts : parts[v].max > 0 => PartEnd(v) <= file_len
    BY <1>1, PartType DEF Materialised
  <2>2. \A i \in 1..Len(blocks) : LiveBlockEnd(i) <= file_len
    BY DEF IInv, Present
  <2> QED
    BY <1>1, <1>2, <1>3, <1>5, <2>1, <2>2 DEF CursorAhead
<1>12. Present'
  BY <1>2, <1>3, <1>5 DEF IInv, Present
<1> QED
  BY <1>7, <1>8, <1>9, <1>10, <1>11, <1>12 DEF IInv

LEMMA StutterIInv ==
    ASSUME IInv, UNCHANGED vars
    PROVE  IInv'
  BY DEF IInv, vars, TypeOK, RegionsDisjoint, PartsApart, BlocksApart, PartsOffBlocks,
         OffHeader, TrailerApart, TrailerReserved, CountsMatch, EntriesOf, CursorAhead,
         Present, PartEnd, BlockEnd, LiveBlockEnd

-----------------------------------------------------------------------------
(* The theorems.                                                           *)

\* One step of the editing operations, whichever it is.
LEMMA EditIInv ==
    ASSUME IInv, ~finalized, Edit
    PROVE  IInv'
<1>1. CASE \E u \in Uid, n \in Lengths, r \in Reserves, i \in 1..Len(blocks) :
                AddInPlace(u, n, r, i)
  BY <1>1, AddInPlaceIInv
<1>2. CASE \E u \in Uid, n \in Lengths, r \in Reserves : AddInOverflow(u, n, r)
  BY <1>2, AddInOverflowIInv
<1>3. CASE \E u \in Uid, n \in Lengths : Update(u, n)
  BY <1>3, UpdateIInv
<1>4. CASE \E u \in Uid : Remove(u)
  BY <1>4, RemoveIInv
<1> QED
  BY <1>1, <1>2, <1>3, <1>4 DEF Edit

\* The strengthened invariant holds in every reachable state.
THEOREM Placement == SafeSpec => []IInv
<1>1. IInv /\ [SafeNext]_vars => IInv'
  <2> SUFFICES ASSUME IInv, [SafeNext]_vars PROVE IInv'
    OBVIOUS
  <2>1. CASE ~finalized /\ Edit
    BY <2>1, EditIInv
  <2>2. CASE ~finalized /\ Materialised /\ Finalize
    BY <2>2, FinalizeIInv
  <2>3. CASE Materialised /\ Reopen
    BY <2>3, ReopenIInv
  <2>4. CASE UNCHANGED vars
    BY <2>4, StutterIInv
  <2> QED
    BY <2>1, <2>2, <2>3, <2>4 DEF SafeNext
<1> QED
  BY InitIInv, <1>1, PTL DEF SafeSpec

\* Every field of the handle and of the placement keeps its type: in particular
\* remove_partition never takes a block's u8 counter below zero.
THEOREM Typing == SafeSpec => []TypeOK
  BY Placement, PTL DEF IInv

\* No two reservations ever share a byte: partitions, table blocks with their
\* spare capacity, and the file header stay pairwise disjoint through every
\* sequence of additions, in-place updates, removals, trailers and re-openings.
THEOREM Disjointness == SafeSpec => []RegionsDisjoint
  BY Placement, PTL DEF IInv

\* The newest trailer is never under a live table block or a reservation, so no
\* later in-place update can destroy the file's only pointer to its table.
THEOREM TrailerSafety == SafeSpec => []TrailerApart
  BY Placement, PTL DEF IInv

\* The in-memory count of a block is the number of its live entries and never
\* passes the capacity that was reserved for it or the width of the counter.
THEOREM Counting == SafeSpec => []CountsMatch
  BY Placement, PTL DEF IInv

\* The cursor is past the physical end of the file and, while the handle may
\* edit, past everything reserved: a new partition never lands on an old one.
THEOREM Freshness == SafeSpec => []CursorAhead
  BY Placement, PTL DEF IInv

\* Every live table block, every partition's used bytes and the newest trailer
\* are inside the physical file, so readers never hit its end.
THEOREM Presence == SafeSpec => []Present
  BY Placement, PTL DEF IInv
=============================================================================
