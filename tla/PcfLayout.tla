----------------------------- MODULE PcfLayout ------------------------------
(***************************************************************************)
(* Where the container writer puts things: the placement strategy that     *)
(* reference/PCF-v1.0/src/container.rs documents in its header, reduced to *)
(* offsets and lengths.  The format "TRUSTS the Writer regarding physical  *)
(* layout" (PCF spec, section 12): no reader ever checks that regions do   *)
(* not overlap, so that they do not is the writer's own invariant.         *)
(*                                                                         *)
(* The sizes are parameters; PcfContainer, where every record is one cell, *)
(* implements this module with all of them equal to 1.                     *)
(***************************************************************************)
EXTENDS Integers, Sequences, FiniteSets

CONSTANTS
    HeaderSize, TableHeaderSize, EntrySize, TrailerSize,
    MaxEntries,      \* MAX_ENTRIES_PER_BLOCK
    OpenCapacity,    \* capacity of overflow blocks after open
    FirstCapacities, \* first_block_capacity values passed to create_with
    Uid,             \* the UIDs of the partitions
    Lengths,         \* lengths of the data that is stored
    Reserves,        \* extra_reserve values passed to add_partition
    MaxEof           \* bound: the writer stops when data_eof would pass it

ASSUME LayoutAssumption ==
    /\ {HeaderSize, TableHeaderSize, EntrySize, TrailerSize} \subseteq Nat \ {0}
    /\ {MaxEntries, OpenCapacity} \subseteq Nat \ {0}
    /\ FirstCapacities \subseteq Nat /\ Lengths \subseteq Nat /\ Reserves \subseteq Nat

VARIABLES
    blocks,           \* the handle's blocks: offset, capacity, count
    parts,            \* per live UID: its block, start_offset, max_length, used_bytes
    data_eof,         \* the end-of-data cursor
    file_len,         \* the physical length of the file
    default_capacity, \* capacity of the next overflow block
    finalized,        \* the handle has run finalize_with_trailer
    trailer           \* offset of the newest trailer, 0 when there is none

vars == <<blocks, parts, data_eof, file_len, default_capacity, finalized, trailer>>

-----------------------------------------------------------------------------
BlockLen(n) == TableHeaderSize + n * EntrySize

clamp(n) == IF n < 1 THEN 1 ELSE IF n > MaxEntries THEN MaxEntries ELSE n

Larger(m, n) == IF m >= n THEN m ELSE n

\* The file length after n bytes were written at off; writing none changes nothing.
Grown(off, n) == IF n = 0 THEN file_len ELSE Larger(file_len, off + n)

Block(off, cap, n) == [offset |-> off, capacity |-> cap, count |-> n]

\* create_with: capacity is reserved beyond the 94 bytes that are written.
Init ==
    \E c \in FirstCapacities :
        /\ blocks = <<Block(HeaderSize, clamp(c), 0)>>
        /\ parts = [u \in {} |-> 0]
        /\ data_eof = HeaderSize + BlockLen(clamp(c))
        /\ file_len = HeaderSize + TableHeaderSize
        /\ default_capacity = clamp(c)
        /\ finalized = FALSE
        /\ trailer = 0

\* Mutant: only the u8 limit is respected, not the reserved capacity.
Roomy_Unreserved == {i \in 1..Len(blocks) : blocks[i].count < MaxEntries}
Roomy == {i \in 1..Len(blocks) :
            blocks[i].count < blocks[i].capacity /\ blocks[i].count < MaxEntries}

Placed(u, b, start, max, used) ==
    [v \in DOMAIN parts \cup {u} |->
        IF v = u THEN [block |-> b, start |-> start, max |-> max, used |-> used]
        ELSE parts[v]]

\* Mutant: the cursor skips the data and not the reservation after it.
AddInPlace_Unreserved(u, n, reserve, i) ==
    /\ u \notin DOMAIN parts
    /\ i \in Roomy /\ \A j \in Roomy : i <= j
    /\ parts' = Placed(u, i, data_eof, n + reserve, n)
    /\ blocks' = [blocks EXCEPT ![i].count = @ + 1]
    /\ data_eof' = data_eof + n
    /\ data_eof' <= MaxEof
    /\ file_len' = Larger(Grown(data_eof, n),
                          blocks[i].offset + BlockLen(blocks[i].count + 1))
    /\ UNCHANGED <<default_capacity, finalized, trailer>>

\* add_partition when a block has room: the data at the cursor, the entry in
\* the first such block.
AddInPlace(u, n, reserve, i) ==
    /\ u \notin DOMAIN parts
    /\ i \in Roomy /\ \A j \in Roomy : i <= j
    /\ parts' = Placed(u, i, data_eof, n + reserve, n)
    /\ blocks' = [blocks EXCEPT ![i].count = @ + 1]
    /\ data_eof' = data_eof + n + reserve
    /\ data_eof' <= MaxEof
    /\ file_len' = Larger(Grown(data_eof, n),
                          blocks[i].offset + BlockLen(blocks[i].count + 1))
    /\ UNCHANGED <<default_capacity, finalized, trailer>>

\* add_partition when every block is full: an overflow block after the data.
AddInOverflow(u, n, reserve) ==
    LET eof1 == data_eof + n + reserve  cap == clamp(default_capacity) IN
    /\ u \notin DOMAIN parts
    /\ Roomy = {}
    /\ parts' = Placed(u, Len(blocks) + 1, data_eof, n + reserve, n)
    /\ blocks' = Append(blocks, Block(eof1, cap, 1))
    /\ data_eof' = eof1 + BlockLen(cap)
    /\ data_eof' <= MaxEof
    /\ file_len' = Larger(Grown(data_eof, n), eof1 + BlockLen(1))
    /\ UNCHANGED <<default_capacity, finalized, trailer>>

\* Mutant: the new length is not checked against max_length.
Update_Unchecked(u, n) ==
    /\ u \in DOMAIN parts
    /\ parts' = [parts EXCEPT ![u].used = n]
    /\ file_len' = Grown(parts[u].start, n)
    /\ UNCHANGED <<blocks, data_eof, default_capacity, finalized, trailer>>

\* update_partition_data: in place, within the reservation.
Update(u, n) ==
    /\ u \in DOMAIN parts
    /\ n <= parts[u].max
    /\ parts' = [parts EXCEPT ![u].used = n]
    /\ file_len' = Grown(parts[u].start, n)
    /\ UNCHANGED <<blocks, data_eof, default_capacity, finalized, trailer>>

\* Mutant: the entry is always counted out of the first block.
Remove_FirstBlock(u) ==
    /\ u \in DOMAIN parts
    /\ parts' = [v \in DOMAIN parts \ {u} |-> parts[v]]
    /\ blocks' = [blocks EXCEPT ![1].count = @ - 1]
    /\ UNCHANGED <<data_eof, file_len, default_capacity, finalized, trailer>>

\* remove_partition: the region is not reclaimed, the cursor does not move.
Remove(u) ==
    /\ u \in DOMAIN parts
    /\ parts' = [v \in DOMAIN parts \ {u} |-> parts[v]]
    /\ blocks' = [blocks EXCEPT ![parts[u].block].count = @ - 1]
    /\ UNCHANGED <<data_eof, file_len, default_capacity, finalized, trailer>>

\* finalize_with_trailer: the trailer goes to the physical end of the file.
Finalize ==
    /\ trailer' = file_len
    /\ file_len' = file_len + TrailerSize
    /\ data_eof' = file_len + TrailerSize
    /\ data_eof' <= MaxEof
    /\ finalized' = TRUE
    /\ UNCHANGED <<blocks, parts, default_capacity>>

\* Mutant: a block is opened as if room for MaxEntries entries had been reserved.
Reopen_Spare ==
    /\ blocks' = [i \in 1..Len(blocks) |-> [blocks[i] EXCEPT !.capacity = MaxEntries]]
    /\ data_eof' = file_len
    /\ default_capacity' = OpenCapacity
    /\ finalized' = FALSE
    /\ UNCHANGED <<parts, file_len, trailer>>

\* The handle is dropped and the file opened again: no spare capacity is known
\* and the cursor is the physical end of the file.
Reopen ==
    /\ blocks' = [i \in 1..Len(blocks) |-> [blocks[i] EXCEPT !.capacity = blocks[i].count]]
    /\ data_eof' = file_len
    /\ default_capacity' = OpenCapacity
    /\ finalized' = FALSE
    /\ UNCHANGED <<parts, file_len, trailer>>

Edit ==
    \/ \E u \in Uid, n \in Lengths, r \in Reserves :
            \/ \E i \in 1..Len(blocks) : AddInPlace(u, n, r, i)
            \/ AddInOverflow(u, n, r)
    \/ \E u \in Uid, n \in Lengths : Update(u, n)
    \/ \E u \in Uid : Remove(u)

\* The reservations of all live partitions lie inside the physical file.
Materialised ==
    \A u \in DOMAIN parts :
        parts[u].max > 0 => parts[u].start + parts[u].max <= file_len

\* The discipline under which the placement is sound: finalize_with_trailer is
\* the last thing done with a handle ("a finalisation step rather than a prelude
\* to further in-place edits"), and a handle is left only when no reservation
\* reaches beyond the end of the file, since nothing on disk would keep it.
SafeNext ==
    \/ ~finalized /\ Edit
    \/ ~finalized /\ Materialised /\ Finalize
    \/ Materialised /\ Reopen

SafeSpec == Init /\ [][SafeNext]_vars

-----------------------------------------------------------------------------
(* Properties.                                                             *)

TypeOK ==
    /\ blocks \in Seq([offset : Nat, capacity : Nat, count : Nat]) /\ blocks # <<>>
    /\ DOMAIN parts \subseteq Uid
    /\ parts \in [DOMAIN parts -> [block : 1..Len(blocks), start : Nat, max : Nat, used : Nat]]
    /\ {data_eof, file_len, default_capacity, trailer} \subseteq Nat
    /\ finalized \in BOOLEAN

\* Two half-open intervals share no byte; an empty interval shares none.
Apart(lo1, hi1, lo2, hi2) ==
    lo1 >= hi1 \/ lo2 >= hi2 \/ hi1 <= lo2 \/ hi2 <= lo1

PartEnd(u) == parts[u].start + parts[u].max
BlockEnd(i) == blocks[i].offset + BlockLen(blocks[i].capacity)
LiveBlockEnd(i) == blocks[i].offset + BlockLen(blocks[i].count)

PartsApart ==
    \A u, v \in DOMAIN parts :
        u # v => Apart(parts[u].start, PartEnd(u), parts[v].start, PartEnd(v))
BlocksApart ==
    \A i, j \in 1..Len(blocks) :
        i # j => Apart(blocks[i].offset, BlockEnd(i), blocks[j].offset, BlockEnd(j))
PartsOffBlocks ==
    \A u \in DOMAIN parts, i \in 1..Len(blocks) :
        Apart(parts[u].start, PartEnd(u), blocks[i].offset, BlockEnd(i))
OffHeader ==
    /\ \A u \in DOMAIN parts : parts[u].max > 0 => parts[u].start >= HeaderSize
    /\ \A i \in 1..Len(blocks) : blocks[i].offset >= HeaderSize

\* No two reservations share a byte, whatever was added, grown, shrunk and
\* removed, and through every re-opening: partitions with partitions, table
\* blocks with table blocks, partitions with table blocks, and nothing with the
\* file header.  This is PCF spec 11.3 ("no overlap with other regions") for
\* the cursor arithmetic of add_partition, create_with and open; growth in
\* place (assumption A6) is only safe because of it.
RegionsDisjoint == PartsApart /\ BlocksApart /\ PartsOffBlocks /\ OffHeader

\* A trailer that locate_trailer has to find survives: it lies in no live part
\* of a table block and in no reservation, hence no later update_partition_data
\* writes over it, although finalize_with_trailer puts it at the physical end of
\* the file and not at the end of the reservations.
TrailerApart ==
    trailer # 0 =>
        /\ \A i \in 1..Len(blocks) :
                Apart(trailer, trailer + TrailerSize, blocks[i].offset, LiveBlockEnd(i))
        /\ \A u \in DOMAIN parts :
                Apart(trailer, trailer + TrailerSize, parts[u].start, PartEnd(u))

\* The count a block carries in memory is the number of partitions in it and
\* stays within its capacity, so the entry add_partition appends lands inside
\* the reserved block and remove_partition never underflows the u8 counter.
EntriesOf(i) == {u \in DOMAIN parts : parts[u].block = i}
CountsMatch ==
    \A i \in 1..Len(blocks) :
        /\ blocks[i].count = Cardinality(EntriesOf(i))
        /\ blocks[i].count <= blocks[i].capacity
        /\ blocks[i].capacity <= MaxEntries

\* The end-of-data cursor is ahead of the file and of everything reserved, so
\* what add_partition places at the cursor is fresh: beyond every reservation
\* and beyond every byte written so far.
CursorAhead ==
    /\ file_len <= data_eof
    /\ ~finalized =>
        /\ \A u \in DOMAIN parts : parts[u].max > 0 => PartEnd(u) <= data_eof
        /\ \A i \in 1..Len(blocks) : BlockEnd(i) <= data_eof

\* Whatever a reader is sent to is physically in the file, although reservations
\* and spare capacity are not: no read_exact on a live table block, on the used
\* bytes of a partition or on the trailer runs past the end of the file.
Present ==
    /\ \A i \in 1..Len(blocks) : LiveBlockEnd(i) <= file_len
    /\ \A u \in DOMAIN parts :
            /\ parts[u].used <= parts[u].max
            /\ parts[u].used > 0 => parts[u].start + parts[u].used <= file_len
    /\ trailer # 0 => trailer + TrailerSize <= file_len
=============================================================================
