---------------------------- MODULE PcfContainer ----------------------------
(***************************************************************************)
(* The container of reference/PCF-v1.0: one Container handle reading and   *)
(* writing one file.  PcfRecords says what a file is.  The partition type  *)
(* is always RAW and labels are left out, with the checks of add_partition *)
(* on them, which fail before anything is written.                         *)
(***************************************************************************)
EXTENDS PcfRecords

CONSTANTS
    Uid,               \* the UIDs the application uses; Nil is not one
    Contents,          \* the data it stores: sequences of cells
    Reserves,          \* the values of extra_reserve it passes
    DataAlgos,         \* the hash algorithms it chooses for data ...
    TableAlgos,        \* ... and for the table, see create_with
    FirstCapacities,   \* the first_block_capacity values it passes
    MaxEntries,        \* MAX_ENTRIES_PER_BLOCK, 255 in the code
    OpenCapacity,      \* capacity of overflow blocks after open, 16 in the code
    MaxEof             \* bound: additions stop when data_eof would pass it

ASSUME ContainerAssumption ==
    /\ Nil \notin Uid
    /\ Reserves \subseteq Nat /\ FirstCapacities \subseteq Nat
    /\ {MaxEntries, OpenCapacity} \subseteq Nat \ {0}
    /\ DataAlgos \cup TableAlgos \subseteq {"None", "Sha256"}
    /\ MaxEof \in Nat

VARIABLES
    file,              \* the bytes on the storage
    open,              \* whether a Container handle exists
    finalized,         \* the handle has run finalize_with_trailer
    table_head,        \* the fields of the handle, by their names in the code
    blocks,
    data_eof,
    default_capacity,
    table_hash_algo

handle == <<open, finalized, table_head, blocks, data_eof, default_capacity,
            table_hash_algo>>
vars == <<file, handle>>

clamp(n, lo, hi) == Max({lo, Min({n, hi})})

-----------------------------------------------------------------------------
(* Construction: Init is the state create_with leaves.                     *)

BlockInfo(off, cap, n, algo, next) ==
    [offset |-> off, capacity |-> cap, count |-> n, algo |-> algo, next |-> next]

Init ==
    \E c \in FirstCapacities, algo \in TableAlgos :
        LET cap == clamp(c, 1, MaxEntries) IN
        /\ file = <<HeaderCell(HeaderSize),
                    BlockCell(0, 0, algo, TableHash(algo, 0, <<>>))>>
        /\ open = TRUE
        /\ finalized = FALSE
        /\ table_head = HeaderSize
        /\ blocks = <<BlockInfo(HeaderSize, cap, 0, algo, 0)>>
        /\ data_eof = HeaderSize + TableHeaderSize + cap * EntrySize
        /\ default_capacity = cap
        /\ table_hash_algo = algo

\* The handle is dropped (into_storage); the file stays.
Forget ==
    /\ open' = FALSE
    /\ finalized' = FALSE
    /\ table_head' = 0
    /\ blocks' = <<>>
    /\ data_eof' = 0
    /\ default_capacity' = 0
    /\ table_hash_algo' = "None"

Close == open /\ Forget /\ UNCHANGED file

\* Mutant: open assumes that a block has room for MaxEntries entries.
BlocksOnDisk_Spare(f, head) ==
    LET c == Chain(f, head) IN
    [i \in DOMAIN c |->
        LET h == BlockAt(f, c[i]) IN BlockInfo(c[i], MaxEntries, h.count, h.algo, h.next)]

\* What open records of the blocks on disk: no spare capacity is known.
BlocksOnDisk(f, head) ==
    LET c == Chain(f, head) IN
    [i \in DOMAIN c |->
        LET h == BlockAt(f, c[i]) IN BlockInfo(c[i], h.count, h.count, h.algo, h.next)]

\* Container::open.  data_eof is the physical end of the file.
Open ==
    /\ ~open
    /\ HeaderReadable(file)
    /\ LET head == ResolveHead(file)
           bs == BlocksOnDisk(file, head)
       IN  /\ ChainReadable(file, head)
           /\ table_head' = head
           /\ blocks' = bs
           /\ table_hash_algo' = IF bs = <<>> THEN "Sha256" ELSE bs[1].algo
    /\ open' = TRUE
    /\ default_capacity' = OpenCapacity
    /\ data_eof' = Len(file)
    /\ UNCHANGED <<file, finalized>>

-----------------------------------------------------------------------------
(* The three editing operations.  Each Plan is the list of writes in the   *)
(* order of the code and what the handle holds once all of them are done.  *)

\* An operation that cannot read the chain fails before it writes.
Editable == open /\ ChainReadable(file, table_head)

Located(u) ==
    LET es == Entries(file, table_head) IN \E i \in DOMAIN es : es[i].uid = u

\* block_index: the place of a block in the handle's list.
block_index(off) == CHOOSE i \in DOMAIN blocks : blocks[i].offset = off

\* locate: the first entry with this UID, the block that holds it and its slot.
Locate(u) ==
    LET chain == Chain(file, table_head)
        hits(off) == {s \in DOMAIN EntriesAt(file, off) : EntriesAt(file, off)[s].uid = u}
        off == chain[Min({n \in DOMAIN chain : hits(chain[n]) # {}})]
    IN  [block |-> block_index(off), slot |-> Min(hits(off)),
         entry |-> EntriesAt(file, off)[Min(hits(off))]]

\* The blocks add_partition may still put an entry into.
\* Mutant: only the u8 limit is respected, not the reserved capacity.
Roomy_Unreserved == {i \in DOMAIN blocks : blocks[i].count < MaxEntries}
Roomy == {i \in DOMAIN blocks :
            blocks[i].count < blocks[i].capacity /\ blocks[i].count < MaxEntries}

\* Mutant: the new tail is linked on disk only.
Linked_DiskOnly(bs, next) == bs
Linked(bs, next) == [bs EXCEPT ![Len(bs)].next = next]

\* add_partition: the entry of the new partition, its data at the cursor.
NewEntry(u, d, reserve, algo) ==
    Entry(Raw, u, data_eof, Len(d) + reserve, Len(d), algo, Digest(algo, d))

\* add_partition when a block has room: the data, then the entry in that block.
InPlacePlan(u, d, reserve, algo) ==
    LET i == Min(Roomy)
        b == blocks[i]
        w1 == WriteCells(data_eof, d)
    IN  [writes |-> w1 \o WriteBlock(b.offset, b.next, b.algo,
                            Append(EntriesAt(Apply(file, w1), b.offset),
                                   NewEntry(u, d, reserve, algo))),
         blocks |-> [blocks EXCEPT ![i].count = @ + 1],
         eof |-> data_eof + Len(d) + reserve]

\* Mutant: the tail is linked to the new block before that block is written.
OverflowPlan_LinkFirst(u, d, reserve, algo) ==
    LET eof1 == data_eof + Len(d) + reserve
        cap == clamp(default_capacity, 1, MaxEntries)
        w1 == WriteCells(data_eof, d)
        tail == Last(blocks)
        w2 == WriteBlock(tail.offset, eof1, tail.algo,
                         EntriesAt(Apply(file, w1), tail.offset))
    IN  [writes |-> w1 \o w2 \o WriteBlock(eof1, 0, table_hash_algo,
                                           <<NewEntry(u, d, reserve, algo)>>),
         blocks |-> Append(Linked(blocks, eof1),
                           BlockInfo(eof1, cap, 1, table_hash_algo, 0)),
         eof |-> eof1 + TableHeaderSize + cap * EntrySize]

\* add_partition when all are full: the data, an overflow block at the cursor,
\* and last the link from the tail of the chain to it.
OverflowPlan(u, d, reserve, algo) ==
    LET eof1 == data_eof + Len(d) + reserve
        cap == clamp(default_capacity, 1, MaxEntries)
        w1 == WriteCells(data_eof, d) \o WriteBlock(eof1, 0, table_hash_algo,
                                            <<NewEntry(u, d, reserve, algo)>>)
        tail == Last(blocks)
    IN  [writes |-> w1 \o WriteBlock(tail.offset, eof1, tail.algo,
                            EntriesAt(Apply(file, w1), tail.offset)),
         blocks |-> Append(Linked(blocks, eof1),
                           BlockInfo(eof1, cap, 1, table_hash_algo, 0)),
         eof |-> eof1 + TableHeaderSize + cap * EntrySize]

AddPlan(u, d, reserve, algo) ==
    IF Roomy # {} THEN InPlacePlan(u, d, reserve, algo)
    ELSE OverflowPlan(u, d, reserve, algo)

AddPlans(u, d) ==
    IF Editable /\ ~Located(u)
    THEN {p \in {AddPlan(u, d, r, algo) : r \in Reserves, algo \in DataAlgos} : p.eof <= MaxEof}
    ELSE {}

\* Mutant: the data hash is not recomputed.
Updated_StaleHash(e, d) == [e EXCEPT !.used = Len(d)]
Updated(e, d) == [e EXCEPT !.used = Len(d), !.hash = Digest(e.algo, d)]

\* update_partition_data at the place l: the data in place, then the hash cascade.
UpdatePlan(l, d) ==
    LET b == blocks[l.block]
        e == Updated(l.entry, d)
        w1 == WriteCells(l.entry.start, d)
        es == EntriesAt(Apply(file, w1), b.offset)
    IN  [writes |-> w1 \o WriteBlock(b.offset, b.next, b.algo, [es EXCEPT ![l.slot] = e]),
         blocks |-> blocks,
         eof |-> data_eof]

\* Data longer than the reservation is refused.
UpdatePlans(u, d) ==
    IF Editable /\ Located(u)
    THEN {UpdatePlan(l, d) : l \in {x \in {Locate(u)} : Len(d) <= x.entry.max}}
    ELSE {}

\* remove_partition of the place l: the later entries of the block shift down.
RemovePlan(l) ==
    LET b == blocks[l.block] IN
    [writes |-> WriteBlock(b.offset, b.next, b.algo,
                    RemoveAt(EntriesAt(file, b.offset), l.slot)),
     blocks |-> [blocks EXCEPT ![l.block].count = @ - 1],
     eof |-> data_eof]

RemovePlans(u) ==
    IF Editable /\ Located(u) THEN {RemovePlan(l) : l \in {Locate(u)}} ELSE {}

\* What an edit of the partition u may write.
EditPlans(u) ==
    RemovePlans(u) \cup UNION {AddPlans(u, d) \cup UpdatePlans(u, d) : d \in Contents}

\* An operation that runs to its end.
Perform(p) ==
    /\ file' = Apply(file, p.writes)
    /\ blocks' = p.blocks
    /\ data_eof' = p.eof
    /\ UNCHANGED <<open, finalized, table_head, default_capacity, table_hash_algo>>

AddPartition(u, d) == \E p \in AddPlans(u, d) : Perform(p)
UpdatePartition(u, d) == \E p \in UpdatePlans(u, d) : Perform(p)
RemovePartition(u) == \E p \in RemovePlans(u) : Perform(p)

-----------------------------------------------------------------------------
(* Publication through a trailer, and compaction.                          *)

FinalizePlan ==
    [writes |-> <<<<Len(file), TrailerCell(table_head)>>, <<0, HeaderCell(Sentinel)>>>>,
     blocks |-> blocks,
     eof |-> Len(file) + TrailerSize]

\* finalize_with_trailer: the trailer at the end of the file, then the header.
Finalize ==
    /\ open
    /\ FinalizePlan.eof <= MaxEof
    /\ file' = Apply(file, FinalizePlan.writes)
    /\ data_eof' = FinalizePlan.eof
    /\ finalized' = TRUE
    /\ UNCHANGED <<open, table_head, blocks, default_capacity, table_hash_algo>>

\* Mutant: an extra, empty block when the last one is exactly full.
BlocksFor_OffByOne(n) == n \div MaxEntries + 1
\* Mutant: rounded down, so that a block that is not full is not counted.
BlocksFor_RoundDown(n) == IF n = 0 THEN 1 ELSE n \div MaxEntries
BlocksFor(n) == IF n = 0 THEN 1 ELSE (n + MaxEntries - 1) \div MaxEntries

\* compacted_image: header, packed blocks of at most MaxEntries, packed data.
CompactedImage(f, head, algo) ==
    LET es == Entries(f, head)
        n == Len(es)
        num_blocks == BlocksFor(n)
        offset(b) == HeaderSize + (b - 1) * (TableHeaderSize + MaxEntries * EntrySize)
        data == [i \in 1..n |-> ReadData(f, es[i])]
        data_start == HeaderSize + num_blocks * TableHeaderSize + n * EntrySize
        packed == [i \in 1..n |->
                    [es[i] EXCEPT !.max = Len(data[i]), !.used = Len(data[i]),
                                  !.start = data_start
                                            + Len(FlattenSeq(SubSeq(data, 1, i - 1)))]]
        slice(b) == SubSeq(packed, (b - 1) * MaxEntries + 1, Min({n, b * MaxEntries}))
        next(b) == IF b < num_blocks THEN offset(b + 1) ELSE 0
        block(b) == <<BlockCell(Len(slice(b)), next(b), algo,
                                TableHash(algo, next(b), slice(b)))>> \o slice(b)
    IN  <<HeaderCell(HeaderSize)>>
            \o FlattenSeq([b \in 1..num_blocks |-> block(b)]) \o FlattenSeq(data)

\* compact_into a new file that takes the place of the old one.
Compact ==
    /\ open
    /\ ChainReadable(file, table_head)
    /\ file' = CompactedImage(file, table_head, table_hash_algo)
    /\ Forget

-----------------------------------------------------------------------------
Edit ==
    \E u \in Uid :
        \/ \E d \in Contents : AddPartition(u, d) \/ UpdatePartition(u, d)
        \/ RemovePartition(u)

Next == Edit \/ Finalize \/ Compact \/ Close \/ Open

\* Everything the code allows.
Spec == Init /\ [][Next]_vars

\* The file physically contains every live reservation.
Materialised ==
    LET es == Entries(file, table_head) IN
    \A i \in DOMAIN es : es[i].max > 0 => es[i].start + es[i].max <= Len(file)

\* The discipline of PcfLayout's SafeNext, on this module's actions: nothing is
\* edited after finalize_with_trailer, and a handle is not dropped or finalized
\* while a reservation reaches beyond the end of the file.
SafeNext ==
    \/ ~finalized /\ Edit
    \/ ~finalized /\ Materialised /\ Finalize
    \/ Materialised /\ Close
    \/ Compact
    \/ Open

SafeSpec == Init /\ [][SafeNext]_vars
=============================================================================
