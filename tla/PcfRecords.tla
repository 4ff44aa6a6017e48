----------------------------- MODULE PcfRecords -----------------------------
(***************************************************************************)
(* The records of a PCF file and how they are read: the part of            *)
(* reference/PCF-v1.0 that the container and the profiles built on it share.*)
(*                                                                         *)
(* A file is a sequence of cells; the cell at offset o is f[o + 1].        *)
(* The file header, a table-block header, a partition entry, a trailer and *)
(* one byte of partition data each take one cell, so a region that is n    *)
(* bytes long in the code is a few cells long here while regions overlap,  *)
(* abut and overwrite each other exactly when they do in the code.         *)
(* Cells that no write ever touched read back as zero bytes.  A hash is    *)
(* the value that is hashed (an injective, symbolic digest); the algorithm *)
(* "None" has the empty digest and verifies nothing.  The label of a       *)
(* partition is opaque and is left out.  Data bytes never parse as a block *)
(* header here; in the code any bytes with a known algorithm id do.        *)
(***************************************************************************)
EXTENDS Integers, Sequences, SequencesExt, FiniteSetsExt

CONSTANT Nil    \* NIL_UID, the UID of an entry made of zero bytes

-----------------------------------------------------------------------------
(* Sizes and cells.                                                        *)

HeaderSize == 1
TableHeaderSize == 1
EntrySize == 1
TrailerSize == 1
Sentinel == -1         \* PT_OFFSET_TRAILER, no offset at all

Reserved == "reserved" \* TYPE_RESERVED, the type of an entry made of zero bytes
Raw == "raw"           \* TYPE_RAW

Zero == [t |-> "zero"]
HeaderCell(pto) == [t |-> "hdr", pto |-> pto]
TrailerCell(head) == [t |-> "trl", head |-> head]
BlockCell(n, next, algo, hash) ==
    [t |-> "blk", count |-> n, next |-> next, algo |-> algo, hash |-> hash]
Entry(type, uid, start, max, used, algo, hash) ==
    [t |-> "ent", type |-> type, uid |-> uid, start |-> start, max |-> max, used |-> used,
     algo |-> algo, hash |-> hash]

\* TableBlockHeader::from_bytes and PartitionEntry::from_bytes accept zero bytes.
ZeroBlock == BlockCell(0, 0, "None", <<>>)
NilEntry == Entry(Reserved, Nil, 0, 0, 0, "None", <<>>)

\* HashAlgo::compute and HashAlgo::verifies.
Verifies(algo) == algo # "None"
Digest(algo, x) == IF Verifies(algo) THEN x ELSE <<>>

\* Mutant: the entries themselves are not covered.
TableHash_NoEntries(algo, next, es) == Digest(algo, <<algo, next, Len(es)>>)
\* compute_table_hash: count, next pointer, algorithm and entries are all covered.
TableHash(algo, next, es) == Digest(algo, <<algo, next, es>>)

-----------------------------------------------------------------------------
(* Low-level I/O.  A write is a pair <<offset, cell>>; the handlers build  *)
(* the list of their writes in the order in which the code issues them.    *)

WriteCells(off, cells) == [i \in DOMAIN cells |-> <<off + i - 1, cells[i]>>]

\* write_at: seek, then write_all; the file grows as needed, a gap reads as zero.
WriteAt(f, off, cell) ==
    IF off < Len(f) THEN [f EXCEPT ![off + 1] = cell]
    ELSE f \o [i \in 1..(off - Len(f)) |-> Zero] \o <<cell>>

Apply(f, ws) ==
    LET after[n \in 0..Len(ws)] ==
            IF n = 0 THEN f ELSE WriteAt(after[n - 1], ws[n][1], ws[n][2])
    IN  after[Len(ws)]

\* write_block: the block header first, then its entries.
WriteBlock(off, next, algo, es) ==
    <<<<off, BlockCell(Len(es), next, algo, TableHash(algo, next, es))>>>>
        \o WriteCells(off + TableHeaderSize, es)

BlockParses(f, off) == off \in 0..(Len(f) - 1) /\ f[off + 1].t \in {"blk", "zero"}
BlockAt(f, off) == IF f[off + 1].t = "blk" THEN f[off + 1] ELSE ZeroBlock
EntryCell(f, off, i) == f[off + TableHeaderSize + i]

\* read_block succeeds: the header parses and no entry lies beyond the file.
BlockReadable(f, off) ==
    /\ BlockParses(f, off)
    /\ off + TableHeaderSize + BlockAt(f, off).count <= Len(f)
    /\ \A i \in 1..BlockAt(f, off).count :
            EntryCell(f, off, i).t \in {"ent", "zero"}

EntriesAt(f, off) ==
    [i \in 1..BlockAt(f, off).count |->
        IF EntryCell(f, off, i).t = "ent" THEN EntryCell(f, off, i) ELSE NilEntry]

\* The offsets met by following next_table_offset from head, the last one
\* included: 0 at the end of a chain that can be read, another offset otherwise.
\* Nothing stops the code on a chain that goes round; here the walk ends after as
\* many steps as the file has cells, and such a chain cannot be read.
Walk(f, head) ==
    LET walk[n \in 0..Len(f)] ==
            IF n = 0 THEN <<head>>
            ELSE LET met == walk[n - 1]  off == Last(met) IN
                 IF off # 0 /\ BlockReadable(f, off)
                 THEN Append(met, BlockAt(f, off).next) ELSE met
    IN  walk[Len(f)]

ChainReadable(f, head) == Last(Walk(f, head)) = 0
Chain(f, head) == Front(Walk(f, head))

\* Container::entries: the live entries, in chain order.
Entries(f, head) ==
    LET c == Chain(f, head) IN FlattenSeq([i \in DOMAIN c |-> EntriesAt(f, c[i])])

\* read_partition_data; past the end of the file the read fails.
DataReadable(f, e) == e.used = 0 \/ e.start + e.used <= Len(f)
ReadData(f, e) == SubSeq(f, e.start + 1, e.start + e.used)

\* locate_trailer: the last trailer whose head is 0, or precedes it and parses.
Trailers(f) ==
    {o \in 0..(Len(f) - 1) :
        /\ f[o + 1].t = "trl"
        /\ \/ f[o + 1].head = 0
           \/ f[o + 1].head + TableHeaderSize <= o /\ BlockParses(f, f[o + 1].head)}

\* The head of the table as open finds it, for a file whose header is intact.
HeaderReadable(f) ==
    /\ f # <<>> /\ f[1].t = "hdr"
    /\ f[1].pto = Sentinel => Trailers(f) # {}
ResolveHead(f) ==
    IF f[1].pto = Sentinel THEN f[Max(Trailers(f)) + 1].head ELSE f[1].pto

-----------------------------------------------------------------------------
(* verify: every table hash, every entry, every data hash.                 *)

ValidEntry(f, e) ==
    /\ e.type # Reserved /\ e.uid # Nil
    /\ e.used <= e.max
    /\ DataReadable(f, e)
    /\ Verifies(e.algo) => e.hash = Digest(e.algo, ReadData(f, e))

ValidBlock(f, off) ==
    LET h == BlockAt(f, off)  es == EntriesAt(f, off) IN
    /\ Verifies(h.algo) => h.hash = TableHash(h.algo, h.next, es)
    /\ \A i \in DOMAIN es : ValidEntry(f, es[i])

Verify(f, head) ==
    /\ ChainReadable(f, head)
    /\ LET c == Chain(f, head) IN \A i \in DOMAIN c : ValidBlock(f, c[i])
=============================================================================
