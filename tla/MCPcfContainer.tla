--------------------------- MODULE MCPcfContainer ---------------------------
(* Instances of PcfContainer, its properties, and the two specifications   *)
(* it implements.                                                          *)
EXTENDS PcfContainer, PcfInspect, TLC

CONSTANTS
    a,          \* the one value a data byte takes
    MaxGrowth   \* bound: how many times a partition or a trailer is added

Byte(v) == [t |-> "byte", v |-> v]

\* No data, or one byte.
MCContents == {<<>>, <<Byte(a)>>}
Symmetry == Permutations(Uid)

-----------------------------------------------------------------------------
\* A reader who opens the file at any moment between two operations finds it
\* whole: the head resolves, every block parses, every table hash, entry and data
\* hash verifies (Container::verify).  This is W4, the hash cascade, across
\* in-place updates, shifted entries, re-linked overflow blocks, trailers,
\* re-openings and compactions.
AlwaysVerifies == HeaderReadable(file) /\ Verify(file, ResolveHead(file))

\* What the handle remembers of the table is what the disk says: the resolved
\* head, and for each block of the chain its offset, count, next pointer and
\* algorithm.  The writer rewrites block headers from this memory (next, algo)
\* and never from the header it has just read, so a stale copy would cut the
\* chain.
HandleMatchesDisk ==
    open =>
        /\ table_head = ResolveHead(file)
        /\ Len(blocks) = Len(Chain(file, table_head))
        /\ \A i \in DOMAIN blocks :
                [blocks[i] EXCEPT !.capacity = 0]
                    = [BlocksOnDisk(file, table_head)[i] EXCEPT !.capacity = 0]

\* The inspector's map of the file is the truth, whenever it is made: it complains
\* of nothing, the declared regions and the gaps together cover every byte exactly
\* once, and each gap is as long as it can be, so that the dead bytes it counts
\* are those that a removal, an unfinished block or an old trailer left.
InspectorAgrees ==
    LET rs == Declared(file)
        gaps == Gaps(rs, Len(file))
        all == {rs[i] : i \in DOMAIN rs} \cup gaps
    IN  /\ Clean(file)
        /\ \A o \in 0..(Len(file) - 1) : \E r \in all :
                o \in Bytes(r) /\ \A q \in all \ {r} : o \notin Bytes(q)
        /\ \A g, r \in gaps : g.start + g.len # r.start

\* Compaction never makes a file longer (spec 11.5, "reclaims all
\* unused-but-allocated space"): the packed image fits in the bytes the file had.
CompactionShrinks == [][Compact => Len(file') <= Len(file)]_vars

-----------------------------------------------------------------------------
(* Refinement.  `abs` is computed from the file and the handle once in     *)
(* every state, so that TLC need not re-read the file at each mention.     *)

VARIABLES abs,
          growth   \* partitions and trailers added so far

\* The blocks that a reader finds.
TableOf(f) ==
    LET head == IF HeaderReadable(f) THEN ResolveHead(f) ELSE 0 IN
    IF ChainReadable(f, head) THEN BlocksOnDisk(f, head) ELSE <<>>

\* The live entries of these blocks, each with the number of its block.
Placed(f, bs) ==
    LET places == {p \in (DOMAIN bs) \X (1..MaxEntries) : p[2] <= bs[p[1]].count}
    IN  {<<EntriesAt(f, bs[p[1]].offset)[p[2]], p[1]>> : p \in places}

\* The entry of every UID, and its block.
ByUid(live) ==
    [u \in {l[1].uid : l \in live} |-> CHOOSE l \in live : l[1].uid = u]

View(f, hasHandle, hblocks, eof, dcap, bs, at) ==
    [contents |-> [u \in DOMAIN at |-> ReadData(f, at[u][1])],
     parts |-> [u \in DOMAIN at |->
                    [block |-> at[u][2], start |-> at[u][1].start,
                     max |-> at[u][1].max, used |-> at[u][1].used]],
     blocks |-> [i \in DOMAIN bs |->
                    [offset |-> bs[i].offset, count |-> bs[i].count,
                     capacity |-> IF hasHandle /\ i \in DOMAIN hblocks
                                  THEN hblocks[i].capacity ELSE bs[i].count]],
     data_eof |-> IF hasHandle THEN eof ELSE Len(f),
     file_len |-> Len(f),
     default_capacity |-> IF hasHandle THEN dcap ELSE OpenCapacity,
     trailer |-> IF f[1] = HeaderCell(Sentinel) /\ Trailers(f) # {}
                 THEN Max(Trailers(f)) ELSE 0]

\* What the abstract modules see of a file and of the handle on it, if any.
Abstraction(f, hasHandle, hblocks, eof, dcap) ==
    LET bs == TableOf(f)
        at == ByUid(Placed(f, bs))
    IN  View(f, hasHandle, hblocks, eof, dcap, bs, at)

mcvars == <<vars, abs, growth>>

MCInit ==
    /\ Init
    /\ abs = Abstraction(file, open, blocks, data_eof, default_capacity)
    /\ growth = 0

\* The live entries that a handle counts.
LiveCount(bs) == FoldLeft(LAMBDA n, b : n + b.count, 0, bs)

Observe ==
    /\ growth' = IF \/ open /\ LiveCount(blocks') > LiveCount(blocks)
                    \/ finalized' /\ ~finalized
                 THEN growth + 1 ELSE growth
    /\ growth' <= MaxGrowth
    /\ \E f \in {file'}, o \in {open'}, bs \in {blocks'} :
            abs' = Abstraction(f, o, bs, data_eof', default_capacity')

MCSafeSpec == MCInit /\ [][SafeNext /\ Observe]_mcvars

\* The handle may be dropped at any time, as the code allows; no trailers.
ReopenNext == Edit \/ Close \/ Open
MCReopenSpec == MCInit /\ [][ReopenNext /\ Observe]_mcvars

Store == INSTANCE PcfStore WITH parts <- abs.contents

\* Every call does to the map what it promises, whatever bytes it moves: adding,
\* updating and removing a partition are the step of PcfStore with the same name and
\* arguments, and the calls that rewrite or re-read the file change nothing.  (An edit
\* has a handle before and after it.)
EachCallItsOwn ==
    /\ open /\ open' => \A u \in Uid :
        /\ \A d \in Contents : /\ AddPartition(u, d) => Store!Add(u, d)
                               /\ UpdatePartition(u, d) => Store!Update(u, d)
        /\ RemovePartition(u) => Store!Remove(u)
    /\ ~Store!Maintain => ~(Finalize \/ Compact \/ Close \/ Open)

\* The container is the map it promises to be, read from the bytes of the file: it
\* starts empty, add_partition, update_partition_data and remove_partition change the
\* one partition they name, to the contents they were given, and publishing,
\* compacting, closing and opening lose, add and alter nothing.
IsAStore == Store!Spec /\ [][EachCallItsOwn]_mcvars

Layout == INSTANCE PcfLayout WITH
    HeaderSize <- HeaderSize, TableHeaderSize <- TableHeaderSize,
    EntrySize <- EntrySize, TrailerSize <- TrailerSize,
    Lengths <- {Len(d) : d \in Contents},
    blocks <- abs.blocks, parts <- abs.parts, data_eof <- abs.data_eof,
    file_len <- abs.file_len, default_capacity <- abs.default_capacity,
    trailer <- abs.trailer

\* Every step places its data where PcfLayout places it (dropping the handle is
\* the Reopen of PcfLayout, opening it a stutter); only a compaction, which
\* starts a new file, is not a step of the layout.
FollowsLayout == Layout!Init /\ [][Layout!SafeNext \/ Compact]_(Layout!vars)
=============================================================================
