------------------------------ MODULE DcpArena ------------------------------
(***************************************************************************)
(* One DCP container in reference/PCF-DCP-v1.0: a pool of bytes and a list *)
(* of inner partitions, each the list of the extents of the pool that make *)
(* up its content (arena.rs), the form it has on disk, and what a reader   *)
(* checks of it (reader.rs, fragment.rs).                                  *)
(*                                                                         *)
(* On disk an arena is a sequence of cells: the bytes of the extents one   *)
(* by one, and each header and table entry whole.  Types and labels are    *)
(* left out.                                                               *)
(***************************************************************************)
EXTENDS Integers, SequencesExt

CONSTANTS
    Byte,          \* the values of a byte
    MaxPerBlock    \* MAX_ENTRIES_PER_BLOCK, 255 in the code

ASSUME MaxPerBlockAssumption == MaxPerBlock \in Nat \ {0}

-----------------------------------------------------------------------------
(* Fragments and contents.  Offsets count from 0.                          *)

\* kind is always DATA: nothing else is ever written.
Frag(offset, length, shared) == [offset |-> offset, length |-> length, shared |-> shared]

Extent(f) == [offset |-> f.offset, length |-> f.length]
Slice(pool, f) == SubSeq(pool, f.offset + 1, f.offset + f.length)
Content(pool, frags) == FlattenSeq([k \in DOMAIN frags |-> Slice(pool, frags[k])])
AllFrags(inners) == FlattenSeq([k \in DOMAIN inners |-> inners[k].frags])

\* compute of an algorithm, injective; "none" protects nothing.
Hash(algo, content) == IF algo = "none" THEN <<>> ELSE <<content>>

Inner(uid, algo, frags) == [uid |-> uid, algo |-> algo, frags |-> frags]
\* algo, inner_table_algo in the code, is that of the hashes of the inner table.
Arena(algo, blob, inners) == [algo |-> algo, blob |-> blob, inners |-> inners]
EmptyArena(algo) == Arena(algo, <<>>, <<>>)

Uids(arena) == {arena.inners[k].uid : k \in DOMAIN arena.inners}
IndexOf(arena, uid) == CHOOSE k \in DOMAIN arena.inners : arena.inners[k].uid = uid
InnerContent(arena, k) == Content(arena.blob, arena.inners[k].frags)

-----------------------------------------------------------------------------
(* add_inner: the content in chunks, each an extent that is there or new.  *)

\* Chunker::split; 0 stands for Whole.
Chunks(content, n) ==
    IF content = <<>> THEN <<>>
    ELSE IF n = 0 THEN <<content>>
    ELSE [k \in 1..((Len(content) + n - 1) \div n) |->
            SubSeq(content, (k - 1) * n + 1,
                   IF k * n < Len(content) THEN k * n ELSE Len(content))]

\* Mutant: the earlier chunks of the same partition are not looked at.
Known_OthersOnly(inners, frags) == AllFrags(inners)
\* find_extent, then find_local.
Known(inners, frags) == AllFrags(inners) \o frags

\* mark_shared: every fragment that refers to exactly this extent.
MarkShared(frags, e) ==
    [k \in DOMAIN frags |->
        IF Extent(frags[k]) = e THEN [frags[k] EXCEPT !.shared = TRUE] ELSE frags[k]]

MarkedInners(inners, e) ==
    [k \in DOMAIN inners |-> [inners[k] EXCEPT !.frags = MarkShared(@, e)]]

\* Mutant: the chunks before, of the same partition, are not marked.
LocalMarked_Not(frags, e) == frags
LocalMarked(frags, e) == MarkShared(frags, e)

\* One chunk; so far: the pool, the inner partitions and the fragments.
AddChunk(acc, chunk) ==
    LET known == Known(acc.inners, acc.frags)
        hits == {i \in DOMAIN known : Slice(acc.blob, known[i]) = chunk}
        e == Extent(known[Min(hits)])
    IN  IF hits = {}
        THEN [acc EXCEPT !.blob = @ \o chunk,
                         !.frags = Append(@, Frag(Len(acc.blob), Len(chunk), FALSE))]
        ELSE [acc EXCEPT
                !.inners = MarkedInners(@, e),
                !.frags = Append(LocalMarked(@, e), Frag(e.offset, e.length, TRUE))]

AddInner(arena, uid, algo, content, n) ==
    LET chunks == Chunks(content, n)
        added[k \in 0..Len(chunks)] ==
            IF k = 0 THEN [blob |-> arena.blob, inners |-> arena.inners, frags |-> <<>>]
            ELSE AddChunk(added[k - 1], chunks[k])
        all == added[Len(chunks)]
    IN  Arena(arena.algo, all.blob, Append(all.inners, Inner(uid, algo, all.frags)))

\* Mutant: the inner partition stays, and a promotion is a copy.
RemoveInner_Keeps(arena, uid) == arena
RemoveInner(arena, uid) ==
    [arena EXCEPT !.inners = RemoveAt(@, IndexOf(arena, uid))]

-----------------------------------------------------------------------------
(* Edits: new bytes go to the end of the pool, the rest is fragment lists. *)

\* The bytes in the first k fragments.
Before(frags, k) ==
    LET sum[j \in 0..k] == IF j = 0 THEN 0 ELSE sum[j - 1] + frags[j].length IN sum[k]
LogicalLen(frags) == Before(frags, Len(frags))

\* split_at: cut the fragment that straddles pos, both halves as shared as it was.
SplitAt(frags, pos) ==
    IF \E k \in 0..Len(frags) : Before(frags, k) = pos THEN frags
    ELSE LET k == CHOOSE k \in DOMAIN frags :
                        Before(frags, k - 1) < pos /\ pos < Before(frags, k)
             head == pos - Before(frags, k - 1)
             f == frags[k]
         IN  SubSeq(frags, 1, k - 1)
                \o <<Frag(f.offset, head, f.shared),
                     Frag(f.offset + head, f.length - head, f.shared)>>
                \o SubSeq(frags, k + 1, Len(frags))
\* ... and the number of fragments before pos.
IndexAt(frags, pos) == CHOOSE k \in 0..Len(frags) : Before(frags, k) = pos

\* Mutant: the end is cut first, and its index is not that of the fragments after.
Cut_EndFirst(frags, pos, end) ==
    LET once == SplitAt(frags, end)  twice == SplitAt(once, pos)
    IN  [frags |-> twice, lo |-> IndexAt(twice, pos), hi |-> IndexAt(once, end)]
\* The two cuts of delete.
Cut(frags, pos, end) ==
    LET once == SplitAt(frags, pos)  twice == SplitAt(once, end)
    IN  [frags |-> twice, lo |-> IndexAt(once, pos), hi |-> IndexAt(twice, end)]

DeleteFrags(frags, pos, len) ==
    LET c == Cut(frags, pos, pos + len)
    IN  SubSeq(c.frags, 1, c.lo) \o SubSeq(c.frags, c.hi + 1, Len(c.frags))

InsertFrag(frags, pos, f) ==
    LET cut == SplitAt(frags, pos)  at == IndexAt(cut, pos)
    IN  SubSeq(cut, 1, at) \o <<f>> \o SubSeq(cut, at + 1, Len(cut))

\* delete, insert, overwrite (delete, then insert), append (insert at the end)
\* and truncate (delete to the end) in one.
Edit(arena, uid, pos, len, bytes) ==
    LET k == IndexOf(arena, uid)
        kept == IF len = 0 THEN arena.inners[k].frags
                ELSE DeleteFrags(arena.inners[k].frags, pos, len)
        new == Frag(Len(arena.blob), Len(bytes), FALSE)
    IN  Arena(arena.algo, arena.blob \o bytes,
              [arena.inners EXCEPT ![k].frags =
                    IF bytes = <<>> THEN kept ELSE InsertFrag(kept, pos, new)])

-----------------------------------------------------------------------------
(* dedup and compact.                                                      *)

Dedup(arena, n) ==
    LET new[k \in 0..Len(arena.inners)] ==
            IF k = 0 THEN EmptyArena(arena.algo)
            ELSE AddInner(new[k - 1], arena.inners[k].uid, arena.inners[k].algo,
                          InnerContent(arena, k), n)
    IN  new[Len(arena.inners)]

\* The distinct extents in the order of their first reference, the bytes they
\* hold, and where each is when they are laid out from base on.
Extents(inners) ==
    LET frags == AllFrags(inners)
        seen[k \in 0..Len(frags)] ==
            IF k = 0 THEN <<>>
            ELSE LET e == Extent(frags[k])  met == seen[k - 1]
                 IN  IF e \in ToSet(met) THEN met ELSE Append(met, e)
    IN  seen[Len(frags)]
Packed(arena) == Content(arena.blob, Extents(arena.inners))
Relocated(inners, base) ==
    LET es == Extents(inners) IN
    [e \in ToSet(es) |-> base + Before(es, (CHOOSE k \in DOMAIN es : es[k] = e) - 1)]

\* Mutant: a single reference does not count as private.
Private_Never(inners, f) == FALSE
Private(inners, f) ==
    LET frags == AllFrags(inners) IN
    \A i, j \in DOMAIN frags :
        Extent(frags[i]) = Extent(f) /\ Extent(frags[j]) = Extent(f) => i = j

Compact(arena) ==
    LET new == Relocated(arena.inners, 0)
        moved(f) == Frag(new[Extent(f)], f.length, f.shared /\ ~Private(arena.inners, f))
    IN  Arena(arena.algo, Packed(arena),
              [k \in DOMAIN arena.inners |->
                    [arena.inners[k] EXCEPT !.frags = [j \in DOMAIN @ |-> moved(@[j])]]])

-----------------------------------------------------------------------------
(* to_bytes: header, extents, fragment tables, inner table.                *)

\* block_counts: at least one block, all but the last one full.
InBlocks(items) ==
    IF items = <<>> THEN <<<<>>>> ELSE Chunks(items, MaxPerBlock)

\* Mutant: the hash covers the entries only.
TableHash_NoNext(algo, next, items) == Hash(algo, items)
\* compute_table_hash.
TableHash(algo, next, items) == Hash(algo, <<next, items>>)

\* A chain of blocks from start on, each a header and its entries.
BlockChain(start, items, algo) ==
    LET blocks == InBlocks(items)
        next(b) == IF b < Len(blocks) THEN start + b * (MaxPerBlock + 1) ELSE 0
    IN  FlattenSeq([b \in DOMAIN blocks |->
            <<[next |-> next(b), count |-> Len(blocks[b]), algo |-> algo,
               hash |-> TableHash(algo, next(b), blocks[b])]>>
            \o blocks[b]])

\* Mutant: the header is forgotten.
ExtentBase_Zero == 0
\* DCP_HEADER_SIZE, one cell.
ExtentBase == 1

\* Fragment tables have no hash.
ToBytes(arena) ==
    LET inners == arena.inners
        new == Relocated(inners, ExtentBase)
        placed(frags) == [j \in DOMAIN frags |->
            [frags[j] EXCEPT !.offset = new[Extent(frags[j])]]]
        tables == 1 + Len(Packed(arena))
        start(k) == tables + Len(FlattenSeq([j \in 1..(k - 1) |->
                                    BlockChain(0, inners[j].frags, "none")]))
        table == start(Len(inners) + 1)
        entry(k) == [uid |-> inners[k].uid, start |-> start(k),
                     used |-> LogicalLen(inners[k].frags), algo |-> inners[k].algo,
                     hash |-> Hash(inners[k].algo, InnerContent(arena, k))]
        chain == BlockChain(table, [k \in DOMAIN inners |-> entry(k)], arena.algo)
    IN  <<[magic |-> "PDCP", table |-> table, used |-> table + Len(chain)]>>
            \o Packed(arena)
            \o FlattenSeq([k \in DOMAIN inners |->
                    BlockChain(start(k), placed(inners[k].frags), "none")])
            \o chain

-----------------------------------------------------------------------------
(* Arena::parse and what the reader verifies.  The bytes may be damaged,   *)
(* but only in the contents: the headers and tables are found as written.  *)

\* The entries of a chain of blocks, and the offsets of its blocks: no more than
\* fit into the arena, the budget of the code.
ItemsAt(bytes, off) == SubSeq(bytes, off + 2, off + 1 + bytes[off + 1].count)
WalkBlocks(bytes, first) ==
    LET walk[k \in 0..Len(bytes)] ==
            IF k = 0 THEN <<first>>
            ELSE LET met == walk[k - 1]  off == Last(met)
                 IN  IF off # 0 /\ off + 1 \in DOMAIN bytes
                     THEN Append(met, bytes[off + 1].next) ELSE met
    IN  Front(walk[Len(bytes)])
Walk(bytes, first) ==
    LET offs == WalkBlocks(bytes, first)
    IN  FlattenSeq([k \in DOMAIN offs |-> ItemsAt(bytes, offs[k])])

\* The pool is the whole arena, and the first block's algorithm is that of all.
\* used_bytes and data_hash are not kept.
Parse(bytes) ==
    LET table == bytes[1].table  entries == Walk(bytes, table) IN
    Arena(bytes[table + 1].algo, bytes,
          [k \in DOMAIN entries |->
                Inner(entries[k].uid, entries[k].algo, Walk(bytes, entries[k].start))])

ParseOK(bytes) ==
    /\ bytes[1].magic = "PDCP"
    /\ \A f \in ToSet(AllFrags(Parse(bytes).inners)) : f.offset + f.length <= bytes[1].used

\* view: the data hash of an inner partition is the one of its content.
InnerInfo(arena, k) ==
    [uid |-> arena.inners[k].uid,
     used |-> LogicalLen(arena.inners[k].frags),
     algo |-> arena.inners[k].algo,
     hash |-> Hash(arena.inners[k].algo, InnerContent(arena, k))]

\* verify_inner_table_hashes: of the blocks whose algorithm verifies.
InnerTablesVerify(bytes) ==
    \A off \in ToSet(WalkBlocks(bytes, bytes[1].table)) :
        LET h == bytes[off + 1] IN
        h.algo # "none" => h.hash = TableHash(h.algo, h.next, ItemsAt(bytes, off))

\* The part of DcpReader::verify that is about one container.
ArenaVerifies(bytes) ==
    /\ InnerTablesVerify(bytes)
    /\ ParseOK(bytes)
    /\ LET arena == Parse(bytes) IN
       \A k \in DOMAIN arena.inners :
            LET info == InnerInfo(arena, k)  content == InnerContent(arena, k) IN
            Len(content) = info.used /\ Hash(info.algo, content) = info.hash
=============================================================================
