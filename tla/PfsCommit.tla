----------------------------- MODULE PfsCommit ------------------------------
(***************************************************************************)
(* The commit protocol of reference/PFS-MS-v1.0: one FsWriter handle       *)
(* appending sessions to one file.  A commit is the list of its writes in  *)
(* the order of the code; it runs to its end, stops at an I/O error with   *)
(* the handle still there, or the process dies and the next program opens  *)
(* what was written.  The error may come as late as the flush after the    *)
(* trailer, when the session is published and the handle not told.         *)
(*                                                                         *)
(* What flush makes durable is no part of this module: PfsPowerLoss is     *)
(* about that.                                                             *)
(***************************************************************************)
EXTENDS PfsReader

CONSTANTS
    Sessions,      \* the sequences of partitions the application commits
    Algos,         \* the hash algorithms create is called with
    MaxEntries,    \* MAX_ENTRIES_PER_BLOCK, 255 in the code
    MaxEof         \* bound: no commit that would pass it begins

ASSUME CommitAssumption ==
    /\ MaxEntries \in Nat \ {0, 1}
    /\ Algos \subseteq {"None", "Sha256"}
    /\ MaxEof \in Nat
    /\ \A s \in Sessions : \A i \in DOMAIN s : s[i].type \in {Raw, NodeType}

VARIABLES
    file,              \* the bytes on the storage
    open,              \* whether an FsWriter exists
    hash_algo,         \* the fields of the writer, by their names in the code
    head_offset,
    prev_head_hash,
    prev_head_algo,
    next_seq,
    eof

writer == <<open, hash_algo, head_offset, prev_head_hash, prev_head_algo, next_seq, eof>>
vars == <<file, writer>>

\* create: the header for ever holds the sentinel, a trailer the empty table.
Init ==
    /\ file = <<HeaderCell(Sentinel), TrailerCell(0)>>
    /\ open = TRUE
    /\ hash_algo \in Algos
    /\ head_offset = 0
    /\ prev_head_hash = <<>>
    /\ prev_head_algo = "None"
    /\ next_seq = 1
    /\ eof = HeaderSize + TrailerSize

\* The writer is dropped (into_storage); the file stays.
Forget ==
    /\ open' = FALSE
    /\ hash_algo' = "None"
    /\ head_offset' = 0
    /\ prev_head_hash' = <<>>
    /\ prev_head_algo' = "None"
    /\ next_seq' = 0
    /\ eof' = 0

Close == open /\ Forget /\ UNCHANGED file

\* Mutant: the next session goes where the newest trailer is.
AppendPosition_Trailer(f) == Max(Trailers(f))
AppendPosition(f) == Len(f)

\* open: the newest session tells where the chain and the numbering go on.
Open ==
    /\ ~open
    /\ HeaderReadable(file)
    /\ LET head == ResolveHead(file)
           newest == BlockAt(file, head)
       IN  /\ ChainReadable(file, head)
           /\ head # 0 => HeadReadable(file, head)
           /\ head_offset' = head
           /\ prev_head_hash' = IF head = 0 THEN <<>> ELSE newest.hash
           /\ prev_head_algo' = IF head = 0 THEN "None" ELSE newest.algo
           /\ next_seq' = IF head = 0 THEN 1 ELSE SessionRecord(file, head).seq + 1
           /\ hash_algo' = IF head = 0 THEN "Sha256" ELSE newest.algo
    /\ open' = TRUE
    /\ eof' = AppendPosition(file)
    /\ UNCHANGED file

-----------------------------------------------------------------------------
(* commit.                                                                 *)

\* Mutant: the session entry is not counted in the HEAD block.
HeadTake_Full(n) == Min({n, MaxEntries})
\* The HEAD block holds the session entry and this many of n other entries.
HeadTake(n) == Min({n, MaxEntries - 1})

\* The entries of the MEMBER blocks: what the HEAD block leaves, in chunks.
MemberChunks(es) ==
    LET rest == SubSeq(es, HeadTake(Len(es)) + 1, Len(es)) IN
    [k \in 1..((Len(rest) + MaxEntries - 1) \div MaxEntries) |->
        SubSeq(rest, (k - 1) * MaxEntries + 1, Min({k * MaxEntries, Len(rest)}))]

\* Mutant: the HEAD block is linked to the previous session directly.
HeadNext_SkipsMembers(offsets, prev) == prev
HeadNext(offsets, prev) == IF offsets = <<>> THEN prev ELSE offsets[1]

\* Mutant: the trailer is written before the HEAD block it points to.
PublishOrder_TrailerFirst(body, head, trailer) == body \o trailer \o head
PublishOrder(body, head, trailer) == body \o head \o trailer

\* The entries of the partitions of one session, laid out from start on.
PartEntries(parts, start) ==
    [i \in DOMAIN parts |->
        LET d == parts[i].data
            at == start + Len(FlattenSeq([j \in 1..(i - 1) |-> parts[j].data]))
        IN  Entry(parts[i].type, <<next_seq, i>>, at, Len(d), Len(d), hash_algo,
                  Digest(hash_algo, d))]

\* S1 to S6 for one session: its writes, what the handle holds once they are
\* done, and eof_after[k], the append position when write k + 1 fails.
CommitPlan(parts) ==
    LET data == FlattenSeq([i \in DOMAIN parts |-> parts[i].data])
        es == PartEntries(parts, eof)
        session_start == eof + Len(data)
        chunks == MemberChunks(es)
        offset(k) == session_start + 1 + Len(FlattenSeq(SubSeq(chunks, 1, k - 1)))
                        + (k - 1) * TableHeaderSize
        offsets == [k \in DOMAIN chunks |-> offset(k)]
        next(k) == IF k < Len(chunks) THEN offset(k + 1) ELSE head_offset
        hashes == [k \in DOMAIN chunks |-> TableHash(hash_algo, next(k), chunks[k])]
        digest_algo == IF chunks = <<>> THEN "None" ELSE hash_algo
        record == SessionCell(next_seq, prev_head_algo, prev_head_hash, 1 + Len(chunks),
                              digest_algo, MemberDigest(digest_algo, hashes))
        head == offset(Len(chunks) + 1)
        head_next == HeadNext(offsets, head_offset)
        head_entries == <<Entry(SessionType, <<next_seq, 0>>, session_start, 1, 1, hash_algo,
                                Digest(hash_algo, <<record>>))>>
                            \o SubSeq(es, 1, HeadTake(Len(es)))
        trailer == head + TableHeaderSize + Len(head_entries) * EntrySize
        members == [k \in DOMAIN chunks |->
                        WriteBlock(offsets[k], next(k), hash_algo, chunks[k])]
    IN  [writes |-> PublishOrder(
                        WriteCells(eof, data \o <<record>>) \o FlattenSeq(members),
                        WriteBlock(head, head_next, hash_algo, head_entries),
                        <<<<trailer, TrailerCell(head)>>>>),
         head |-> head,
         hash |-> TableHash(hash_algo, head_next, head_entries),
         eof |-> trailer + TrailerSize,
         eof_after |-> [k \in 0..(trailer - eof) |->
            IF k < Len(data) THEN Max({es[i].start : i \in {j \in DOMAIN es :
                                                es[j].used > 0 /\ es[j].start <= eof + k}})
            ELSE trailer]]

\* The plan to commit s, if there is a handle to do it and the bound allows it.
CommitPlans(s) == {p \in {CommitPlan(s)} : open /\ p.eof <= MaxEof}

\* Mutant: the hash of the new head is not remembered.
NextPrevHash_Stale(p) == prev_head_hash
NextPrevHash(p) == p.hash

Commit(s) ==
    \E p \in CommitPlans(s) :
        /\ head_offset' = p.head
        /\ prev_head_hash' = NextPrevHash(p)
        /\ prev_head_algo' = hash_algo
        /\ next_seq' = next_seq + 1
        /\ eof' = p.eof
        /\ UNCHANGED <<open, hash_algo>>
        /\ file' = Apply(file, p.writes)

\* What an error leaves of the writer: of its fields only eof, which is advanced
\* as regions are laid out, has moved.
OnlyEofMoves(e) ==
    /\ eof' = e
    /\ UNCHANGED <<open, hash_algo, head_offset, prev_head_hash, prev_head_algo, next_seq>>

\* Write k + 1, or the flush before the trailer, fails, and commit returns early.
CommitFails(s) ==
    \E p \in CommitPlans(s) : \E k \in DOMAIN p.eof_after :
        /\ OnlyEofMoves(p.eof_after[k])
        /\ file' = Apply(file, SubSeq(p.writes, 1, k))

\* The flush after the trailer fails: all is written, the session is published,
\* and commit returns before it advances the state of the writer.
LastFlushFails(s) ==
    \E p \in CommitPlans(s) :
        /\ OnlyEofMoves(p.eof)
        /\ file' = Apply(file, p.writes)

\* The process dies after k writes of a commit.  (One that dies after all of them
\* is a commit and a Close.)
CommitCrashes(s) ==
    \E p \in CommitPlans(s) : \E k \in 0..(Len(p.writes) - 1) :
        /\ Forget
        /\ file' = Apply(file, SubSeq(p.writes, 1, k))

Next ==
    \/ \E s \in Sessions : Commit(s) \/ CommitFails(s) \/ LastFlushFails(s) \/ CommitCrashes(s)
    \/ Close
    \/ Open

Spec == Init /\ [][Next]_vars

-----------------------------------------------------------------------------
(* What a reader finds.                                                    *)

Newest == ResolveHead(file)

\* In every state, the torn ones included, a reader accepts the whole file: the
\* container's hashes, the session grouping and the hash chain between sessions;
\* and no block, published or not, has more entries than its u8 can count.
AlwaysVerifies ==
    /\ \A i \in DOMAIN file : file[i].t = "blk" => file[i].count \in 0..MaxEntries
    /\ HeaderReadable(file)
    /\ LET head == Newest IN
        Verify(file, head) /\ Scannable(file, head) /\ ChainVerifies(file, head)

\* The session before that at head, by the chain; 0 if there is none.
OlderThan(head) ==
    LET hs == Heads(file, head) IN IF Len(hs) > 1 THEN hs[2] ELSE 0

\* The session the writer remembers is the newest or the one before it, however
\* often commits failed under it and at what flush, and what the writer remembers
\* of that session is what the file says of it.  The next session is linked to
\* the chain by these fields alone.
WriterKnowsItsHead ==
    open =>
        /\ head_offset = Newest \/ (Newest # 0 /\ head_offset = OlderThan(Newest))
        /\ head_offset # 0 =>
            /\ prev_head_hash = BlockAt(file, head_offset).hash
            /\ prev_head_algo = BlockAt(file, head_offset).algo
            /\ next_seq = SessionRecord(file, head_offset).seq + 1
        /\ head_offset = 0 => prev_head_algo = "None" /\ prev_head_hash = <<>> /\ next_seq = 1

\* Nothing up to the newest trailer is ever rewritten (spec 4.3), so a reader
\* that resolved the head earlier goes on reading the same sessions.
CommittedBytesStay ==
    [][IsPrefix(SubSeq(file, 1, Max(Trailers(file)) + 1), file')]_vars
=============================================================================
