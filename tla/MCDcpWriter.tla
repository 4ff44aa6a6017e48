---------------------------- MODULE MCDcpWriter ----------------------------
(***************************************************************************)
(* DcpWriter for TLC: two containers, three partitions, two byte values.   *)
(***************************************************************************)
EXTENDS DcpWriter, TLC

CONSTANTS box1, box2,    \* the containers
          byte1, byte2,  \* the values of a byte
          MaxCalls       \* bound: operations

MCByte == {byte1, byte2}
MCContainers == {box1, box2}
MCContents == {<<>>, <<byte1, byte2>>, <<byte1, byte2, byte1>>}
MCInsertions == {<<>>, <<byte1>>}
Symmetric == Permutations(Uid) \cup Permutations(Containers)

VARIABLES store,       \* the file as its user sees it, computed once in every state
          calls        \* operations so far

mcvars == <<vars, store, calls>>

PartOf(u) ==
    IF u \in TopUids
    THEN [at |-> "top", algo |-> parts[PositionOf(u)].algo,
          content |-> parts[PositionOf(u)].data]
    ELSE LET d == CHOOSE d \in Present : u \in Uids(ArenaOf(d))
             k == IndexOf(ArenaOf(d), u)
         IN  [at |-> d, algo |-> ArenaOf(d).inners[k].algo,
              content |-> InnerContent(ArenaOf(d), k)]
Seen == [u \in {v \in Uid : ~Fresh(v)} |-> PartOf(u)]

MCInit == Init /\ store = Seen /\ calls = 0
MCNext == calls < MaxCalls /\ calls' = calls + 1 /\ Next /\ store' = Seen'
MCSpec == MCInit /\ [][MCNext]_mcvars

-----------------------------------------------------------------------------
(* Properties.                                                             *)

Arenas == {ArenaOf(d) : d \in Present}

\* Every fragment is some bytes of content in the pool: never none, never
\* outside, never the header or a table of the arena it was read from.
TypeOK ==
    \A arena \in Arenas : \A f \in ToSet(AllFrags(arena.inners)) :
        /\ f.offset \in Nat /\ f.length \in Nat \ {0} /\ f.shared \in BOOLEAN
        /\ f.offset + f.length <= Len(arena.blob)
        /\ ToSet(Slice(arena.blob, f)) \subseteq Byte

Overlap(f, g) ==
    f.offset < g.offset + g.length /\ g.offset < f.offset + f.length

\* Rule F1 (8.4), on bytes and not only on whole extents: two fragments that have
\* a byte of the pool in common are both marked SHARED, however they came about,
\* by adding, cutting, promoting and demoting, and writing and reading the file.
SharedMarked ==
    \A arena \in Arenas :
        LET frags == AllFrags(arena.inners) IN
        \A i, j \in DOMAIN frags :
            i # j /\ Overlap(frags[i], frags[j]) => frags[i].shared

\* What is written at any time is accepted by the reader (one place for every uid,
\* tables that match their hashes, fragments inside the arena), which finds in it
\* every partition where it is and with its content, and no other.
AlwaysVerifies ==
    \E image \in {ToImage} :
        /\ ImageVerifies(image)
        /\ \A u \in Uid : Resolved(image, u) = IF Fresh(u) THEN {} ELSE {store[u]}

\* An arena that is read has the hash algorithm it was written with, and unless that
\* is none, the inner table is protected by its own hashes: an entry that is lost or
\* sends the reader elsewhere, a count or a link that is cut, is noticed.
TablesProtected ==
    \A arena \in Arenas : \E bytes \in {ToBytes(arena)} :
        /\ Parse(bytes).algo = arena.algo
        /\ arena.algo # "none" =>
            \A off \in ToSet(WalkBlocks(bytes, bytes[1].table)) :
                /\ bytes[off + 1].next # 0 =>
                        ~InnerTablesVerify([bytes EXCEPT ![off + 1].next = 0])
                /\ bytes[off + 1].count > 0 =>
                    /\ ~InnerTablesVerify([bytes EXCEPT ![off + 1].count = @ - 1])
                    /\ ~InnerTablesVerify([bytes EXCEPT ![off + 2].start = @ + 1])

\* Compaction leaves every byte of the pool in use and SHARED exactly where a
\* byte really is shared (rule F2): no flag is lost, none stays without reason.
CompactionNormalises ==
    [][\A d \in Present : call' = [op |-> "compact", on |-> d] =>
            LET new == ArenaOf(d)'
                frags == AllFrags(new.inners)
            IN  /\ \A n \in 0..(Len(new.blob) - 1) :
                        \E f \in ToSet(frags) : f.offset <= n /\ n < f.offset + f.length
                /\ \A i \in DOMAIN frags : frags[i].shared =>
                        \E j \in DOMAIN frags \ {i} : Overlap(frags[i], frags[j])]_mcvars

\* After deduplication no two chunks of the container hold the same bytes twice.
DedupComplete ==
    [][\A d \in Present : call' = [op |-> "dedup", on |-> d] =>
            LET new == ArenaOf(d)' IN
            \A f, g \in ToSet(AllFrags(new.inners)) :
                Slice(new.blob, f) = Slice(new.blob, g) => Extent(f) = Extent(g)]_mcvars

Store == INSTANCE DcpStore WITH parts <- store

\* Every operation changes the partition it names and no other, whatever bytes
\* they share; moving one, deduplicating, compacting, and writing the file and
\* reading it back change no content and no algorithm.
IsAStore == Store!Spec
=============================================================================
