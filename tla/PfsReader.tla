----------------------------- MODULE PfsReader ------------------------------
(***************************************************************************)
(* How reference/PFS-MS-v1.0 reads a file: from the newest session's HEAD  *)
(* block backwards, a session being its HEAD block and the MEMBER blocks   *)
(* that follow it in the chain.                                            *)
(*                                                                         *)
(* A Session Record and a Node Record are one cell each.  Timestamps,      *)
(* writer ids and the change count say nothing to a reader and are left    *)
(* out; of a node record only the node it is about is kept.                *)
(***************************************************************************)
EXTENDS PcfRecords

SessionType == "session"      \* PFS_SESSION_TYPE
NodeType == "node"            \* PFS_NODE_TYPE

SessionCell(seq, prev_algo, prev_hash, block_count, digest_algo, digest) ==
    [t |-> "ses", seq |-> seq, prev_algo |-> prev_algo, prev_hash |-> prev_hash,
     block_count |-> block_count, digest_algo |-> digest_algo, digest |-> digest]
NodeCell(id) == [t |-> "node", id |-> id]

\* member_blocks_digest: the table hashes of the MEMBER blocks, in chain order.
MemberDigest(algo, hashes) == IF hashes = <<>> THEN <<>> ELSE Digest(algo, hashes)

-----------------------------------------------------------------------------
(* scan.                                                                   *)

\* The entries of a type among es, by their places.
OfType(es, type) == {i \in DOMAIN es : es[i].type = type}

\* The session entry of a HEAD block, which has one of them, and its record.
SessionEntry(f, off) ==
    EntriesAt(f, off)[CHOOSE i \in OfType(EntriesAt(f, off), SessionType) : TRUE]
SessionRecord(f, off) == ReadData(f, SessionEntry(f, off))[1]

\* The Session Record that a HEAD block points to can be read.
HeadReadable(f, off) ==
    /\ BlockReadable(f, off)
    /\ LET slots == OfType(EntriesAt(f, off), SessionType) IN \E i \in slots : slots = {i}
    /\ DataReadable(f, SessionEntry(f, off))
    /\ SessionEntry(f, off).used = 1
    /\ SessionRecord(f, off).t = "ses"

\* The offsets of the block_count blocks of the session, 0 where the chain ends
\* before it should.
SessionBlocks(f, off) ==
    LET at[n \in 1..SessionRecord(f, off).block_count] ==
            IF n = 1 THEN off
            ELSE IF BlockReadable(f, at[n - 1]) THEN BlockAt(f, at[n - 1]).next ELSE 0
    IN  [n \in 1..SessionRecord(f, off).block_count |-> at[n]]

SessionEntries(f, off) ==
    LET bs == SessionBlocks(f, off) IN FlattenSeq([n \in DOMAIN bs |-> EntriesAt(f, bs[n])])

\* A session is accepted: all its blocks are there, none of the MEMBER blocks
\* has a session of its own, and no node has two records in it.
SessionReadable(f, off) ==
    /\ HeadReadable(f, off)
    /\ LET bs == SessionBlocks(f, off) IN
        /\ \A n \in DOMAIN bs : bs[n] # 0 /\ BlockReadable(f, bs[n])
        /\ \A n \in DOMAIN bs \ {1} : OfType(EntriesAt(f, bs[n]), SessionType) = {}
    /\ LET es == SessionEntries(f, off)
           nodes == OfType(es, NodeType)
           record(n) == ReadData(f, es[n])[1]
       IN  /\ \A n \in nodes :
                DataReadable(f, es[n]) /\ es[n].used = 1 /\ record(n).t = "node"
           /\ \A m, n \in nodes : record(m).id = record(n).id => m = n

\* The HEAD blocks met from head on, newest first, and last the offset at which
\* the walk stopped: 0 if every session could be read.  A walk of more steps
\* than the file has cells would go round for ever.
HeadWalk(f, head) ==
    LET walk[n \in 0..Len(f)] ==
            IF n = 0 THEN <<head>>
            ELSE LET met == walk[n - 1]  off == Last(met) IN
                 IF off # 0 /\ SessionReadable(f, off)
                 THEN Append(met, BlockAt(f, Last(SessionBlocks(f, off))).next)
                 ELSE met
    IN  walk[Len(f)]

Heads(f, head) == Front(HeadWalk(f, head))

Scannable(f, head) ==
    /\ Last(HeadWalk(f, head)) = 0
    /\ LET hs == Heads(f, head) IN
        \A n \in DOMAIN hs \ {1} : SessionRecord(f, hs[n]).seq < SessionRecord(f, hs[n - 1]).seq

-----------------------------------------------------------------------------
(* verify_chain, for a file that scans.                                    *)

\* hash_eq: the significant prefix, which is empty for the algorithm None.
HashEq(algo, x, y) == Verifies(algo) => x = y

ChainVerifies(f, head) ==
    LET hs == Heads(f, head)
        members(n) == LET bs == Tail(SessionBlocks(f, hs[n]))
                      IN  [k \in DOMAIN bs |-> BlockAt(f, bs[k]).hash]
    IN  \A n \in DOMAIN hs :
            LET rec == SessionRecord(f, hs[n]) IN
            /\ HashEq(rec.digest_algo, rec.digest, MemberDigest(rec.digest_algo, members(n)))
            /\ IF n < Len(hs)
               THEN LET older == BlockAt(f, hs[n + 1]) IN
                    rec.prev_algo = older.algo /\ HashEq(older.algo, rec.prev_hash, older.hash)
               ELSE rec.prev_algo = "None" /\ rec.prev_hash = <<>>

-----------------------------------------------------------------------------
(* What a reader of the file finds.                                        *)

Readable(f) ==
    /\ HeaderReadable(f)
    /\ LET head == ResolveHead(f) IN ChainReadable(f, head) /\ Scannable(f, head)

\* The partitions a session brought, without the session partition itself.
Parts(f, off) ==
    LET es == SessionEntries(f, off)
        part(e) == IF e.type = SessionType THEN <<>>
                   ELSE <<[type |-> e.type, data |-> ReadData(f, e)]>>
    IN  FlattenSeq([i \in DOMAIN es |-> part(es[i])])

\* The sessions of the file, oldest first.
Log(f) ==
    IF ~Readable(f) THEN <<Nil>>          \* no sessions, but an error
    ELSE LET hs == Reverse(Heads(f, ResolveHead(f))) IN [n \in DOMAIN hs |-> Parts(f, hs[n])]
=============================================================================
