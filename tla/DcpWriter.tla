----------------------------- MODULE DcpWriter -----------------------------
(***************************************************************************)
(* DcpWriter of reference/PCF-DCP-v1.0 (writer.rs): the partitions of a    *)
(* file in memory, plain ones and containers, the operations on them, and  *)
(* the image they are written to and read from again.  An image is what    *)
(* the PCF container keeps of each partition; PcfContainer is about how.   *)
(***************************************************************************)
EXTENDS DcpArena, Functions

CONSTANTS
    Uid,           \* the uids of ordinary partitions
    Containers,    \* the uids of containers
    Algo,          \* hash algorithms of contents, "none" among them
    TableAlgo,     \* hash algorithms of inner tables, likewise
    Contents,      \* the contents of new partitions
    Insertions,    \* the bytes of edits
    ChunkSizes     \* of add_inner and dedup, 0 for Whole

ASSUME WriterAssumption ==
    /\ Contents \cup Insertions \subseteq Seq(Byte)
    /\ ChunkSizes \subseteq Nat
    /\ Uid \cap Containers = {}
    /\ "top" \notin Containers    \* names the top level in calls

VARIABLES
    parts,         \* the top-level partitions in order
    call           \* the last operation (not in the code)

vars == <<parts, call>>

Plain(uid, algo, data) == [uid |-> uid, algo |-> algo, dcp |-> FALSE, data |-> data]
DcpContainer(uid, arena) == [uid |-> uid, algo |-> "none", dcp |-> TRUE, data |-> arena]

\* A new writer, or one that has opened a file with an empty container.
Init ==
    /\ parts \in {<<>>} \cup
                 {<<DcpContainer(c, EmptyArena(t))>> : c \in Containers, t \in TableAlgo}
    /\ call = [op |-> "new"]

TopUids == {parts[k].uid : k \in DOMAIN parts}
PositionOf(uid) == CHOOSE k \in DOMAIN parts : parts[k].uid = uid
ArenaOf(c) == parts[PositionOf(c)].data

\* container_mut finds these.
Present == {parts[k].uid : k \in {j \in DOMAIN parts : parts[j].dcp}}

\* No partition of the file has this uid.
Fresh(uid) ==
    /\ uid \notin TopUids
    /\ \A c \in Present : uid \notin Uids(ArenaOf(c))

-----------------------------------------------------------------------------
(* The operations.                                                         *)

AddPlain(uid, algo, content) ==
    /\ uid \notin TopUids
    /\ parts' = Append(parts, Plain(uid, algo, content))
    /\ call' = [op |-> "add", uid |-> uid, at |-> "top", content |-> content]

\* A new container at the end, with a new arena (with_inner_table_algo).
AddContainer(uid, table) ==
    /\ uid \notin TopUids
    /\ parts' = Append(parts, DcpContainer(uid, EmptyArena(table)))
    /\ call' = [op |-> "container", on |-> uid]

\* Through arena_mut.
AddPartition(c, uid, algo, content, n) ==
    /\ uid \notin Uids(ArenaOf(c))
    /\ parts' = [parts EXCEPT ![PositionOf(c)].data = AddInner(@, uid, algo, content, n)]
    /\ call' = [op |-> "add", uid |-> uid, at |-> c, content |-> content]

EditPartition(c, uid, pos, len, bytes) ==
    /\ uid \in Uids(ArenaOf(c))
    /\ len > 0 \/ bytes # <<>>
    /\ pos + len <= LogicalLen(ArenaOf(c).inners[IndexOf(ArenaOf(c), uid)].frags)
    /\ parts' = [parts EXCEPT ![PositionOf(c)].data = Edit(@, uid, pos, len, bytes)]
    /\ call' = [op |-> "edit", uid |-> uid, pos |-> pos, len |-> len, bytes |-> bytes]

RemovePartition(c, uid) ==
    /\ uid \in Uids(ArenaOf(c))
    /\ parts' = [parts EXCEPT ![PositionOf(c)].data = RemoveInner(@, uid)]
    /\ call' = [op |-> "remove", uid |-> uid]

\* promote: the materialised content becomes a partition of its own.
Promote(c, uid) ==
    LET k == IndexOf(ArenaOf(c), uid) IN
    /\ uid \in Uids(ArenaOf(c))
    /\ parts' = Append([parts EXCEPT ![PositionOf(c)].data = RemoveInner(@, uid)],
                       Plain(uid, ArenaOf(c).inners[k].algo, InnerContent(ArenaOf(c), k)))
    /\ call' = [op |-> "move", uid |-> uid, to |-> "top"]

\* demote: one chunk, which may share the bytes of another partition.
Demote(c, uid) ==
    LET p == parts[PositionOf(uid)] IN
    /\ uid \in TopUids \ Present /\ uid \notin Uids(ArenaOf(c))
    /\ parts' = RemoveAt([parts EXCEPT ![PositionOf(c)].data =
                                AddInner(@, uid, p.algo, p.data, 0)],
                         PositionOf(uid))
    /\ call' = [op |-> "move", uid |-> uid, to |-> c]

DedupContainer(c, n) ==
    /\ parts' = [parts EXCEPT ![PositionOf(c)].data = Dedup(@, n)]
    /\ call' = [op |-> "dedup", on |-> c]

\* defrag.
Defrag(c) ==
    /\ parts' = [parts EXCEPT ![PositionOf(c)].data = Compact(@)]
    /\ call' = [op |-> "compact", on |-> c]

-----------------------------------------------------------------------------
(* The image, and what a reader makes of one.                              *)

ToImage ==
    LET data(p) == IF p.dcp THEN ToBytes(p.data) ELSE p.data
        kept(p, d) == [uid |-> p.uid, algo |-> p.algo, dcp |-> p.dcp, data |-> d,
                       hash |-> Hash(p.algo, d)]
    IN  [k \in DOMAIN parts |-> kept(parts[k], data(parts[k]))]

\* DcpWriter::open.
Load(image) ==
    [k \in DOMAIN image |->
        [uid |-> image[k].uid, algo |-> image[k].algo, dcp |-> image[k].dcp,
         data |-> IF image[k].dcp THEN Parse(image[k].data) ELSE image[k].data]]

Reopen == parts' = Load(ToImage) /\ call' = [op |-> "reopen"]

\* inner_partitions: what each container holds, in file order.
InnerPartitions(image) ==
    LET located(p, arena) ==
            [k \in DOMAIN arena.inners |->
                [container |-> p.uid, info |-> InnerInfo(arena, k),
                 content |-> InnerContent(arena, k)]]
    IN  FlattenSeq([k \in DOMAIN image |->
            IF image[k].dcp THEN located(image[k], Parse(image[k].data)) ELSE <<>>])

\* resolve_uid, the top level first, with read_partition_data or read_inner.
Under(uid, ps) == {k \in DOMAIN ps : ps[k].uid = uid}
Within(uid, located) == {k \in DOMAIN located : located[k].info.uid = uid}
Resolved(image, uid) ==
    LET inner == InnerPartitions(image)
        top == Under(uid, image)  within == Within(uid, inner)
        p == image[Min(top)]  l == inner[Min(within)]
    IN  IF top # {} THEN {[at |-> "top", algo |-> p.algo, content |-> p.data]}
        ELSE IF within = {} THEN {}
        ELSE {[at |-> l.container, algo |-> l.info.algo, content |-> l.content]}

\* verify: the hashes of the partitions, all uids of the file, and then every
\* container.
ImageVerifies(image) ==
    /\ \A p \in Range(image) : Hash(p.algo, p.data) = p.hash
    /\ LET inner == InnerPartitions(image) IN
       IsInjective([k \in DOMAIN image |-> image[k].uid]
                    \o [k \in DOMAIN inner |-> inner[k].info.uid])
    /\ \A p \in Range(image) : p.dcp => ArenaVerifies(p.data)

-----------------------------------------------------------------------------
\* The application never gives one uid to two partitions; the code checks it
\* within the top level and within a container, but not across.
Next ==
    \/ \E uid \in Uid, algo \in Algo, content \in Contents :
            Fresh(uid) /\ AddPlain(uid, algo, content)
    \/ \E c \in Containers, table \in TableAlgo : Fresh(c) /\ AddContainer(c, table)
    \/ \E c \in Present :
        \/ \E uid \in Uid :
            \/ \E algo \in Algo, content \in Contents, n \in ChunkSizes :
                    Fresh(uid) /\ AddPartition(c, uid, algo, content, n)
            \/ /\ uid \in Uids(ArenaOf(c))
               /\ \E pos, len \in 0..Len(InnerContent(ArenaOf(c), IndexOf(ArenaOf(c), uid))),
                     bytes \in Insertions :
                    EditPartition(c, uid, pos, len, bytes)
            \/ RemovePartition(c, uid)
            \/ Promote(c, uid)
            \/ Demote(c, uid)
        \/ \E n \in ChunkSizes : DedupContainer(c, n)
        \/ Defrag(c)
    \/ Reopen

Spec == Init /\ [][Next]_vars
=============================================================================
