---------------------------- MODULE MCPfsWriter ----------------------------
(***************************************************************************)
(* PfsWriter for TLC: two names, directories one deep (deeper ones come of *)
(* moving directories), two contents that are small patches of each other. *)
(***************************************************************************)
EXTENDS PfsWriter

CONSTANTS n1, n2,      \* names
          c1, c2,      \* contents
          MaxCalls     \* bound: operations after mkfs

Names == {n1, n2}
MCPaths == {<<n>> : n \in Names} \cup {<<n, m>> : n, m \in Names}
MCContents == {Empty, c1, c2}
MCSmallPatch == {<<c1, c2>>, <<c2, c1>>}

\* An empty host directory, a file, and a directory with a file.
MCHosts == {
    [p \in {} |-> Dir],
    [p \in {<<n1>>} |-> c1],
    [p \in {<<n1>>, <<n1, n2>>} |-> IF p = <<n1>> THEN Dir ELSE c2] }

\* A file below a directory made in the same batch; a directory made in one that
\* goes in the same batch; a file and what it is in, removed parent first.
MCBatches == {
    <<Put(<<n1, n2>>, c1), Change("mkdir", <<n1>>)>>,
    <<Change("remove", <<n1>>), Change("mkdir", <<n1, n1>>), Put(<<n2>>, c2)>>,
    <<Change("remove", <<n1>>), Change("remove", <<n1, n2>>)>> }

-----------------------------------------------------------------------------
VARIABLES view,        \* the node view and ...
          fs,          \* ... what a reader makes of it, computed once in every state
          past,        \* what a reader made of it when each session was the newest
          calls        \* operations so far

mcvars == <<vars, view, fs, past, calls>>

\* What a reader finds, or an error.
Seen(l, v) ==
    IF ~RecordsScan(l) \/ ParentCycle(v) THEN [p \in {<<>>} |-> Unreadable]
    ELSE LiveTree(v, BuildTree(v))

MCInit == Init /\ view = NodeView(log) /\ fs = Seen(log, view) /\ past = <<fs>> /\ calls = 0

Observe ==
    /\ calls < MaxCalls
    /\ calls' = calls + 1
    /\ \E v \in {NodeView(log')} : view' = v /\ fs' = Seen(log', v)
    /\ past' = IF call'.op # "compact" THEN Append(past, fs')
               ELSE IF log' = <<>> THEN <<>> ELSE <<fs'>>

MCSpec == MCInit /\ [][SafeNext /\ Observe]_mcvars
MCUnsafeSpec == MCInit /\ [][Next /\ Observe]_mcvars

-----------------------------------------------------------------------------
(* Properties.                                                             *)

Alive(v) == {id \in DOMAIN v : Fate(v, id) = "live"}

\* Section 15: what the file held after any of its sessions can still be read, as
\* it was then, whatever has been moved, patched, overwritten or removed since.
PastStays == \A n \in DOMAIN log : Extract(log, n) = past[n]

\* W5, first half: no two live siblings have one name.  build_tree would hide one
\* of them, and show it again once the other has gone.
SiblingsUnique ==
    \A id, other \in Alive(view) \ {Root} :
        LET r == Current(view, id)  q == Current(view, other) IN
        r.parent = q.parent /\ r.name = q.name => id = other

\* W5, second half: no directory is, at whatever distance, inside itself.
Acyclic ==
    \A id \in DOMAIN view \ {Root} :
        /\ Fate(view, id) # "cycle"
        /\ ~Current(view, id).tomb => Current(view, id).parent # id

\* Section 9.4: DELTA and INHERIT both count for the depth of a version, and no
\* DELTA was written that took it past the recommended depth, however patches and
\* moves are mixed.  Only moves go deeper: mv adds an INHERIT at any depth and
\* never re-baselines.
DeltasBounded ==
    \A id \in Alive(view) :
        \A k \in 1..DeltaDepth(view, id) :
            Versions(view, id)[k].kind = "delta" =>
                DeltaDepth(view, id) - k + 1 <= RecommendedDepth

\* A node that is no longer live, by its own tombstone or because a directory
\* above it went, never comes back, although only the directory has a tombstone
\* and new nodes may take its path.
DeadStayDead ==
    [][call'.op # "compact" =>
            \A id \in DOMAIN view \ Alive(view) : id \notin Alive(view')]_mcvars

\* Updating an archive from a host directory that holds nothing new commits no
\* session: of the sessions of updates, each changes something.
SyncsChange == [][call'.op \in {"update", "mirror"} => fs' # fs]_mcvars

FileSystem == INSTANCE PfsFileSystem

\* Read back from the records, the files are what the calls say: every operation
\* changes what it names and nothing else, a moved file keeps its bytes through
\* any chain of patches and moves, a removed directory takes all it holds with
\* it, an archive updated with delete is the host directory, and compaction
\* changes nothing.
IsAFileSystem == FileSystem!Spec
=============================================================================
