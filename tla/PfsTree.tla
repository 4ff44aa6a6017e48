------------------------------ MODULE PfsTree ------------------------------
(***************************************************************************)
(* How reference/PFS-MS-v1.0 makes a file system of the node records in    *)
(* the sessions of a file: newest record first, liveness by ancestry, the  *)
(* tree with one child per name, and the content of a file from the chain  *)
(* of its versions.                                                        *)
(*                                                                         *)
(* A session is the set of its node records; PfsCommit is about how it     *)
(* gets into the file.  Content partitions, compression and hashes are     *)
(* folded into the content section: it says what the bytes are, a patch    *)
(* what it turns into what.  Modes and times are left out.                 *)
(***************************************************************************)
EXTENDS Integers, FiniteSets, SequencesExt

CONSTANTS
    Empty,         \* the empty content
    ReaderDepth    \* how deep materialize goes, 4096 in the code

Root == 0          \* ROOT_NODE_ID
NoNode == -1       \* no such node
Dir == "dir"
File == "file"
Unreadable == "unreadable"     \* an error instead of a content

-----------------------------------------------------------------------------
(* Node records.                                                           *)

NoSection == [kind |-> "none"]         \* directories and tombstones
EmptySection == [kind |-> "empty"]
Direct(c) == [kind |-> "direct", full |-> c]
Delta(base, c) == [kind |-> "delta", base |-> base, full |-> c]
Inherit == [kind |-> "inherit"]

Node(id, kind, parent, name, content) ==
    [id |-> id, kind |-> kind, tomb |-> FALSE, parent |-> parent, name |-> name,
     content |-> content]

Tombstone(rec) == [rec EXCEPT !.tomb = TRUE, !.content = NoSection]

\* from_bytes: a content section if and only if it is a live file.
WellFormed(rec) == (rec.content.kind # "none") <=> (rec.kind = File /\ ~rec.tomb)

\* scan refuses a file with a record that does not parse or two of one node in a
\* session.
RecordsScan(log) ==
    \A n \in DOMAIN log : \A r \in log[n] :
        WellFormed(r) /\ \A other \in log[n] : other.id = r.id => other = r

-----------------------------------------------------------------------------
(* build_node_view: the versions of every node, newest first.              *)

Records(log) == UNION {log[n] : n \in DOMAIN log}

Of(log, id, n) == {r \in log[n] : r.id = id}

History(log, id) ==
    LET upTo[n \in 0..Len(log)] ==
            IF n = 0 THEN <<>>
            ELSE IF Of(log, id, n) = {} THEN upTo[n - 1]
            ELSE <<[seq |-> n, rec |-> CHOOSE r \in Of(log, id, n) : TRUE]>> \o upTo[n - 1]
    IN  upTo[Len(log)]

NodeView(log) == [id \in {r.id : r \in Records(log)} |-> History(log, id)]

\* The view as of max_seq: no record of a later session is in it.
AsOf(log, max_seq) == NodeView(SubSeq(log, 1, max_seq))

Current(view, id) == view[id][1].rec

-----------------------------------------------------------------------------
(* Liveness and build_tree.                                                *)

IsDir(view, id) ==
    IF id \in {Root, NoNode} THEN id = Root ELSE Current(view, id).kind = Dir

\* Where Liveness::walk goes no further: at the root, at what does not exist, at a
\* tombstone and at a node that is its own parent.
Ends(view, id) ==
    \/ id = Root \/ id \notin DOMAIN view
    \/ Current(view, id).tomb \/ Current(view, id).parent = id

\* Liveness::walk: up the parents, through directories, to a root that is there; after
\* as many steps as there are nodes it must have met one of them twice.
Fate(view, id) ==
    LET steps == Cardinality(DOMAIN view)
        up[k \in 0..steps] ==
            IF k = 0 THEN id
            ELSE IF Ends(view, up[k - 1]) THEN up[k - 1]
            ELSE Current(view, up[k - 1]).parent
    IN  IF ~Ends(view, up[steps]) THEN "cycle"
        ELSE IF /\ up[steps] = Root /\ (Root \in DOMAIN view => ~Current(view, Root).tomb)
                /\ \A k \in 1..steps : IsDir(view, up[k])
        THEN "live" ELSE "dead"

ParentCycle(view) == \E id \in DOMAIN view : Fate(view, id) = "cycle"

\* The node that keeps a name: greater session_seq (of equals, the code keeps
\* the one its hash map yields first).
Winner(view, ids) ==
    CHOOSE id \in ids : \A other \in ids : view[id][1].seq >= view[other][1].seq

\* The live nodes and, by parent and name, the child that is not hidden.
BuildTree(view) ==
    LET live == {id \in DOMAIN view \cup {Root} : Fate(view, id) = "live"}
        place(id) == <<Current(view, id).parent, Current(view, id).name>>
    IN  [nodes |-> live,
         child |-> [pn \in {place(id) : id \in live \ {Root}} |->
                        Winner(view, {id \in live \ {Root} : place(id) = pn})]]

\* live_child and resolve_path; a path is the sequence of its components.
LiveChild(tree, parent, name) ==
    IF <<parent, name>> \in DOMAIN tree.child THEN tree.child[<<parent, name>>] ELSE NoNode

Resolve(tree, path) ==
    LET at[k \in 0..Len(path)] ==
            IF k = 0 THEN Root ELSE LiveChild(tree, at[k - 1], path[k])
    IN  at[Len(path)]

\* live_paths: the paths of all nodes that are not hidden, the root excluded, by
\* their lengths; a path is shorter than there are nodes.
LivePaths(tree) ==
    LET below(p) == {Append(p, pn[2]) : pn \in {q \in DOMAIN tree.child : q[1] = Resolve(tree, p)}}
        longest == Cardinality(tree.nodes)
        ofLength[k \in 0..longest] ==
            IF k = 0 THEN {<<>>} ELSE UNION {below(p) : p \in ofLength[k - 1]}
    IN  UNION {ofLength[k] : k \in 1..longest}

-----------------------------------------------------------------------------
(* read_file: the content-bearing versions, newest first.                  *)

Versions(view, id) ==
    LET content(n) == view[id][n].rec.content
        first[n \in 0..Len(view[id])] ==
            IF n = 0 THEN <<>>
            ELSE IF content(n).kind = "none" THEN first[n - 1]
            ELSE Append(first[n - 1], content(n))
    IN  first[Len(view[id])]

\* Mutant: INHERIT is resolved against the version before the previous one.
Base_Skips(k) == k + 2
\* The version that DELTA and INHERIT at k refer to.
Base(k) == k + 1

\* materialize; its depth is the index of the version, counted from 0.
ReadFile(view, id) ==
    LET chain == Versions(view, id)
        content[k \in Nat] ==
            IF k > Len(chain) \/ k - 1 > ReaderDepth THEN Unreadable
            ELSE CASE chain[k].kind = "empty" -> Empty
                   [] chain[k].kind = "direct" -> chain[k].full
                   [] chain[k].kind = "inherit" -> content[Base(k)]
                   [] chain[k].kind = "delta" ->
                        IF content[Base(k)] = chain[k].base THEN chain[k].full
                        ELSE Unreadable
    IN  content[1]

\* current_delta_depth: the versions before the first EMPTY or DIRECT one.
DeltaDepth(view, id) ==
    LET chain == Versions(view, id)
        based == {k \in DOMAIN chain : chain[k].kind \in {"empty", "direct"}}
    IN  IF based = {} THEN Len(chain) ELSE Min(based) - 1

-----------------------------------------------------------------------------
\* What a reader makes of the sessions (the walk of compact): a directory or a
\* content for every path.
LiveTree(view, tree) ==
    [p \in LivePaths(tree) |->
        LET id == Resolve(tree, p) IN
        IF IsDir(view, id) THEN Dir ELSE ReadFile(view, id)]

\* Mutant: the path is looked up in the past and the content in the present.
ContentView_Head(log, max_seq) == NodeView(log)
\* read_path_as_of: the view in which a content is put together.
ContentView(log, max_seq) == AsOf(log, max_seq)

\* extract_archive as of a session.
Extract(log, max_seq) ==
    LET view == AsOf(log, max_seq)
        tree == BuildTree(view)
    IN  [p \in LivePaths(tree) |->
            LET id == Resolve(tree, p) IN
            IF IsDir(view, id) THEN Dir ELSE ReadFile(ContentView(log, max_seq), id)]
=============================================================================
