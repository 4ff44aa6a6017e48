----------------------------- MODULE PfsWriter -----------------------------
(***************************************************************************)
(* The operations of FsWriter on paths, the update of an archive from a    *)
(* host directory and compaction, in reference/PFS-MS-v1.0.  Each begins   *)
(* by reading the file system from the file (snapshot) and ends by         *)
(* committing one session of node records, or fails and leaves the file as *)
(* it was; PfsCommit is about the commit itself.                           *)
(*                                                                         *)
(* The code is given paths as strings and drops empty and "." components;  *)
(* here a path is the sequence of its names, of which one at least.        *)
(***************************************************************************)
EXTENDS PfsTree, FiniteSetsExt

CONSTANTS
    Paths,             \* the paths the application names
    Contents,          \* the contents it writes, Empty among them
    Hosts,             \* the host directories: functions from paths to
                       \* a content or Dir
    Batches,           \* the change lists it passes to commit_changes
    SmallPatch,        \* pairs of contents: the VCDIFF patch from the first to
                       \* the second is shorter than the second
    RecommendedDepth,  \* RECOMMENDED_MAX_DELTA_DEPTH, 16 in the code
    MaxSessions        \* bound: no more sessions in a file

ASSUME WriterAssumption ==
    /\ Empty \in Contents
    /\ SmallPatch \subseteq (Contents \ {Empty}) \X (Contents \ {Empty})
    /\ RecommendedDepth \in Nat /\ ReaderDepth \in Nat /\ MaxSessions \in Nat

\* A path, without empty components.
IsPath(p) == p \in Seq(ToSet(p)) /\ p # <<>>

ASSUME PathAssumption ==
    /\ \A p \in Paths : IsPath(p)
    /\ \A host \in Hosts : IsFiniteSet(DOMAIN host) /\ \A p \in DOMAIN host : IsPath(p)

\* commit_changes looks for what is at a path in the tree before the batch: whoever
\* gives it a list names a new path once, as collect_changes does.
ASSUME BatchAssumption ==
    \A changes \in Batches :
        /\ changes \in Seq(ToSet(changes))
        /\ \A c \in ToSet(changes) : c.op \in {"mkdir", "put", "remove"} /\ IsPath(c.path)
        /\ \A i, j \in DOMAIN changes :
            i # j /\ changes[i].op = "put" /\ changes[j].op \in {"mkdir", "put"}
                => changes[i].path # changes[j].path

VARIABLES
    log,       \* the sessions of the file, oldest first
    call       \* the last operation that committed (not in the code)

vars == <<log, call>>

\* mkfs: the root directory is session 1.
Init ==
    /\ log = <<{Node(Root, Dir, Root, "", NoSection)}>>
    /\ call = [op |-> "mkfs"]

\* What snapshot reads; it fails on a record that scan refuses and on a parent
\* cycle, and every operation with it.
Snapshots ==
    LET view == NodeView(log) IN
    IF ~RecordsScan(log) \/ ParentCycle(view) THEN {} ELSE {[view |-> view, tree |-> BuildTree(view)]}

\* Mutant: a node that is created takes over the id of one that was deleted.
NewId_Recycled(view, k) ==
    LET gone == {id \in DOMAIN view : Current(view, id).tomb}
    IN  IF gone = {} THEN Cardinality(DOMAIN view) + k ELSE (CHOOSE id \in gone : TRUE)
\* new_id: unused in this file.
NewId(view, k) == Max(DOMAIN view \cup {Root}) + k

Commit(recs, this) ==
    /\ Len(log) < MaxSessions
    /\ log' = Append(log, recs)
    /\ call' = this

-----------------------------------------------------------------------------
(* Contents.                                                               *)

NewSection(c) == IF c = Empty THEN EmptySection ELSE Direct(c)

\* Mutant: the moves between the patches are not counted.
MayDelta_PatchesOnly(view, id) ==
    Cardinality({k \in 1..DeltaDepth(view, id) : Versions(view, id)[k].kind = "delta"})
        < RecommendedDepth
MayDelta(view, id) == DeltaDepth(view, id) < RecommendedDepth

\* build_modified_content.
ModifiedSection(view, id, prev, c) ==
    IF <<prev, c>> \in SmallPatch /\ MayDelta(view, id) THEN Delta(prev, c)
    ELSE NewSection(c)

\* The record of a file at this place with this content: a new version of the
\* file that is there, or a new file with the k-th new id.
FileRecord(s, parent, name, c, k) ==
    LET id == LiveChild(s.tree, parent, name) IN
    IF id = NoNode
    THEN Node(NewId(s.view, k), File, parent, name, NewSection(c))
    ELSE Node(id, File, parent, name,
              ModifiedSection(s.view, id, ReadFile(s.view, id), c))

\* What is there, if anything, is a file that can be read.
Writable(s, parent, name) ==
    LET id == LiveChild(s.tree, parent, name) IN
    id # NoNode => ~IsDir(s.view, id) /\ ReadFile(s.view, id) # Unreadable

-----------------------------------------------------------------------------
(* The operations.                                                         *)

\* resolve_parent.
Parent(s, p) == Resolve(s.tree, Front(p))
HasParent(s, p) == Parent(s, p) # NoNode /\ IsDir(s.view, Parent(s, p))

\* Mutant: only the paths of directories are taken.
Free_DirsOnly(s, p) == ~(Resolve(s.tree, p) # NoNode /\ IsDir(s.view, Resolve(s.tree, p)))
Free(s, p) == LiveChild(s.tree, Parent(s, p), Last(p)) = NoNode

Mkdir(s, p) ==
    /\ HasParent(s, p) /\ Free(s, p)
    /\ Commit({Node(NewId(s.view, 1), Dir, Parent(s, p), Last(p), NoSection)},
              [op |-> "mkdir", path |-> p])

PutFile(s, p, c) ==
    /\ HasParent(s, p) /\ Writable(s, Parent(s, p), Last(p))
    /\ Commit({FileRecord(s, Parent(s, p), Last(p), c, 1)},
              [op |-> "put_file", path |-> p, content |-> c])

\* mv: a file inherits its content.  That dst is not inside src is not checked.
Mv(s, src, dst) ==
    LET id == Resolve(s.tree, src)
        old == Current(s.view, id)
    IN  /\ id # NoNode
        /\ HasParent(s, dst) /\ Free(s, dst)
        /\ Commit({Node(id, old.kind, Parent(s, dst), Last(dst),
                        IF old.kind = File THEN Inherit ELSE NoSection)},
                  [op |-> "mv", path |-> src, to |-> dst])

\* rm: one tombstone, a directory's children go with it by ancestry.
Rm(s, p) ==
    /\ Resolve(s.tree, p) # NoNode
    /\ Commit({Tombstone(Current(s.view, Resolve(s.tree, p)))},
              [op |-> "rm", path |-> p])

-----------------------------------------------------------------------------
(* commit_changes: a list of changes as one session.                       *)

Change(op, path) == [op |-> op, path |-> path]
Put(path, c) == [op |-> "put", path |-> path, content |-> c]

\* The changes of a list that are in S, in their order.
Those(changes, S) ==
    LET first[k \in 0..Len(changes)] ==
            IF k = 0 THEN <<>>
            ELSE IF changes[k] \in S THEN Append(first[k - 1], changes[k]) ELSE first[k - 1]
    IN  first[Len(changes)]

\* Mkdirs, shallow ones first, then puts, then removals, deep ones first; in
\* the order given where this does not decide.
Ordered(changes) ==
    LET all == ToSet(changes)
        deepest == Max({Len(c.path) : c \in all} \cup {0})
        at(op, d) == Those(changes, {c \in all : c.op = op /\ Len(c.path) = d})
    IN  FlattenSeq([d \in 1..deepest |-> at("mkdir", d)])
            \o Those(changes, {c \in all : c.op = "put"})
            \o FlattenSeq([d \in 1..deepest |-> at("remove", deepest + 1 - d)])

\* resolve_dir: a directory of the tree, or one made earlier in this batch.
ResolveDir(s, dirs, p) ==
    IF p \in DOMAIN dirs THEN dirs[p]
    ELSE LET id == Resolve(s.tree, p) IN
         IF id # NoNode /\ IsDir(s.view, id) THEN id ELSE NoNode

\* One change of a batch.  So far: the records (none may be about the same node
\* twice), the directories by path, and whether the batch was refused.
Fail(acc) == [acc EXCEPT !.ok = FALSE]
Mark(acc, rec) ==
    IF \E r \in acc.recs : r.id = rec.id THEN Fail(acc)
    ELSE [acc EXCEPT !.recs = @ \cup {rec}]

MkdirChange(s, acc, c) ==
    LET parent == ResolveDir(s, acc.dirs, Front(c.path))
        new == NewId(s.view, Cardinality(acc.recs) + 1)
        known(id) == [acc EXCEPT !.dirs =
                        [p \in DOMAIN @ \cup {c.path} |-> IF p = c.path THEN id ELSE @[p]]]
    IN  IF ResolveDir(s, acc.dirs, c.path) # NoNode
        THEN known(ResolveDir(s, acc.dirs, c.path))
        ELSE IF Resolve(s.tree, c.path) # NoNode \/ parent = NoNode THEN Fail(acc)
        ELSE Mark(known(new), Node(new, Dir, parent, Last(c.path), NoSection))

\* Mutant: a content that did not change is written again.
Unchanged_Never(s, id, c) == FALSE
Unchanged(s, id, c) == id # NoNode /\ ReadFile(s.view, id) = c

PutChange(s, acc, c) ==
    LET parent == ResolveDir(s, acc.dirs, Front(c.path)) IN
    IF parent = NoNode \/ ~Writable(s, parent, Last(c.path)) THEN Fail(acc)
    ELSE IF Unchanged(s, LiveChild(s.tree, parent, Last(c.path)), c.content) THEN acc
    ELSE Mark(acc, FileRecord(s, parent, Last(c.path), c.content,
                              Cardinality(acc.recs) + 1))

RemoveChange(s, acc, c) ==
    LET id == Resolve(s.tree, c.path) IN
    IF id = NoNode THEN Fail(acc) ELSE Mark(acc, Tombstone(Current(s.view, id)))

OneChange(s, acc, c) ==
    IF ~acc.ok THEN acc
    ELSE IF c.op = "mkdir" THEN MkdirChange(s, acc, c)
    ELSE IF c.op = "put" THEN PutChange(s, acc, c)
    ELSE RemoveChange(s, acc, c)

\* The node records of a batch, or that it is refused.
Batch(s, changes) ==
    LET todo == Ordered(changes)
        after[k \in 0..Len(todo)] ==
            IF k = 0 THEN [ok |-> TRUE, recs |-> {}, dirs |-> [p \in {<<>>} |-> Root]]
            ELSE OneChange(s, after[k - 1], todo[k])
    IN  after[Len(todo)]

CommitBatch(b, this) == b.ok /\ b.recs # {} /\ Commit(b.recs, this)

CommitChanges(s, changes) ==
    CommitBatch(Batch(s, changes), [op |-> "commit_changes", changes |-> changes])

-----------------------------------------------------------------------------
(* dirsync and compact.                                                    *)

\* collect_changes of a tree of paths: every directory and every file.
CollectChanges(tree) ==
    LET paths == SetToSeq(DOMAIN tree) IN
    [k \in DOMAIN paths |-> IF tree[paths[k]] = Dir THEN Change("mkdir", paths[k])
                            ELSE Put(paths[k], tree[paths[k]])]

\* update_archive with delete: what is live and not in the host is removed.
Removals(s, host) ==
    LET paths == SetToSeq(LivePaths(s.tree) \ DOMAIN host)
    IN  [k \in DOMAIN paths |-> Change("remove", paths[k])]

Update(s, host) ==
    CommitBatch(Batch(s, CollectChanges(host)), [op |-> "update", host |-> host])

Mirror(s, host) ==
    CommitBatch(Batch(s, CollectChanges(host) \o Removals(s, host)),
                [op |-> "mirror", host |-> host])

\* compact: the live tree as the one session of a new file, or none at all.
Compact(s) ==
    LET now == LiveTree(s.view, s.tree)
        new == [view |-> NodeView(<<>>), tree |-> BuildTree(NodeView(<<>>))]
        recs == Batch(new, CollectChanges(now)).recs
    IN  /\ \A p \in DOMAIN now : now[p] # Unreadable
        /\ log' = IF recs = {} THEN <<>> ELSE <<recs>>
        /\ call' = [op |-> "compact"]

-----------------------------------------------------------------------------
Operation(s) ==
    \/ \E p \in Paths : Mkdir(s, p) \/ Rm(s, p)
    \/ \E p \in Paths, c \in Contents : PutFile(s, p, c)
    \/ \E changes \in Batches : CommitChanges(s, changes)
    \/ \E host \in Hosts : Update(s, host) \/ Mirror(s, host)
    \/ Compact(s)

\* Everything the code allows.
Next == \E s \in Snapshots : Operation(s) \/ \E src, dst \in Paths : Mv(s, src, dst)

Spec == Init /\ [][Next]_vars

\* The moves the file system survives: not into what is moved, and not of a file
\* whose content is already at the end of the reader's reach.
SafeMv(s, src, dst) ==
    /\ ~IsPrefix(src, dst)
    /\ Resolve(s.tree, src) # NoNode =>
            DeltaDepth(s.view, Resolve(s.tree, src)) < ReaderDepth
    /\ Mv(s, src, dst)

SafeNext == \E s \in Snapshots : Operation(s) \/ \E src, dst \in Paths : SafeMv(s, src, dst)

SafeSpec == Init /\ [][SafeNext]_vars
=============================================================================
