--------------------------- MODULE PfsFileSystem ---------------------------
(***************************************************************************)
(* What the operations on paths promise: a file system, that is a function *)
(* from the paths of what exists to a content or to Dir, and what each     *)
(* call makes of it.  No node, record, version or session appears here;    *)
(* PfsWriter, which has them all, is shown to implement this module.       *)
(***************************************************************************)
EXTENDS Sequences, SequencesExt

CONSTANTS Dir,       \* what a directory maps to
          Paths,     \* the paths the application names
          Contents,  \* the contents of files
          Hosts,     \* the host directories archives are updated from
          Batches    \* the change lists it commits in one session

VARIABLES fs,        \* path -> Dir or content
          call       \* the last operation that took effect

Init == fs = [p \in {} |-> Dir] /\ call = [op |-> "mkfs"]

\* The root is the empty path and always a directory.
IsDirectory(f, p) == p = <<>> \/ (p \in DOMAIN f /\ f[p] = Dir)
Under(f, p) == {q \in DOMAIN f : IsPrefix(p, q)}
Without(f, gone) == [q \in DOMAIN f \ gone |-> f[q]]
With(f, p, x) == [q \in DOMAIN f \cup {p} |-> IF q = p THEN x ELSE f[q]]

Mkdir(p) ==
    /\ call' = [op |-> "mkdir", path |-> p]
    /\ p \notin DOMAIN fs /\ IsDirectory(fs, Front(p))
    /\ fs' = With(fs, p, Dir)

\* put_file creates or replaces one file and leaves everything else.
PutFile(p, c) ==
    /\ call' = [op |-> "put_file", path |-> p, content |-> c]
    /\ IsDirectory(fs, Front(p)) /\ ~IsDirectory(fs, p)
    /\ fs' = With(fs, p, c)

\* mv renames a file, or a directory with all that is in it; the contents stay.
Mv(src, dst) ==
    LET moved(q) == dst \o SubSeq(q, Len(src) + 1, Len(q))
        old(q) == src \o SubSeq(q, Len(dst) + 1, Len(q))
        kept == DOMAIN fs \ Under(fs, src)
    IN  /\ call' = [op |-> "mv", path |-> src, to |-> dst]
        /\ src \in DOMAIN fs /\ dst \notin DOMAIN fs
        /\ IsDirectory(fs, Front(dst)) /\ ~IsPrefix(src, dst)
        /\ fs' = [q \in kept \cup {moved(q) : q \in Under(fs, src)} |->
                    IF q \in kept THEN fs[q] ELSE fs[old(q)]]

\* rm removes a directory with all that is in it.
Rm(p) ==
    /\ call' = [op |-> "rm", path |-> p]
    /\ p \in DOMAIN fs
    /\ fs' = Without(fs, Under(fs, p))

\* commit_changes: the directories first, then the files, then the removals.
After(f, changes) ==
    LET of(op) == {changes[k].path : k \in {n \in DOMAIN changes : changes[n].op = op}}
        content(p) == changes[CHOOSE k \in DOMAIN changes : changes[k].path = p].content
        made == [p \in DOMAIN f \cup of("mkdir") |-> IF p \in DOMAIN f THEN f[p] ELSE Dir]
        put == [p \in DOMAIN made \cup of("put") |->
                    IF p \in of("put") THEN content(p) ELSE made[p]]
    IN  Without(put, UNION {Under(put, p) : p \in of("remove")})

CommitChanges(changes) ==
    /\ call' = [op |-> "commit_changes", changes |-> changes]
    /\ fs' = After(fs, changes)

\* update_archive: the host directory is laid over the archive, or, with
\* delete, the archive becomes its mirror.
Update(host) ==
    /\ call' = [op |-> "update", host |-> host]
    /\ fs' = [p \in DOMAIN fs \cup DOMAIN host |->
                IF p \in DOMAIN host THEN host[p] ELSE fs[p]]
Mirror(host) ==
    /\ call' = [op |-> "mirror", host |-> host]
    /\ fs' = host

\* Compaction drops the history and nothing else.
Compact == call' = [op |-> "compact"] /\ UNCHANGED fs

Next ==
    \/ \E p \in Paths : Mkdir(p) \/ Rm(p)
    \/ \E p \in Paths, c \in Contents : PutFile(p, c)
    \/ \E src, dst \in Paths : Mv(src, dst)
    \/ \E host \in Hosts : Update(host) \/ Mirror(host)
    \/ \E changes \in Batches : CommitChanges(changes)
    \/ Compact

Spec == Init /\ [][Next]_<<fs, call>>
=============================================================================
