---------------------------- MODULE FileReplace -----------------------------
(***************************************************************************)
(* How pcf-compact and `pfs compact` replace a file on the host: the       *)
(* compacted image goes to a temporary file beside the target, which is    *)
(* fsynced and renamed over it.  Any number of runs of either tool are     *)
(* under way; each may fail at every call, die at every point, or find     *)
(* what a dead one with its process id left behind; and power may fail.    *)
(*                                                                         *)
(* What is in a file is its version, the number of edits it holds, or Torn *)
(* when it is not whole; compaction keeps the version (PcfStore and        *)
(* PfsFileSystem are about that).  The host promises what POSIX does:      *)
(* rename is atomic, fsync of a file makes its data durable, fsync of a    *)
(* directory its entries; until then a power failure may undo the newest   *)
(* directory changes, and tear the data.                                   *)
(*                                                                         *)
(* No tool takes a lock.  The model's users edit the archive only while no *)
(* compaction of it is under way: an edit between the reading and the      *)
(* rename would be lost.                                                   *)
(***************************************************************************)
EXTENDS Naturals, FiniteSets, Functions

CONSTANTS
    Runs,          \* the invocations of the tools
    Pids,          \* process ids, which the host uses again
    Stamps,        \* the clock readings in the names of pcf-compact's files
    Archive,       \* the file that is compacted ...
    Out,           \* ... and the other one that may be named as the output
    Torn,          \* the content of a file that is not whole
    MaxVersion     \* bound: edits of the archive

Targets == {Archive, Out}
Tools == {"pcf-compact", "pfs compact"}
Versions == 0..MaxVersion
TempNames == Tools \X Targets \X Pids \X Stamps
Inodes == Targets \cup Runs          \* a run creates one file at most

ASSUME ReplaceAssumption ==
    /\ Archive # Out
    /\ Targets \cap (Runs \cup TempNames) = {}
    /\ MaxVersion \in Nat
    /\ Torn \notin Nat

VARIABLES
    dir,           \* name -> inode, as programs see it
    pending,       \* the directories that may be on the disk
    data,          \* inode -> content, as programs see it
    synced,        \* the inodes whose data is on the disk
    pc,            \* run -> what it does next
    job,           \* run -> what it was asked, its temporary file and image
    latest,        \* the version the archive should have (not in the code)
    durable        \* the runs that fsynced the directory since (not in the code)

fvars == <<dir, pending, data, synced, pc, job, latest, durable>>

Working == {"create", "write", "sync", "rename", "dirsync"}
Live(r) == pc[r] \in Working

Unlinked(d, n) == Restrict(d, DOMAIN d \ {n})
Linked(d, n, i) == [m \in DOMAIN d \cup {n} |-> IF m = n THEN i ELSE d[m]]

\* A change of the directory: what was there before may still be on the disk.
Relink(d) == dir' = d /\ pending' = pending \cup {d}

\* old is what a run replaced (not in the code).
NoJob == [tool |-> "none", target |-> Archive, pid |-> 0, tmp |-> <<>>, fd |-> Archive,
          image |-> Torn, old |-> Archive]

FInit ==
    /\ dir \in {[n \in N |-> n] : N \in {{Archive}, Targets}}
    /\ pending = {dir}
    /\ data = [i \in Inodes |-> IF i \in Targets THEN 0 ELSE Torn]
    /\ synced = Inodes
    /\ pc = [r \in Runs |-> "idle"]
    /\ job = [r \in Runs |-> NoJob]
    /\ latest = 0
    /\ durable = {}

-----------------------------------------------------------------------------
(* A run.                                                                  *)

\* The archive is read and the image built in memory.  pcf-compact refuses an
\* output that exists, unless forced.
Start(r, tool, target, pid) ==
    /\ pc[r] = "idle"
    /\ \A s \in Runs : Live(s) => job[s].pid # pid
    /\ \E force \in BOOLEAN :
        pc' = [pc EXCEPT ![r] =
                IF tool = "pcf-compact" /\ target = Out /\ Out \in DOMAIN dir /\ ~force
                THEN "error" ELSE "create"]
    /\ job' = [job EXCEPT ![r] = [NoJob EXCEPT !.tool = tool, !.target = target, !.pid = pid,
                                               !.image = data[dir[Archive]]]]
    /\ UNCHANGED <<dir, pending, data, synced, latest, durable>>

\* The names under which this run may create its temporary file.
TempsOf(r) == {n \in TempNames : n[1] = job[r].tool /\ n[2] = job[r].target /\ n[3] = job[r].pid}

\* A file of this name is made, or the one that is there is emptied.
Created(r, n) ==
    LET i == IF n \in DOMAIN dir THEN dir[n] ELSE r IN
    /\ Relink(Linked(dir, n, i))
    /\ data' = [data EXCEPT ![i] = Torn]
    /\ synced' = synced \ {i}
    /\ job' = [job EXCEPT ![r].tmp = n, ![r].fd = i]
    /\ pc' = [pc EXCEPT ![r] = "write"]
    /\ UNCHANGED <<latest, durable>>

\* Mutant: a name that is taken is waited for.
Create_Waits(r) ==
    /\ pc[r] = "create"
    /\ \E n \in TempsOf(r) :
        /\ job[r].tool = "pcf-compact" => n \notin DOMAIN dir
        /\ Created(r, n)
\* create_new of pcf-compact fails on a name that is taken, before there is
\* anything to clean up; create and truncate of `pfs compact` takes it over.
Create(r) ==
    /\ pc[r] = "create"
    /\ \E n \in TempsOf(r) :
        IF job[r].tool = "pcf-compact" /\ n \in DOMAIN dir
        THEN /\ pc' = [pc EXCEPT ![r] = "error"]
             /\ UNCHANGED <<dir, pending, data, synced, job, latest, durable>>
        ELSE Created(r, n)

\* write_all, complete; until then the file is torn.
Write(r) ==
    /\ pc[r] = "write"
    /\ data' = [data EXCEPT ![job[r].fd] = job[r].image]
    /\ pc' = [pc EXCEPT ![r] = "sync"]
    /\ UNCHANGED <<dir, pending, synced, job, latest, durable>>

\* Mutant: the file is renamed without an fsync.
Sync_Skipped(r) ==
    /\ pc[r] = "sync"
    /\ pc' = [pc EXCEPT ![r] = "rename"]
    /\ UNCHANGED <<dir, pending, data, synced, job, latest, durable>>
\* sync_all.
Sync(r) ==
    /\ pc[r] = "sync"
    /\ synced' = synced \cup {job[r].fd}
    /\ pc' = [pc EXCEPT ![r] = "rename"]
    /\ UNCHANGED <<dir, pending, data, job, latest, durable>>

Rename(r) ==
    /\ pc[r] = "rename"
    /\ job[r].tmp \in DOMAIN dir
    /\ Relink(Linked(Unlinked(dir, job[r].tmp), job[r].target, dir[job[r].tmp]))
    /\ pc' = [pc EXCEPT ![r] = IF job[r].tool = "pcf-compact" THEN "dirsync" ELSE "ok"]
    /\ job' = [job EXCEPT ![r].old =
                IF job[r].target \in DOMAIN dir THEN dir[job[r].target] ELSE r]
    /\ UNCHANGED <<data, synced, latest, durable>>

\* Mutant: the file is fsynced again instead of the directory.
DirSync_File(r) ==
    /\ pc[r] = "dirsync"
    /\ synced' = synced \cup {job[r].fd}
    /\ durable' = durable \cup {r}
    /\ pc' = [pc EXCEPT ![r] = "ok"]
    /\ UNCHANGED <<dir, pending, data, job, latest>>
\* The fsync of the directory in pcf-compact; a failure is not reported.
DirSync(r) ==
    /\ pc[r] = "dirsync"
    /\ \/ pending' = {dir} /\ durable' = durable \cup {r}
       \/ UNCHANGED <<pending, durable>>
    /\ pc' = [pc EXCEPT ![r] = "ok"]
    /\ UNCHANGED <<dir, data, synced, job, latest>>

\* Mutant: only a rename that fails is cleaned up after.
CleansUp_OnRename(r) == pc[r] = "rename"
\* The calls after whose failure the temporary file is removed: any of them in
\* pcf-compact (TempGuard), the rename in `pfs compact`.
CleansUp(r) ==
    IF job[r].tool = "pcf-compact" THEN pc[r] \in {"write", "sync", "rename"}
    ELSE pc[r] = "rename"

\* A call returns an error: the image is refused, the file cannot be created,
\* written, fsynced, or renamed (onto another device, say).
Fail(r) ==
    /\ pc[r] \in {"create", "write", "sync", "rename"}
    /\ IF CleansUp(r) THEN Relink(Unlinked(dir, job[r].tmp)) ELSE UNCHANGED <<dir, pending>>
    /\ pc' = [pc EXCEPT ![r] = "error"]
    /\ UNCHANGED <<data, synced, job, latest, durable>>

Step(r) ==
    Create(r) \/ Write(r) \/ Sync(r) \/ Rename(r) \/ DirSync(r)

-----------------------------------------------------------------------------
(* The environment.                                                        *)

\* The process dies: nothing is cleaned up.
Kill(r) ==
    /\ Live(r)
    /\ pc' = [pc EXCEPT ![r] = "dead"]
    /\ UNCHANGED <<dir, pending, data, synced, job, latest, durable>>

\* Power fails: one of the directories that may be on the disk is, data that was
\* not fsynced may be torn, and nothing runs any more.
PowerLoss ==
    /\ dir' \in pending
    /\ pending' = {dir'}
    /\ \E lost \in SUBSET (Inodes \ synced) :
            data' = [i \in Inodes |-> IF i \in lost THEN Torn ELSE data[i]]
    /\ synced' = Inodes
    /\ pc' = [r \in Runs |-> IF pc[r] = "idle" THEN "idle" ELSE "dead"]
    /\ latest' = data'[dir'[Archive]]
    /\ UNCHANGED <<job, durable>>

\* Another program commits to the archive, in place, and makes it durable.
Edit ==
    /\ \A r \in Runs : ~Live(r)
    /\ latest < MaxVersion
    /\ data' = [data EXCEPT ![dir[Archive]] = latest + 1]
    /\ latest' = latest + 1
    /\ UNCHANGED <<dir, pending, synced, pc, job, durable>>

Environment ==
    \/ \E r \in Runs :
        \/ \E tool \in Tools, target \in Targets, pid \in Pids : Start(r, tool, target, pid)
        \/ Fail(r)
        \/ Kill(r)
    \/ PowerLoss
    \/ Edit

Next == Environment \/ \E r \in Runs : Step(r)

Safety == FInit /\ [][Next]_fvars

\* A process that has not died goes on, and its calls return.  Nobody has to start
\* a run or to edit, and no call has to fail.
Spec == Safety /\ \A r \in Runs : WF_fvars(Step(r))

-----------------------------------------------------------------------------
(* Properties.                                                             *)

\* At every moment, also after deaths and power failures, both names are bound to
\* whole files if at all, and the archive holds every edit programs have seen in
\* it: "a crash leaves either the original or the fully written replacement"
\* (PFS-MS compact.rs, atomic_write in pcf-compact).  After a power failure that
\* undoes a rename the original is what they see.
TargetsWhole ==
    /\ Archive \in DOMAIN dir
    /\ data[dir[Archive]] = latest
    /\ \A n \in Targets \cap DOMAIN dir : data[dir[n]] # Torn

\* Once a pcf-compact has fsynced the directory no power failure brings back the
\* file it replaced ("the new file is fully durable"), and with it the loss of
\* every edit made since.
DurableOnceReported ==
    \A r \in durable : \A d \in pending :
        /\ job[r].target \in DOMAIN d
        /\ job[r].old # r => d[job[r].target] # job[r].old

\* Only a pcf-compact that is under way or was killed has a temporary file, and
\* only its own: one that reports an error has removed it, another one's it
\* neither removes nor takes over.
CleanedUp ==
    \A n \in TempNames \cap DOMAIN dir : n[1] = "pcf-compact" =>
        /\ dir[n] \in Runs
        /\ job[dir[n]].tmp = n
        /\ pc[dir[n]] \in {"write", "sync", "rename", "dead"}

\* Every run that is started ends: with success, with an error, or by its death,
\* whatever files dead runs have left under the names it needs.
EveryRunEnds == \A r \in Runs : Live(r) ~> ~Live(r)
=============================================================================
