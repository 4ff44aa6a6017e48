------------------------------ MODULE PcfCrash ------------------------------
(***************************************************************************)
(* The process dies in the middle of a container operation.  An operation  *)
(* of PcfContainer is a list of writes, each of one record; a crash leaves *)
(* a proper prefix of the list on the storage, the handle is gone, and the *)
(* next program finds what was written.  The container has no journal and  *)
(* makes no promise of atomicity: what is stated here is what its order of *)
(* writes and its hashes are good for.                                     *)
(*                                                                         *)
(* The data region, a block header and an entry are each written whole, in *)
(* the order of the code; a sector torn in the middle of a record, and a   *)
(* cache that reorders the writes, are not modelled.                       *)
(***************************************************************************)
EXTENDS PcfContainer, PcfInspect, TLC

CONSTANTS d1, d2    \* the values a data byte takes

VARIABLES
    before,        \* the file when the operation that crashed began
    target,        \* the file it would have left
    victim,        \* the UID it was working on
    crashed

ghosts == <<before, target, victim, crashed>>

CrashContents == {<<[t |-> "byte", v |-> d1]>>, <<[t |-> "byte", v |-> d2]>>}
CrashSymmetry == Permutations(Uid) \cup Permutations({d1, d2})

CrashInit ==
    /\ Init
    /\ before = <<>> /\ target = <<>> /\ victim = Nil /\ crashed = FALSE

\* The operation with this plan stops after k of its writes.
CrashDuring(u, p) ==
    \E k \in 0..(Len(p.writes) - 1) :
        /\ file' = Apply(file, SubSeq(p.writes, 1, k))
        /\ before' = file
        /\ target' = Apply(file, p.writes)
        /\ victim' = u
        /\ crashed' = TRUE
        /\ Forget

Crash ==
    \/ \E u \in Uid : \E p \in EditPlans(u) : CrashDuring(u, p)
    \/ open /\ Materialised /\ CrashDuring(Nil, FinalizePlan)

\* The model stops at the crash: what a later program would do with the file is
\* decided by what it finds in it.
CrashNext ==
    /\ ~crashed
    /\ \/ SafeNext /\ UNCHANGED ghosts
       \/ ~finalized /\ Crash

CrashSpec == CrashInit /\ [][CrashNext]_<<vars, ghosts>>

-----------------------------------------------------------------------------
(* Properties.                                                             *)

\* The live partitions of a file and their contents.
ContentsOf(f) ==
    LET es == Entries(f, ResolveHead(f)) IN
    {<<es[i].uid, ReadData(f, es[i])>> : i \in DOMAIN es}

\* A half-done operation never passes for a whole one: a file that verifies
\* after the crash holds the contents from before the operation or the contents
\* it was to have.  (Table and data hashes are Sha256 in this instance; with the
\* algorithm "None" there is nothing to notice it by.)
CrashDetected ==
    crashed /\ Verify(file, ResolveHead(file)) =>
        ContentsOf(file) \in {ContentsOf(before), ContentsOf(target)}

\* Adding a partition in a new overflow block takes effect in one write, the
\* header of the old tail: whenever the crash comes, the file still verifies.
OverflowIsAtomic ==
    crashed /\ Len(Chain(target, ResolveHead(target)))
                    > Len(Chain(before, ResolveHead(before)))
        => Verify(file, ResolveHead(file))

\* The inspector, which reads on where a reader gives up, complains of a torn file
\* exactly when Container::open or verify rejects it.
InspectorNotices ==
    crashed => (Clean(file) <=>
                HeaderReadable(file) /\ Verify(file, ResolveHead(file)))

\* The damage is confined: the data of every other partition is still in its
\* place, and so are the entries of every block the operation did not rewrite.
CrashConfined ==
    crashed =>
        LET chain == Chain(before, ResolveHead(before)) IN
        \A n \in DOMAIN chain :
            LET es == EntriesAt(before, chain[n]) IN
            /\ \A i \in DOMAIN es : es[i].uid # victim =>
                    ReadData(file, es[i]) = ReadData(before, es[i])
            /\ es = EntriesAt(target, chain[n]) =>
                    /\ BlockReadable(file, chain[n])
                    /\ EntriesAt(file, chain[n]) = es
=============================================================================
