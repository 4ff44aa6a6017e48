------------------------------- MODULE PfsLog -------------------------------
(***************************************************************************)
(* What the multi-session profile does with a file, with no file in sight: *)
(* a log of sessions to which one commit appends one session, and that a   *)
(* crash, a failed write or a new process leaves alone.  A commit whose    *)
(* last flush fails has appended its session all the same, and its writer, *)
(* which was told of an error, goes on from the log without it.            *)
(***************************************************************************)
EXTENDS Naturals, Sequences, SequencesExt

CONSTANT Session      \* what a session may contain

VARIABLES
    log,              \* the published sessions, oldest first
    behind            \* whether there is a writer that does not know the last of them

Init == log = <<>> /\ behind = FALSE

\* The sessions the writer goes on from.
Known == IF behind THEN Front(log) ELSE log

\* FsWriter::commit.
Commit(s) == log' = Append(Known, s) /\ behind' = FALSE

\* FsWriter::commit, published and reported as an error.
CommitUnnoticed(s) == log' = Append(Known, s) /\ behind' = TRUE

\* The writer is dropped, or dies.
Drop == behind' = FALSE /\ UNCHANGED log

Next == (\E s \in Session : Commit(s) \/ CommitUnnoticed(s)) \/ Drop

Spec == Init /\ [][Next]_<<log, behind>>
=============================================================================
