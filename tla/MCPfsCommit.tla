---------------------------- MODULE MCPfsCommit -----------------------------
(***************************************************************************)
(* PfsCommit for TLC: two entries to a block, so that a session of two     *)
(* partitions has a MEMBER block and one of four has two.                  *)
(***************************************************************************)
EXTENDS PfsCommit

CONSTANTS byte, node1, node2       \* a content and two nodes

ContentPart(x) == [type |-> Raw, data |-> <<[t |-> "byte", v |-> x]>>]
Empty == [type |-> Raw, data |-> <<>>]
NodePart(n) == [type |-> NodeType, data |-> <<NodeCell(n)>>]

\* No partition, one, two with an empty content, and four.
MCSessions == {
    <<>>,
    <<NodePart(node1)>>,
    <<Empty, NodePart(node1)>>,
    <<ContentPart(byte), NodePart(node1), Empty, NodePart(node2)>> }

\* One session at a time, of a single node.
SmallSessions == { <<NodePart(node1)>> }

\* The content is itself a PCF file, or holds its last bytes: those of a trailer
\* of an empty table.
NestedSessions == { <<[type |-> Raw, data |-> <<TrailerCell(0)>>], NodePart(node1)>> }

-----------------------------------------------------------------------------
CONSTANT MaxFaults     \* bound: commits cut short by an error or a crash

VARIABLES
    log,           \* Log(file), computed once in every state
    faults         \* commits that failed, or died leaving something behind

mcvars == <<vars, log, faults>>

MCInit == Init /\ log = Log(file) /\ faults = 0

\* A commit that failed leaves its handle where it was, one that died a changed
\* file and no handle.
CutShort == open /\ (IF open' THEN head_offset' = head_offset ELSE file' # file)

\* The file of the next state is evaluated before it is read.
Observe ==
    \E f \in {file'} :
        /\ faults' = IF CutShort THEN faults + 1 ELSE faults
        /\ faults' <= MaxFaults
        /\ log' = Log(f)

MCSpec == MCInit /\ [][Next /\ Observe]_mcvars

Behind == open /\ head_offset # Newest

Abstract == INSTANCE PfsLog WITH Session <- Sessions, behind <- Behind

Untouched == log' = log /\ (Behind' <=> Behind)

\* What each call does to the log.
EachCallItsOwn ==
    /\ \A s \in Sessions :
        /\ Commit(s) => Abstract!Commit(s)
        /\ LastFlushFails(s) => Abstract!CommitUnnoticed(s)
        /\ CommitFails(s) => Untouched
        /\ CommitCrashes(s) => Abstract!Drop
    /\ Close => Abstract!Drop
    /\ Open => Untouched

\* The file is a log of whole sessions: commit(s) appends s and nothing else, and
\* a crash or a failed write before the trailer, and whatever later commits write
\* after the debris, add nothing and lose nothing (spec 6.3: an aborted append is
\* invisible).  When the flush after the trailer fails, s is in the log and the
\* writer behind it; the next commit of that writer, and nothing else ever, takes
\* the session it does not know out of the log and puts its own in its place.
IsALog == Abstract!Spec /\ [][EachCallItsOwn]_mcvars
=============================================================================
