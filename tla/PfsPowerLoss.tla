---------------------------- MODULE PfsPowerLoss ----------------------------
(***************************************************************************)
(* Power fails while an FsWriter is open on a std::fs::File.  Steps S5 and *)
(* S7 of commit call Write::flush, which for a File does nothing, so the   *)
(* operating system may have written back any of the cells appended since  *)
(* the file was opened and not the others, in any order; a cell that did   *)
(* not reach the disk reads as zero, or lies beyond the end of the file.   *)
(* In favour of the code, what earlier programs wrote is taken to be on    *)
(* the disk by the time a new one opens the file.                          *)
(***************************************************************************)
EXTENDS MCPfsCommit

VARIABLES
    durable,       \* the first cells of the file that are on the disk for certain
    settled        \* the sessions that were in the file at that time

plvars == <<mcvars, durable, settled>>

PowerInit == MCInit /\ durable = Len(file) /\ settled = log

\* commit's flush, on a File: nothing more is durable than before.
Flushed == durable' = durable /\ settled' = settled

Step ==
    /\ Next /\ Observe
    /\ IF ~open /\ open' THEN durable' = Len(file) /\ settled' = log ELSE Flushed

PowerLoss ==
    /\ open
    /\ Forget
    /\ \E len \in durable..Len(file) : \E lost \in SUBSET ((durable + 1)..len) :
            file' = [i \in 1..len |-> IF i \in lost THEN Zero ELSE file[i]]
    /\ \E f \in {file'} : log' = Log(f)
    /\ UNCHANGED <<faults, durable, settled>>

PowerSpec == PowerInit /\ [][Step \/ PowerLoss]_plvars

\* Whatever happens to a commit, the sessions that were there before the writer
\* opened the file can still be read.
SettledSurvive == IsPrefix(settled, log)
=============================================================================
