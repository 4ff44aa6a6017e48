------------------------------ MODULE MCPcfSig ------------------------------
(***************************************************************************)
(* PcfSigHistory for TLC: uids that any partition may take, two signers.   *)
(***************************************************************************)
EXTENDS PcfSigHistory, TLC

CONSTANT MaxCalls      \* bound: calls and damages

Symmetric == Permutations(Uid) \cup Permutations(Key) \cup Permutations(Contents)

VARIABLE calls         \* calls and damages so far

mcvars == <<hvars, calls>>

MCInit == HInit /\ calls = 0
MCNext == calls < MaxCalls /\ calls' = calls + 1 /\ HNext
MCSpec == MCInit /\ [][MCNext]_mcvars
=============================================================================
