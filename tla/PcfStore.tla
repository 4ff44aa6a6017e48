------------------------------ MODULE PcfStore ------------------------------
(***************************************************************************)
(* What a PCF container promises to the application that uses it: a map    *)
(* from partition UIDs to their contents.  Adding, replacing and removing  *)
(* a partition change that one partition and nothing else; closing and     *)
(* re-opening the file, publishing its head through a trailer and          *)
(* compacting it change nothing at all.  No offset, reservation, block or  *)
(* hash appears here; PcfContainer, which has them all, is shown to        *)
(* implement this module.                                                  *)
(***************************************************************************)

CONSTANTS Uid,      \* the UIDs the application may use (the NIL UID is not one)
          Contents  \* the byte strings it may store

VARIABLE parts      \* the live partitions: a function from a set of UIDs

Init == parts = [u \in {} |-> <<>>]

\* Container::add_partition: the UID must be free.
Add(u, d) ==
    /\ u \notin DOMAIN parts
    /\ parts' = [v \in DOMAIN parts \cup {u} |-> IF v = u THEN d ELSE parts[v]]

\* Container::update_partition_data: the other partitions keep their contents.
Update(u, d) ==
    /\ u \in DOMAIN parts
    /\ parts' = [parts EXCEPT ![u] = d]

\* Container::remove_partition.
Remove(u) ==
    /\ u \in DOMAIN parts
    /\ parts' = [v \in DOMAIN parts \ {u} |-> parts[v]]

\* Container::finalize_with_trailer, compact_into, open and the end of a handle.
Maintain == UNCHANGED parts

Next ==
    \/ \E u \in Uid : \/ \E d \in Contents : Add(u, d) \/ Update(u, d)
                      \/ Remove(u)
    \/ Maintain

Spec == Init /\ [][Next]_parts
=============================================================================
