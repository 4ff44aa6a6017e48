------------------------------ MODULE DcpStore ------------------------------
(***************************************************************************)
(* What a PCF file with DCP containers is to its user: partitions, each in *)
(* one place (the top level or a container) with its content and the       *)
(* algorithm that protects it.  No extents, no pool, no sharing; DcpWriter *)
(* is shown to implement this module.                                      *)
(***************************************************************************)
EXTENDS Integers, Sequences

CONSTANTS Uid,         \* the uids of ordinary partitions
          Containers,  \* the containers
          Algo,        \* hash algorithms
          Contents,    \* what is written ...
          Insertions   \* ... and what is put in later

VARIABLES parts,       \* uid -> where it is, its algorithm and its content
          call         \* the last operation

Top == "top"

Init == parts = [u \in {} |-> Top] /\ call = [op |-> "new"]

Put(u, p) == parts' = [v \in DOMAIN parts \cup {u} |-> IF v = u THEN p ELSE parts[v]]

Add(u, place, a, c) ==
    /\ call' = [op |-> "add", uid |-> u, at |-> place, content |-> c]
    /\ u \notin DOMAIN parts
    /\ Put(u, [at |-> place, algo |-> a, content |-> c])

\* An edit replaces len bytes from pos on and touches no other partition, with
\* however many it shared its bytes.
Edit(u, pos, len, bytes) ==
    /\ call' = [op |-> "edit", uid |-> u, pos |-> pos, len |-> len, bytes |-> bytes]
    /\ u \in DOMAIN parts /\ parts[u].at # Top
    /\ pos + len <= Len(parts[u].content)
    /\ Put(u, [parts[u] EXCEPT !.content =
                SubSeq(@, 1, pos) \o bytes \o SubSeq(@, pos + len + 1, Len(@))])

Remove(u) ==
    /\ call' = [op |-> "remove", uid |-> u]
    /\ u \in DOMAIN parts /\ parts[u].at # Top
    /\ parts' = [v \in DOMAIN parts \ {u} |-> parts[v]]

\* Promotion and demotion move a partition and keep the rest of it.
Move(u, from, to) ==
    /\ call' = [op |-> "move", uid |-> u, to |-> to]
    /\ u \in DOMAIN parts /\ parts[u].at = from
    /\ Put(u, [parts[u] EXCEPT !.at = to])

\* A new container, deduplication, compaction, and writing the file and reading it
\* again.
Maintain ==
    /\ \/ call' \in [op : {"container", "dedup", "compact"}, on : Containers]
       \/ call' = [op |-> "reopen"]
    /\ UNCHANGED parts

Next ==
    \/ \E u \in Uid, place \in Containers \cup {Top}, a \in Algo, c \in Contents :
            Add(u, place, a, c)
    \/ \E u \in DOMAIN parts : \E pos, len \in 0..Len(parts[u].content) :
            \E bytes \in Insertions : Edit(u, pos, len, bytes)
    \/ \E u \in Uid : Remove(u)
    \/ \E u \in Uid, c \in Containers : Move(u, c, Top) \/ Move(u, Top, c)
    \/ Maintain

Spec == Init /\ [][Next]_<<parts, call>>
=============================================================================
