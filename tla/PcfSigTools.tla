---------------------------- MODULE PcfSigTools -----------------------------
(***************************************************************************)
(* The two programs that sign files: `pcf-sig sign` (sign_file), which     *)
(* adds its signature to a plain PCF file, and `pfs sign` (sign_archive),  *)
(* which reads a PFS-MS archive, drops it, opens it again and commits the  *)
(* key and the signature as one session.  What others do to the archive    *)
(* comes between the two.                                                  *)
(*                                                                         *)
(* In an archive "raw" stands for contents and node records; the session   *)
(* records are left out, nobody signs them.  A commit is atomic (PfsCommit *)
(* is about that), and a signer has one `pfs sign` under way.              *)
(***************************************************************************)
EXTENDS PcfSig

VARIABLES
    kind,          \* "pcf" or "pfs": whether the file has session records
    plan           \* signer -> what its `pfs sign` read and is about to commit

tvars == <<vars, kind, plan>>

ToolsInit == Init /\ kind \in {"pcf", "pfs"} /\ plan = [k \in {} |-> Garbage]

\* The partitions that a valid signature of k covers, contents not recomputed.
Covered(k) ==
    {u \in DOMAIN parts : \E s \in Signatures :
        /\ ManifestVerdict(s) = "valid" /\ parts[s].data.manifest.signer = k
        /\ u \in DOMAIN Entries(s) /\ EntryVerdict(u, Entries(s)[u]) = "valid"}

\* Mutant: keys and signatures are signed as well.
Signable_Any == {u \in DOMAIN parts : parts[u].algo \in Crypto}
\* What is signed when no uid is given: pcf-sig passes over the weakly hashed
\* partitions, `pfs sign` fails on the first.
Signable == {u \in DOMAIN parts : parts[u].type = "raw" /\ (kind = "pcf" => parts[u].algo \in Crypto)}

Uncovered(k, targets, resign) == IF resign THEN targets ELSE targets \ Covered(k)

NothingToSign(k, all) ==
    /\ parts' = parts
    /\ call' = [op |-> "sign", key |-> k, targets |-> {}, uid |-> "none", ok |-> TRUE, all |-> all]

-----------------------------------------------------------------------------
(* pcf-sig.                                                                *)

\* The targets are the given uids, which must exist, or all that can be signed;
\* the new uids are fresh.
SignFile(k, given, resign, sigUid, keyUid) ==
    /\ kind = "pcf"
    /\ given \subseteq DOMAIN parts /\ {sigUid, keyUid} \cap DOMAIN parts = {} /\ sigUid # keyUid
    /\ LET all == given = {}
           targets == Uncovered(k, IF all THEN Signable ELSE given, resign)
       IN  IF targets = {} THEN NothingToSign(k, all)
           ELSE SignPartitions(k, targets, sigUid, keyUid, all)
    /\ UNCHANGED <<kind, plan>>

\* verify_file --key k: every signature is valid, all its entries are accepted, and
\* one of them is by k.
VerifyFile(k) ==
    /\ \A s \in Signatures :
        /\ ManifestVerdict(s) = "valid"
        /\ \A u \in DOMAIN Entries(s) : Accepts(s, u)
    /\ \E s \in Signatures : parts[s].data.manifest.signer = k

-----------------------------------------------------------------------------
(* pfs sign.                                                               *)

\* First the archive is read; a weakly hashed target is an error.
SignRead(k, resign) ==
    /\ kind = "pfs" /\ k \notin DOMAIN plan
    /\ LET targets == Uncovered(k, Signable, resign) IN
       IF targets = {} THEN NothingToSign(k, TRUE) /\ plan' = plan
       ELSE /\ plan' = IF \E u \in targets : parts[u].algo \notin Crypto THEN plan
                       ELSE With(plan, k, [entries |-> [u \in targets |-> SignedEntry(parts[u])],
                                           keyPresent |-> KeysOf(parts, k) # {}])
            /\ call' = [op |-> "read", key |-> k]
            /\ UNCHANGED parts
    /\ UNCHANGED kind

\* Then it is opened again, and the signature committed with the key it lacked.
SignCommit(k, sigUid, keyUid) ==
    /\ k \in DOMAIN plan
    /\ {sigUid, keyUid} \cap DOMAIN parts = {} /\ sigUid # keyUid
    /\ {sigUid, keyUid} \cap DOMAIN plan[k].entries = {}
    /\ LET ps == IF plan[k].keyPresent THEN parts
                 ELSE With(parts, keyUid, Partition("key", "sha256", KeyRecord(k)))
           sig == Signature(k, Manifest(k, plan[k].entries))
       IN  parts' = With(ps, sigUid, Partition("sig", "sha256", sig))
    /\ plan' = [j \in DOMAIN plan \ {k} |-> plan[j]]
    /\ call' = [op |-> "commit", key |-> k, targets |-> DOMAIN plan[k].entries, uid |-> sigUid]
    /\ UNCHANGED kind

\* `pfs compact` verifies the archive, writes its contents again, under fresh uids,
\* and leaves keys and signatures behind.
CompactArchive(fresh) ==
    /\ kind = "pfs"
    /\ \A u \in DOMAIN parts : Hash(parts[u].algo, parts[u].data) = parts[u].hash
    /\ DOMAIN fresh = {u \in DOMAIN parts : parts[u].type = "raw"}
    /\ \A u, v \in DOMAIN fresh : fresh[u] \notin DOMAIN parts /\ (fresh[u] = fresh[v] => u = v)
    /\ parts' = [v \in {fresh[u] : u \in DOMAIN fresh} |->
                    parts[CHOOSE u \in DOMAIN fresh : fresh[u] = v]]
    /\ call' = [op |-> "compact"]
    /\ UNCHANGED <<kind, plan>>

-----------------------------------------------------------------------------
\* An archive is only added to; `pcf-sig sign` refuses it.
ToolsNext ==
    \/ \E u \in Uid :
        \/ /\ \/ \E algo \in Crypto \cup Weak, c \in Contents : AddPartition(u, algo, c)
              \/ kind = "pcf" /\ \E c \in Contents : UpdatePartition(u, c)
              \/ kind = "pcf" /\ RemovePartition(u)
              \/ u \in DOMAIN parts /\ \E d \in Damaged(parts[u]) : Damage(u, d)
           /\ UNCHANGED <<kind, plan>>
    \/ \E k \in Key, sigUid, keyUid \in Uid :
        \/ /\ kind = "pcf"
           /\ \E targets \in SUBSET Uid : SignPartitions(k, targets, sigUid, keyUid, FALSE)
           /\ UNCHANGED <<kind, plan>>
        \/ \E given \in SUBSET DOMAIN parts, resign \in BOOLEAN :
                SignFile(k, given, resign, sigUid, keyUid)
        \/ SignCommit(k, sigUid, keyUid)
    \/ \E k \in Key, resign \in BOOLEAN : SignRead(k, resign)
    \/ \E D \in SUBSET Uid : \E fresh \in [D -> Uid] : CompactArchive(fresh)
=============================================================================
