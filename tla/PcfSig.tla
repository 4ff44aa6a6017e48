------------------------------- MODULE PcfSig -------------------------------
(***************************************************************************)
(* PCF-SIG: the partitions of a container, some of them keys and           *)
(* signatures, signing (sign.rs) and verification with the contents        *)
(* recomputed (verify_all_with_recheck of verify.rs).                      *)
(*                                                                         *)
(* The container is a map from uids to partitions, which is what           *)
(* PcfContainer implements; where a partition is in the file is not part   *)
(* of it.  Hashes and signatures are symbolic: what was hashed, and who    *)
(* signed what.  Labels, times, lengths and the unimplemented algorithms   *)
(* are left out.                                                           *)
(***************************************************************************)
EXTENDS Integers

CONSTANTS
    Uid,           \* the uids of partitions, of any type
    Contents,      \* the contents of ordinary partitions
    Key,           \* key pairs
    Crypto,        \* hash algorithms that is_crypto_hash accepts ...
    Weak           \* ... and others

VARIABLES
    parts,         \* uid -> partition
    call           \* the last call and its outcome (not in the code)

vars == <<parts, call>>

\* Bytes that parse as no key and no signature.
Garbage == [parses |-> FALSE]

\* compute, injective.
Hash(algo, data) == <<algo, data>>

Partition(type, algo, data) ==
    [type |-> type, algo |-> algo, data |-> data, hash |-> Hash(algo, data)]

\* KeyRecord: the fingerprint is the key's, and from_bytes recomputes it.
KeyRecord(k) == [key |-> k]

\* SignedEntry, the protected fields of a partition; Manifest; SignaturePartition.
SignedEntry(p) == [type |-> p.type, algo |-> p.algo, hash |-> p.hash]
Manifest(signer, entries) == [signer |-> signer, entries |-> entries]
Signature(k, manifest) == [manifest |-> manifest, signature |-> <<k, manifest>>]

Init ==
    /\ parts = [u \in {} |-> Garbage]
    /\ call = [op |-> "new"]

With(ps, u, p) == [v \in DOMAIN ps \cup {u} |-> IF v = u THEN p ELSE ps[v]]

-----------------------------------------------------------------------------
(* The container's own operations, and damage.                             *)

AddPartition(u, algo, c) ==
    /\ u \notin DOMAIN parts
    /\ parts' = With(parts, u, Partition("raw", algo, c))
    /\ call' = [op |-> "add", uid |-> u]

\* update_partition_data keeps type and algorithm.
UpdatePartition(u, c) ==
    /\ u \in DOMAIN parts /\ parts[u].type = "raw"
    /\ parts' = [parts EXCEPT ![u] = Partition(@.type, @.algo, c)]
    /\ call' = [op |-> "update", uid |-> u]

RemovePartition(u) ==
    /\ u \in DOMAIN parts
    /\ parts' = [v \in DOMAIN parts \ {u} |-> parts[v]]
    /\ call' = [op |-> "remove", uid |-> u]

\* Bytes of a partition change, nothing is recomputed.  In a signature: it parses
\* no more, or its manifest claims another hash, or another signer.
Altered(d) ==
    {[d EXCEPT !.manifest.entries[u].hash = Hash(d.manifest.entries[u].algo, c)] :
        u \in DOMAIN d.manifest.entries, c \in Contents}
    \cup {[d EXCEPT !.manifest.signer = k] : k \in Key}
Damaged(p) ==
    {Garbage} \cup
    (IF p.type = "raw" THEN Contents
     ELSE IF p.type = "sig" /\ p.data # Garbage THEN Altered(p.data) ELSE {})

Damage(u, d) ==
    /\ u \in DOMAIN parts /\ d # parts[u].data
    /\ parts' = [parts EXCEPT ![u].data = d]
    /\ call' = [op |-> "damage", uid |-> u]

-----------------------------------------------------------------------------
(* Signing.                                                                *)

\* The key partitions that parse and have the fingerprint of k.
KeysOf(ps, k) == {u \in DOMAIN ps : ps[u].type = "key" /\ ps[u].data = KeyRecord(k)}

\* Mutant: any key partition will do.
KeyEnsured_Any(ps, k, uid) ==
    IF \E j \in Key : KeysOf(ps, j) # {} THEN ps
    ELSE With(ps, uid, Partition("key", "sha256", KeyRecord(k)))
\* ensure_key_partition; uid is used only if there is none yet.
KeyEnsured(ps, k, uid) ==
    IF KeysOf(ps, k) # {} THEN ps ELSE With(ps, uid, Partition("key", "sha256", KeyRecord(k)))
EnsureFails(ps, k, uid) == KeysOf(ps, k) = {} /\ uid \in DOMAIN ps

SignableIn(ps, u) == u \in DOMAIN ps /\ ps[u].algo \in Crypto

\* sign_partitions.  The key is in the file before the targets are looked up, so
\* that it may be one of them, and it stays when the rest is refused.  Whether the
\* caller meant all the file holds is only for the record of the call.
SignPartitions(k, targets, sigUid, keyUid, all) ==
    LET ps == KeyEnsured(parts, k, keyUid)
        ok == /\ \A u \in targets : SignableIn(ps, u)
              /\ sigUid \notin DOMAIN ps
        manifest == Manifest(k, [u \in targets |-> SignedEntry(ps[u])])
    IN  /\ targets # {} /\ sigUid \notin targets
        /\ ~EnsureFails(parts, k, keyUid)
        /\ parts' = IF ok
                    THEN With(ps, sigUid, Partition("sig", "sha256", Signature(k, manifest)))
                    ELSE ps
        /\ call' = [op |-> "sign", key |-> k, targets |-> targets, uid |-> sigUid, ok |-> ok,
                    all |-> all]

-----------------------------------------------------------------------------
(* Verification.                                                           *)

\* verify_one: the verdict on a signature partition ...
ManifestVerdict(s) ==
    LET d == parts[s].data IN
    IF d = Garbage THEN "malformed"
    ELSE IF s \in DOMAIN d.manifest.entries THEN "invalid"
    ELSE IF KeysOf(parts, d.manifest.signer) = {} THEN "no key"
    ELSE IF d.signature # <<d.manifest.signer, d.manifest>> THEN "invalid"
    ELSE "valid"

\* Mutant: the data hash is not among the protected fields.
Protected_NoHash(p, e) == p.type = e.type /\ p.algo = e.algo
Protected(p, e) == SignedEntry(p) = e

\* ... and on one of its entries, as verify_all alone gives it ...
EntryVerdict(u, e) ==
    IF u \notin DOMAIN parts THEN "missing"
    ELSE IF e.algo \notin Crypto THEN "weak"
    ELSE IF ~Protected(parts[u], e) THEN "mismatch"
    ELSE "valid"

\* ... and with the contents recomputed.
Rechecked(u, e) ==
    IF EntryVerdict(u, e) = "valid" /\ Hash(parts[u].algo, parts[u].data) # parts[u].hash
    THEN "recomputed" ELSE EntryVerdict(u, e)

Signatures == {u \in DOMAIN parts : parts[u].type = "sig"}

\* The entries of a report; a signature that is not valid has none.
Entries(s) ==
    IF ManifestVerdict(s) = "valid" THEN parts[s].data.manifest.entries ELSE [u \in {} |-> "none"]

\* verify_all_with_recheck accepts the entry of s for u.
Accepts(s, u) == u \in DOMAIN Entries(s) /\ Rechecked(u, Entries(s)[u]) = "valid"
=============================================================================
