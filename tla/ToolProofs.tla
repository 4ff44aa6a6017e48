----------------------------- MODULE ToolProofs -----------------------------
(***************************************************************************)
(* What the command line tools promise: the signatures of pcf-sig and `pfs *)
(* sign`, and the replacement of a file by pcf-compact and `pfs compact`.  *)
(* The two have nothing in common but their users; each is proved for      *)
(* itself.                                                                 *)
(***************************************************************************)
EXTENDS PcfSigHistory, FileReplace, TLAPS

-----------------------------------------------------------------------------
(***************************************************************************)
(* Signatures: what an accepted entry means, for any partitions, contents, *)
(* signers and algorithms, and any number of calls and damages.            *)
(*                                                                         *)
(* The inductive invariant says of every partition how what is in the file *)
(* can differ from what was last written: in the data alone, a damaged key *)
(* parses no more, and a damaged signature that parses still has the       *)
(* signature bytes it was made with, so that any other manifest fails.     *)
(***************************************************************************)
Whole(p) == p = Partition(p.type, p.algo, p.data)
Eligible(as) == \A u \in DOMAIN as : Whole(as[u]) /\ as[u].algo \in Crypto
EntriesOf(as) == [u \in DOMAIN as |-> SignedEntry(as[u])]
Made(x) == Signature(x.by, Manifest(x.by, EntriesOf(x.as)))

\* Of the partition u: p is in the file, w was written, x is who signed what if it
\* is a signature.
KeyGood(p, w) ==
    /\ w.data \in {KeyRecord(k) : k \in Key}
    /\ p.data = w.data \/ p.data = Garbage
SigGood(u, p, w, x) ==
    /\ w.data = Made(x) /\ u \notin DOMAIN x.as /\ Eligible(x.as)
    /\ \/ p.data = Garbage
       \/ p.data = [manifest |-> p.data.manifest, signature |-> w.data.signature]
Good(u, p, w, x) ==
    /\ Whole(w)
    /\ p = [w EXCEPT !.data = p.data]
    /\ p.type = "key" => KeyGood(p, w)
    /\ p.type = "sig" => SigGood(u, p, w, x)

PlanGood(k) ==
    /\ Eligible(asRead[k])
    /\ plan[k].entries = EntriesOf(asRead[k])

SigInv ==
    /\ DOMAIN written = DOMAIN parts
    /\ \A u \in DOMAIN parts : Good(u, parts[u], written[u], signed[u])
    /\ \A k \in DOMAIN plan : PlanGood(k)

-----------------------------------------------------------------------------
(* The records.                                                            *)

\* The fields of a partition, and what damage leaves of them.
LEMMA Fields ==
    ASSUME NEW p, NEW w, Whole(w), p = [w EXCEPT !.data = p.data]
    PROVE  /\ p.type = w.type /\ p.algo = w.algo /\ p.hash = w.hash
           /\ w.hash = <<w.algo, w.data>>
           /\ SignedEntry(p) = SignedEntry(w)
           /\ p = w <=> p.data = w.data
<1> DEFINE W == [type |-> w.type, algo |-> w.algo, data |-> w.data, hash |-> <<w.algo, w.data>>]
<1>1. w = W
  BY DEF Whole, Partition, Hash
<1>2. /\ W.type = w.type /\ W.algo = w.algo /\ W.data = w.data /\ W.hash = <<w.algo, w.data>>
  OBVIOUS
<1>3. w.hash = <<w.algo, w.data>>
  BY <1>1, <1>2
<1>4. p = [type |-> w.type, algo |-> w.algo, data |-> p.data, hash |-> <<w.algo, w.data>>]
  BY <1>1
<1>5. /\ p.type = w.type /\ p.algo = w.algo /\ p.hash = <<w.algo, w.data>>
  BY <1>4
<1>6. p = w <=> p.data = w.data
  BY <1>1, <1>4
<1> QED
  BY <1>3, <1>5, <1>6 DEF SignedEntry

\* Bytes that do not parse are no key and no signature.
LEMMA GarbageApart ==
    /\ \A k : Garbage # KeyRecord(k)
    /\ \A m, x : Garbage # [manifest |-> m, signature |-> x]
<1>1. DOMAIN Garbage = {"parses"}
  BY DEF Garbage
<1>2. \A k : DOMAIN KeyRecord(k) = {"key"}
  BY DEF KeyRecord
<1>3. \A m, x : DOMAIN [manifest |-> m, signature |-> x] = {"manifest", "signature"}
  OBVIOUS
<1>4. "parses" # "key" /\ "parses" # "manifest"
  OBVIOUS
<1> QED
  BY <1>1, <1>2, <1>3, <1>4

-----------------------------------------------------------------------------
(* The invariant implies the property.                                     *)

\* A verifier finds a key of this signer exactly when one is whole.
LEMMA KeyFound ==
    ASSUME SigInv, NEW k
    PROVE  KeysOf(parts, k) # {} <=>
            \E u \in DOMAIN parts : parts[u].type = "key" /\ Intact(u)
                                    /\ parts[u].data = KeyRecord(k)
<1>1. ASSUME NEW u \in DOMAIN parts, parts[u].type = "key", parts[u].data = KeyRecord(k)
      PROVE  Intact(u)
  <2>1. Good(u, parts[u], written[u], signed[u])
    BY DEF SigInv
  <2>2. parts[u].data = written[u].data
    BY <1>1, <2>1, GarbageApart DEF Good, KeyGood
  <2> QED
    BY <2>1, <2>2, Fields DEF Good, Intact
<1> QED
  BY <1>1 DEF KeysOf

\* A signature is valid exactly when it is as it was made and its key is there.
LEMMA SignatureValid ==
    ASSUME SigInv, NEW s \in Signatures
    PROVE  /\ ManifestVerdict(s) = "valid"
                <=> Intact(s) /\ KeysOf(parts, signed[s].by) # {}
           /\ Intact(s) => parts[s].data.manifest.entries = EntriesOf(signed[s].as)
<1> DEFINE x == signed[s]
           M == Manifest(x.by, EntriesOf(x.as))
           d == parts[s].data
<1>1. /\ s \in DOMAIN parts /\ parts[s].type = "sig"
      /\ Good(s, parts[s], written[s], x)
  BY DEF SigInv, Signatures
<1>2. SigGood(s, parts[s], written[s], x)
  BY <1>1 DEF Good
<1>3. Intact(s) <=> d = written[s].data
  BY <1>1, Fields DEF Good, Intact
<1>4. written[s].data = [manifest |-> M, signature |-> <<x.by, M>>]
  BY <1>2 DEF SigGood, Made, Signature
<1>5. M.signer = x.by /\ M.entries = EntriesOf(x.as)
  BY DEF Manifest
<1>6. s \notin DOMAIN M.entries
  BY <1>2, <1>5 DEF SigGood, EntriesOf
<1>7. CASE d = Garbage
  <2>1. ~Intact(s)
    BY <1>3, <1>4, <1>7, GarbageApart
  <2>2. ManifestVerdict(s) = "malformed"
    BY <1>7 DEF ManifestVerdict
  <2> QED
    BY <2>1, <2>2
<1>8. CASE d # Garbage
  <2>1. d = [manifest |-> d.manifest, signature |-> <<x.by, M>>]
    BY <1>2, <1>4, <1>8 DEF SigGood
  <2>2. d.signature = <<x.by, M>>
    BY <2>1
  <2>3. Intact(s) <=> d.manifest = M
    <3>1. d.manifest = M => d = written[s].data
      BY <2>1, <1>4
    <3>2. d = written[s].data => d.manifest = M
      BY <1>4
    <3> QED
      BY <3>1, <3>2, <1>3
  <2>4. ASSUME Intact(s), KeysOf(parts, x.by) # {}
        PROVE  ManifestVerdict(s) = "valid"
    BY <2>2, <2>3, <2>4, <1>5, <1>6, <1>8 DEF ManifestVerdict
  <2>5. ASSUME ManifestVerdict(s) = "valid"
        PROVE  Intact(s) /\ KeysOf(parts, x.by) # {}
    <3>1. d.signature = <<d.manifest.signer, d.manifest>> /\ KeysOf(parts, d.manifest.signer) # {}
      BY <2>5, <1>8 DEF ManifestVerdict
    <3>2. d.manifest = M
      BY <3>1, <2>2
    <3> QED
      BY <3>1, <3>2, <2>3, <1>5
  <2> QED
    BY <2>3, <2>4, <2>5, <1>5
<1> QED
  BY <1>7, <1>8

\* The entry for u of a signature that is as it was made.
LEMMA EntryValid ==
    ASSUME SigInv, NEW u, NEW p, Whole(p), p.algo \in Crypto
    PROVE  Rechecked(u, SignedEntry(p)) = "valid" <=> Intact(u) /\ parts[u] = p
<1> DEFINE e == SignedEntry(p)
<1>1. /\ e.type = p.type /\ e.algo = p.algo /\ e.hash = p.hash
      /\ p.hash = <<p.algo, p.data>>
      /\ p = [type |-> p.type, algo |-> p.algo, data |-> p.data, hash |-> <<p.algo, p.data>>]
  BY DEF SignedEntry, Whole, Partition, Hash
<1>2. CASE u \notin DOMAIN parts
  BY <1>2 DEF Rechecked, EntryVerdict, Intact
<1>3. CASE u \in DOMAIN parts
  <2> DEFINE q == parts[u]  w == written[u]
  <2>1. Good(u, q, w, signed[u])
    BY <1>3 DEF SigInv
  <2>2. /\ q.type = w.type /\ q.algo = w.algo /\ q.hash = <<w.algo, w.data>>
        /\ q = w <=> q.data = w.data
    BY <2>1, Fields DEF Good
  <2>3. q = [type |-> q.type, algo |-> q.algo, data |-> q.data, hash |-> q.hash]
    <3>1. w = [type |-> w.type, algo |-> w.algo, data |-> w.data, hash |-> <<w.algo, w.data>>]
      BY <2>1 DEF Good, Whole, Partition, Hash
    <3>2. q = [type |-> w.type, algo |-> w.algo, data |-> q.data, hash |-> <<w.algo, w.data>>]
      BY <2>1, <3>1 DEF Good
    <3> QED
      BY <3>2
  <2>4. Rechecked(u, e) = "valid" <=> SignedEntry(q) = e /\ <<q.algo, q.data>> = q.hash
    BY <1>1, <1>3 DEF Rechecked, EntryVerdict, Protected, Hash
  <2>5. SignedEntry(q) = e <=> q.type = p.type /\ q.algo = p.algo /\ q.hash = p.hash
    <3>1. /\ SignedEntry(q).type = q.type /\ SignedEntry(q).algo = q.algo
          /\ SignedEntry(q).hash = q.hash
      BY DEF SignedEntry
    <3> QED
      BY <3>1, <1>1 DEF SignedEntry
  <2>6. ASSUME SignedEntry(q) = e, <<q.algo, q.data>> = q.hash
        PROVE  Intact(u) /\ q = p
    <3>1. q.data = w.data
      BY <2>6, <2>2
    <3>2. q.data = p.data /\ q.hash = <<p.algo, p.data>>
      BY <2>5, <2>6, <1>1
    <3>3. q = p
      BY <3>2, <2>3, <2>5, <2>6, <1>1
    <3> QED
      BY <3>1, <3>3, <2>2, <1>3 DEF Intact
  <2>7. ASSUME Intact(u), q = p
        PROVE  SignedEntry(q) = e /\ <<q.algo, q.data>> = q.hash
    BY <2>7, <1>1
  <2> QED
    BY <2>4, <2>6, <2>7
<1> QED
  BY <1>2, <1>3

\* The invariant implies that acceptance means what ValidMeansAsSigned says.
LEMMA SigInvImplies == SigInv => ValidMeansAsSigned
<1> SUFFICES ASSUME SigInv, NEW s \in Signatures, NEW u \in DOMAIN signed[s].as
             PROVE  Accepts(s, u) <=>
                     /\ Intact(s)
                     /\ \E k \in DOMAIN parts : parts[k].type = "key" /\ Intact(k)
                                            /\ parts[k].data = KeyRecord(signed[s].by)
                     /\ Intact(u) /\ parts[u] = signed[s].as[u]
  BY DEF ValidMeansAsSigned
<1> DEFINE p == signed[s].as[u]
<1>1. Whole(p) /\ p.algo \in Crypto
  <2>1. Good(s, parts[s], written[s], signed[s]) /\ parts[s].type = "sig"
    BY DEF SigInv, Signatures
  <2> QED
    BY <2>1 DEF Good, SigGood, Eligible
<1>2. Rechecked(u, SignedEntry(p)) = "valid" <=> Intact(u) /\ parts[u] = p
  BY <1>1, EntryValid
<1>3. ManifestVerdict(s) = "valid" <=> Intact(s) /\ KeysOf(parts, signed[s].by) # {}
  BY SignatureValid
<1>4. CASE ManifestVerdict(s) = "valid"
  <2>1. Entries(s) = EntriesOf(signed[s].as)
    BY <1>3, <1>4, SignatureValid DEF Entries
  <2>2. u \in DOMAIN Entries(s) /\ Entries(s)[u] = SignedEntry(p)
    BY <2>1 DEF EntriesOf
  <2> QED
    BY <2>2, <1>2, <1>3, <1>4, KeyFound DEF Accepts
<1>5. CASE ManifestVerdict(s) # "valid"
  <2>1. DOMAIN Entries(s) = {}
    BY <1>5 DEF Entries
  <2>2. ~Accepts(s, u)
    BY <2>1 DEF Accepts
  <2> QED
    BY <2>2, <1>3, <1>5, KeyFound
<1> QED
  BY <1>4, <1>5

-----------------------------------------------------------------------------
(* The invariant holds.                                                    *)

\* What a call leaves as it was remains good, so only the rest needs a look.
LEMMA StepKeeps ==
    ASSUME SigInv, Remember,
           \A u \in DOMAIN parts' :
               \/ u \in DOMAIN parts /\ parts'[u] = parts[u]
                  /\ ~(call'.op = "update" /\ call'.uid = u)
               \/ Good(u, parts'[u], written'[u], signed'[u]),
           \A k \in DOMAIN plan' : \/ k \in DOMAIN plan /\ plan'[k] = plan[k]
                                   \/ PlanGood(k)'
    PROVE  SigInv'
<1>1. DOMAIN written' = DOMAIN parts'
  BY DEF Remember
<1>2. ASSUME NEW u \in DOMAIN parts'
      PROVE  Good(u, parts'[u], written'[u], signed'[u])
  <2>1. CASE u \in DOMAIN parts /\ parts'[u] = parts[u] /\ ~(call'.op = "update" /\ call'.uid = u)
    <3>1. Good(u, parts[u], written[u], signed[u])
      BY <2>1 DEF SigInv
    <3>2. written'[u] = written[u]
      BY <1>2, <2>1 DEF Remember, Rewritten
    <3>3. CASE parts[u].type = "sig"
      <4>1. u \in Signatures /\ u \in Signatures'
        BY <1>2, <2>1, <3>3 DEF Signatures
      <4>2. signed'[u] = signed[u]
        BY <4>1 DEF Remember
      <4> QED
        BY <3>1, <3>2, <4>2, <2>1
    <3>4. CASE parts[u].type # "sig"
      BY <3>1, <3>2, <3>4, <2>1 DEF Good
    <3> QED
      BY <3>3, <3>4
  <2> QED
    BY <1>2, <2>1
<1>3. ASSUME NEW k \in DOMAIN plan'
      PROVE  PlanGood(k)'
  <2>1. CASE k \in DOMAIN plan /\ plan'[k] = plan[k]
    <3>1. asRead'[k] = asRead[k] /\ PlanGood(k)
      BY <1>3, <2>1 DEF Remember, SigInv
    <3> QED
      BY <2>1, <3>1 DEF PlanGood
  <2> QED
    BY <1>3, <2>1
<1> QED
  BY <1>1, <1>2, <1>3 DEF SigInv

\* A new partition is what was written, and good if it is not a signature ...
LEMMA NewIsGood ==
    ASSUME Remember, NEW u \in DOMAIN parts', u \notin DOMAIN parts,
           Whole(parts'[u]), parts'[u].type # "sig",
           parts'[u].type = "key" => parts'[u].data \in {KeyRecord(k) : k \in Key}
    PROVE  /\ Good(u, parts'[u], written'[u], signed'[u])
           /\ written'[u] = parts'[u]
<1>1. written'[u] = parts'[u]
  BY DEF Remember, Rewritten
<1>2. parts'[u] = [parts'[u] EXCEPT !.data = parts'[u].data]
  BY DEF Whole, Partition
<1> QED
  BY <1>1, <1>2 DEF Good, KeyGood

\* ... and if it is one that was made of good targets.
LEMMA SignatureIsGood ==
    ASSUME Remember, NEW u \in DOMAIN parts', u \notin DOMAIN parts, NEW as,
           parts'[u] = Partition("sig", "sha256",
                            Signature(call'.key, Manifest(call'.key, EntriesOf(as)))),
           as = IF call'.op = "commit" THEN asRead[call'.key]
                ELSE [v \in call'.targets |-> written'[v]],
           u \notin DOMAIN as, Eligible(as)
    PROVE  Good(u, parts'[u], written'[u], signed'[u])
<1> DEFINE sig == Signature(call'.key, Manifest(call'.key, EntriesOf(as)))
           p == parts'[u]
           x == [by |-> call'.key, as |-> as]
<1>1. p.type = "sig" /\ p.data = sig /\ Whole(p) /\ p = [p EXCEPT !.data = p.data]
  BY DEF Whole, Partition
<1>2. written'[u] = p
  BY DEF Remember, Rewritten
<1>3. signed'[u] = x
  <2>1. u \in Signatures' /\ u \notin Signatures
    BY <1>1 DEF Signatures
  <2> QED
    BY <2>1 DEF Remember
<1>4. sig = Made(x)
  BY DEF Made
<1>5. sig = [manifest |-> sig.manifest, signature |-> sig.signature]
  BY DEF Signature
<1>6. SigGood(u, p, p, x)
  BY <1>1, <1>4, <1>5 DEF SigGood
<1> QED
  BY <1>1, <1>2, <1>3, <1>6 DEF Good

LEMMA PartitionFields ==
    ASSUME NEW type, NEW algo, NEW bytes
    PROVE  LET p == Partition(type, algo, bytes) IN
           Whole(p) /\ p.type = type /\ p.algo = algo /\ p.data = bytes
BY DEF Whole, Partition

LEMMA AddKeeps ==
    ASSUME SigInv, Remember, UNCHANGED plan, NEW u, NEW algo, NEW c, AddPartition(u, algo, c)
    PROVE  SigInv'
<1>1. Good(u, parts'[u], written'[u], signed'[u])
  <2>1. u \in DOMAIN parts' /\ u \notin DOMAIN parts /\ parts'[u] = Partition("raw", algo, c)
    BY DEF AddPartition, With
  <2> QED
    BY <2>1, PartitionFields, NewIsGood
<1>2. \A v \in DOMAIN parts' : v # u => v \in DOMAIN parts /\ parts'[v] = parts[v]
  BY DEF AddPartition, With
<1>3. call'.op # "update"
  BY DEF AddPartition
<1> QED
  BY <1>1, <1>2, <1>3, StepKeeps

LEMMA UpdateKeeps ==
    ASSUME SigInv, Remember, UNCHANGED plan, NEW u, NEW c, UpdatePartition(u, c)
    PROVE  SigInv'
<1>1. Good(u, parts'[u], written'[u], signed'[u])
  <2>1. Good(u, parts[u], written[u], signed[u]) /\ u \in DOMAIN parts'
    BY DEF SigInv, UpdatePartition
  <2>2. parts'[u] = Partition("raw", parts[u].algo, c)
    BY DEF UpdatePartition
  <2>3. written'[u] = parts'[u]
    BY <2>1 DEF Remember, Rewritten, UpdatePartition
  <2>4. parts'[u] = [parts'[u] EXCEPT !.data = parts'[u].data]
    BY <2>2 DEF Partition
  <2>5. Whole(parts'[u]) /\ parts'[u].type = "raw"
    BY <2>2, PartitionFields
  <2> QED
    BY <2>3, <2>4, <2>5 DEF Good
<1>2. \A v \in DOMAIN parts' : v # u => v \in DOMAIN parts /\ parts'[v] = parts[v]
  BY DEF UpdatePartition
<1>3. call'.uid = u
  BY DEF UpdatePartition
<1> QED
  BY <1>1, <1>2, <1>3, StepKeeps

LEMMA RemoveKeeps ==
    ASSUME SigInv, Remember, UNCHANGED plan, NEW u, RemovePartition(u)
    PROVE  SigInv'
<1>1. \A v \in DOMAIN parts' : v \in DOMAIN parts /\ parts'[v] = parts[v]
  BY DEF RemovePartition
<1>2. call'.op # "update"
  BY DEF RemovePartition
<1> QED
  BY <1>1, <1>2, StepKeeps

\* Damage to a signature cannot make the signature bytes fit another manifest.
LEMMA DamageKeeps ==
    ASSUME SigInv, Remember, UNCHANGED plan, NEW u, NEW d,
           d \in Damaged(parts[u]), Damage(u, d)
    PROVE  SigInv'
<1> DEFINE p == parts[u]  w == written[u]  x == signed[u]
<1>1. u \in DOMAIN parts /\ Good(u, p, w, x)
  BY DEF SigInv, Damage
<1>2. u \in DOMAIN parts' /\ parts'[u] = [p EXCEPT !.data = d]
  BY <1>1 DEF Damage
<1>3. call'.op # "update"
  BY DEF Damage
<1>4. written'[u] = w
  BY <1>1, <1>2, <1>3 DEF Remember, Rewritten
<1>5. p = [type |-> w.type, algo |-> w.algo, data |-> p.data, hash |-> w.hash]
  <2>1. w = [type |-> w.type, algo |-> w.algo, data |-> w.data, hash |-> w.hash]
    BY <1>1 DEF Good, Whole, Partition
  <2> QED
    BY <1>1, <2>1 DEF Good
<1>6. parts'[u] = [type |-> w.type, algo |-> w.algo, data |-> d, hash |-> w.hash]
  BY <1>2, <1>5
<1>7. /\ parts'[u].type = w.type /\ parts'[u].data = d /\ p.type = w.type
      /\ parts'[u] = [w EXCEPT !.data = d]
  <2>1. w = [type |-> w.type, algo |-> w.algo, data |-> w.data, hash |-> w.hash]
    BY <1>1 DEF Good, Whole, Partition
  <2> QED
    BY <1>5, <1>6, <2>1
<1>8. ASSUME w.type = "key"
      PROVE  KeyGood(parts'[u], w)
  <2>1. d = Garbage
    BY <1>7, <1>8 DEF Damaged
  <2> QED
    BY <1>1, <1>7, <1>8, <2>1 DEF Good, KeyGood
<1>9. ASSUME w.type = "sig"
      PROVE  SigGood(u, parts'[u], w, signed'[u])
  <2>1. signed'[u] = x
    <3>1. u \in Signatures /\ u \in Signatures'
      BY <1>1, <1>2, <1>7, <1>9 DEF Signatures
    <3> QED
      BY <3>1 DEF Remember
  <2>2. SigGood(u, p, w, x)
    BY <1>1, <1>7, <1>9 DEF Good
  <2>3. d = Garbage \/ d = [manifest |-> d.manifest, signature |-> w.data.signature]
    <3>1. CASE d # Garbage
      <4>1. p.data # Garbage /\ d \in Altered(p.data)
        BY <1>7, <1>9, <3>1 DEF Damaged
      <4>2. p.data = [manifest |-> p.data.manifest, signature |-> w.data.signature]
        BY <2>2, <4>1 DEF SigGood
      <4>3. \E m : d = [p.data EXCEPT !.manifest = m]
        BY <4>1 DEF Altered
      <4> QED
        BY <4>2, <4>3
    <3> QED
      BY <3>1
  <2> QED
    BY <1>7, <2>1, <2>2, <2>3 DEF SigGood
<1>10. Good(u, parts'[u], written'[u], signed'[u])
  BY <1>1, <1>4, <1>7, <1>8, <1>9 DEF Good
<1>11. \A v \in DOMAIN parts' : v # u => v \in DOMAIN parts /\ parts'[v] = parts[v]
  BY DEF Damage
<1> QED
  BY <1>3, <1>10, <1>11, StepKeeps

\* Every signable partition is signed as it was written, and by a key that is
\* whole when it is new.
LEMMA SignKeeps ==
    ASSUME SigInv, Remember, UNCHANGED plan,
           NEW k \in Key, NEW targets, NEW sigUid, NEW keyUid, NEW all,
           SignPartitions(k, targets, sigUid, keyUid, all)
    PROVE  SigInv'
<1> DEFINE ps == KeyEnsured(parts, k, keyUid)
           key == Partition("key", "sha256", KeyRecord(k))
           ok == /\ \A u \in targets : SignableIn(ps, u)
                 /\ sigUid \notin DOMAIN ps
           as == [u \in targets |-> written'[u]]
           entries == [u \in targets |-> SignedEntry(ps[u])]
           sig == Partition("sig", "sha256", Signature(k, Manifest(k, entries)))
<1>1. /\ sigUid \notin targets
      /\ ~EnsureFails(parts, k, keyUid)
      /\ parts' = IF ok THEN With(ps, sigUid, sig) ELSE ps
      /\ call'.op = "sign" /\ call'.key = k /\ call'.targets = targets
  BY DEF SignPartitions
<1>2. /\ \A u \in DOMAIN parts : u \in DOMAIN ps /\ ps[u] = parts[u]
      /\ \A u \in DOMAIN ps : u \notin DOMAIN parts => ps[u] = key
  <2>1. CASE KeysOf(parts, k) # {}
    BY <2>1 DEF KeyEnsured
  <2>2. CASE KeysOf(parts, k) = {}
    <3>1. keyUid \notin DOMAIN parts
      BY <1>1, <2>2 DEF EnsureFails
    <3>2. ps = With(parts, keyUid, key)
      BY <2>2 DEF KeyEnsured
    <3> QED
      BY <3>1, <3>2 DEF With
  <2> QED
    BY <2>1, <2>2
<1>3. \A u \in DOMAIN ps : u \in DOMAIN parts' /\ parts'[u] = ps[u]
  <2>1. CASE ok
    <3>1. parts' = With(ps, sigUid, sig) /\ sigUid \notin DOMAIN ps
      BY <1>1, <2>1
    <3> QED
      BY <3>1 DEF With
  <2>2. CASE ~ok
    BY <1>1, <2>2
  <2> QED
    BY <2>1, <2>2
<1>4. ASSUME NEW u \in DOMAIN ps, u \notin DOMAIN parts
      PROVE  Good(u, parts'[u], written'[u], signed'[u])
  <2>1. parts'[u] = key
    BY <1>2, <1>3, <1>4
  <2> QED
    BY <1>3, <1>4, <2>1, PartitionFields, NewIsGood
<1>5. ASSUME NEW u \in DOMAIN ps
      PROVE  /\ Whole(written'[u])
             /\ ps[u] = [written'[u] EXCEPT !.data = ps[u].data]
  <2>1. CASE u \in DOMAIN parts
    <3>1. written'[u] = written[u]
      BY <1>1, <1>3, <2>1 DEF Remember, Rewritten
    <3>2. Good(u, parts[u], written[u], signed[u])
      BY <2>1 DEF SigInv
    <3> QED
      BY <1>2, <2>1, <3>1, <3>2 DEF Good
  <2>2. CASE u \notin DOMAIN parts
    BY <1>3, <1>4, <2>2 DEF Good
  <2> QED
    BY <2>1, <2>2
<1>6. ASSUME ok
      PROVE  Good(sigUid, parts'[sigUid], written'[sigUid], signed'[sigUid])
  <2>1. parts' = With(ps, sigUid, sig) /\ sigUid \notin DOMAIN ps
    BY <1>1, <1>6
  <2>2. /\ sigUid \in DOMAIN parts' /\ parts'[sigUid] = sig
        /\ sigUid \notin DOMAIN parts
    BY <1>2, <2>1 DEF With
  <2>3. ASSUME NEW u \in targets
        PROVE  /\ SignedEntry(ps[u]) = SignedEntry(written'[u])
               /\ Whole(written'[u]) /\ written'[u].algo \in Crypto
    <3>1. u \in DOMAIN ps /\ ps[u].algo \in Crypto
      BY <1>6 DEF SignableIn
    <3> QED
      BY <3>1, <1>5, Fields
  <2>4. Eligible(as)
    BY <2>3 DEF Eligible
  <2>5. entries = EntriesOf(as)
    BY <2>3 DEF EntriesOf
  <2>6. as = IF call'.op = "commit" THEN asRead[call'.key]
             ELSE [u \in call'.targets |-> written'[u]]
    BY <1>1
  <2>7. parts'[sigUid] = Partition("sig", "sha256",
                            Signature(call'.key, Manifest(call'.key, EntriesOf(as))))
    BY <1>1, <2>2, <2>5
  <2> HIDE DEF as
  <2>8. sigUid \notin DOMAIN as
    BY <1>1 DEF as
  <2> QED
    BY <2>2, <2>4, <2>6, <2>7, <2>8, SignatureIsGood
<1>7. ASSUME NEW u \in DOMAIN parts'
      PROVE  \/ u \in DOMAIN parts /\ parts'[u] = parts[u]
                /\ ~(call'.op = "update" /\ call'.uid = u)
             \/ Good(u, parts'[u], written'[u], signed'[u])
  <2>1. CASE u \in DOMAIN ps
    BY <1>1, <1>2, <1>3, <1>4, <2>1
  <2>2. CASE u \notin DOMAIN ps
    <3>1. ok /\ u = sigUid
      <4>1. ok
        BY <1>1, <1>7, <2>2
      <4>2. parts' = With(ps, sigUid, sig)
        BY <1>1, <4>1
      <4> QED
        BY <1>7, <2>2, <4>1, <4>2 DEF With
    <3> QED
      BY <3>1, <1>6
  <2> QED
    BY <2>1, <2>2
<1> QED
  BY <1>7, StepKeeps

LEMMA NothingKeeps ==
    ASSUME SigInv, Remember, UNCHANGED plan, NEW k, NEW all, NothingToSign(k, all)
    PROVE  SigInv'
<1>1. parts' = parts /\ call'.op # "update"
  BY DEF NothingToSign
<1> QED
  BY <1>1, StepKeeps

LEMMA SignFileKeeps ==
    ASSUME SigInv, Remember, NEW k \in Key, NEW given, NEW resign, NEW sigUid, NEW keyUid,
           SignFile(k, given, resign, sigUid, keyUid)
    PROVE  SigInv'
<1> DEFINE all == given = {}
           targets == Uncovered(k, IF all THEN Signable ELSE given, resign)
<1>1. UNCHANGED plan
  BY DEF SignFile
<1>2. NothingToSign(k, all) \/ SignPartitions(k, targets, sigUid, keyUid, all)
  BY DEF SignFile
<1> HIDE DEF all, targets
<1> QED
  BY <1>1, <1>2, NothingKeeps, SignKeeps

\* What `pfs sign` reads it remembers as it was written.
LEMMA ReadKeeps ==
    ASSUME SigInv, Remember, NEW k \in Key, NEW resign, SignRead(k, resign)
    PROVE  SigInv'
<1> DEFINE targets == Uncovered(k, Signable, resign)
           new == [entries |-> [u \in targets |-> SignedEntry(parts[u])],
                   keyPresent |-> KeysOf(parts, k) # {}]
<1>1. CASE NothingToSign(k, TRUE) /\ plan' = plan
  BY <1>1, NothingKeeps
<1>2. CASE /\ plan' = IF \E u \in targets : parts[u].algo \notin Crypto THEN plan
                      ELSE With(plan, k, new)
           /\ call' = [op |-> "read", key |-> k]
           /\ UNCHANGED parts
  <2>1. call'.op # "update"
    BY <1>2
  <2>2. k \notin DOMAIN plan
    BY DEF SignRead
  <2>3. targets \subseteq DOMAIN parts
    BY DEF Uncovered, Signable
  <2>4. ASSUME NEW j \in DOMAIN plan', ~(j \in DOMAIN plan /\ plan'[j] = plan[j])
        PROVE  PlanGood(j)'
    <3>1. \A u \in targets : parts[u].algo \in Crypto
      BY <1>2, <2>4
    <3>2. plan' = With(plan, k, new)
      BY <1>2, <3>1
    <3>3. j = k /\ plan'[j] = new /\ j \notin DOMAIN plan
      BY <2>2, <2>4, <3>2 DEF With
    <3>4. plan'[j].entries = [u \in targets |-> SignedEntry(parts[u])]
      BY <3>3
    <3>5. asRead'[j] = [u \in targets |-> written[u]]
      <4>1. asRead'[j] = [u \in DOMAIN plan'[j].entries |-> written[u]]
        BY <2>4, <3>3 DEF Remember
      <4> QED
        BY <3>4, <4>1
    <3>6. ASSUME NEW u \in targets
          PROVE  /\ Whole(written[u]) /\ written[u].algo \in Crypto
                 /\ SignedEntry(parts[u]) = SignedEntry(written[u])
      <4>1. Good(u, parts[u], written[u], signed[u])
        BY <2>3 DEF SigInv
      <4> QED
        BY <3>1, <4>1, Fields DEF Good
    <3>7. Eligible(asRead'[j])
      BY <3>5, <3>6 DEF Eligible
    <3>8. plan'[j].entries = EntriesOf(asRead'[j])
      BY <3>4, <3>5, <3>6 DEF EntriesOf
    <3> QED
      BY <3>7, <3>8 DEF PlanGood
  <2> QED
    BY <1>2, <2>1, <2>4, StepKeeps
<1> QED
  BY <1>1, <1>2 DEF SignRead

\* What it commits was made of that, whatever the archive holds by then.
LEMMA CommitKeeps ==
    ASSUME SigInv, Remember, NEW k \in Key, NEW sigUid, NEW keyUid,
           SignCommit(k, sigUid, keyUid)
    PROVE  SigInv'
<1> DEFINE key == Partition("key", "sha256", KeyRecord(k))
           ps == IF plan[k].keyPresent THEN parts ELSE With(parts, keyUid, key)
           sig == Partition("sig", "sha256", Signature(k, Manifest(k, plan[k].entries)))
           as == asRead[k]
<1>1. /\ k \in DOMAIN plan /\ sigUid \notin DOMAIN parts /\ keyUid \notin DOMAIN parts
      /\ sigUid # keyUid /\ sigUid \notin DOMAIN plan[k].entries
      /\ parts' = With(ps, sigUid, sig)
      /\ plan' = [j \in DOMAIN plan \ {k} |-> plan[j]]
      /\ call'.op = "commit" /\ call'.key = k
  BY DEF SignCommit
<1>2. PlanGood(k)
  BY <1>1 DEF SigInv
<1>3. Good(sigUid, parts'[sigUid], written'[sigUid], signed'[sigUid])
  <2>1. sigUid \in DOMAIN parts' /\ parts'[sigUid] = sig
    BY <1>1 DEF With
  <2>2. Eligible(as) /\ plan[k].entries = EntriesOf(as)
    BY <1>2 DEF PlanGood
  <2>3. sigUid \notin DOMAIN as
    BY <1>1, <2>2 DEF EntriesOf
  <2>4. as = IF call'.op = "commit" THEN asRead[call'.key]
             ELSE [u \in call'.targets |-> written'[u]]
    BY <1>1
  <2> QED
    BY <1>1, <2>1, <2>2, <2>3, <2>4, SignatureIsGood
<1>4. ASSUME NEW u \in DOMAIN parts', u # sigUid
      PROVE  \/ u \in DOMAIN parts /\ parts'[u] = parts[u]
             \/ Good(u, parts'[u], written'[u], signed'[u])
  <2>1. u \in DOMAIN ps /\ parts'[u] = ps[u]
    BY <1>1, <1>4 DEF With
  <2>2. CASE u \in DOMAIN parts
    <3>1. ps[u] = parts[u]
      BY <1>1, <2>2 DEF With
    <3> QED
      BY <2>1, <2>2, <3>1
  <2>3. CASE u \notin DOMAIN parts
    <3>1. parts'[u] = key
      BY <2>1, <2>3 DEF With
    <3> QED
      BY <2>3, <3>1, PartitionFields, NewIsGood
  <2> QED
    BY <2>2, <2>3
<1>5. \A j \in DOMAIN plan' : j \in DOMAIN plan /\ plan'[j] = plan[j]
  BY <1>1
<1> QED
  BY <1>1, <1>3, <1>4, <1>5, StepKeeps

\* Nothing is carried over by compaction that was not found whole.
LEMMA CompactKeeps ==
    ASSUME SigInv, Remember, NEW fresh, CompactArchive(fresh)
    PROVE  SigInv'
<1> DEFINE new == {fresh[u] : u \in DOMAIN fresh}
           Old(v) == CHOOSE u \in DOMAIN fresh : fresh[u] = v
<1>1. /\ \A u \in DOMAIN parts : Hash(parts[u].algo, parts[u].data) = parts[u].hash
      /\ DOMAIN fresh = {u \in DOMAIN parts : parts[u].type = "raw"}
      /\ \A u \in DOMAIN fresh : fresh[u] \notin DOMAIN parts
      /\ parts' = [v \in new |-> parts[Old(v)]]
      /\ UNCHANGED plan
  BY DEF CompactArchive
<1>2. ASSUME NEW v \in DOMAIN parts'
      PROVE  Good(v, parts'[v], written'[v], signed'[v])
  <2>1. v \in new /\ v \notin DOMAIN parts
    BY <1>1, <1>2
  <2>2. Old(v) \in DOMAIN fresh
    BY <2>1
  <2> DEFINE u == Old(v)  p == parts[u]  w == written[u]
  <2>3. u \in DOMAIN parts /\ p.type = "raw" /\ parts'[v] = p
    BY <1>1, <2>1, <2>2
  <2> HIDE DEF u, Old
  <2>4. Whole(p)
    <3>1. Good(u, p, w, signed[u])
      BY <2>3 DEF SigInv
    <3>2. w = [type |-> w.type, algo |-> w.algo, data |-> w.data, hash |-> w.hash]
      BY <3>1 DEF Good, Whole, Partition
    <3>3. p = [w EXCEPT !.data = p.data]
      BY <3>1 DEF Good
    <3>4. p = [type |-> w.type, algo |-> w.algo, data |-> p.data, hash |-> w.hash]
      BY <3>2, <3>3
    <3>5. p.type = w.type /\ p.algo = w.algo /\ p.hash = w.hash
      BY <3>4
    <3>6. p.hash = Hash(p.algo, p.data)
      BY <1>1, <2>3
    <3> QED
      BY <3>4, <3>5, <3>6 DEF Whole, Partition
  <2> QED
    BY <2>1, <2>3, <2>4, NewIsGood
<1> QED
  BY <1>1, <1>2, StepKeeps

\* The invariant is inductive: it holds of a new file ...
LEMMA SigInitEstablishes == HInit => SigInv
BY DEF HInit, ToolsInit, Init, SigInv

\* ... and every call, and every damage, keeps it.
LEMMA SigNextPreserves == SigInv /\ [HNext]_hvars => SigInv'
<1> SUFFICES ASSUME SigInv, [HNext]_hvars
             PROVE  SigInv'
  OBVIOUS
<1>1. CASE UNCHANGED hvars
  BY <1>1 DEF hvars, tvars, vars, SigInv, PlanGood
<1>2. CASE HNext
  <2>1. ToolsNext /\ Remember
    BY <1>2 DEF HNext
  <2>2. ASSUME NEW u \in Uid, UNCHANGED plan,
               NEW algo \in Crypto \cup Weak, NEW c \in Contents, AddPartition(u, algo, c)
        PROVE  SigInv'
    BY <2>1, <2>2, AddKeeps
  <2>3. ASSUME NEW u \in Uid, UNCHANGED plan, NEW c \in Contents, UpdatePartition(u, c)
        PROVE  SigInv'
    BY <2>1, <2>3, UpdateKeeps
  <2>4. ASSUME NEW u \in Uid, UNCHANGED plan, RemovePartition(u)
        PROVE  SigInv'
    BY <2>1, <2>4, RemoveKeeps
  <2>5. ASSUME NEW u \in Uid, UNCHANGED plan, NEW d \in Damaged(parts[u]), Damage(u, d)
        PROVE  SigInv'
    BY <2>1, <2>5, DamageKeeps
  <2>6. ASSUME NEW k \in Key, NEW sigUid \in Uid, NEW keyUid \in Uid, UNCHANGED plan,
               NEW targets \in SUBSET Uid, SignPartitions(k, targets, sigUid, keyUid, FALSE)
        PROVE  SigInv'
    BY <2>1, <2>6, SignKeeps
  <2>7. ASSUME NEW k \in Key, NEW sigUid \in Uid, NEW keyUid \in Uid,
               NEW given \in SUBSET DOMAIN parts, NEW resign \in BOOLEAN,
               SignFile(k, given, resign, sigUid, keyUid)
        PROVE  SigInv'
    BY <2>1, <2>7, SignFileKeeps
  <2>8. ASSUME NEW k \in Key, NEW sigUid \in Uid, NEW keyUid \in Uid,
               SignCommit(k, sigUid, keyUid)
        PROVE  SigInv'
    BY <2>1, <2>8, CommitKeeps
  <2>9. ASSUME NEW k \in Key, NEW resign \in BOOLEAN, SignRead(k, resign)
        PROVE  SigInv'
    BY <2>1, <2>9, ReadKeeps
  <2>10. ASSUME NEW D \in SUBSET Uid, NEW fresh \in [D -> Uid], CompactArchive(fresh)
         PROVE  SigInv'
    BY <2>1, <2>10, CompactKeeps
  <2>11. ASSUME NEW u \in Uid, UNCHANGED <<kind, plan>>,
                \/ \E algo \in Crypto \cup Weak, c \in Contents : AddPartition(u, algo, c)
                \/ kind = "pcf" /\ \E c \in Contents : UpdatePartition(u, c)
                \/ kind = "pcf" /\ RemovePartition(u)
                \/ u \in DOMAIN parts /\ \E d \in Damaged(parts[u]) : Damage(u, d)
         PROVE  SigInv'
    BY <2>2, <2>3, <2>4, <2>5, <2>11
  <2>12. ASSUME NEW k \in Key, NEW sigUid \in Uid, NEW keyUid \in Uid,
                \/ /\ kind = "pcf"
                   /\ \E targets \in SUBSET Uid :
                        SignPartitions(k, targets, sigUid, keyUid, FALSE)
                   /\ UNCHANGED <<kind, plan>>
                \/ \E given \in SUBSET DOMAIN parts, resign \in BOOLEAN :
                        SignFile(k, given, resign, sigUid, keyUid)
                \/ SignCommit(k, sigUid, keyUid)
         PROVE  SigInv'
    BY <2>6, <2>7, <2>8, <2>12
  <2> QED
    BY <2>1, <2>9, <2>10, <2>11, <2>12, ZenonT(60) DEF ToolsNext
<1> QED
  BY <1>1, <1>2

\* An accepted entry means that the partition holds what its signer signed, and an
\* undamaged one whose signer's key is there is accepted, in every file that these
\* calls and any damage can produce.
THEOREM AcceptedMeansAsSigned == HSpec => []ValidMeansAsSigned
<1>1. HInit => SigInv
  BY SigInitEstablishes
<1>2. SigInv /\ [HNext]_hvars => SigInv'
  BY SigNextPreserves
<1>3. SigInv => ValidMeansAsSigned
  BY SigInvImplies
<1> QED
  BY <1>1, <1>2, <1>3, PTL DEF HSpec

-----------------------------------------------------------------------------
(* One key per signer.                                                     *)

\* A signer has one key partition at most that parses: also `pfs sign`, which
\* looks for it in one step and adds it in another, because nobody else adds it
\* in between.  And nothing is signed, or read to be signed, that is empty.
KeysApart ==
    /\ kind = "pcf" => DOMAIN plan = {}
    /\ \A k \in Key : \A u, v \in KeysOf(parts, k) : u = v
    /\ \A k \in DOMAIN plan :
        /\ ~plan[k].keyPresent => KeysOf(parts, k) = {}
        /\ DOMAIN asRead[k] # {}
    /\ \A s \in Signatures : DOMAIN signed[s].as # {}

SInv == SigInv /\ KeysApart

\* Every partition of before is, as it was, in after.
Extends(before, after) ==
    \A u \in DOMAIN before : u \in DOMAIN after /\ after[u] = before[u]

LEMMA KeysOfIsLocal ==
    ASSUME NEW ps, NEW qs, NEW k,
           \A u \in DOMAIN qs : qs[u].type = "key" /\ qs[u].data = KeyRecord(k)
                => u \in DOMAIN ps /\ ps[u].type = "key" /\ ps[u].data = KeyRecord(k)
    PROVE  KeysOf(qs, k) \subseteq KeysOf(ps, k)
BY DEF KeysOf

LEMMA KeyRecordInjective == \A j, k : KeyRecord(j) = KeyRecord(k) => j = k
<1>1. \A j : KeyRecord(j).key = j
  BY DEF KeyRecord
<1> QED
  BY <1>1

\* What signing makes of the key partitions of any signer.
LEMMA KeysOfSigned ==
    ASSUME NEW ps, NEW k, NEW keyUid, ~EnsureFails(ps, k, keyUid)
    PROVE  LET qs == KeyEnsured(ps, k, keyUid) IN
           /\ Extends(ps, qs)
           /\ DOMAIN qs \ DOMAIN ps \subseteq {keyUid}
           /\ \A u \in DOMAIN qs \ DOMAIN ps :
                    qs[u] = Partition("key", "sha256", KeyRecord(k))
           /\ KeysOf(qs, k) # {}
           /\ KeysOf(ps, k) # {} => qs = ps
<1> DEFINE key == Partition("key", "sha256", KeyRecord(k))
<1>1. CASE KeysOf(ps, k) # {}
  BY <1>1 DEF KeyEnsured, Extends
<1>2. CASE KeysOf(ps, k) = {}
  <2>1. keyUid \notin DOMAIN ps
    BY <1>2 DEF EnsureFails
  <2>2. KeyEnsured(ps, k, keyUid) = With(ps, keyUid, key)
    BY <1>2 DEF KeyEnsured
  <2>3. /\ DOMAIN With(ps, keyUid, key) = DOMAIN ps \cup {keyUid}
        /\ With(ps, keyUid, key)[keyUid] = key
        /\ \A u \in DOMAIN ps : With(ps, keyUid, key)[u] = ps[u]
    BY <2>1 DEF With
  <2>4. keyUid \in KeysOf(With(ps, keyUid, key), k)
    BY <2>3, PartitionFields DEF KeysOf
  <2> QED
    BY <1>2, <2>1, <2>2, <2>3, <2>4 DEF Extends
<1> QED
  BY <1>1, <1>2

\* Added partitions that are no key of the signer change nothing about it.
LEMMA KeysOfExtended ==
    ASSUME NEW ps, NEW qs, NEW k, Extends(ps, qs),
           \A u \in DOMAIN qs \ DOMAIN ps : ~(qs[u].type = "key" /\ qs[u].data = KeyRecord(k))
    PROVE  KeysOf(qs, k) = KeysOf(ps, k)
BY DEF KeysOf, Extends

-----------------------------------------------------------------------------
(* What a call that signs does to the file.                                *)

\* The last call signed with k, and its targets, as the properties see them.
Signs(k) == call'.op \in {"sign", "commit"} /\ call'.key = k

\* The new partitions of a call that signs: a key of the signer where it had
\* none, and a signature.
Addition(k) ==
    /\ Extends(parts, parts')
    /\ \A u \in DOMAIN parts' \ DOMAIN parts :
        \/ parts'[u] = Partition("key", "sha256", KeyRecord(k))
        \/ parts'[u].type = "sig"
    /\ \A u, v \in DOMAIN parts' \ DOMAIN parts :
        parts'[u].type = "key" /\ parts'[v].type = "key" => u = v

LEMMA SignAdds ==
    ASSUME NEW k, NEW targets, NEW sigUid, NEW keyUid, NEW all,
           SignPartitions(k, targets, sigUid, keyUid, all)
    PROVE  /\ Addition(k)
           /\ call'.op = "sign" /\ call'.key = k /\ call'.targets = targets
           /\ call'.all = all /\ targets # {}
           /\ KeysOf(parts', k) # {}
           /\ KeysOf(parts, k) # {} => KeysOf(parts', k) = KeysOf(parts, k)
           /\ Signatures' \subseteq Signatures \cup {sigUid}
           /\ call'.ok <=> /\ \A u \in targets : SignableIn(KeyEnsured(parts, k, keyUid), u)
                           /\ sigUid \notin DOMAIN KeyEnsured(parts, k, keyUid)
           /\ call'.ok => /\ sigUid \in Signatures' /\ sigUid \notin DOMAIN parts
                          /\ targets \subseteq DOMAIN parts'
<1> DEFINE ps == KeyEnsured(parts, k, keyUid)
           manifest == Manifest(k, [u \in targets |-> SignedEntry(ps[u])])
           sig == Partition("sig", "sha256", Signature(k, manifest))
           ok == /\ \A u \in targets : SignableIn(ps, u)
                 /\ sigUid \notin DOMAIN ps
<1>1. /\ targets # {} /\ ~EnsureFails(parts, k, keyUid)
      /\ parts' = IF ok THEN With(ps, sigUid, sig) ELSE ps
      /\ call' = [op |-> "sign", key |-> k, targets |-> targets, uid |-> sigUid, ok |-> ok,
                  all |-> all]
  BY DEF SignPartitions
<1>2. /\ call'.op = "sign" /\ call'.key = k /\ call'.targets = targets
      /\ call'.all = all /\ (call'.ok <=> ok)
  BY <1>1
<1>3. /\ Extends(parts, ps)
      /\ \A u \in DOMAIN ps \ DOMAIN parts : ps[u] = Partition("key", "sha256", KeyRecord(k))
      /\ DOMAIN ps \ DOMAIN parts \subseteq {keyUid}
      /\ KeysOf(ps, k) # {}
      /\ KeysOf(parts, k) # {} => ps = parts
  BY <1>1, KeysOfSigned
<1> HIDE DEF ps
<1>4. sig.type = "sig" /\ sig.type # "key"
  BY PartitionFields
<1>5. Partition("key", "sha256", KeyRecord(k)).type = "key"
  BY PartitionFields
<1> HIDE DEF sig
<1>6. CASE ok
  <2>1. /\ DOMAIN parts' = DOMAIN ps \cup {sigUid} /\ parts'[sigUid] = sig
        /\ \A u \in DOMAIN ps : parts'[u] = ps[u]
        /\ sigUid \notin DOMAIN ps
    BY <1>1, <1>6 DEF With
  <2>2. Extends(ps, parts')
    BY <2>1 DEF Extends
  <2>3. KeysOf(parts', k) = KeysOf(ps, k)
    BY <2>1, <2>2, <1>4, KeysOfExtended
  <2>4. Addition(k)
    BY <1>3, <1>4, <2>1 DEF Addition, Extends
  <2>5. Signatures' \subseteq Signatures \cup {sigUid} /\ sigUid \in Signatures'
    BY <1>3, <1>4, <1>5, <2>1 DEF Signatures, Extends
  <2>6. targets \subseteq DOMAIN parts'
    BY <1>6, <2>1 DEF SignableIn
  <2> QED
    BY <1>1, <1>2, <1>3, <1>6, <2>1, <2>3, <2>4, <2>5, <2>6 DEF Extends, ps
<1>7. CASE ~ok
  <2>1. parts' = ps
    BY <1>1, <1>7
  <2>2. Addition(k)
    BY <1>3, <2>1 DEF Addition, Extends
  <2>3. Signatures' \subseteq Signatures
    BY <1>3, <1>5, <2>1 DEF Signatures, Extends
  <2> QED
    BY <1>1, <1>2, <1>3, <1>7, <2>1, <2>2, <2>3 DEF ps
<1> QED
  BY <1>6, <1>7

\* `pfs sign` adds no key where one was when it read the archive: none has come
\* and none has gone but by damage or compaction.
LEMMA CommitAdds ==
    ASSUME KeysApart, NEW k, NEW sigUid, NEW keyUid, SignCommit(k, sigUid, keyUid)
    PROVE  /\ Addition(k)
           /\ call'.op = "commit" /\ call'.key = k /\ call'.targets = DOMAIN plan[k].entries
           /\ KeysOf(parts, k) # {} => KeysOf(parts', k) = KeysOf(parts, k)
           /\ Signatures' = Signatures \cup {sigUid}
           /\ sigUid \notin DOMAIN parts
<1> DEFINE key == Partition("key", "sha256", KeyRecord(k))
           ps == IF plan[k].keyPresent THEN parts ELSE With(parts, keyUid, key)
           sig == Partition("sig", "sha256", Signature(k, Manifest(k, plan[k].entries)))
<1>1. /\ k \in DOMAIN plan /\ sigUid \notin DOMAIN parts /\ keyUid \notin DOMAIN parts
      /\ sigUid # keyUid
      /\ parts' = With(ps, sigUid, sig)
      /\ call'.op = "commit" /\ call'.key = k /\ call'.targets = DOMAIN plan[k].entries
  BY DEF SignCommit
<1>2. sig.type = "sig" /\ key.type = "key" /\ key.data = KeyRecord(k)
  BY PartitionFields
<1> DEFINE K == DOMAIN ps \ DOMAIN parts
<1>3. /\ Extends(parts, ps) /\ K \subseteq {keyUid}
      /\ \A u \in K : ps[u] = key
      /\ K # {} => KeysOf(parts, k) = {}
  BY <1>1 DEF Extends, With, KeysApart
<1> HIDE DEF key, sig, ps
<1>4. /\ DOMAIN parts' = DOMAIN ps \cup {sigUid} /\ parts'[sigUid] = sig
      /\ \A u \in DOMAIN ps : u # sigUid => parts'[u] = ps[u]
  BY <1>1 DEF With
<1>5. sigUid \notin DOMAIN ps
  BY <1>1, <1>3
<1>6. Addition(k)
  BY <1>2, <1>3, <1>4, <1>5 DEF Addition, Extends, key
<1>7. Signatures' = Signatures \cup {sigUid}
  BY <1>2, <1>3, <1>4, <1>5 DEF Signatures, Extends
<1>8. ASSUME KeysOf(parts, k) # {}
      PROVE  KeysOf(parts', k) = KeysOf(parts, k)
  BY <1>2, <1>3, <1>4, <1>5, <1>8, KeysOfExtended DEF Extends
<1> QED
  BY <1>1, <1>6, <1>7, <1>8

-----------------------------------------------------------------------------
(* KeysApart is inductive, given SigInv.                                     *)

\* Adding to the file keeps it, if there is a key more only where there was none.
LEMMA AdditionKeepsApart ==
    ASSUME SInv, Remember, NEW k \in Key, Addition(k),
           KeysOf(parts, k) # {} => KeysOf(parts', k) = KeysOf(parts, k),
           kind' = kind, kind = "pcf" => plan' = plan,
           \A j \in DOMAIN plan' : j \in DOMAIN plan /\ j # k /\ plan'[j] = plan[j],
           \A s \in Signatures' \ Signatures : DOMAIN signed'[s].as # {}
    PROVE  KeysApart'
<1>1. ASSUME NEW j, j # k
      PROVE  KeysOf(parts', j) = KeysOf(parts, j)
  <2>1. ASSUME NEW u \in DOMAIN parts' \ DOMAIN parts
        PROVE  ~(parts'[u].type = "key" /\ parts'[u].data = KeyRecord(j))
    <3>1. CASE parts'[u] = Partition("key", "sha256", KeyRecord(k))
      BY <3>1, <1>1, PartitionFields, KeyRecordInjective
    <3>2. CASE parts'[u].type = "sig"
      BY <3>2
    <3> QED
      BY <2>1, <3>1, <3>2 DEF Addition
  <2> QED
    BY <2>1, KeysOfExtended DEF Addition
<1>2. ASSUME NEW u \in KeysOf(parts', k), NEW v \in KeysOf(parts', k)
      PROVE  u = v
  <2>1. CASE KeysOf(parts, k) # {}
    BY <1>2, <2>1 DEF SInv, KeysApart
  <2>2. CASE KeysOf(parts, k) = {}
    <3>1. u \in DOMAIN parts' \ DOMAIN parts /\ v \in DOMAIN parts' \ DOMAIN parts
      BY <1>2, <2>2 DEF KeysOf, Addition, Extends
    <3>2. parts'[u].type = "key" /\ parts'[v].type = "key"
      BY <1>2 DEF KeysOf
    <3> QED
      BY <3>1, <3>2 DEF Addition
  <2> QED
    BY <2>1, <2>2
<1>3. \A j \in Key : \A u, v \in KeysOf(parts', j) : u = v
  BY <1>1, <1>2 DEF SInv, KeysApart
<1>4. ASSUME NEW j \in DOMAIN plan'
      PROVE  /\ ~plan'[j].keyPresent => KeysOf(parts', j) = {}
             /\ DOMAIN asRead'[j] # {}
  BY <1>1, <1>4 DEF SInv, KeysApart, Remember
<1>5. ASSUME NEW s \in Signatures'
      PROVE  DOMAIN signed'[s].as # {}
  <2>1. CASE s \in Signatures
    BY <1>5, <2>1 DEF SInv, KeysApart, Remember
  <2> QED
    BY <1>5, <2>1
<1>6. kind' = "pcf" => DOMAIN plan' = {}
  BY DEF SInv, KeysApart
<1> QED
  BY <1>3, <1>4, <1>5, <1>6 DEF KeysApart

\* So does everything that brings no key and no signature.
LEMMA OtherKeepsApart ==
    ASSUME SInv, Remember,
           \A k : KeysOf(parts', k) \subseteq KeysOf(parts, k),
           Signatures' \subseteq Signatures,
           kind' = kind, plan' = plan
    PROVE  KeysApart'
BY DEF SInv, KeysApart, Remember

LEMMA AddKeepsApart ==
    ASSUME SInv, Remember, UNCHANGED <<kind, plan>>, NEW u, NEW algo, NEW c,
           AddPartition(u, algo, c)
    PROVE  KeysApart'
<1> DEFINE p == Partition("raw", algo, c)
<1>1. /\ p.type = "raw" /\ parts' = With(parts, u, p)
  BY PartitionFields DEF AddPartition
<1> HIDE DEF p
<1>2. \A v \in DOMAIN parts' : parts'[v] = p \/ (v \in DOMAIN parts /\ parts'[v] = parts[v])
  BY <1>1 DEF With
<1>3. Signatures' \subseteq Signatures /\ \A k : KeysOf(parts', k) \subseteq KeysOf(parts, k)
  BY <1>1, <1>2 DEF Signatures, KeysOf
<1> QED
  BY <1>3, OtherKeepsApart

LEMMA UpdateKeepsApart ==
    ASSUME SInv, Remember, UNCHANGED <<kind, plan>>, NEW u, NEW c, UpdatePartition(u, c)
    PROVE  KeysApart'
<1> DEFINE p == Partition(parts[u].type, parts[u].algo, c)
<1>1. /\ p.type = "raw" /\ u \in DOMAIN parts /\ parts' = [parts EXCEPT ![u] = p]
  BY PartitionFields DEF UpdatePartition
<1> HIDE DEF p
<1>2. \A v \in DOMAIN parts' : parts'[v] = p \/ (v \in DOMAIN parts /\ parts'[v] = parts[v])
  BY <1>1
<1>3. Signatures' \subseteq Signatures /\ \A k : KeysOf(parts', k) \subseteq KeysOf(parts, k)
  BY <1>1, <1>2 DEF Signatures, KeysOf
<1> QED
  BY <1>3, OtherKeepsApart

LEMMA RemoveKeepsApart ==
    ASSUME SInv, Remember, UNCHANGED <<kind, plan>>, NEW u, RemovePartition(u)
    PROVE  KeysApart'
<1>1. \A v \in DOMAIN parts' : v \in DOMAIN parts /\ parts'[v] = parts[v]
  BY DEF RemovePartition
<1>2. Signatures' \subseteq Signatures /\ \A k : KeysOf(parts', k) \subseteq KeysOf(parts, k)
  BY <1>1 DEF Signatures, KeysOf
<1> QED
  BY <1>2, OtherKeepsApart

\* A key partition is damaged to bytes that are no key.
LEMMA DamageKeepsApart ==
    ASSUME SInv, Remember, UNCHANGED <<kind, plan>>, NEW u,
           NEW d \in Damaged(parts[u]), Damage(u, d)
    PROVE  KeysApart'
<1>1. /\ u \in DOMAIN parts /\ DOMAIN parts' = DOMAIN parts
      /\ \A v \in DOMAIN parts : v # u => parts'[v] = parts[v]
  BY DEF Damage
<1>2. parts'[u].type = parts[u].type /\ parts'[u].data = d
  <2>1. Good(u, parts[u], written[u], signed[u])
    BY <1>1 DEF SInv, SigInv
  <2>2. parts'[u] = [parts[u] EXCEPT !.data = d]
    BY <1>1 DEF Damage
  <2>3. parts[u] = [type |-> parts[u].type, algo |-> parts[u].algo, data |-> parts[u].data,
                    hash |-> parts[u].hash]
    BY <2>1 DEF Good, Whole, Partition
  <2> QED
    BY <2>2, <2>3
<1>3. parts[u].type = "key" => d = Garbage
  BY DEF Damaged
<1>4. \A k : u \notin KeysOf(parts', k)
  BY <1>2, <1>3, GarbageApart DEF KeysOf
<1>5. Signatures' \subseteq Signatures /\ \A k : KeysOf(parts', k) \subseteq KeysOf(parts, k)
  BY <1>1, <1>2, <1>4 DEF Signatures, KeysOf
<1> QED
  BY <1>5, OtherKeepsApart

LEMMA SignKeepsApart ==
    ASSUME SInv, Remember, UNCHANGED <<kind, plan>>, kind = "pcf",
           NEW k \in Key, NEW targets, NEW sigUid, NEW keyUid, NEW all,
           SignPartitions(k, targets, sigUid, keyUid, all)
    PROVE  KeysApart'
<1>1. /\ Addition(k)
      /\ call'.op = "sign" /\ call'.targets = targets /\ targets # {}
      /\ KeysOf(parts, k) # {} => KeysOf(parts', k) = KeysOf(parts, k)
  BY SignAdds
<1>2. \A j \in DOMAIN plan' : FALSE
  BY DEF SInv, KeysApart
<1>3. ASSUME NEW s \in Signatures' \ Signatures
      PROVE  DOMAIN signed'[s].as # {}
  <2>1. signed'[s] = [by |-> call'.key, as |-> [u \in targets |-> written'[u]]]
    BY <1>1 DEF Remember
  <2> QED
    BY <1>1, <2>1
<1> QED
  BY <1>1, <1>2, <1>3, AdditionKeepsApart

LEMMA NothingKeepsApart ==
    ASSUME SInv, Remember, UNCHANGED <<kind, plan>>, NEW k, NEW all, NothingToSign(k, all)
    PROVE  KeysApart'
<1>1. parts' = parts
  BY DEF NothingToSign
<1>2. Signatures' \subseteq Signatures /\ \A j : KeysOf(parts', j) \subseteq KeysOf(parts, j)
  BY <1>1 DEF Signatures
<1> QED
  BY <1>2, OtherKeepsApart

LEMMA SignFileKeepsApart ==
    ASSUME SInv, Remember, NEW k \in Key, NEW given, NEW resign, NEW sigUid, NEW keyUid,
           SignFile(k, given, resign, sigUid, keyUid)
    PROVE  KeysApart'
<1> DEFINE all == given = {}
           targets == Uncovered(k, IF all THEN Signable ELSE given, resign)
<1>1. UNCHANGED <<kind, plan>> /\ kind = "pcf"
  BY DEF SignFile
<1>2. NothingToSign(k, all) \/ SignPartitions(k, targets, sigUid, keyUid, all)
  BY DEF SignFile
<1> HIDE DEF all, targets
<1> QED
  BY <1>1, <1>2, NothingKeepsApart, SignKeepsApart

\* What `pfs sign` notes of its signer's key is so when it notes it.
LEMMA ReadKeepsApart ==
    ASSUME SInv, Remember, NEW k \in Key, NEW resign, SignRead(k, resign)
    PROVE  KeysApart'
<1> DEFINE targets == Uncovered(k, Signable, resign)
           new == [entries |-> [u \in targets |-> SignedEntry(parts[u])],
                   keyPresent |-> KeysOf(parts, k) # {}]
<1>1. CASE NothingToSign(k, TRUE) /\ plan' = plan
  BY <1>1, NothingKeepsApart DEF SignRead
<1>2. CASE /\ targets # {}
           /\ plan' = IF \E u \in targets : parts[u].algo \notin Crypto THEN plan
                      ELSE With(plan, k, new)
           /\ UNCHANGED parts
  <2>1. k \notin DOMAIN plan /\ kind = "pfs" /\ kind' = kind
    BY DEF SignRead
  <2>2. CASE plan' = plan
    <3>1. Signatures' \subseteq Signatures /\ \A j : KeysOf(parts', j) \subseteq KeysOf(parts, j)
      BY <1>2 DEF Signatures
    <3> QED
      BY <2>1, <2>2, <3>1, OtherKeepsApart
  <2>3. CASE plan' = With(plan, k, new)
    <3>1. DOMAIN plan' = DOMAIN plan \cup {k} /\ plan'[k] = new
          /\ \A j \in DOMAIN plan : plan'[j] = plan[j]
      BY <2>1, <2>3 DEF With
    <3>2. new.keyPresent = (KeysOf(parts, k) # {}) /\ DOMAIN new.entries = targets
      OBVIOUS
    <3>3. Signatures' = Signatures
      BY <1>2 DEF Signatures
    <3>4. ASSUME NEW j \in DOMAIN plan'
          PROVE  /\ ~plan'[j].keyPresent => KeysOf(parts', j) = {}
                 /\ DOMAIN asRead'[j] # {}
      <4>1. CASE j = k
        <5>1. asRead'[k] = [u \in DOMAIN plan'[k].entries |-> written[u]]
          BY <2>1, <3>1 DEF Remember
        <5>2. DOMAIN asRead'[k] = targets
          BY <5>1, <3>1, <3>2
        <5> QED
          BY <1>2, <3>1, <3>2, <4>1, <5>2
      <4>2. CASE j # k
        <5>1. j \in DOMAIN plan /\ plan'[j] = plan[j] /\ asRead'[j] = asRead[j]
          BY <3>1, <3>4, <4>2 DEF Remember
        <5> QED
          BY <1>2, <5>1 DEF SInv, KeysApart
      <4> QED
        BY <4>1, <4>2
    <3>5. \A j \in Key : \A u, v \in KeysOf(parts', j) : u = v
      BY <1>2 DEF SInv, KeysApart
    <3>6. \A s \in Signatures' : DOMAIN signed'[s].as # {}
      BY <3>3 DEF SInv, KeysApart, Remember
    <3>7. ~(kind' = "pcf")
      BY <2>1
    <3> QED
      BY <3>4, <3>5, <3>6, <3>7 DEF KeysApart
  <2> QED
    BY <1>2, <2>2, <2>3
<1> QED
  BY <1>1, <1>2 DEF SignRead

LEMMA CommitKeepsApart ==
    ASSUME SInv, Remember, NEW k \in Key, NEW sigUid, NEW keyUid,
           SignCommit(k, sigUid, keyUid)
    PROVE  KeysApart'
<1>1. /\ Addition(k)
      /\ call'.op = "commit" /\ call'.key = k
      /\ KeysOf(parts, k) # {} => KeysOf(parts', k) = KeysOf(parts, k)
  BY CommitAdds DEF SInv
<1>2. /\ k \in DOMAIN plan /\ kind' = kind
      /\ plan' = [j \in DOMAIN plan \ {k} |-> plan[j]]
  BY DEF SignCommit
<1>3. kind # "pcf"
  BY <1>2 DEF SInv, KeysApart
<1>4. ASSUME NEW s \in Signatures' \ Signatures
      PROVE  DOMAIN signed'[s].as # {}
  <2>1. signed'[s] = [by |-> k, as |-> asRead[k]]
    BY <1>1 DEF Remember
  <2> QED
    BY <1>2, <2>1 DEF SInv, KeysApart
<1> QED
  BY <1>1, <1>2, <1>3, <1>4, AdditionKeepsApart

\* Compaction leaves no key and no signature.
LEMMA CompactKeepsApart ==
    ASSUME SInv, Remember, NEW fresh, CompactArchive(fresh)
    PROVE  KeysApart'
<1> DEFINE new == {fresh[u] : u \in DOMAIN fresh}
           Old(v) == CHOOSE u \in DOMAIN fresh : fresh[u] = v
<1>1. /\ DOMAIN fresh = {u \in DOMAIN parts : parts[u].type = "raw"}
      /\ parts' = [v \in new |-> parts[Old(v)]]
      /\ UNCHANGED <<kind, plan>>
  BY DEF CompactArchive
<1>2. ASSUME NEW v \in DOMAIN parts'
      PROVE  parts'[v].type = "raw"
  <2>1. v \in new
    BY <1>1, <1>2
  <2>2. Old(v) \in DOMAIN fresh
    BY <2>1
  <2> HIDE DEF Old
  <2> QED
    BY <1>1, <2>1, <2>2
<1>3. Signatures' \subseteq Signatures /\ \A k : KeysOf(parts', k) \subseteq KeysOf(parts, k)
  BY <1>2 DEF Signatures, KeysOf
<1> QED
  BY <1>1, <1>3, OtherKeepsApart

LEMMA InitApart == HInit => SInv
<1> SUFFICES ASSUME HInit
             PROVE  SInv
  OBVIOUS
<1>1. DOMAIN parts = {} /\ DOMAIN plan = {}
  BY DEF HInit, ToolsInit, Init
<1>2. KeysApart
  BY <1>1 DEF KeysApart, KeysOf, Signatures
<1> QED
  BY <1>2, SigInitEstablishes DEF SInv

LEMMA StepKeepsApart == SInv /\ [HNext]_hvars => SInv'
<1> SUFFICES ASSUME SInv, [HNext]_hvars
             PROVE  KeysApart'
  BY SigNextPreserves DEF SInv
<1>1. CASE UNCHANGED hvars
  BY <1>1 DEF hvars, tvars, vars, SInv, KeysApart, Signatures
<1>2. CASE HNext
  <2>1. ToolsNext /\ Remember
    BY <1>2 DEF HNext
  <2>2. ASSUME NEW u \in Uid, UNCHANGED <<kind, plan>>,
               NEW algo \in Crypto \cup Weak, NEW c \in Contents, AddPartition(u, algo, c)
        PROVE  KeysApart'
    BY <2>1, <2>2, AddKeepsApart
  <2>3. ASSUME NEW u \in Uid, UNCHANGED <<kind, plan>>, NEW c \in Contents,
               UpdatePartition(u, c)
        PROVE  KeysApart'
    BY <2>1, <2>3, UpdateKeepsApart
  <2>4. ASSUME NEW u \in Uid, UNCHANGED <<kind, plan>>, RemovePartition(u)
        PROVE  KeysApart'
    BY <2>1, <2>4, RemoveKeepsApart
  <2>5. ASSUME NEW u \in Uid, UNCHANGED <<kind, plan>>,
               NEW d \in Damaged(parts[u]), Damage(u, d)
        PROVE  KeysApart'
    BY <2>1, <2>5, DamageKeepsApart
  <2>6. ASSUME NEW k \in Key, NEW sigUid \in Uid, NEW keyUid \in Uid,
               UNCHANGED <<kind, plan>>, kind = "pcf",
               NEW targets \in SUBSET Uid, SignPartitions(k, targets, sigUid, keyUid, FALSE)
        PROVE  KeysApart'
    BY <2>1, <2>6, SignKeepsApart
  <2>7. ASSUME NEW k \in Key, NEW sigUid \in Uid, NEW keyUid \in Uid,
               NEW given \in SUBSET DOMAIN parts, NEW resign \in BOOLEAN,
               SignFile(k, given, resign, sigUid, keyUid)
        PROVE  KeysApart'
    BY <2>1, <2>7, SignFileKeepsApart
  <2>8. ASSUME NEW k \in Key, NEW sigUid \in Uid, NEW keyUid \in Uid,
               SignCommit(k, sigUid, keyUid)
        PROVE  KeysApart'
    BY <2>1, <2>8, CommitKeepsApart
  <2>9. ASSUME NEW k \in Key, NEW resign \in BOOLEAN, SignRead(k, resign)
        PROVE  KeysApart'
    BY <2>1, <2>9, ReadKeepsApart
  <2>10. ASSUME NEW D \in SUBSET Uid, NEW fresh \in [D -> Uid], CompactArchive(fresh)
         PROVE  KeysApart'
    BY <2>1, <2>10, CompactKeepsApart
  <2>11. ASSUME NEW u \in Uid, UNCHANGED <<kind, plan>>,
                \/ \E algo \in Crypto \cup Weak, c \in Contents : AddPartition(u, algo, c)
                \/ kind = "pcf" /\ \E c \in Contents : UpdatePartition(u, c)
                \/ kind = "pcf" /\ RemovePartition(u)
                \/ u \in DOMAIN parts /\ \E d \in Damaged(parts[u]) : Damage(u, d)
         PROVE  KeysApart'
    BY <2>2, <2>3, <2>4, <2>5, <2>11
  <2>12. ASSUME NEW k \in Key, NEW sigUid \in Uid, NEW keyUid \in Uid,
                \/ /\ kind = "pcf"
                   /\ \E targets \in SUBSET Uid :
                        SignPartitions(k, targets, sigUid, keyUid, FALSE)
                   /\ UNCHANGED <<kind, plan>>
                \/ \E given \in SUBSET DOMAIN parts, resign \in BOOLEAN :
                        SignFile(k, given, resign, sigUid, keyUid)
                \/ SignCommit(k, sigUid, keyUid)
         PROVE  KeysApart'
    BY <2>6, <2>7, <2>8, <2>12
  <2> QED
    BY <2>1, <2>9, <2>10, <2>11, <2>12, ZenonT(60) DEF ToolsNext
<1> QED
  BY <1>1, <1>2

-----------------------------------------------------------------------------
(* Signing only adds.                                                      *)

\* The step signs, or finds nothing to sign.
SignSteps(k) ==
    \/ \E targets, sigUid, keyUid :
        /\ SignPartitions(k, targets, sigUid, keyUid, FALSE)
        /\ UNCHANGED <<kind, plan>>
    \/ \E given \in SUBSET DOMAIN parts, resign \in BOOLEAN :
            \E sigUid, keyUid : SignFile(k, given, resign, sigUid, keyUid)
    \/ \E sigUid, keyUid : SignCommit(k, sigUid, keyUid)
    \/ \E resign \in BOOLEAN :
        /\ kind = "pfs" /\ Uncovered(k, Signable, resign) = {}
        /\ NothingToSign(k, TRUE) /\ UNCHANGED <<kind, plan>>

LEMMA CallsThatSign ==
    ASSUME ToolsNext, NEW k, Signs(k)
    PROVE  SignSteps(k)
<1>1. ASSUME NEW u, NEW algo, NEW c, AddPartition(u, algo, c)
      PROVE  FALSE
  BY <1>1 DEF AddPartition, Signs
<1>2. ASSUME NEW u, NEW c, UpdatePartition(u, c)
      PROVE  FALSE
  BY <1>2 DEF UpdatePartition, Signs
<1>3. ASSUME NEW u, RemovePartition(u)
      PROVE  FALSE
  BY <1>3 DEF RemovePartition, Signs
<1>4. ASSUME NEW u, NEW d, Damage(u, d)
      PROVE  FALSE
  BY <1>4 DEF Damage, Signs
<1>5. ASSUME NEW fresh, CompactArchive(fresh)
      PROVE  FALSE
  BY <1>5 DEF CompactArchive, Signs
<1>6. ASSUME NEW j, NEW targets, NEW sigUid, NEW keyUid,
             SignPartitions(j, targets, sigUid, keyUid, FALSE), UNCHANGED <<kind, plan>>
      PROVE  SignSteps(k)
  <2>1. j = k
    BY <1>6 DEF SignPartitions, Signs
  <2> QED
    BY <1>6, <2>1 DEF SignSteps
<1>7. ASSUME NEW j, NEW given \in SUBSET DOMAIN parts, NEW resign \in BOOLEAN,
             NEW sigUid, NEW keyUid, SignFile(j, given, resign, sigUid, keyUid)
      PROVE  SignSteps(k)
  <2>1. j = k
    BY <1>7 DEF SignFile, SignPartitions, NothingToSign, Signs
  <2> QED
    BY <1>7, <2>1 DEF SignSteps
<1>8. ASSUME NEW j, NEW sigUid, NEW keyUid, SignCommit(j, sigUid, keyUid)
      PROVE  SignSteps(k)
  <2>1. j = k
    BY <1>8 DEF SignCommit, Signs
  <2> QED
    BY <1>8, <2>1 DEF SignSteps
<1>9. ASSUME NEW j, NEW resign \in BOOLEAN, SignRead(j, resign)
      PROVE  SignSteps(k)
  <2>1. Uncovered(j, Signable, resign) = {}
    <3>1. call'.op # "read"
      BY DEF Signs
    <3>2. call' = [op |-> "read", key |-> j] => call'.op = "read"
      OBVIOUS
    <3> QED
      BY <1>9, <3>1, <3>2 DEF SignRead
  <2>2. /\ kind = "pfs" /\ NothingToSign(j, TRUE) /\ UNCHANGED <<kind, plan>>
    BY <1>9, <2>1 DEF SignRead
  <2>3. j = k
    BY <2>2 DEF NothingToSign, Signs
  <2> QED
    BY <2>1, <2>2, <2>3 DEF SignSteps
<1>10. ASSUME NEW u \in Uid,
              \/ \E algo \in Crypto \cup Weak, c \in Contents : AddPartition(u, algo, c)
              \/ kind = "pcf" /\ \E c \in Contents : UpdatePartition(u, c)
              \/ kind = "pcf" /\ RemovePartition(u)
              \/ u \in DOMAIN parts /\ \E d \in Damaged(parts[u]) : Damage(u, d)
       PROVE  FALSE
  BY <1>1, <1>2, <1>3, <1>4, <1>10
<1>11. ASSUME NEW j \in Key, NEW sigUid \in Uid, NEW keyUid \in Uid,
              \/ /\ kind = "pcf"
                 /\ \E targets \in SUBSET Uid :
                      SignPartitions(j, targets, sigUid, keyUid, FALSE)
                 /\ UNCHANGED <<kind, plan>>
              \/ \E given \in SUBSET DOMAIN parts, resign \in BOOLEAN :
                      SignFile(j, given, resign, sigUid, keyUid)
              \/ SignCommit(j, sigUid, keyUid)
       PROVE  SignSteps(k)
  BY <1>6, <1>7, <1>8, <1>11
<1> QED
  BY <1>5, <1>9, <1>10, <1>11, ZenonT(60) DEF ToolsNext

\* What both kinds of signing come to: additions to the file, with the signer's
\* key there once a signature is added, but perhaps for `pfs sign`; and if there
\* are targets and nothing was refused, a signature of theirs.
LEMMA SignStepAdds ==
    ASSUME SInv, Remember, NEW k, Signs(k), SignSteps(k)
    PROVE  /\ Addition(k)
           /\ call'.op = "sign" /\ Signatures' # Signatures => KeysOf(parts', k) # {}
<1>1. ASSUME NEW targets, NEW sigUid, NEW keyUid, NEW all,
             SignPartitions(k, targets, sigUid, keyUid, all)
      PROVE  Addition(k) /\ KeysOf(parts', k) # {}
  BY <1>1, SignAdds
<1>2. ASSUME NEW all, NothingToSign(k, all)
      PROVE  Addition(k) /\ Signatures' = Signatures
  BY <1>2 DEF NothingToSign, Addition, Extends, Signatures
<1>3. ASSUME NEW given, NEW resign, NEW sigUid, NEW keyUid,
             SignFile(k, given, resign, sigUid, keyUid)
      PROVE  Addition(k) /\ (Signatures' # Signatures => KeysOf(parts', k) # {})
  <2> DEFINE all == given = {}
             targets == Uncovered(k, IF all THEN Signable ELSE given, resign)
  <2>1. NothingToSign(k, all) \/ SignPartitions(k, targets, sigUid, keyUid, all)
    BY <1>3 DEF SignFile
  <2> HIDE DEF all, targets
  <2> QED
    BY <2>1, <1>1, <1>2
<1>4. ASSUME NEW sigUid, NEW keyUid, SignCommit(k, sigUid, keyUid)
      PROVE  Addition(k) /\ call'.op = "commit"
  BY <1>4, CommitAdds DEF SInv
<1> QED
  BY <1>1, <1>2, <1>3, <1>4 DEF SignSteps

\* What is added takes no accepted entry away.
LEMMA EntriesStay ==
    ASSUME Extends(parts, parts'), NEW s \in DOMAIN parts, ManifestVerdict(s) = "valid"
    PROVE  ManifestVerdict(s)' = "valid" /\ Entries(s)' = Entries(s)
<1> DEFINE d == parts[s].data
<1>1. parts'[s] = parts[s]
  BY DEF Extends
<1>2. KeysOf(parts, d.manifest.signer) \subseteq KeysOf(parts', d.manifest.signer)
  BY DEF KeysOf, Extends
<1>3. /\ d # Garbage /\ s \notin DOMAIN d.manifest.entries
      /\ KeysOf(parts, d.manifest.signer) # {}
      /\ d.signature = <<d.manifest.signer, d.manifest>>
  BY DEF ManifestVerdict
<1>4. ManifestVerdict(s)' = "valid"
  BY <1>1, <1>2, <1>3 DEF ManifestVerdict
<1> QED
  BY <1>1, <1>4 DEF Entries

LEMMA AcceptsStays ==
    ASSUME Extends(parts, parts'), NEW s \in DOMAIN parts, NEW u, Accepts(s, u)
    PROVE  Accepts(s, u)'
<1>1. ManifestVerdict(s) = "valid"
  BY DEF Accepts, Entries
<1>2. Entries(s)' = Entries(s)
  BY <1>1, EntriesStay
<1>3. u \in DOMAIN parts
  BY DEF Accepts, Rechecked, EntryVerdict
<1>4. u \in DOMAIN parts' /\ parts'[u] = parts[u]
  BY <1>3 DEF Extends
<1>5. Rechecked(u, Entries(s)[u])' = Rechecked(u, Entries(s)[u])
  BY <1>2, <1>3, <1>4 DEF Rechecked, EntryVerdict, Protected
<1> QED
  BY <1>2, <1>5 DEF Accepts

\* A new signature is as it was made, and made by the caller.
LEMMA NewSignature ==
    ASSUME Remember, NEW k, Signs(k), Addition(k), NEW s \in Signatures' \ Signatures
    PROVE  /\ s \notin DOMAIN parts /\ Intact(s)'
           /\ signed'[s].by = k
           /\ call'.op = "sign" => signed'[s].as = [u \in call'.targets |-> written'[u]]
           /\ call'.op = "commit" => signed'[s].as = asRead[k]
<1>1. s \in DOMAIN parts' /\ s \notin DOMAIN parts
  BY DEF Signatures, Addition, Extends
<1>2. written'[s] = parts'[s]
  BY <1>1 DEF Remember, Rewritten
<1>3. signed'[s] = [by |-> call'.key,
                    as |-> IF call'.op = "commit" THEN asRead[call'.key]
                           ELSE [u \in call'.targets |-> written'[u]]]
  BY DEF Remember
<1> QED
  BY <1>1, <1>2, <1>3 DEF Intact, Signs

\* A key that is found is whole.
KeysWhole ==
    \A k : KeysOf(parts, k) # {} =>
        \E u \in DOMAIN parts : parts[u].type = "key" /\ Intact(u)
                                /\ parts[u].data = KeyRecord(k)

LEMMA KeyFoundAlways == SigInv => KeysWhole
BY KeyFound DEF KeysWhole

LEMMA NewAccepted ==
    ASSUME SigInv', Remember, NEW k, Signs(k), Addition(k), NEW s \in Signatures' \ Signatures,
           NEW u \in DOMAIN signed'[s].as, Intact(u)', parts'[u] = signed'[s].as[u],
           KeysOf(parts', k) # {}
    PROVE  Accepts(s, u)'
<1>1. ValidMeansAsSigned'
  <2>1. (SigInv => ValidMeansAsSigned)'
    BY SigInvImplies, PTL
  <2> QED
    BY <2>1
<1>2. \E v \in DOMAIN parts' : parts'[v].type = "key" /\ Intact(v)'
                               /\ parts'[v].data = KeyRecord(k)
  <2>1. (SigInv => KeysWhole)'
    BY KeyFoundAlways, PTL
  <2> QED
    BY <2>1 DEF KeysWhole
<1>3. Intact(s)' /\ signed'[s].by = k
  BY NewSignature
<1> QED
  BY <1>1, <1>2, <1>3 DEF ValidMeansAsSigned

LEMMA StepIsAdditive ==
    ASSUME SInv, SInv', HNext, NEW k \in Key, call'.op \in {"sign", "commit"}, call'.key = k
    PROVE  /\ \A u \in DOMAIN parts : parts'[u] = parts[u]
           /\ \A s \in Signatures, u \in DOMAIN parts : Accepts(s, u) => Accepts(s, u)'
           /\ \A u, v \in KeysOf(parts', k) : u = v
           /\ \A s \in Signatures' \ Signatures : \A u \in DOMAIN signed'[s].as :
                /\ Intact(u)' /\ parts'[u] = signed'[s].as[u]
                /\ call'.op = "commit" => KeysOf(parts', k) # {}
                => Accepts(s, u)'
<1>1. Signs(k) /\ Remember /\ SignSteps(k)
  BY CallsThatSign DEF Signs, HNext
<1>2. /\ Addition(k)
      /\ call'.op = "sign" /\ Signatures' # Signatures => KeysOf(parts', k) # {}
  BY <1>1, SignStepAdds
<1>3. Extends(parts, parts')
  BY <1>2 DEF Addition
<1>4. \A s \in Signatures, u \in DOMAIN parts : Accepts(s, u) => Accepts(s, u)'
  BY <1>3, AcceptsStays DEF Signatures
<1>5. \A u, v \in KeysOf(parts', k) : u = v
  BY DEF SInv, KeysApart
<1>6. ASSUME NEW s \in Signatures' \ Signatures, NEW u \in DOMAIN signed'[s].as,
             Intact(u)', parts'[u] = signed'[s].as[u],
             call'.op = "commit" => KeysOf(parts', k) # {}
      PROVE  Accepts(s, u)'
  <2>1. KeysOf(parts', k) # {}
    BY <1>2, <1>6
  <2> QED
    BY <1>1, <1>2, <1>6, <2>1, NewAccepted DEF SInv
<1> QED
  BY <1>3, <1>4, <1>5, <1>6 DEF Extends

\* No call that signs, in any file these calls and any damage can produce, costs
\* a partition or an accepted entry, or adds a signer's key twice, and what it
\* signs is accepted.
THEOREM SigningAdds == HSpec => SigningIsAdditive
<1>1. SInv /\ SInv' /\ [HNext]_hvars =>
        [\A k \in Key : call'.op \in {"sign", "commit"} /\ call'.key = k =>
            /\ \A u \in DOMAIN parts : parts'[u] = parts[u]
            /\ \A s \in Signatures, u \in DOMAIN parts : Accepts(s, u) => Accepts(s, u)'
            /\ \A u, v \in KeysOf(parts', k) : u = v
            /\ \A s \in Signatures' \ Signatures : \A u \in DOMAIN signed'[s].as :
                /\ Intact(u)' /\ parts'[u] = signed'[s].as[u]
                /\ call'.op = "commit" => KeysOf(parts', k) # {}
                => Accepts(s, u)']_hvars
  BY StepIsAdditive
<1> QED
  BY <1>1, InitApart, StepKeepsApart, PTL DEF HSpec, SigningIsAdditive

-----------------------------------------------------------------------------
(* Signing everything converges.                                           *)

\* Of every signature that is as it was made, with its signer's key there: it is
\* valid, and covers the partitions whose protected fields are as it has them.
CoversAsMade ==
    \A s \in Signatures :
        Intact(s) /\ KeysOf(parts, signed[s].by) # {} =>
            /\ ManifestVerdict(s) = "valid"
            /\ parts[s].data.manifest.signer = signed[s].by
            /\ Entries(s) = EntriesOf(signed[s].as)
            /\ \A u \in DOMAIN parts \cap DOMAIN signed[s].as :
                    SignedEntry(parts[u]) = SignedEntry(signed[s].as[u])
                        => u \in Covered(signed[s].by)

LEMMA AsMadeCovers == SigInv => CoversAsMade
<1> SUFFICES ASSUME SigInv, NEW s \in Signatures,
                    Intact(s), KeysOf(parts, signed[s].by) # {}
             PROVE  /\ ManifestVerdict(s) = "valid"
                    /\ parts[s].data.manifest.signer = signed[s].by
                    /\ Entries(s) = EntriesOf(signed[s].as)
                    /\ \A u \in DOMAIN parts \cap DOMAIN signed[s].as :
                        SignedEntry(parts[u]) = SignedEntry(signed[s].as[u])
                            => u \in Covered(signed[s].by)
  BY DEF CoversAsMade
<1> DEFINE x == signed[s]
<1>1. ManifestVerdict(s) = "valid" /\ Entries(s) = EntriesOf(x.as)
  BY SignatureValid DEF Entries
<1>2. SigGood(s, parts[s], written[s], x)
  BY DEF SigInv, Signatures, Good
<1>3. parts[s].data.manifest.signer = x.by
  <2>1. parts[s].data = Made(x)
    BY <1>2 DEF Intact, SigGood
  <2> QED
    BY <2>1 DEF Made, Signature, Manifest
<1>4. ASSUME NEW u \in DOMAIN parts \cap DOMAIN x.as,
             SignedEntry(parts[u]) = SignedEntry(x.as[u])
      PROVE  u \in Covered(x.by)
  <2>1. u \in DOMAIN Entries(s) /\ Entries(s)[u] = SignedEntry(x.as[u])
    BY <1>1, <1>4 DEF EntriesOf
  <2>2. SignedEntry(x.as[u]).algo = x.as[u].algo /\ x.as[u].algo \in Crypto
    BY <1>2, <1>4 DEF SigGood, Eligible, SignedEntry
  <2>3. EntryVerdict(u, Entries(s)[u]) = "valid"
    BY <1>4, <2>1, <2>2 DEF EntryVerdict, Protected
  <2> QED
    BY <1>1, <1>3, <1>4, <2>1, <2>3 DEF Covered
<1> QED
  BY <1>1, <1>3, <1>4

\* What a signature covers stays covered when something is added.
LEMMA CoveredStays ==
    ASSUME Extends(parts, parts'), NEW k
    PROVE  Covered(k) \subseteq Covered(k)'
<1> SUFFICES ASSUME NEW u \in Covered(k)
             PROVE  u \in Covered(k)'
  OBVIOUS
<1>1. PICK s \in Signatures :
            /\ u \in DOMAIN parts
            /\ ManifestVerdict(s) = "valid" /\ parts[s].data.manifest.signer = k
            /\ u \in DOMAIN Entries(s) /\ EntryVerdict(u, Entries(s)[u]) = "valid"
  BY DEF Covered
<1>2. s \in Signatures' /\ parts'[s] = parts[s] /\ s \in DOMAIN parts
  BY DEF Signatures, Extends
<1>3. ManifestVerdict(s)' = "valid" /\ Entries(s)' = Entries(s)
  BY <1>1, <1>2, EntriesStay
<1>4. u \in DOMAIN parts' /\ parts'[u] = parts[u]
  BY <1>1 DEF Extends
<1>5. EntryVerdict(u, Entries(s)[u])' = "valid"
  BY <1>1, <1>3, <1>4 DEF EntryVerdict, Protected
<1> QED
  BY <1>1, <1>2, <1>3, <1>4, <1>5 DEF Covered

\* A new signature covers what it is of, as far as that is as it was.
LEMMA NewCovers ==
    ASSUME SigInv', Remember, NEW k, Signs(k), Addition(k), KeysOf(parts', k) # {},
           NEW s \in Signatures' \ Signatures
    PROVE  /\ ManifestVerdict(s)' = "valid"
           /\ parts'[s].data.manifest.signer = k
           /\ Entries(s)' = EntriesOf(signed'[s].as)
           /\ \A u \in DOMAIN parts' \cap DOMAIN signed'[s].as :
                SignedEntry(parts'[u]) = SignedEntry(signed'[s].as[u]) => u \in Covered(k)'
<1>1. (SigInv => CoversAsMade)'
  BY AsMadeCovers, PTL
<1>2. Intact(s)' /\ signed'[s].by = k
  BY NewSignature
<1>3. s \in Signatures'
  OBVIOUS
<1> QED
  BY <1>1, <1>2, <1>3 DEF CoversAsMade

\* Damage changes no protected field.
AsWritten == \A u \in DOMAIN parts : SignedEntry(parts[u]) = SignedEntry(written[u])

LEMMA EntriesAsWritten == SigInv => AsWritten
BY Fields DEF AsWritten, SigInv, Good

-----------------------------------------------------------------------------
\* After a call that signs all there is, everything is covered, ...
LEMMA AllCovered ==
    ASSUME SInv, SInv', Remember, NEW k, Signs(k), NEW sigUid, NEW keyUid, NEW resign,
           sigUid \notin DOMAIN parts, sigUid # keyUid, kind = "pcf", kind' = kind,
           SignPartitions(k, Uncovered(k, Signable, resign), sigUid, keyUid, TRUE)
    PROVE  /\ call'.ok
           /\ Uncovered(k, Signable, FALSE)' = {}
           /\ sigUid \in Signatures' \ Signatures
           /\ DOMAIN signed'[sigUid].as \subseteq DOMAIN parts
           /\ KeysOf(parts', k) # {} /\ Addition(k)
<1> DEFINE targets == Uncovered(k, Signable, resign)
           ps == KeyEnsured(parts, k, keyUid)
<1>1. /\ Addition(k) /\ KeysOf(parts', k) # {}
      /\ call'.op = "sign" /\ call'.targets = targets
      /\ call'.ok <=> (\A u \in targets : SignableIn(ps, u)) /\ sigUid \notin DOMAIN ps
      /\ call'.ok => sigUid \in Signatures' /\ sigUid \notin DOMAIN parts
  BY SignAdds
<1>2. targets \subseteq Signable /\ Signable \ Covered(k) \subseteq targets
  BY DEF Uncovered
<1>3. Extends(parts, ps) /\ DOMAIN ps \ DOMAIN parts \subseteq {keyUid}
  BY KeysOfSigned DEF SignPartitions
<1> HIDE DEF targets, ps
<1>4. call'.ok
  BY <1>1, <1>2, <1>3 DEF SignableIn, Signable, Extends
<1>5. sigUid \in Signatures' \ Signatures
  BY <1>1, <1>4 DEF Signatures
<1>6. signed'[sigUid].as = [u \in targets |-> written'[u]]
  BY <1>1, <1>5, NewSignature
<1>7. targets \subseteq DOMAIN parts /\ targets \subseteq DOMAIN parts'
  BY <1>1, <1>2 DEF Signable, Addition, Extends
<1>8. ASSUME NEW u \in targets
      PROVE  u \in Covered(k)'
  <2>1. (SigInv => AsWritten)'
    BY EntriesAsWritten, PTL
  <2>2. SignedEntry(parts'[u]) = SignedEntry(written'[u])
    BY <1>7, <2>1 DEF SInv, AsWritten
  <2>3. u \in DOMAIN signed'[sigUid].as /\ signed'[sigUid].as[u] = written'[u]
    BY <1>6
  <2> QED
    BY <1>1, <1>5, <1>7, <2>2, <2>3, NewCovers DEF SInv
<1>9. Signable' \subseteq Signable
  <2> SUFFICES ASSUME NEW u \in Signable'
               PROVE  u \in Signable
    OBVIOUS
  <2>1. u \in DOMAIN parts' /\ parts'[u].type = "raw" /\ parts'[u].algo \in Crypto
    BY DEF Signable
  <2>2. u \in DOMAIN parts
    BY <1>1, <2>1, PartitionFields DEF Addition
  <2> QED
    BY <1>1, <2>1, <2>2 DEF Signable, Addition, Extends
<1>10. Covered(k) \subseteq Covered(k)'
  BY <1>1, CoveredStays DEF Addition
<1>11. Uncovered(k, Signable, FALSE)' = {}
  <2>1. Signable' \subseteq Covered(k)'
    BY <1>2, <1>8, <1>9, <1>10
  <2> QED
    BY <2>1 DEF Uncovered
<1>12. DOMAIN signed'[sigUid].as \subseteq DOMAIN parts
  BY <1>6, <1>7
<1> QED
  BY <1>1, <1>4, <1>5, <1>11, <1>12

\* ... and if there was nothing wrong before, there is nothing wrong.
LEMMA AllInOrder ==
    ASSUME SInv, SInv', Remember, NEW k, Signs(k), Addition(k), KeysOf(parts', k) # {},
           call'.op = "sign",
           NEW sigUid \in Signatures' \ Signatures, Signatures' \subseteq Signatures \cup {sigUid},
           DOMAIN signed'[sigUid].as \subseteq DOMAIN parts,
           \A u \in DOMAIN parts : Intact(u),
           \A s \in Signatures : \A u \in DOMAIN signed[s].as : Accepts(s, u)
    PROVE  VerifyFile(k)'
<1>1. Extends(parts, parts')
  BY DEF Addition
<1>2. ASSUME NEW s \in Signatures
      PROVE  /\ ManifestVerdict(s)' = "valid"
             /\ \A u \in DOMAIN Entries(s)' : Accepts(s, u)'
  <2>1. PICK u \in DOMAIN signed[s].as : TRUE
    BY DEF SInv, KeysApart
  <2>2. ManifestVerdict(s) = "valid"
    BY <2>1 DEF Accepts, Entries
  <2>3. Entries(s) = EntriesOf(signed[s].as)
    BY <2>2, SignatureValid DEF SInv, Entries
  <2>4. ManifestVerdict(s)' = "valid" /\ Entries(s)' = Entries(s)
    BY <1>1, <2>2, EntriesStay DEF Signatures
  <2>5. DOMAIN Entries(s)' = DOMAIN signed[s].as
    BY <2>3, <2>4 DEF EntriesOf
  <2>6. \A v \in DOMAIN signed[s].as : Accepts(s, v)'
    BY <1>1, AcceptsStays DEF Signatures
  <2> QED
    BY <2>4, <2>5, <2>6
<1>3. /\ ManifestVerdict(sigUid)' = "valid"
      /\ parts'[sigUid].data.manifest.signer = k
      /\ Entries(sigUid)' = EntriesOf(signed'[sigUid].as)
  BY NewCovers DEF SInv
<1>4. signed'[sigUid].as = [u \in call'.targets |-> written'[u]]
  BY NewSignature
<1>5. ASSUME NEW u \in DOMAIN signed'[sigUid].as
      PROVE  Accepts(sigUid, u)'
  <2>1. u \in DOMAIN parts /\ Intact(u)
    OBVIOUS
  <2>2. u \in DOMAIN parts' /\ parts'[u] = parts[u] /\ written'[u] = written[u]
    BY <1>1, <2>1 DEF Extends, Remember, Rewritten
  <2>3. Intact(u)'
    BY <2>1, <2>2 DEF Intact
  <2>4. parts'[u] = signed'[sigUid].as[u]
    BY <1>4, <2>1, <2>2 DEF Intact
  <2> QED
    BY <2>3, <2>4, NewAccepted DEF SInv
<1>6. DOMAIN Entries(sigUid)' = DOMAIN signed'[sigUid].as
  BY <1>3 DEF EntriesOf
<1>7. ASSUME NEW s \in Signatures'
      PROVE  /\ ManifestVerdict(s)' = "valid"
             /\ \A u \in DOMAIN Entries(s)' : Accepts(s, u)'
  BY <1>2, <1>3, <1>5, <1>6, <1>7
<1> QED
  BY <1>3, <1>7 DEF VerifyFile

\* A call that finds nothing to sign leaves the file alone, and nothing uncovered.
LEMMA NothingUncovered ==
    ASSUME NEW k, NEW resign \in BOOLEAN, Uncovered(k, Signable, resign) = {},
           NothingToSign(k, TRUE), UNCHANGED <<kind, plan>>
    PROVE  /\ call'.ok /\ call'.targets = {}
           /\ Uncovered(k, Signable, FALSE)' = {}
<1>1. parts' = parts /\ call'.ok /\ call'.targets = {}
  BY DEF NothingToSign
<1>2. Uncovered(k, Signable, FALSE) = {}
  BY DEF Uncovered
<1>3. Signable' = Signable /\ Covered(k)' = Covered(k)
  BY <1>1 DEF Signable, Covered, Signatures, ManifestVerdict, KeysOf, Entries, EntryVerdict,
              Protected
<1> QED
  BY <1>1, <1>2, <1>3 DEF Uncovered

LEMMA SignAllConverges ==
    ASSUME SInv, SInv', HNext, NEW k, call'.op = "sign", call'.key = k, call'.all
    PROVE  /\ call'.ok
           /\ Uncovered(k, Signable, FALSE)' = {}
           /\ call'.targets # {} /\ (\A u \in DOMAIN parts : Intact(u))
              /\ (\A s \in Signatures : \A u \in DOMAIN signed[s].as : Accepts(s, u))
                => VerifyFile(k)'
<1>1. Signs(k) /\ Remember /\ SignSteps(k)
  BY CallsThatSign DEF Signs, HNext
<1>2. ASSUME NEW targets, NEW sigUid, NEW keyUid,
             SignPartitions(k, targets, sigUid, keyUid, FALSE)
      PROVE  FALSE
  <2>1. call'.all = FALSE
    BY <1>2, SignAdds
  <2> QED
    BY <2>1
<1>3. ASSUME NEW sigUid, NEW keyUid, SignCommit(k, sigUid, keyUid)
      PROVE  FALSE
  BY <1>3 DEF SignCommit
<1>4. ASSUME NEW resign \in BOOLEAN, Uncovered(k, Signable, resign) = {},
             NothingToSign(k, TRUE), UNCHANGED <<kind, plan>>
      PROVE  /\ call'.ok /\ call'.targets = {}
             /\ Uncovered(k, Signable, FALSE)' = {}
  BY <1>4, NothingUncovered
<1>5. ASSUME NEW given, NEW resign \in BOOLEAN, NEW sigUid, NEW keyUid,
             SignFile(k, given, resign, sigUid, keyUid)
      PROVE  /\ call'.ok
             /\ Uncovered(k, Signable, FALSE)' = {}
             /\ call'.targets # {} /\ (\A u \in DOMAIN parts : Intact(u))
                /\ (\A s \in Signatures : \A u \in DOMAIN signed[s].as : Accepts(s, u))
                => VerifyFile(k)'
  <2> DEFINE all == given = {}
             targets == Uncovered(k, IF all THEN Signable ELSE given, resign)
  <2>1. /\ kind = "pcf" /\ UNCHANGED <<kind, plan>>
        /\ sigUid \notin DOMAIN parts /\ sigUid # keyUid
        /\ \/ targets = {} /\ NothingToSign(k, all)
           \/ targets # {} /\ SignPartitions(k, targets, sigUid, keyUid, all)
    BY <1>5 DEF SignFile
  <2>2. all = TRUE \/ all = FALSE
    OBVIOUS
  <2> HIDE DEF all, targets
  <2>3. call'.all = all
    <3>1. \A a : NothingToSign(k, a) => call'.all = a
      BY DEF NothingToSign
    <3>2. \A a, t : SignPartitions(k, t, sigUid, keyUid, a) => call'.all = a
      BY DEF SignPartitions
    <3> QED
      BY <2>1, <3>1, <3>2, Zenon
  <2>4. all = TRUE
    BY <2>2, <2>3
  <2>5. targets = Uncovered(k, Signable, resign)
    BY <2>4 DEF all, targets
  <2>6. CASE targets = {}
    BY <1>4, <2>1, <2>4, <2>5, <2>6
  <2>7. CASE targets # {}
    <3>1. SignPartitions(k, Uncovered(k, Signable, resign), sigUid, keyUid, TRUE)
      BY <2>1, <2>4, <2>5, <2>7
    <3>2. /\ call'.ok
          /\ Uncovered(k, Signable, FALSE)' = {}
          /\ sigUid \in Signatures' \ Signatures
          /\ DOMAIN signed'[sigUid].as \subseteq DOMAIN parts
          /\ KeysOf(parts', k) # {} /\ Addition(k)
      BY <1>1, <2>1, <3>1, AllCovered
    <3>3. Signatures' \subseteq Signatures \cup {sigUid}
      BY <3>1, SignAdds
    <3> QED
      BY <1>1, <3>2, <3>3, AllInOrder
  <2> QED
    BY <2>6, <2>7
<1> QED
  BY <1>1, <1>2, <1>3, <1>4, <1>5 DEF SignSteps

\* What `pfs sign` read is covered once it is committed, as far as it is still so.
LEMMA CommitCovers ==
    ASSUME SInv, SInv', HNext, NEW k, call'.op = "commit", call'.key = k,
           KeysOf(parts', k) # {}, NEW u \in DOMAIN parts', u \in call'.targets,
           SignedEntry(parts'[u]) = plan[k].entries[u]
    PROVE  u \in Covered(k)'
<1>1. Signs(k) /\ Remember /\ SignSteps(k)
  BY CallsThatSign DEF Signs, HNext
<1>2. ASSUME NEW all, NothingToSign(k, all)
      PROVE  FALSE
  BY <1>2 DEF NothingToSign
<1>3. ASSUME NEW targets, NEW sigUid, NEW keyUid, NEW all,
             SignPartitions(k, targets, sigUid, keyUid, all)
      PROVE  FALSE
  BY <1>3, SignAdds
<1>4. PICK sigUid, keyUid : SignCommit(k, sigUid, keyUid)
  <2>1. ASSUME NEW given, NEW resign, NEW sigUid, NEW keyUid,
               SignFile(k, given, resign, sigUid, keyUid)
        PROVE  FALSE
    BY <1>2, <1>3, <2>1 DEF SignFile
  <2> QED
    BY <1>1, <1>2, <1>3, <2>1 DEF SignSteps
<1>5. /\ Addition(k) /\ call'.targets = DOMAIN plan[k].entries
      /\ Signatures' = Signatures \cup {sigUid} /\ sigUid \notin DOMAIN parts
  BY <1>4, CommitAdds DEF SInv
<1>6. sigUid \in Signatures' \ Signatures
  BY <1>5 DEF Signatures
<1>7. signed'[sigUid].as = asRead[k]
  BY <1>1, <1>5, <1>6, NewSignature
<1>8. PlanGood(k)
  BY <1>4 DEF SignCommit, SInv, SigInv
<1>9. u \in DOMAIN asRead[k] /\ plan[k].entries[u] = SignedEntry(asRead[k][u])
  BY <1>5, <1>8 DEF PlanGood, EntriesOf
<1> QED
  BY <1>1, <1>5, <1>6, <1>7, <1>9, NewCovers DEF SInv

LEMMA StepConverges ==
    SInv /\ SInv' /\ [HNext]_hvars =>
       [\A k \in Key :
        /\ call'.op = "sign" /\ call'.key = k /\ call'.all =>
            /\ call'.ok
            /\ Uncovered(k, Signable, FALSE)' = {}
            /\ call'.targets # {} /\ (\A u \in DOMAIN parts : Intact(u))
               /\ (\A s \in Signatures : \A u \in DOMAIN signed[s].as : Accepts(s, u))
                    => VerifyFile(k)'
        /\ call'.op = "commit" /\ call'.key = k /\ KeysOf(parts', k) # {} =>
            \A u \in DOMAIN parts' :
                u \in call'.targets /\ SignedEntry(parts'[u]) = plan[k].entries[u]
                    => (u \in Covered(k))']_hvars
<1> SUFFICES ASSUME SInv, SInv', HNext, NEW k \in Key
             PROVE
        /\ call'.op = "sign" /\ call'.key = k /\ call'.all =>
            /\ call'.ok
            /\ Uncovered(k, Signable, FALSE)' = {}
            /\ call'.targets # {} /\ (\A u \in DOMAIN parts : Intact(u))
               /\ (\A s \in Signatures : \A u \in DOMAIN signed[s].as : Accepts(s, u))
                    => VerifyFile(k)'
        /\ call'.op = "commit" /\ call'.key = k /\ KeysOf(parts', k) # {} =>
            \A u \in DOMAIN parts' :
                u \in call'.targets /\ SignedEntry(parts'[u]) = plan[k].entries[u]
                    => (u \in Covered(k))'
  OBVIOUS
<1>1. call'.op = "sign" /\ call'.key = k /\ call'.all =>
            /\ call'.ok
            /\ Uncovered(k, Signable, FALSE)' = {}
            /\ call'.targets # {} /\ (\A u \in DOMAIN parts : Intact(u))
               /\ (\A s \in Signatures : \A u \in DOMAIN signed[s].as : Accepts(s, u))
                    => VerifyFile(k)'
  BY SignAllConverges
<1>2. call'.op = "commit" /\ call'.key = k /\ KeysOf(parts', k) # {} =>
            \A u \in DOMAIN parts' :
                u \in call'.targets /\ SignedEntry(parts'[u]) = plan[k].entries[u]
                    => (u \in Covered(k))'
  BY CommitCovers
<1> QED
  BY <1>1, <1>2

\* Signing all there is succeeds and leaves nothing to sign, in any file these
\* calls and any damage can produce, and what was in order is in order after it.
THEOREM SigningAllConverges == HSpec => SigningConverges
BY InitApart, StepKeepsApart, StepConverges, PTL DEF HSpec, SigningConverges

-----------------------------------------------------------------------------
(***************************************************************************)
(* Replacing a file: why it is whole at every moment, for any number of    *)
(* runs of the tools, any failures and deaths, and any power failures.     *)
(*                                                                         *)
(* A directory that may be on the disk must be as good as the one programs *)
(* see, since a power failure makes it the one they see.  The invariant    *)
(* therefore speaks of all of them: the names of a target are bound to     *)
(* data that is whole and on the disk, and no temporary file, which is     *)
(* what a run truncates and writes, is bound to a target in any of them.   *)
(* A run's own file stays its own because a name holds the process id and  *)
(* two live runs have two.                                                 *)
(***************************************************************************)
Jobs == [tool : Tools \cup {"none"}, target : Targets, pid : Pids \cup {0},
         tmp : TempNames \cup {<<>>}, fd : Inodes, image : Nat \cup {Torn}, old : Inodes]

TypeOK ==
    /\ dir \in pending
    /\ data \in [Inodes -> Nat \cup {Torn}]
    /\ synced \in SUBSET Inodes
    /\ pc \in [Runs -> {"idle", "ok", "error", "dead"} \cup Working]
    /\ job \in [Runs -> Jobs]
    /\ latest \in Nat
    /\ durable \in SUBSET Runs

\* What is so of every directory that may be on the disk.
DirGood(d) ==
    /\ DOMAIN d \subseteq Targets \cup TempNames
    /\ \A n \in DOMAIN d : d[n] \in Inodes
    /\ \A m, n \in DOMAIN d : d[m] = d[n] => m = n
    /\ Archive \in DOMAIN d
    /\ \A t \in Targets \cap DOMAIN d : d[t] \in synced /\ data[d[t]] # Torn
DirsGood == \A d \in pending : DirGood(d)

\* What runs write is not what any of the directories calls a target ...
Apart ==
    \A d \in pending : \A t \in Targets \cap DOMAIN d, n \in TempNames \cap DOMAIN dir :
        d[t] # dir[n]

\* ... and what they create is in none.
Unborn ==
    \A r \in Runs : pc[r] \in {"idle", "create"} =>
        \A d \in pending : \A n \in DOMAIN d : d[n] # r

\* How far a run's temporary file is.
RunGood(r) ==
    /\ pc[r] \in {"create", "write", "sync", "rename"} => job[r].image = latest
    /\ pc[r] \in {"write", "sync", "rename"} =>
        /\ job[r].tmp \in TempsOf(r) \cap DOMAIN dir
        /\ dir[job[r].tmp] = job[r].fd
    /\ pc[r] \in {"sync", "rename"} => data[job[r].fd] = job[r].image
    /\ pc[r] = "rename" => job[r].fd \in synced
RunsGood == \A r \in Runs : RunGood(r)

OwnPid == \A r, s \in Runs : Live(r) /\ Live(s) /\ job[r].pid = job[s].pid => r = s

Current == data[dir[Archive]] = latest

\* What a run has replaced is not in d, nor will it be created again.
Gone(r, d) ==
    /\ job[r].target \in DOMAIN d
    /\ job[r].old # r => \A n \in DOMAIN d : d[n] # job[r].old
Replaced ==
    \A r \in Runs :
        /\ pc[r] = "dirsync" \/ r \in durable =>
            /\ Gone(r, dir)
            /\ job[r].old \in Runs \ {r} => pc[job[r].old] \notin {"idle", "create"}
        /\ r \in durable => pc[r] \in {"ok", "dead"} /\ \A d \in pending : Gone(r, d)

\* Whose the temporary files of pcf-compact are, in any directory.
Owned ==
    \A d \in pending : \A n \in TempNames \cap DOMAIN d :
        n[1] = "pcf-compact" => d[n] \in Runs /\ job[d[n]].tmp = n

IInv ==
    /\ TypeOK /\ DirsGood /\ Apart /\ Unborn /\ RunsGood /\ OwnPid /\ Current
    /\ Replaced /\ Owned /\ CleanedUp

-----------------------------------------------------------------------------
(* A new host.                                                             *)

\* The names of targets and of temporary files.
LEMMA NamesApart ==
    /\ Targets \cap TempNames = {} /\ Targets \cap Runs = {}
    /\ Archive \in Targets /\ Torn \notin Nat
    /\ Inodes = Targets \cup Runs
BY ReplaceAssumption DEF Targets, Inodes

LEMMA InitEstablishes == FInit => IInv
<1> SUFFICES ASSUME FInit PROVE IInv
  OBVIOUS
<1>1. /\ DOMAIN dir \subseteq Targets /\ Archive \in DOMAIN dir
      /\ \A n \in DOMAIN dir : dir[n] = n
      /\ pending = {dir} /\ synced = Inodes /\ latest = 0 /\ durable = {}
      /\ data = [i \in Inodes |-> IF i \in Targets THEN 0 ELSE Torn]
      /\ pc = [r \in Runs |-> "idle"] /\ job = [r \in Runs |-> NoJob]
  BY DEF FInit, Targets
<1>2. TypeOK
  <2>1. NoJob \in Jobs
    BY NamesApart DEF NoJob, Jobs
  <2> QED
    BY <1>1, <2>1, NamesApart DEF TypeOK
<1>3. DirsGood
  BY <1>1, NamesApart DEF DirsGood, DirGood
<1>4. Apart /\ CleanedUp /\ Owned
  BY <1>1, NamesApart DEF Apart, CleanedUp, Owned
<1>5. Unborn
  BY <1>1, NamesApart DEF Unborn
<1>6. RunsGood /\ OwnPid /\ Replaced
  BY <1>1 DEF RunsGood, RunGood, OwnPid, Live, Working, Replaced
<1>7. Current
  BY <1>1, NamesApart DEF Current
<1> QED
  BY <1>2, <1>3, <1>4, <1>5, <1>6, <1>7 DEF IInv

-----------------------------------------------------------------------------
(* What other runs do does not disturb a run.                              *)

\* Two live runs have two temporary names, since they have two process ids.
LEMMA NamesOwn ==
    ASSUME IInv, NEW r \in Runs, NEW s \in Runs, r # s, Live(r), Live(s), NEW n \in TempsOf(s)
    PROVE  n \notin TempsOf(r)
BY DEF IInv, OwnPid, TempsOf

\* The file a run writes is bound to its temporary name alone.
LEMMA FileOwn ==
    ASSUME IInv, NEW r \in Runs, pc[r] \in {"write", "sync", "rename"}
    PROVE  /\ job[r].tmp \in TempNames \cap DOMAIN dir /\ job[r].tmp \notin Targets
           /\ job[r].tmp \in TempsOf(r) /\ Live(r)
           /\ dir[job[r].tmp] = job[r].fd /\ job[r].fd \in Inodes
           /\ \A d \in pending : \A t \in Targets \cap DOMAIN d : d[t] # job[r].fd
           /\ \A s \in Runs \ {r} : pc[s] \in {"write", "sync", "rename"} =>
                job[s].tmp # job[r].tmp /\ job[s].fd # job[r].fd
<1>1. /\ job[r].tmp \in TempsOf(r) /\ job[r].tmp \in DOMAIN dir /\ Live(r)
      /\ dir[job[r].tmp] = job[r].fd
  BY DEF IInv, RunsGood, RunGood, Live, Working
<1>2. job[r].tmp \in TempNames /\ job[r].tmp \notin Targets
  BY <1>1, NamesApart DEF TempsOf
<1>3. DirGood(dir)
  BY DEF IInv, DirsGood, TypeOK
<1>4. job[r].fd \in Inodes
  BY <1>1, <1>3 DEF DirGood
<1>5. \A d \in pending : \A t \in Targets \cap DOMAIN d : d[t] # job[r].fd
  BY <1>1, <1>2 DEF IInv, Apart
<1>6. ASSUME NEW s \in Runs \ {r}, pc[s] \in {"write", "sync", "rename"}
      PROVE  job[s].tmp # job[r].tmp /\ job[s].fd # job[r].fd
  <2>1. /\ job[s].tmp \in TempsOf(s) /\ job[s].tmp \in DOMAIN dir /\ Live(s)
        /\ dir[job[s].tmp] = job[s].fd
    BY <1>6 DEF IInv, RunsGood, RunGood, Live, Working
  <2>2. job[s].tmp # job[r].tmp
    BY <1>1, <1>6, <2>1, NamesOwn
  <2> QED
    BY <1>1, <1>3, <2>1, <2>2 DEF DirGood
<1> QED
  BY <1>1, <1>2, <1>4, <1>5, <1>6

-----------------------------------------------------------------------------
(* The steps that change no directory.                                     *)

\* Only the run's own place in its program changes, and it goes no further.
LEMMA EndKeeps ==
    ASSUME IInv, NEW r \in Runs, NEW end \in {"error", "dead"},
           pc' = [pc EXCEPT ![r] = end], pc[r] \notin {"write", "sync", "rename"} \/ end = "dead",
           pc[r] \notin {"ok", "error", "dead"},
           UNCHANGED <<dir, pending, data, synced, job, latest, durable>>
    PROVE  IInv'
<1>1. /\ TypeOK' /\ DirsGood' /\ Apart' /\ Current' /\ Owned'
  BY DEF IInv, TypeOK, DirsGood, DirGood, Apart, Current, Owned, Working
<1>2. /\ pc'[r] = end /\ \A s \in Runs \ {r} : pc'[s] = pc[s]
      /\ \A s \in Runs : Live(s)' => Live(s)
  BY DEF IInv, TypeOK, Live, Working
<1>3. Unborn'
  BY <1>2 DEF IInv, Unborn
<1>4. RunsGood'
  BY <1>2 DEF IInv, RunsGood, RunGood, TempsOf
<1>5. OwnPid'
  BY <1>2 DEF IInv, OwnPid
<1>6. Replaced'
  BY <1>2 DEF IInv, Replaced, Gone
<1>7. CleanedUp'
  BY <1>2 DEF IInv, CleanedUp
<1> QED
  BY <1>1, <1>3, <1>4, <1>5, <1>6, <1>7 DEF IInv

\* The image is of what the archive holds.
LEMMA StartKeeps ==
    ASSUME IInv, NEW r \in Runs, NEW tool \in Tools, NEW target \in Targets, NEW pid \in Pids,
           Start(r, tool, target, pid)
    PROVE  IInv'
<1> DEFINE j == [NoJob EXCEPT !.tool = tool, !.target = target, !.pid = pid,
                              !.image = data[dir[Archive]]]
<1>1. /\ pc[r] = "idle" /\ job' = [job EXCEPT ![r] = j]
      /\ \A s \in Runs : Live(s) => job[s].pid # pid
      /\ UNCHANGED <<dir, pending, data, synced, latest, durable>>
  BY DEF Start
<1>2. PICK next \in {"error", "create"} : pc' = [pc EXCEPT ![r] = next]
  BY DEF Start
<1>3. /\ j.tool = tool /\ j.target = target /\ j.pid = pid /\ j.tmp = <<>>
      /\ j.fd = Archive /\ j.image = latest /\ j.old = Archive /\ j \in Jobs
  <2>1. data[dir[Archive]] = latest /\ latest \in Nat
    BY DEF IInv, Current, TypeOK
  <2> QED
    BY <2>1, NamesApart DEF NoJob, Jobs
<1> HIDE DEF j
<1>4. /\ pc'[r] = next /\ job'[r] = j
      /\ \A s \in Runs \ {r} : pc'[s] = pc[s] /\ job'[s] = job[s]
  BY <1>1, <1>2 DEF IInv, TypeOK
<1>5. TypeOK' /\ DirsGood' /\ Apart' /\ Current'
  BY <1>1, <1>2, <1>3 DEF IInv, TypeOK, DirsGood, DirGood, Apart, Current, Working
<1>6. Unborn'
  BY <1>1, <1>4 DEF IInv, Unborn
<1>7. RunsGood'
  BY <1>1, <1>3, <1>4 DEF IInv, RunsGood, RunGood, TempsOf
<1>8. OwnPid'
  BY <1>1, <1>3, <1>4 DEF IInv, OwnPid, Live, Working
<1>9. Replaced'
  <2>1. r \notin durable
    BY <1>1 DEF IInv, Replaced
  <2> QED
    BY <1>1, <1>4, <2>1 DEF IInv, Replaced, Gone
<1>10. Owned' /\ CleanedUp'
  <2>1. \A d \in pending : \A n \in DOMAIN d : d[n] # r
    BY <1>1 DEF IInv, Unborn
  <2>2. dir \in pending
    BY DEF IInv, TypeOK
  <2> QED
    BY <1>1, <1>4, <2>1, <2>2 DEF IInv, Owned, CleanedUp
<1> QED
  BY <1>5, <1>6, <1>7, <1>8, <1>9, <1>10 DEF IInv

\* Only the temporary file is written.
LEMMA WriteKeeps ==
    ASSUME IInv, NEW r \in Runs, Write(r)
    PROVE  IInv'
<1>1. /\ pc[r] = "write" /\ pc' = [pc EXCEPT ![r] = "sync"]
      /\ data' = [data EXCEPT ![job[r].fd] = job[r].image]
      /\ UNCHANGED <<dir, pending, synced, job, latest, durable>>
  BY DEF Write
<1>2. /\ pc'[r] = "sync" /\ \A s \in Runs \ {r} : pc'[s] = pc[s]
      /\ job[r].image = latest
  BY <1>1 DEF IInv, TypeOK, RunsGood, RunGood
<1>3. /\ job[r].fd \in Inodes
      /\ data'[job[r].fd] = job[r].image
      /\ \A i \in Inodes : i # job[r].fd => data'[i] = data[i]
  BY <1>1, FileOwn DEF IInv, TypeOK
<1>4. TypeOK'
  BY <1>1, <1>2 DEF IInv, TypeOK, Working
<1>5. \A d \in pending : \A t \in Targets \cap DOMAIN d : data'[d[t]] = data[d[t]]
  <2>1. \A d \in pending : \A t \in Targets \cap DOMAIN d : d[t] # job[r].fd /\ d[t] \in Inodes
    BY <1>1, FileOwn DEF IInv, DirsGood, DirGood
  <2> QED
    BY <1>3, <2>1
<1>6. DirsGood' /\ Current'
  BY <1>1, <1>5, NamesApart DEF IInv, DirsGood, DirGood, Current, TypeOK
<1>7. Apart' /\ Owned'
  BY <1>1 DEF IInv, Apart, Owned
<1>8. Unborn'
  BY <1>1, <1>2 DEF IInv, Unborn
<1>9. RunsGood'
  <2>1. \A s \in Runs \ {r} : pc[s] \in {"sync", "rename"} =>
            job[s].fd # job[r].fd /\ job[s].fd \in Inodes
    BY <1>1, FileOwn
  <2> QED
    BY <1>1, <1>2, <1>3, <2>1 DEF IInv, RunsGood, RunGood, TempsOf
<1>10. OwnPid'
  BY <1>1, <1>2 DEF IInv, OwnPid, Live, Working
<1>11. Replaced'
  BY <1>1, <1>2 DEF IInv, Replaced, Gone
<1>12. CleanedUp'
  BY <1>1, <1>2 DEF IInv, CleanedUp
<1> QED
  BY <1>4, <1>6, <1>7, <1>8, <1>9, <1>10, <1>11, <1>12 DEF IInv

LEMMA SyncKeeps ==
    ASSUME IInv, NEW r \in Runs, Sync(r)
    PROVE  IInv'
<1>1. /\ pc[r] = "sync" /\ pc' = [pc EXCEPT ![r] = "rename"]
      /\ synced' = synced \cup {job[r].fd}
      /\ UNCHANGED <<dir, pending, data, job, latest, durable>>
  BY DEF Sync
<1>2. /\ pc'[r] = "rename" /\ \A s \in Runs \ {r} : pc'[s] = pc[s]
      /\ job[r].fd \in Inodes
  BY <1>1, FileOwn DEF IInv, TypeOK
<1>3. TypeOK'
  BY <1>1, <1>2 DEF IInv, TypeOK, Working
<1>4. DirsGood' /\ Current' /\ Apart' /\ Owned'
  BY <1>1 DEF IInv, DirsGood, DirGood, Current, Apart, Owned
<1>5. Unborn'
  BY <1>1, <1>2 DEF IInv, Unborn
<1>6. RunsGood'
  BY <1>1, <1>2 DEF IInv, RunsGood, RunGood, TempsOf
<1>7. OwnPid'
  BY <1>1, <1>2 DEF IInv, OwnPid, Live, Working
<1>8. Replaced'
  BY <1>1, <1>2 DEF IInv, Replaced, Gone
<1>9. CleanedUp'
  BY <1>1, <1>2 DEF IInv, CleanedUp
<1> QED
  BY <1>3, <1>4, <1>5, <1>6, <1>7, <1>8, <1>9 DEF IInv

\* The fsync of the directory, which may do nothing.
LEMMA DirSyncKeeps ==
    ASSUME IInv, NEW r \in Runs, DirSync(r)
    PROVE  IInv'
<1>1. /\ pc[r] = "dirsync" /\ pc' = [pc EXCEPT ![r] = "ok"]
      /\ UNCHANGED <<dir, data, synced, job, latest>>
      /\ \/ pending' = {dir} /\ durable' = durable \cup {r}
         \/ UNCHANGED <<pending, durable>>
  BY DEF DirSync
<1>2. /\ pc'[r] = "ok" /\ \A s \in Runs \ {r} : pc'[s] = pc[s]
      /\ dir \in pending /\ dir \in pending' /\ pending' \subseteq pending
  BY <1>1 DEF IInv, TypeOK
<1>3. TypeOK'
  BY <1>1 DEF IInv, TypeOK, Working
<1>4. DirsGood' /\ Current' /\ Apart' /\ Owned'
  BY <1>1, <1>2 DEF IInv, DirsGood, DirGood, Current, Apart, Owned
<1>5. Unborn'
  BY <1>1, <1>2 DEF IInv, Unborn
<1>6. RunsGood'
  BY <1>1, <1>2 DEF IInv, RunsGood, RunGood, TempsOf
<1>7. OwnPid'
  BY <1>1, <1>2 DEF IInv, OwnPid, Live, Working
<1>8. Replaced'
  <2>1. Gone(r, dir) /\ (job[r].old \in Runs \ {r} => pc[job[r].old] \notin {"idle", "create"})
    BY <1>1 DEF IInv, Replaced
  <2>2. \A s \in Runs : s \in durable => s # r
    BY <1>1 DEF IInv, Replaced
  <2> QED
    BY <1>1, <1>2, <2>1, <2>2 DEF IInv, Replaced, Gone
<1>9. CleanedUp'
  BY <1>1, <1>2 DEF IInv, CleanedUp
<1> QED
  BY <1>3, <1>4, <1>5, <1>6, <1>7, <1>8, <1>9 DEF IInv

\* Nobody compacts while the archive is edited.
LEMMA EditKeeps ==
    ASSUME IInv, Edit
    PROVE  IInv'
<1>1. /\ \A r \in Runs : ~Live(r)
      /\ data' = [data EXCEPT ![dir[Archive]] = latest + 1] /\ latest' = latest + 1
      /\ UNCHANGED <<dir, pending, synced, pc, job, durable>>
  BY DEF Edit
<1>2. /\ dir[Archive] \in Inodes /\ latest + 1 \in Nat
      /\ data'[dir[Archive]] = latest'
      /\ \A i \in Inodes : data'[i] = data[i] \/ data'[i] = latest + 1
  BY <1>1 DEF IInv, TypeOK, DirsGood, DirGood
<1>3. TypeOK'
  BY <1>1, <1>2 DEF IInv, TypeOK
<1>4. DirsGood'
  BY <1>1, <1>2, NamesApart DEF IInv, DirsGood, DirGood
<1>5. Current' /\ Apart' /\ Owned' /\ Unborn' /\ Replaced' /\ CleanedUp'
  BY <1>1, <1>2 DEF IInv, Current, Apart, Owned, Unborn, Replaced, Gone, CleanedUp
<1>6. RunsGood' /\ OwnPid'
  BY <1>1 DEF RunsGood, RunGood, OwnPid, Live, Working
<1> QED
  BY <1>3, <1>4, <1>5, <1>6 DEF IInv

-----------------------------------------------------------------------------
(* The steps that change directories.                                      *)

\* The name that is taken over is no live run's, the new file is in no directory.
LEMMA CreatedKeeps ==
    ASSUME IInv, NEW r \in Runs, pc[r] = "create", NEW n \in TempsOf(r),
           ~(job[r].tool = "pcf-compact" /\ n \in DOMAIN dir), Created(r, n)
    PROVE  IInv'
<1> DEFINE i == IF n \in DOMAIN dir THEN dir[n] ELSE r
           d1 == Linked(dir, n, i)
<1>1. /\ dir' = d1 /\ pending' = pending \cup {d1}
      /\ data' = [data EXCEPT ![i] = Torn] /\ synced' = synced \ {i}
      /\ job' = [job EXCEPT ![r].tmp = n, ![r].fd = i]
      /\ pc' = [pc EXCEPT ![r] = "write"]
      /\ UNCHANGED <<latest, durable>>
  BY DEF Created, Relink
<1>2. /\ n \in TempNames /\ n \notin Targets
      /\ n[1] = job[r].tool /\ n[2] = job[r].target /\ n[3] = job[r].pid
  BY NamesApart DEF TempsOf
<1>3. dir \in pending /\ DirGood(dir) /\ \A d \in pending : DirGood(d)
  BY DEF IInv, TypeOK, DirsGood
<1>4. \A d \in pending : \A m \in DOMAIN d : d[m] # r
  BY DEF IInv, Unborn
<1>5. /\ i \in Inodes
      /\ \A d \in pending : \A t \in Targets \cap DOMAIN d : d[t] # i
      /\ \A m \in DOMAIN dir : dir[m] = i => m = n
  <2>1. CASE n \in DOMAIN dir
    BY <1>2, <1>3, <2>1 DEF IInv, Apart, DirGood
  <2>2. CASE n \notin DOMAIN dir
    BY <1>3, <1>4, <2>2, NamesApart
  <2> QED
    BY <2>1, <2>2
<1>6. i = r \/ \E m \in DOMAIN dir : dir[m] = i
  OBVIOUS
<1> HIDE DEF i
<1>7. /\ DOMAIN d1 = DOMAIN dir \cup {n} /\ d1[n] = i
      /\ \A m \in DOMAIN dir : m # n => d1[m] = dir[m]
  BY DEF Linked
<1> HIDE DEF d1
<1>8. /\ pc'[r] = "write" /\ \A s \in Runs \ {r} : pc'[s] = pc[s] /\ job'[s] = job[s]
      /\ job'[r].tmp = n /\ job'[r].fd = i
      /\ job'[r].tool = job[r].tool /\ job'[r].target = job[r].target
      /\ job'[r].pid = job[r].pid /\ job'[r].image = job[r].image /\ job'[r].old = job[r].old
      /\ job' \in [Runs -> Jobs]
  <2>1. job[r] \in Jobs /\ job \in [Runs -> Jobs] /\ pc \in [Runs -> {"idle", "ok", "error", "dead"} \cup Working]
    BY DEF IInv, TypeOK
  <2>2. [job[r] EXCEPT !.tmp = n, !.fd = i] \in Jobs
    BY <1>2, <1>5, <2>1 DEF Jobs
  <2>3. job' = [job EXCEPT ![r] = [job[r] EXCEPT !.tmp = n, !.fd = i]]
    BY <1>1, <2>1
  <2>4. job'[r] = [job[r] EXCEPT !.tmp = n, !.fd = i]
    BY <2>1, <2>3
  <2> QED
    BY <1>1, <2>1, <2>2, <2>3, <2>4 DEF Jobs
<1>9. \A j \in Inodes : j # i => data'[j] = data[j]
  BY <1>1 DEF IInv, TypeOK
<1>10. TypeOK'
  BY <1>1, <1>5, <1>8 DEF IInv, TypeOK, Working
<1>11. DirsGood'
  <2>1. ASSUME NEW d \in pending PROVE DirGood(d)'
    BY <1>1, <1>3, <1>5, <1>9, <2>1 DEF DirGood
  <2>2. ASSUME NEW d, d = d1 PROVE DirGood(d)'
    <3>1. \A t \in Targets \cap DOMAIN d : t \in DOMAIN dir /\ t # n /\ d[t] = dir[t]
      BY <1>2, <1>7, <2>2
    <3>2. \A t \in Targets \cap DOMAIN d : d[t] \in synced' /\ data'[d[t]] # Torn
      BY <1>1, <1>3, <1>5, <1>9, <3>1 DEF DirGood
    <3>3. \A l, m \in DOMAIN d : d[l] = d[m] => l = m
      BY <1>3, <1>5, <1>7, <2>2 DEF DirGood
    <3> QED
      BY <1>2, <1>3, <1>5, <1>7, <2>2, <3>2, <3>3 DEF DirGood
  <2> QED
    BY <1>1, <2>1, <2>2 DEF DirsGood
<1>12. Apart'
  <2>1. ASSUME NEW d \in pending', NEW t \in Targets \cap DOMAIN d
        PROVE  \E e \in pending : t \in Targets \cap DOMAIN e /\ e[t] = d[t]
    BY <1>1, <1>2, <1>3, <1>7
  <2>2. ASSUME NEW d \in pending, NEW t \in Targets \cap DOMAIN d, NEW m \in TempNames \cap DOMAIN d1
        PROVE  d[t] # d1[m]
    BY <1>5, <1>7 DEF IInv, Apart
  <2> QED
    BY <1>1, <2>1, <2>2 DEF Apart
<1>13. Current'
  <2>1. Archive \in DOMAIN dir /\ Archive # n /\ dir[Archive] # i /\ dir[Archive] \in Inodes
    BY <1>2, <1>3, <1>5, NamesApart DEF DirGood
  <2> QED
    BY <1>1, <1>7, <1>9, <2>1 DEF IInv, Current
<1>14. Unborn'
  <2>1. ASSUME NEW s \in Runs, pc'[s] \in {"idle", "create"}
        PROVE  \A d \in pending' : \A m \in DOMAIN d : d[m] # s
    <3>1. s # r /\ pc[s] \in {"idle", "create"}
      BY <1>8, <2>1
    <3>2. \A d \in pending : \A m \in DOMAIN d : d[m] # s
      BY <3>1 DEF IInv, Unborn
    <3>3. i # s
      BY <1>3, <1>6, <3>1, <3>2
    <3> QED
      BY <1>1, <1>3, <1>7, <3>2, <3>3
  <2> QED
    BY <2>1 DEF Unborn
<1>15. RunsGood'
  <2>1. RunGood(r)'
    <3>1. job[r].image = latest
      BY DEF IInv, RunsGood, RunGood
    <3>2. n \in TempsOf(r)'
      BY <1>2, <1>8 DEF TempsOf
    <3> QED
      BY <1>1, <1>7, <1>8, <3>1, <3>2 DEF RunGood
  <2>2. ASSUME NEW s \in Runs \ {r} PROVE RunGood(s)'
    <3>1. RunGood(s) /\ pc'[s] = pc[s] /\ job'[s] = job[s] /\ TempsOf(s)' = TempsOf(s)
      BY <1>8 DEF IInv, RunsGood, TempsOf
    <3>2. CASE pc[s] \in {"write", "sync", "rename"}
      <4>1. job[s].tmp \in TempsOf(s) \cap DOMAIN dir /\ Live(s) /\ dir[job[s].tmp] = job[s].fd
            /\ job[s].fd \in Inodes
        BY <3>2, FileOwn
      <4>2. Live(r)
        BY DEF Live, Working
      <4>3. job[s].tmp # n
        BY <4>1, <4>2, NamesOwn
      <4>4. job[s].fd # i
        BY <1>5, <4>1, <4>3
      <4> QED
        BY <1>1, <1>7, <1>9, <3>1, <4>1, <4>3, <4>4 DEF RunGood
    <3>3. CASE pc[s] \notin {"write", "sync", "rename"}
      BY <1>1, <3>1, <3>3 DEF RunGood
    <3> QED
      BY <3>2, <3>3
  <2> QED
    BY <2>1, <2>2 DEF RunsGood
<1>16. OwnPid'
  BY <1>8 DEF IInv, OwnPid, Live, Working
<1>17. Replaced'
  <2>1. ASSUME NEW s \in Runs, s # r, Gone(s, dir),
               job[s].old \in Runs \ {s} => pc[job[s].old] \notin {"idle", "create"}
        PROVE  /\ Gone(s, d1)
               /\ job[s].old \in Runs \ {s} => pc'[job[s].old] \notin {"idle", "create"}
    BY <1>6, <1>7, <1>8, <2>1 DEF Gone
  <2>2. r \notin durable
    BY DEF IInv, Replaced
  <2> QED
    BY <1>1, <1>8, <2>1, <2>2 DEF IInv, Replaced, Gone
<1>18. Owned'
  <2>1. ASSUME NEW d \in pending', NEW m \in TempNames \cap DOMAIN d, m[1] = "pcf-compact"
        PROVE  d[m] \in Runs /\ job'[d[m]].tmp = m
    <3>1. CASE d \in pending
      BY <1>4, <1>8, <2>1, <3>1 DEF IInv, Owned
    <3>2. CASE d = d1
      <4>1. CASE m = n
        <5>1. i = r
          BY <1>2, <2>1, <4>1 DEF i
        <5> QED
          BY <1>7, <1>8, <3>2, <4>1, <5>1
      <4>2. CASE m # n
        BY <1>3, <1>4, <1>7, <1>8, <2>1, <3>2, <4>2 DEF IInv, Owned
      <4> QED
        BY <4>1, <4>2
    <3> QED
      BY <1>1, <3>1, <3>2
  <2> QED
    BY <2>1 DEF Owned
<1>19. CleanedUp'
  <2>1. ASSUME NEW m \in TempNames \cap DOMAIN d1, m[1] = "pcf-compact"
        PROVE  /\ d1[m] \in Runs /\ job'[d1[m]].tmp = m
               /\ pc'[d1[m]] \in {"write", "sync", "rename", "dead"}
    <3>1. d1[m] \in Runs /\ job'[d1[m]].tmp = m
      BY <1>1, <1>18, <2>1 DEF Owned
    <3>2. CASE m = n
      <4>1. i = r
        BY <1>2, <2>1, <3>2 DEF i
      <4> QED
        BY <1>7, <1>8, <3>1, <3>2, <4>1
    <3>3. CASE m # n
      BY <1>3, <1>4, <1>7, <1>8, <2>1, <3>1, <3>3 DEF IInv, CleanedUp
    <3> QED
      BY <3>2, <3>3
  <2> QED
    BY <1>1, <2>1 DEF CleanedUp
<1> QED
  BY <1>10, <1>11, <1>12, <1>13, <1>14, <1>15, <1>16, <1>17, <1>18, <1>19 DEF IInv

LEMMA CreateKeeps ==
    ASSUME IInv, NEW r \in Runs, Create(r)
    PROVE  IInv'
<1>1. pc[r] = "create"
  BY DEF Create
<1>2. PICK n \in TempsOf(r) :
        IF job[r].tool = "pcf-compact" /\ n \in DOMAIN dir
        THEN /\ pc' = [pc EXCEPT ![r] = "error"]
             /\ UNCHANGED <<dir, pending, data, synced, job, latest, durable>>
        ELSE Created(r, n)
  BY DEF Create
<1>3. CASE job[r].tool = "pcf-compact" /\ n \in DOMAIN dir
  BY <1>1, <1>2, <1>3, EndKeeps
<1>4. CASE ~(job[r].tool = "pcf-compact" /\ n \in DOMAIN dir)
  BY <1>1, <1>2, <1>4, CreatedKeeps
<1> QED
  BY <1>3, <1>4

\* What takes the place of the target is whole, on the disk, and bound to no other
\* name; what it replaces is bound to none.
LEMMA RenameKeeps ==
    ASSUME IInv, NEW r \in Runs, Rename(r)
    PROVE  IInv'
<1> DEFINE tmp == job[r].tmp  target == job[r].target  fd == job[r].fd
           old == IF target \in DOMAIN dir THEN dir[target] ELSE r
           next == IF job[r].tool = "pcf-compact" THEN "dirsync" ELSE "ok"
           d1 == Linked(Unlinked(dir, tmp), target, dir[tmp])
<1>1. /\ pc[r] = "rename" /\ tmp \in DOMAIN dir
      /\ dir' = d1 /\ pending' = pending \cup {d1}
      /\ pc' = [pc EXCEPT ![r] = next]
      /\ job' = [job EXCEPT ![r].old = old]
      /\ UNCHANGED <<data, synced, latest, durable>>
  BY DEF Rename, Relink
<1>2. /\ tmp \in TempNames /\ tmp \notin Targets /\ dir[tmp] = fd /\ fd \in Inodes
      /\ \A d \in pending : \A t \in Targets \cap DOMAIN d : d[t] # fd
      /\ tmp \in TempsOf(r)
      /\ \A s \in Runs \ {r} : pc[s] \in {"write", "sync", "rename"} => job[s].tmp # tmp
  BY <1>1, FileOwn
<1>3. dir \in pending /\ DirGood(dir) /\ \A d \in pending : DirGood(d)
  BY DEF IInv, TypeOK, DirsGood
<1>4. target \in Targets /\ job[r] \in Jobs
  BY DEF IInv, TypeOK, Jobs
<1>5. old \in Inodes
  BY <1>3, <1>4, NamesApart DEF DirGood
<1>6. /\ DOMAIN d1 = (DOMAIN dir \ {tmp}) \cup {target} /\ d1[target] = fd
      /\ \A m \in DOMAIN dir \ {tmp} : m # target => d1[m] = dir[m]
  BY <1>2 DEF Linked, Unlinked, Restrict
<1> HIDE DEF d1
<1>7. /\ data[fd] = latest /\ fd \in synced /\ latest # Torn
  BY <1>1, NamesApart DEF IInv, RunsGood, RunGood, TypeOK
<1>8. /\ pc'[r] = next /\ \A s \in Runs \ {r} : pc'[s] = pc[s] /\ job'[s] = job[s]
      /\ job'[r].tmp = tmp /\ job'[r].fd = fd /\ job'[r].tool = job[r].tool
      /\ job'[r].target = target /\ job'[r].pid = job[r].pid /\ job'[r].old = old
      /\ job' \in [Runs -> Jobs] /\ next \in {"dirsync", "ok"}
  <2>1. [job[r] EXCEPT !.old = old] \in Jobs
    BY <1>4, <1>5 DEF Jobs
  <2>2. job' = [job EXCEPT ![r] = [job[r] EXCEPT !.old = old]]
    BY <1>1 DEF IInv, TypeOK
  <2>3. job'[r] = [job[r] EXCEPT !.old = old]
    BY <2>2 DEF IInv, TypeOK
  <2> QED
    BY <1>1, <1>4, <2>1, <2>2, <2>3 DEF IInv, TypeOK, Jobs
<1> HIDE DEF next, old
<1>9. TypeOK'
  BY <1>1, <1>8 DEF IInv, TypeOK, Working
<1>10. DirsGood'
  <2>1. ASSUME NEW d \in pending PROVE DirGood(d)'
    BY <1>1, <1>3, <2>1 DEF DirGood
  <2>2. ASSUME NEW d, d = d1 PROVE DirGood(d)'
    <3>1. \A l, m \in DOMAIN d : d[l] = d[m] => l = m
      BY <1>1, <1>2, <1>3, <1>6, <2>2 DEF DirGood
    <3>2. \A t \in Targets \cap DOMAIN d : d[t] \in synced /\ data[d[t]] # Torn
      BY <1>2, <1>3, <1>6, <1>7, <2>2 DEF DirGood
    <3>3. /\ DOMAIN d \subseteq Targets \cup TempNames
          /\ \A n \in DOMAIN d : d[n] \in Inodes
          /\ Archive \in DOMAIN d
      BY <1>2, <1>3, <1>4, <1>6, <2>2, NamesApart DEF DirGood
    <3> QED
      BY <1>1, <3>1, <3>2, <3>3 DEF DirGood
  <2> QED
    BY <1>1, <2>1, <2>2 DEF DirsGood
<1>11. Apart'
  <2>1. ASSUME NEW m \in TempNames \cap DOMAIN d1
        PROVE  m \in DOMAIN dir /\ m # tmp /\ d1[m] = dir[m] /\ dir[m] # fd
    BY <1>1, <1>2, <1>3, <1>4, <1>6, NamesApart DEF DirGood
  <2>2. ASSUME NEW d \in pending, NEW t \in Targets \cap DOMAIN d, NEW m \in TempNames \cap DOMAIN d1
        PROVE  d[t] # d1[m]
    BY <2>1 DEF IInv, Apart
  <2>3. ASSUME NEW t \in Targets \cap DOMAIN d1, NEW m \in TempNames \cap DOMAIN d1
        PROVE  d1[t] # d1[m]
    BY <1>2, <1>3, <1>6, <2>1 DEF IInv, Apart
  <2> QED
    BY <1>1, <2>2, <2>3 DEF Apart
<1>12. Current'
  BY <1>1, <1>2, <1>3, <1>6, <1>7, NamesApart DEF IInv, Current, DirGood
<1>13. \A m \in DOMAIN d1 : \E n \in DOMAIN dir : d1[m] = dir[n]
  BY <1>1, <1>2, <1>6
<1>14. Unborn'
  BY <1>1, <1>3, <1>8, <1>13 DEF IInv, Unborn
<1>15. RunsGood'
  <2>1. ASSUME NEW s \in Runs \ {r} PROVE RunGood(s)'
    <3>1. RunGood(s) /\ pc'[s] = pc[s] /\ job'[s] = job[s] /\ TempsOf(s)' = TempsOf(s)
      BY <1>8 DEF IInv, RunsGood, TempsOf
    <3>2. CASE pc[s] \in {"write", "sync", "rename"}
      <4>1. job[s].tmp \in DOMAIN d1 /\ d1[job[s].tmp] = dir[job[s].tmp]
        <5>1. job[s].tmp \in DOMAIN dir /\ job[s].tmp \notin Targets /\ job[s].tmp # tmp
          BY <1>2, <2>1, <3>2, FileOwn
        <5> QED
          BY <1>4, <1>6, <5>1
      <4> QED
        BY <1>1, <3>1, <4>1 DEF RunGood
    <3>3. CASE pc[s] \notin {"write", "sync", "rename"}
      BY <1>1, <3>1, <3>3 DEF RunGood
    <3> QED
      BY <3>2, <3>3
  <2>2. RunGood(r)'
    BY <1>8 DEF RunGood
  <2> QED
    BY <2>1, <2>2 DEF RunsGood
<1>16. OwnPid'
  BY <1>1, <1>8 DEF IInv, OwnPid, Live, Working
<1>17. Replaced'
  <2>1. ASSUME NEW s \in Runs, s # r, Gone(s, dir) PROVE Gone(s, d1)
    <3>1. job[s].target \in Targets
      BY DEF IInv, TypeOK, Jobs
    <3> QED
      BY <1>2, <1>6, <1>13, <2>1, <3>1 DEF Gone
  <2>2. r \notin durable
    BY <1>1 DEF IInv, Replaced
  <2>3. old # r => /\ old = dir[target] /\ target \in DOMAIN dir
                   /\ \A m \in DOMAIN d1 : d1[m] # old
    <3>1. CASE target \in DOMAIN dir
      <4>1. old = dir[target] /\ target # tmp /\ dir[target] # fd
        BY <1>2, <1>3, <1>4, <3>1 DEF old
      <4>2. \A m \in DOMAIN dir : m # target => dir[m] # old
        BY <1>3, <3>1, <4>1 DEF DirGood
      <4> QED
        BY <1>6, <3>1, <4>1, <4>2
    <3>2. CASE target \notin DOMAIN dir
      BY <3>2 DEF old
    <3> QED
      BY <3>1, <3>2
  <2>4. old \in Runs \ {r} => pc'[old] \notin {"idle", "create"}
    BY <1>3, <1>8, <2>3 DEF IInv, Unborn
  <2>5. target \in DOMAIN d1
    BY <1>6
  <2>6. Gone(r, dir)' /\ (job'[r].old \in Runs \ {r} => pc'[job'[r].old] \notin {"idle", "create"})
    BY <1>1, <1>8, <2>3, <2>4, <2>5 DEF Gone
  <2>7. ASSUME NEW s \in Runs, s # r, pc[s] = "dirsync" \/ s \in durable
        PROVE  /\ Gone(s, dir)'
               /\ job'[s].old \in Runs \ {s} => pc'[job'[s].old] \notin {"idle", "create"}
    <3>1. Gone(s, dir) /\ (job[s].old \in Runs \ {s} => pc[job[s].old] \notin {"idle", "create"})
      BY <2>7 DEF IInv, Replaced
    <3>2. Gone(s, d1)
      BY <2>1, <2>7, <3>1
    <3>3. pc'[job[s].old] = pc[job[s].old] \/ job[s].old = r \/ job[s].old \notin Runs
      BY <1>8
    <3> QED
      BY <1>1, <1>8, <2>7, <3>1, <3>2, <3>3 DEF Gone
  <2>8. ASSUME NEW s \in Runs, s \in durable
        PROVE  pc'[s] \in {"ok", "dead"} /\ \A d \in pending' : Gone(s, d)'
    <3>1. s # r /\ pc[s] \in {"ok", "dead"} /\ \A d \in pending : Gone(s, d)
      BY <2>2, <2>8 DEF IInv, Replaced
    <3>2. Gone(s, d1)
      BY <1>3, <2>1, <3>1
    <3> QED
      BY <1>1, <1>8, <3>1, <3>2 DEF Gone
  <2> QED
    BY <1>1, <1>8, <2>6, <2>7, <2>8 DEF Replaced
<1>18. \A m \in TempNames \cap DOMAIN d1 :
            m \in DOMAIN dir /\ m # tmp /\ d1[m] = dir[m]
  BY <1>2, <1>4, <1>6, NamesApart
<1>19. \A s \in Runs : job'[s].tmp = job[s].tmp
  BY <1>8
<1>20. Owned'
  BY <1>1, <1>3, <1>18, <1>19 DEF IInv, Owned
<1>21. CleanedUp'
  BY <1>1, <1>8, <1>18, <1>19 DEF IInv, CleanedUp
<1> QED
  BY <1>9, <1>10, <1>11, <1>12, <1>14, <1>15, <1>16, <1>17, <1>20, <1>21 DEF IInv

\* A run that fails removes nothing but its own file.
LEMMA FailKeeps ==
    ASSUME IInv, NEW r \in Runs, Fail(r)
    PROVE  IInv'
<1> DEFINE tmp == job[r].tmp
           d1 == Unlinked(dir, tmp)
<1>1. /\ pc[r] \in {"create", "write", "sync", "rename"} /\ pc' = [pc EXCEPT ![r] = "error"]
      /\ UNCHANGED <<data, synced, job, latest, durable>>
      /\ IF CleansUp(r) THEN dir' = d1 /\ pending' = pending \cup {d1}
         ELSE UNCHANGED <<dir, pending>>
  BY DEF Fail, Relink
<1>2. /\ pc'[r] = "error" /\ \A s \in Runs \ {r} : pc'[s] = pc[s]
      /\ \A s \in Runs : Live(s)' => Live(s)
  BY <1>1 DEF IInv, TypeOK, Live, Working
<1>3. dir \in pending /\ DirGood(dir) /\ \A d \in pending : DirGood(d)
  BY DEF IInv, TypeOK, DirsGood
<1>4. OwnPid'
  BY <1>1, <1>2 DEF IInv, OwnPid
<1>5. CASE ~CleansUp(r)
  <2>1. TypeOK' /\ DirsGood' /\ Apart' /\ Current' /\ Owned'
    BY <1>1, <1>5 DEF IInv, TypeOK, DirsGood, DirGood, Apart, Current, Owned, Working
  <2>2. Unborn' /\ RunsGood' /\ Replaced'
    BY <1>1, <1>2, <1>5 DEF IInv, Unborn, RunsGood, RunGood, TempsOf, Replaced, Gone
  <2>3. CleanedUp'
    <3>1. ASSUME NEW n \in TempNames \cap DOMAIN dir, n[1] = "pcf-compact"
          PROVE  dir[n] # r
      <4>1. CASE pc[r] = "create"
        BY <1>3, <4>1 DEF IInv, Unborn
      <4>2. CASE pc[r] # "create"
        <5>1. job[r].tool # "pcf-compact" /\ job[r].tmp \in TempsOf(r)
          BY <1>1, <1>5, <4>2, FileOwn DEF CleansUp
        <5>2. dir[n] = r => job[r].tmp = n
          BY <3>1 DEF IInv, CleanedUp
        <5> QED
          BY <3>1, <5>1, <5>2 DEF TempsOf
      <4> QED
        BY <4>1, <4>2
    <3> QED
      BY <1>1, <1>2, <1>5, <3>1 DEF IInv, CleanedUp
  <2> QED
    BY <1>4, <2>1, <2>2, <2>3 DEF IInv
<1>6. CASE CleansUp(r)
  <2>1. /\ pc[r] \in {"write", "sync", "rename"}
        /\ dir' = d1 /\ pending' = pending \cup {d1}
    BY <1>1, <1>6 DEF CleansUp
  <2>2. /\ tmp \in DOMAIN dir /\ tmp \notin Targets
        /\ \A s \in Runs \ {r} : pc[s] \in {"write", "sync", "rename"} => job[s].tmp # tmp
    BY <2>1, FileOwn
  <2>3. /\ DOMAIN d1 = DOMAIN dir \ {tmp}
        /\ \A m \in DOMAIN d1 : d1[m] = dir[m]
    BY DEF Unlinked, Restrict
  <2> HIDE DEF d1
  <2>4. TypeOK'
    BY <1>1, <2>1 DEF IInv, TypeOK, Working
  <2>5. DirsGood'
    <3>1. ASSUME NEW d \in pending PROVE DirGood(d)'
      BY <1>1, <1>3, <3>1 DEF DirGood
    <3>2. ASSUME NEW d, d = d1 PROVE DirGood(d)'
      BY <1>1, <1>3, <2>2, <2>3, <3>2, NamesApart DEF DirGood
    <3> QED
      BY <2>1, <3>1, <3>2 DEF DirsGood
  <2>6. Apart'
    BY <1>3, <2>1, <2>3 DEF IInv, Apart
  <2>7. Current'
    BY <1>1, <1>3, <2>1, <2>2, <2>3, NamesApart DEF IInv, Current, DirGood
  <2>8. Unborn'
    BY <1>2, <1>3, <2>1, <2>3 DEF IInv, Unborn
  <2>9. RunsGood'
    <3>1. RunGood(r)'
      BY <1>2 DEF RunGood
    <3>2. ASSUME NEW s \in Runs \ {r} PROVE RunGood(s)'
      BY <1>1, <1>2, <2>1, <2>2, <2>3, <3>2 DEF IInv, RunsGood, RunGood, TempsOf
    <3> QED
      BY <3>1, <3>2 DEF RunsGood
  <2>10. Replaced'
    <3>1. ASSUME NEW s \in Runs, Gone(s, dir) PROVE Gone(s, d1)
      <4>1. job[s].target \in Targets
        BY DEF IInv, TypeOK, Jobs
      <4> QED
        BY <2>2, <2>3, <3>1, <4>1 DEF Gone
    <3>2. \A s \in Runs : s \in durable => s # r
      BY <2>1 DEF IInv, Replaced
    <3>3. ASSUME NEW s \in Runs, pc'[s] = "dirsync" \/ s \in durable
          PROVE  /\ Gone(s, dir)'
                 /\ job[s].old \in Runs \ {s} => pc'[job[s].old] \notin {"idle", "create"}
      BY <1>1, <1>2, <2>1, <3>1, <3>3 DEF IInv, Replaced, Gone
    <3>4. ASSUME NEW s \in Runs, s \in durable
          PROVE  pc'[s] \in {"ok", "dead"} /\ \A d \in pending' : Gone(s, d)'
      BY <1>1, <1>2, <1>3, <2>1, <3>1, <3>2, <3>4 DEF IInv, Replaced, Gone
    <3> QED
      BY <1>1, <3>3, <3>4 DEF Replaced
  <2>11. Owned'
    BY <1>1, <1>3, <2>1, <2>3 DEF IInv, Owned
  <2>12. CleanedUp'
    BY <1>1, <1>2, <2>1, <2>3 DEF IInv, CleanedUp
  <2> QED
    BY <1>4, <2>4, <2>5, <2>6, <2>7, <2>8, <2>9, <2>10, <2>11, <2>12 DEF IInv
<1> QED
  BY <1>5, <1>6

\* Power fails: every directory that may be found is good, and nothing runs.
LEMMA PowerLossKeeps ==
    ASSUME IInv, PowerLoss
    PROVE  IInv'
<1>1. /\ dir' \in pending /\ pending' = {dir'} /\ synced' = Inodes
      /\ pc' = [r \in Runs |-> IF pc[r] = "idle" THEN "idle" ELSE "dead"]
      /\ latest' = data'[dir'[Archive]]
      /\ UNCHANGED <<job, durable>>
  BY DEF PowerLoss
<1>2. PICK lost \in SUBSET (Inodes \ synced) :
        data' = [i \in Inodes |-> IF i \in lost THEN Torn ELSE data[i]]
  BY DEF PowerLoss
<1>3. /\ data' \in [Inodes -> Nat \cup {Torn}]
      /\ \A i \in synced : data'[i] = data[i]
  BY <1>2 DEF IInv, TypeOK
<1>4. DirGood(dir')
  BY <1>1 DEF IInv, DirsGood
<1>5. \A t \in Targets \cap DOMAIN dir' :
            dir'[t] \in Inodes /\ data'[dir'[t]] # Torn
  BY <1>3, <1>4 DEF DirGood
<1>6. latest' \in Nat
  BY <1>1, <1>3, <1>4, <1>5, NamesApart DEF DirGood
<1>7. TypeOK'
  BY <1>1, <1>3, <1>6 DEF IInv, TypeOK
<1>8. DirsGood'
  <2>1. ASSUME NEW d, d = dir' PROVE DirGood(d)'
    BY <1>1, <1>4, <1>5, <2>1 DEF DirGood
  <2> QED
    BY <1>1, <2>1 DEF DirsGood
<1>9. Apart'
  BY <1>1, <1>4, NamesApart DEF Apart, DirGood
<1>10. Unborn'
  BY <1>1 DEF IInv, Unborn
<1>11. RunsGood' /\ OwnPid' /\ Current'
  BY <1>1 DEF RunsGood, RunGood, OwnPid, Live, Working, Current
<1>12. Replaced'
  <2>1. ASSUME NEW s \in Runs, s \in durable
        PROVE  /\ pc'[s] = "dead" /\ Gone(s, dir)'
               /\ job[s].old \in Runs \ {s} => pc'[job[s].old] \notin {"idle", "create"}
    <3>1. /\ pc[s] \in {"ok", "dead"} /\ Gone(s, dir')
          /\ job[s].old \in Runs \ {s} => pc[job[s].old] \notin {"idle", "create"}
      BY <1>1, <2>1 DEF IInv, Replaced
    <3> QED
      BY <1>1, <3>1 DEF Gone
  <2>2. \A s \in Runs : pc'[s] # "dirsync"
    BY <1>1
  <2> QED
    BY <1>1, <2>1, <2>2 DEF Replaced, Gone
<1>13. Owned'
  BY <1>1 DEF IInv, Owned
<1>14. CleanedUp'
  <2>1. ASSUME NEW n \in TempNames \cap DOMAIN dir', n[1] = "pcf-compact"
        PROVE  /\ dir'[n] \in Runs /\ job[dir'[n]].tmp = n
               /\ pc'[dir'[n]] = "dead"
    BY <1>1, <2>1 DEF IInv, Owned, Unborn
  <2> QED
    BY <1>1, <2>1 DEF CleanedUp
<1> QED
  BY <1>7, <1>8, <1>9, <1>10, <1>11, <1>12, <1>13, <1>14 DEF IInv

-----------------------------------------------------------------------------
(* The theorems.                                                           *)

LEMMA NextPreserves == IInv /\ [Next]_fvars => IInv'
<1> SUFFICES ASSUME IInv, [Next]_fvars
             PROVE  IInv'
  OBVIOUS
<1>1. CASE UNCHANGED fvars
  BY <1>1 DEF fvars, IInv, TypeOK, DirsGood, DirGood, Apart, Unborn, RunsGood, RunGood, TempsOf,
              OwnPid, Live, Current, Replaced, Gone, Owned, CleanedUp
<1>2. ASSUME NEW r \in Runs, Step(r)
      PROVE  IInv'
  BY <1>2, CreateKeeps, WriteKeeps, SyncKeeps, RenameKeeps, DirSyncKeeps DEF Step
<1>3. ASSUME NEW r \in Runs, Kill(r)
      PROVE  IInv'
  BY <1>3, EndKeeps DEF Kill, Live, Working
<1>4. CASE Environment
  BY <1>3, <1>4, StartKeeps, FailKeeps, PowerLossKeeps, EditKeeps DEF Environment
<1> QED
  BY <1>1, <1>2, <1>4 DEF Next

LEMMA InvImplies == IInv => TargetsWhole /\ DurableOnceReported /\ CleanedUp
<1> SUFFICES ASSUME IInv PROVE TargetsWhole /\ DurableOnceReported
  BY DEF IInv
<1>1. DirGood(dir) /\ Current
  BY DEF IInv, TypeOK, DirsGood
<1>2. TargetsWhole
  BY <1>1 DEF DirGood, Current, TargetsWhole
<1>3. DurableOnceReported
  BY DEF IInv, TypeOK, Replaced, Gone, DurableOnceReported
<1> QED
  BY <1>2, <1>3

LEMMA Invariant == Safety => []IInv
<1>1. FInit => IInv
  BY InitEstablishes
<1>2. IInv /\ [Next]_fvars => IInv'
  BY NextPreserves
<1> QED
  BY <1>1, <1>2, PTL DEF Safety

\* Whatever dies or fails, and whenever, the names are bound to whole files, and the
\* archive holds every edit that programs have seen in it.
THEOREM AlwaysWhole == Spec => []TargetsWhole
BY Invariant, InvImplies, PTL DEF Spec

\* What a pcf-compact replaced does not come back once the directory is fsynced.
THEOREM NeverUndone == Spec => []DurableOnceReported
BY Invariant, InvImplies, PTL DEF Spec

\* A temporary file of pcf-compact is that of a run that is under way or dead.
THEOREM NoneLeftBehind == Spec => []CleanedUp
BY Invariant, InvImplies, PTL DEF Spec
=============================================================================
