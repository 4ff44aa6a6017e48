--------------------------- MODULE PcfSigHistory ----------------------------
(***************************************************************************)
(* PcfSigTools with what its properties compare the file with: what was    *)
(* last written to each partition, and what each signature was made of.    *)
(***************************************************************************)
EXTENDS PcfSigTools

VARIABLES
    written,       \* uid -> the partition as it was last written
    signed,        \* signature -> who signed, and the partitions as they were written
    asRead         \* signer -> the same of the targets of its `pfs sign`

hvars == <<tvars, written, signed, asRead>>

Rewritten(u) == u \notin DOMAIN parts \/ (call'.op = "update" /\ call'.uid = u)

Remember ==
    /\ written' = [u \in DOMAIN parts' |->
                    IF Rewritten(u) THEN parts'[u] ELSE written[u]]
    /\ asRead' = [k \in DOMAIN plan' |->
                    IF k \in DOMAIN plan THEN asRead[k]
                    ELSE [u \in DOMAIN plan'[k].entries |-> written[u]]]
    /\ signed' = [s \in Signatures' |->
                    IF s \in Signatures THEN signed[s]
                    ELSE [by |-> call'.key,
                          as |-> IF call'.op = "commit" THEN asRead[call'.key]
                                 ELSE [u \in call'.targets |-> written'[u]]]]

HInit == ToolsInit /\ written = parts /\ signed = parts /\ asRead = plan
HNext == ToolsNext /\ Remember
HSpec == HInit /\ [][HNext]_hvars

-----------------------------------------------------------------------------
(* Properties.                                                             *)

Intact(u) == u \in DOMAIN parts /\ parts[u] = written[u]

\* A signature vouches for a partition exactly while its signer's key is in the
\* file, neither the signature nor the partition is damaged, and the partition
\* holds what was written there when it was signed (or read to be signed): not
\* after an update, a removal or another partition under its uid, and again when
\* the old content is written back.  What else is in the file does not count
\* (sections 11 and 12 of PCF-SIG).
ValidMeansAsSigned ==
    \A s \in Signatures : \A u \in DOMAIN signed[s].as :
        Accepts(s, u) <=>
            /\ Intact(s)
            /\ \E k \in DOMAIN parts : parts[k].type = "key" /\ Intact(k)
                                       /\ parts[k].data = KeyRecord(signed[s].by)
            /\ Intact(u) /\ parts[u] = signed[s].as[u]

\* Signing, done or refused, leaves every partition and every accepted entry as
\* it was, never adds a second key partition for a signer, and when it is done
\* the new signature is accepted for every target that is not damaged (in an
\* archive: and that has not been compacted away since it was read, with the key).
SigningIsAdditive ==
    [][\A k \in Key : call'.op \in {"sign", "commit"} /\ call'.key = k =>
        /\ \A u \in DOMAIN parts : parts'[u] = parts[u]
        /\ \A s \in Signatures, u \in DOMAIN parts : Accepts(s, u) => Accepts(s, u)'
        /\ \A u, v \in KeysOf(parts', k) : u = v
        /\ \A s \in Signatures' \ Signatures : \A u \in DOMAIN signed'[s].as :
                /\ Intact(u)' /\ parts'[u] = signed'[s].as[u]
                /\ call'.op = "commit" => KeysOf(parts', k) # {}
                => Accepts(s, u)']_hvars

\* Signing without uids converges: it succeeds, leaves nothing that the same call
\* would sign again (what `pfs sign` read is covered, though others may have
\* committed more since), and where everything was in order before, verify with
\* the signer's key is content ("re-signing an unchanged file is a no-op").
SigningConverges ==
    [][\A k \in Key :
        /\ call'.op = "sign" /\ call'.key = k /\ call'.all =>
            /\ call'.ok
            /\ Uncovered(k, Signable, FALSE)' = {}
            /\ call'.targets # {} /\ (\A u \in DOMAIN parts : Intact(u))
               /\ (\A s \in Signatures : \A u \in DOMAIN signed[s].as : Accepts(s, u))
                    => VerifyFile(k)'
        /\ call'.op = "commit" /\ call'.key = k /\ KeysOf(parts', k) # {} =>
            \A u \in DOMAIN parts' :
                u \in call'.targets /\ SignedEntry(parts'[u]) = plan[k].entries[u]
                    => (u \in Covered(k))']_hvars
=============================================================================
