----------------------------- MODULE PcfInspect -----------------------------
(***************************************************************************)
(* pcf-debug: the walk that tolerates what Container::open rejects         *)
(* (walk.rs), the map of the regions of the file with its gaps and         *)
(* overlaps (layout.rs), and what they complain of (diag.rs).  A file is a *)
(* sequence of cells, as in PcfRecords.  Remarks of severity Info, the     *)
(* decoders and the renderers are left out.                                *)
(***************************************************************************)
EXTENDS PcfRecords

MAX_BLOCKS == 4096

Region(start, len, kind) == [start |-> start, len |-> len, kind |-> kind]
Bytes(r) == r.start .. (r.start + r.len - 1)

-----------------------------------------------------------------------------
(* The walk.                                                               *)

\* Where the chain starts, 0 if the header or its trailer cannot be read.
WalkHead(f) == IF HeaderReadable(f) THEN ResolveHead(f) ELSE 0

\* The blocks that were followed, and the offset at which the walk stopped: 0, one
\* it has been at, or one where no block header parses.
Followed(f) ==
    LET follow[w \in Seq(Nat) \X Nat] ==
            IF \/ w[2] = 0 \/ Len(w[1]) >= MAX_BLOCKS
               \/ w[2] \in {w[1][i] : i \in DOMAIN w[1]} \/ ~BlockParses(f, w[2])
            THEN w ELSE follow[<<Append(w[1], w[2]), BlockAt(f, w[2]).next>>]
    IN  follow[<<<<>>, WalkHead(f)>>]

\* The entries of a block up to the first that is past the end or does not parse.
ParsedEntries(f, off) ==
    LET parses(i) == /\ off + TableHeaderSize + i <= Len(f)
                     /\ EntryCell(f, off, i).t \in {"ent", "zero"}
        n == Max({k \in 0..BlockAt(f, off).count : \A i \in 1..k : parses(i)})
    IN  [i \in 1..n |-> IF EntryCell(f, off, i).t = "ent" THEN EntryCell(f, off, i) ELSE NilEntry]

\* Mutant: the contents are not looked at.
EntryFaulty_NoHash(f, e) == e.type = Reserved \/ e.uid = Nil \/ e.used > e.max \/ ~DataReadable(f, e)
\* EntryInvalid, Truncated or DataHashMismatch: the entry, where its data is, or
\* what its data is.
EntryFaulty(f, e) ==
    \/ e.type = Reserved \/ e.uid = Nil \/ e.used > e.max
    \/ ~DataReadable(f, e)
    \/ Verifies(e.algo) /\ e.hash # Digest(e.algo, ReadData(f, e))

\* Truncated, BadBlock or TableHashMismatch.
BlockFaulty(f, off) ==
    LET h == BlockAt(f, off)  es == ParsedEntries(f, off) IN
    \/ Len(es) < h.count
    \/ Verifies(h.algo) /\ h.hash # TableHash(h.algo, h.next, es)
    \/ \E i \in DOMAIN es : EntryFaulty(f, es[i])

\* BadHeader; ChainCycle, Truncated or BadBlock where the walk stopped; the blocks.
WalkComplains(f) ==
    \/ ~HeaderReadable(f)
    \/ Followed(f)[2] # 0
    \/ \E i \in DOMAIN Followed(f)[1] : BlockFaulty(f, Followed(f)[1][i])

-----------------------------------------------------------------------------
(* The map.                                                                *)

EntryRegions(e) ==
    <<Region(e.start, e.used, "data"), Region(e.start + e.used, e.max - e.used, "slack")>>

\* The regions the structures declare, in the order in which they are listed.
Declared(f) ==
    LET blocks == Followed(f)[1]
        listed(off) ==
            <<Region(off, TableHeaderSize, "block"),
              Region(off + TableHeaderSize, BlockAt(f, off).count * EntrySize, "entries")>>
            \o FlattenSeq([i \in DOMAIN ParsedEntries(f, off) |->
                                EntryRegions(ParsedEntries(f, off)[i])])
    IN  SelectSeq(<<Region(0, HeaderSize, "header")>>
                    \o FlattenSeq([i \in DOMAIN blocks |-> listed(blocks[i])]),
                  LAMBDA r : r.len > 0)

\* The stable sort by start, then length.
Precedes(rs, i, j) ==
    \/ rs[i].start < rs[j].start
    \/ rs[i].start = rs[j].start /\ rs[i].len < rs[j].len
    \/ rs[i].start = rs[j].start /\ rs[i].len = rs[j].len /\ i < j

\* covered_end when the regions before j have been seen.
CoveredEnd(rs, j) ==
    Max({0} \cup {rs[i].start + rs[i].len : i \in {k \in DOMAIN rs : Precedes(rs, k, j)}})

\* Mutant: only the gaps between regions are seen.
Gaps_NoTrailing(rs, len) ==
    {Region(CoveredEnd(rs, j), rs[j].start - CoveredEnd(rs, j), "gap") :
        j \in {k \in DOMAIN rs : rs[k].start > CoveredEnd(rs, k)}}
\* The gaps before each region and after the last one.
Gaps(rs, len) ==
    LET end == Max({0} \cup {rs[i].start + rs[i].len : i \in DOMAIN rs}) IN
    {Region(CoveredEnd(rs, j), rs[j].start - CoveredEnd(rs, j), "gap") :
        j \in {k \in DOMAIN rs : rs[k].start > CoveredEnd(rs, k)}}
    \cup (IF end < len THEN {Region(end, len - end, "gap")} ELSE {})

OverlapFound(rs) == \E j \in DOMAIN rs : rs[j].start < CoveredEnd(rs, j)

-----------------------------------------------------------------------------
\* The inspector reports no error and no warning.
Clean(f) == ~WalkComplains(f) /\ ~OverlapFound(Declared(f))
=============================================================================
