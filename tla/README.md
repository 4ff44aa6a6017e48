# Verification of the Partitioned Container Format

TLA+ models, model-checking runs and machine-checked proofs for the reference
implementation of PCF (Partitioned Container Format) and the profiles built on
it.  The models are translated from the Rust sources under `src/reference/`;
the specifications under `src/specs/` supply the statements the properties
come from, never the definitions.

## 1. The system

PCF is a binary container: a 20-byte header, a chain of table blocks that hold
entries, and partitions (named byte regions).  The libraries are called by one
thread; no component starts a thread, awaits, or takes a lock.  What is hard
there is not concurrency but *placement* (offset arithmetic over a file in which
reservations are larger than what is written), *stale copies* (the writer's
memory of what is on disk), *partial execution* (an I/O error, a process death
or a power failure between two writes of one operation), and *long sequences of
legal calls* that reach a state nobody tried.  The command-line tools add what
the libraries do not have: several processes on one file, each of which reads,
computes and replaces, or reads, drops and opens again, without a lock.

### Components

| component | state | operations | talks to |
|---|---|---|---|
| **PCF container** `PCF-v1.0/container.rs` | the file; handle: `table_head`, `blocks` (offset, capacity, count, algo, next), `data_eof`, `default_capacity` | `create_with`, `open`, `add_partition`, `update_partition_data`, `remove_partition`, `finalize_with_trailer`, `compact_into`, `verify`, `entries`, `read_partition_data` | a seekable storage; every profile below calls it |
| **PCF codecs** `header.rs table.rs entry.rs trailer.rs hash.rs` | none | to/from bytes, digests | container |
| **PFS-MS session writer** `PFS-MS-v1.0/writer.rs` | file; writer: `head_offset`, `prev_head_hash/algo`, `next_seq`, `eof` | `create`, `open`, `commit`, and the path operations `mkdir put_file mv rm commit_changes` that build a commit | appends table blocks itself; opened files are read through `Container` and `reader` |
| **PFS-MS reader** `reader.rs session.rs` | none | `scan`, `verify_chain`, `build_node_view` | container (trailer scan, blocks) |
| **PFS-MS tree** `node.rs tree.rs` | sessions' node records | `build_tree`, `walk`, `resolve_path`, `materialize` | reader; used by the writer and the CLI |
| **PFS-MS content** `delta.rs compress.rs` | none | delta encoding, compression | writer, tree |
| **PFS-MS directory sync** `dirsync.rs` | a host directory | diff a directory against the tree, commit the result | writer, tree |
| **PFS-MS compaction, signing** `compact.rs sign.rs` | a second file; key and signature partitions | rewrite a file as one session or a kept suffix, sign the sessions | reader, writer, PCF-SIG |
| **PCF-DCP arena** `PCF-DCP-v1.0/arena.rs fragment.rs` | byte pool, fragment lists, inner partitions | `add_inner`, `append insert overwrite delete truncate`, `remove_inner`, `dedup`, `compact`, `parse`, `to_bytes` | stored as one partition of a container |
| **PCF-DCP writer, reader** `writer.rs reader.rs` | the top-level partitions, each plain or an arena | `open`, `add_plain`, `add_container`, `promote`, `demote`, `dedup`, `defrag`, `to_image`, `verify` | container, arena |
| **PCF-SIG** `PCF-SIG-v1.0/*` | key and signature partitions | `sign_partitions`, `ensure_key_partition`, `verify_all`, `verify_all_with_recheck` | container |
| **pcf-compact** and `pfs compact` | the files of a directory | `run`, `atomic_write`; `compact_archive`: build an image, write a temporary file, fsync, rename | container, PFS-MS compaction |
| **pcf-sig** and `pfs sign` | the file; what was read of it | `sign_file`, `verify_file`; `sign_archive` | PCF-SIG, session writer |
| **pcf-debug** | none | `walk`, `build`: read what can be read, map the file, complain | codecs |
| **other commands** of `pfs`, `dcp`, `pcf-sig` | files named on the command line | argument parsing, printing | the libraries |
| **ports** TypeScript, PHP, .NET | as the container and PCF-SIG | as above | - |

### What makes each of them correct

* **Container.**  No two reserved regions overlap, whatever was added, grown,
  removed, finalized and re-opened; every file between two operations verifies
  (each table hash covers count, next pointer and entries, each data hash the
  data); a partition changes only by the operation on it; the handle's copies
  of the block headers agree with the disk; an operation cut short is noticed
  or has no effect, and leaves the other partitions alone.
* **Session writer and reader.**  The file is a log of whole sessions: a commit
  appends exactly its session behind the last one its writer knows, anything
  less appends nothing; no byte of the log is rewritten; the hash chain verifies
  in every state; the writer knows the newest published session unless its last
  commit failed after publishing.
* **Tree.**  Every live node has one parent chain to the root, siblings have
  distinct names, what is dead stays dead, the tree a reader rebuilds from the
  records is the one the calls describe, and the content of a file is that of
  its last write through any chain of patches and moves.
* **Arena.**  Every inner partition reads back what was written to it although
  its bytes are shared, cut, deduplicated and moved by compaction; every byte
  with two users is marked as shared; the reader accepts what the writer wrote
  and notices when it has changed.
* **History.**  What a file held after a session can be read after every later
  session.
* **Signatures.**  An entry of a signature is accepted exactly while the
  partition is what the signer signed, whatever else happens to the file;
  signing changes nothing else, and repeating it adds nothing.
* **Replacement.**  At every moment the archive's name is bound to a whole file
  with every edit in it, whatever other runs of the tools, dead ones and power
  failures do; what was reported done is not undone; nothing is left behind
  but by a death; and every run ends.
* **Inspector.**  It complains of a file exactly when a reader rejects it, and its
  map of a good file accounts for every byte once.

## 2. Modules

```
PcfLayout ------------- PcfLayoutProofs         offsets only; proved
    ^ refines
PcfRecords --- PcfContainer --- MCPcfContainer  the container on a file of cells
    |              |               |  | refines
    |              +-- PcfCrash    |  +---> PcfStore  (a map from UIDs to data)
    |                     |        |
    |                     +--------+-- PcfContainerProofs    proved
    +-- PfsReader -- PfsCommit --- MCPfsCommit ---> PfsLog (an append-only log)
    |                                  |   |
    |                                  |   +-- PfsLogProofs      proved
    |                                  +-- PfsPowerLoss
    +-- PcfRecordsProofs -- DataInduction   lemmas the proofs rest on

PcfInspect (on PcfRecords)                      the inspector; used by
                                                MCPcfContainer and PcfCrash
PfsTree -- PfsWriter -- MCPfsWriter --> PfsFileSystem  (paths and contents)
                             |
                             +----------- PfsWriterProofs    proved
DcpArena -- DcpWriter -- MCDcpWriter --> DcpStore  (partitions in places)
                             |
                             +----------- DcpProofs          proved
PcfSig -- PcfSigTools -- PcfSigHistory -- MCPcfSig
                                 |
                                 +------- ToolProofs         proved
                                 |
FileReplace ---------------------+
```

The groups are the layers of the code.  An upper one uses what the lower one is
shown to implement: `PcfSig` and the image of `DcpWriter` see the container as
the map of `PcfStore`, `PfsWriter` sees the file as the log of `PfsLog`,
`PcfSigTools` sees a commit as the atomic step `PfsCommit` makes it, and
`FileReplace` sees an image as whole or not, since `PcfContainer` and `PfsWriter`
are about what is in it.

| module | what it models |
|---|---|
| `PcfStore` | abstract: a map from UIDs to contents with Add, Update, Remove and what leaves it alone (Maintain). No offsets, no blocks. |
| `PcfLayout` | where `container.rs` puts things: blocks with capacity and count, reservations, the cursor `data_eof`, the physical length, the newest trailer. Record sizes are constants. |
| `PcfLayoutProofs` | the inductive invariant of `PcfLayout` and the theorems. |
| `PcfRecords` | what a file is (a sequence of cells), which cells parse as what, the chain walk, the backward trailer scan, `verify`. |
| `PcfContainer` | the handle and its operations over such a file. Each operation is a *plan*: the list of its writes in the order of the code, and what the handle holds once all are done. |
| `PcfCrash` | the same plans, stopped after any proper prefix of their writes. |
| `PfsLog` | abstract: a sequence of sessions to which a commit appends one, and whether the writer knows the last of them. |
| `PfsReader` | `scan` and `verify_chain`: HEAD and MEMBER blocks, session records, the hash chain. |
| `PfsCommit` | one `FsWriter`: commit as a list of writes (S1..S6), finished, cut short by an I/O error that returns to the caller (at a write, at the flush of S5, or at that of S7, after publishing), or by a process death; drop and re-open. |
| `PfsPowerLoss` | the same writer when `flush` orders nothing and power fails. |
| `PfsTree` | node records, the node view, liveness by ancestry, the tree, path resolution, version chains (`tree.rs`). |
| `PfsFileSystem` | abstract: a map from paths to directories and contents, and what each operation does to it. |
| `PfsWriter` | `mkfs mkdir put_file mv rm`, `commit_changes`, directory updates and compaction, down to the records of the session each commits. |
| `DcpArena` | one DCP container: pool and fragments, the edits, deduplication, compaction, the form on disk, parsing and what a reader verifies of it. |
| `DcpStore` | abstract: partitions, each in one place, with its content and algorithm. |
| `DcpWriter` | top-level partitions and containers, promotion and demotion, the image, finding a uid in it and its verification. |
| `PcfSig` | keys and signatures among the partitions, signing with its refusals, verification with contents recomputed, damage. |
| `PcfSigTools` | `pcf-sig sign` and `verify`, `pfs sign` in its two phases (read; open again and commit), compaction of an archive with signatures in it. |
| `PcfSigHistory` | the same with what was last written to each partition and what each signature was made of: variables of the properties, not of the code. |
| `PcfInspect` | `pcf-debug`: the tolerant walk, the map with gaps and overlaps, when it complains. |
| `FileReplace` | any number of runs of `pcf-compact` and `pfs compact` on one archive: create, write, fsync, rename, directory fsync, each of which may fail, be the last before a death, or meet what a dead run left; power failures; edits in between. |
| `ToolProofs` | the inductive invariants of `PcfSigHistory` and of `FileReplace`, and the theorems about the tools. |
| `DataInduction` | induction and recursion over numbers and sequences, of sets instead of operators; lemmas about the library's `FlattenSeq`, `Max`, `Min` and slices of sequences. |
| `PcfRecordsProofs` | what the operators of `PcfRecords` compute (writes, chain walks, the trailer scan) and what they leave alone. |
| `PcfContainerProofs` | the inductive invariants of `PcfContainer` and `PcfCrash`, the theorems about the checked container and about crashes, and that it implements `PcfStore`. |
| `PfsLogProofs` | the two inductive invariants of `PfsCommit`, the theorems, and that it implements `PfsLog`. |
| `PfsWriterProofs` | the inductive invariants of `PfsWriter` and `MCPfsWriter`, and the theorems about the tree and its history. |
| `DcpProofs` | the inductive invariant of `DcpWriter`, the theorems, and that it implements `DcpStore`. |

### State and code

`file` is the storage.  The remaining variables of `PcfContainer` are the
fields of `Container`, those of `PfsCommit` the fields of `FsWriter`, under the
names they have in the source.  `open` says whether a handle exists.  The
actions are the public methods; a method's early returns are the guards of its
plan (`AddPlans`, `UpdatePlans`, `RemovePlans`, `CommitPlans`) and its writes are
in the order of the code, which is what makes the crash model and the container
model the same text.

The abstract modules are bound to the calls.  `IsAStore` and `IsALog` say not only
that some step of `PcfStore` or `PfsLog` explains what happened to the map or the
log, but that it is the one of the same name and arguments (`EachCallItsOwn` in
`MCPcfContainer` and `MCPfsCommit`); `DcpStore` and `PfsFileSystem` carry the last
call in a variable.

### Abstractions

* **Actions** are public calls.  A call that fails its checks before writing
  anything is an action that is not enabled, except where the failure is the
  question (`PfsWriter`: a refused update; `PcfSig`: a refused signature).
  `call`, in the upper layers, records the last call for the properties and is
  not in the code.
* **Cells.**  One record (header, table-block header, entry, trailer, session
  record, node record) is one cell, and so is one byte of content.  Regions
  abut, overlap and overwrite each other as in the file; only their lengths
  differ.  `PcfLayout` has the lengths as parameters: it is checked with the
  real sizes (20, 74, 141, 20), proved for all sizes, and shown to be what
  `PcfContainer` does with sizes 1 (property `FollowsLayout`).
* **Hashes** are symbolic and injective: the digest of `x` is `x`.  `None` has
  the empty digest and verifies nothing.  Collisions are out of scope.
* **Zero bytes.**  Cells no write touched read as zero, and zero bytes parse as
  an empty block and as a NIL entry, as they do in the code.
* **Labels, profile fields, timestamps** are left out: no control depends on
  them after the early checks, which fail before anything is written.
* **Edits of an arena.**  `append insert overwrite delete truncate` are one
  operation, the replacement of a range by bytes, because each of them is made
  of the same two steps (`delete` by two cuts and a drain, `insert` by a cut and
  a new fragment).
* **Patches** of file contents are the pair of contents they connect; which
  pairs are small enough to be stored as one is a parameter (`SmallPatch`).
* **Signatures** are who signed what.  Ed25519 is not modelled.
* **Contents** that happen to look like records matter in one place, the
  backward scan for the trailer; the instance `NestedSessions` has them.

## 3. Runs

The libraries run when they are called, so their runs are about safety: no
fairness is assumed and nothing is claimed to happen eventually.  (The one loop
of theirs that could fail to end, a chain of blocks with a cycle, cannot be
built: a chain that does not end would make the walk itself diverge, and in
every state reached it ends.)

The tools' runs that replace a file are processes, and each should end.
`FileReplace` assumes weak fairness of `Step(r)` for each run: a process that has
not died is scheduled, and its system calls return.  Nothing makes a call fail,
a process die or power fail, nothing prevents it for ever, and nobody has to
start a run.  A step is enabled until it is taken, since none of the calls waits
for another process, so weak fairness is all that is needed; that the temporary
file is still there to be renamed is part of what the run checks.

| run | bounds | shows |
|---|---|---|
| `layout` | real record sizes; 3 UIDs, lengths 0 and 150, reserves 0 and 90, 2 entries per block, the cursor up to 740 | regions never overlap, counts match, the cursor is ahead, what a reader is sent to is in the file |
| `container` | 2 UIDs, no data or one byte, reserve 0 or 1, 2 entries per block, 3 additions or trailers, the cursor up to 30 | every file verifies, the handle agrees with the disk, each call is its own step of `PcfStore` (an edit changes the partition it names, the rest changes nothing) and steps as `PcfLayout` does, compaction never lengthens a file; the inspector has nothing to complain of and its map covers every byte once |
| `crash` | 3 UIDs, one byte of two values, the cursor up to 10 | a half-done operation is noticed by the hashes or is one of the two whole states; additions in an overflow block are atomic; the damage stays in the block being written; the inspector complains exactly of what a reader rejects |
| `reopen_early` | as `container`, without the discipline below | **violation**, finding 1 |
| `commit` | sessions of 0, 1, 2 and 4 partitions at 2 entries per block (1, 1, 2 and 3 table blocks), 2 commits cut short, file up to 19 cells | in every state, torn ones included, the file is readable and its chain verifies; each call is its own step of `PfsLog`; published bytes are never rewritten; the writer's link fields are those of the newest session or, after a failed last flush, of the one before |
| `nested_trailer` | as `commit`, with a content that holds a trailer | **violation**, finding 2 |
| `power_loss` | one session of one node, file up to 14 cells | **violation**, finding 3 |
| `tree` | 2 names, paths of one and two names, contents empty and two that are small patches of each other, 4 calls, 1 patch recommended and 2 versions readable | the file system read back from the records is the one the calls describe; siblings are distinct, dead nodes stay dead, no patch is written past the recommended depth, an update without news commits nothing, and every past state can still be read as it was |
| `mv_cycle` | as `tree`, with moves into what is moved | **violation**, finding 4 |
| `arena` | 2 containers, one or none there at the start, inner tables with SHA-256 or no hash, 3 partitions, 2 byte values, contents of 0, 2 and 3 bytes in one chunk or bytewise, 2 entries per block, 4 calls | the containers implement `DcpStore`; SHARED is on every shared byte; what is written verifies and a reader finds every partition in it; tables keep their algorithm and are protected by it; compaction and deduplication do what they say |
| `signatures` | 4 UIDs for partitions of any type, 2 signers, 2 contents, a cryptographic and a weak algorithm, a container or an archive, 4 calls | an entry is accepted exactly when the partition is what was signed; signing never makes anything worse; signing again adds nothing and verification is then content |
| `replace` | 2 runs of either tool, an output that exists or not, 2 process ids and one clock reading (so that names collide), one edit | both names are bound to whole files with every edit, nothing reported durable is undone, only a death leaves a temporary file, every run ends |

Why the bounds suffice: two entries to a block make the second block appear
with the third partition and the MEMBER chain with the second (255 in the
code), so full blocks, overflow, exact fits and emptied blocks all occur; the
cursor bounds admit two overflow blocks or two trailers; two faults let debris
follow debris and a retry follow an I/O error after a crash.  `MaxEof`,
`MaxGrowth`, `MaxFaults`, `MaxCalls` and `MaxSessions` are the only bounds that
are not in the code.  The upper layers are bounded by the number of calls: four
are enough to share bytes, cut them in one partition, compact and read the
other, or to carry a partition from one container into another that was added
later; to put a directory with a file, move it, and remove or replace it; to
sign a partition twice, change it and change it back.  The limits there are
small so that four calls cross them (a second block after two entries, a
delta depth of one, a version chain of two).

`CHECK_DEADLOCK` is off where the bound on calls ends every behaviour; a library
that nobody calls stands still.

### The discipline of `SafeNext`

`container.rs` tolerates sequences of calls its placement does not survive, so
the passing runs state what a caller must respect:

1. nothing is edited through a handle after `finalize_with_trailer` (the code's
   documentation calls it "a finalisation step rather than a prelude to further
   in-place edits");
2. a handle is not dropped or finalized while a reservation reaches beyond the
   physical end of the file (`Materialised`), because nothing on disk keeps the
   space: `open` starts again at the end of the file.

In the upper layers: `tree` excludes a move into what is moved (the subject of
`mv_cycle`) and a move of a file whose version chain is as long as a reader
follows; in `arena` the application gives a uid to one partition only, which
the code checks within the top level and within a container but not across;
a batch of changes names each path once, as `collect_changes` makes it; in
`replace` the archive is edited only while no compaction of it runs, because
the tools take no lock and an edit between the reading and the rename is lost;
in `signatures` a signer has one `pfs sign` under way, other signers and
compactions come in between as they like.

Everything else, re-opening, growth within a reservation, trailers followed by
re-opening and editing, compaction, is unrestricted.  The run `reopen_early`
drops the second condition and finds the overlap.

## 4. Findings

1. **A reservation is forgotten when the file is re-opened**
   (`container.rs:189`).  `open` takes the physical end of the file for the end
   of the allocated space.  A partition added last with `extra_reserve` and not
   yet grown does not extend the file; after re-opening, what the next addition
   needs is placed inside its reservation.  In the run that is an overflow table
   block.  Growing the partition in place afterwards overwrites the block, and the
   chain of table blocks can no longer be read; if it was grown before (in place
   the cursor does not move), the block overwrites its data, which then does not
   match its hash.  The header comment (19-21) and the specification present
   the reservation as made for exactly that growth.
2. **A stored trailer can be taken for the container's** (`container.rs:235`).
   After an aborted append the backward scan accepts any 20 bytes that end in
   the magic and name head 0; a stored PFS-MS file begins with such bytes.  The
   comment (222-223) promises recovery "for free".
3. **`flush` is no barrier** (`writer.rs:422`).  On a `std::fs::File` it does
   nothing, so after a power failure the trailer can be on disk and the blocks
   it publishes not; the specification asks for fsync before publishing.
4. **`mv` makes cycles** (PFS-MS `writer.rs:645`).  The destination of a move
   may lie inside what is moved; the committed records form a cycle of parents,
   and what is on it disappears or makes the whole tree unreadable.  W5 of the
   specification has the writer keep the hierarchy acyclic.

Observations that are not the subject of a run:

* A commit whose last flush (S7, PFS-MS `writer.rs:434`) fails has published its
  session, but returns before the writer's fields are advanced (437-440).
  `head_offset()`, documented as "the current committed head offset" (256), then
  returns the session before it, and a retry through the same writer takes the
  same number and links to that one: the published session is no longer in the
  chain.  Readers see a valid file at every moment.  `LastFlushFails` models it,
  `PfsLog` has it as `CommitUnnoticed`, and `WriterKnowsItsHead` bounds it to
  one session.
* Moves are not re-baselined (PFS-MS `writer.rs:650`).  Each adds an INHERIT, which
  by section 9.4 counts for the delta depth, so a file that is moved often
  enough is deeper than recommended, and after 4097 moves unreadable; W6 has
  the writer "re-baseline before the recommended maximum delta depth".
  `DeltasBounded` says what the code does ensure: no DELTA is *written* past it.
* An arena may be given no hash for its inner tables (`arena.rs:166`), and then the
  reader checks none (`reader.rs:212`): nothing that is lost from such a table is
  noticed.  `TablesProtected` says so by its premise.
* `verify` of PCF-DCP does not notice damage to the content of an inner
  partition (`reader.rs:169`): `parse` does not keep the `used_bytes` and
  `data_hash` of an inner entry, and the content is compared with a hash just
  computed from it, although the comment and rule R4 of the specification promise
  the check; the container's own algorithm is 0, so nothing else covers these
  bytes.  `TablesProtected` is therefore about the tables alone.
* `verify_all` of PCF-SIG with `DataRecheck::Recompute` recomputes nothing
  (`verify.rs:267-276`), only `verify_all_with_recheck` does.
* After an edit of a partition that shares an extent, compaction and saving copy
  the shared bytes once per partition (`arena.rs:635`), so that a container can
  grow by being compacted.
* `pfs compact` does not fsync the directory after the rename, and leaves its
  temporary file when the write or the fsync fails.  `DurableOnceReported` and
  `CleanedUp` are about `pcf-compact`, whose comments promise both; what
  `compact.rs` promises, the old file or the new one, `TargetsWhole` shows.
* A damaged key or signature partition is not repaired by signing: a signer whose
  key no longer parses gets a second key partition, and the entries of the
  damaged signature are signed again.

## 5. Proofs

Eight modules hold proofs: two of lemmas (`DataInduction`, `PcfRecordsProofs`) and
six that each have one or more inductive invariants, one lemma per action, and
theorems about the specification.  The theorems hold for every value of the
constants that meets the hypotheses named below.

### Induction over data (`DataInduction`, `PcfRecordsProofs`)

The library's induction theorems take an operator as parameter, which the
installed provers cannot instantiate.  The inductions here are of *sets*:
`SetInduction` says that a set of numbers with 0 and every successor is `Nat`, and
follows from the well-foundedness of `<`; a claim `P(n)` is proved of the set
`{n \in Nat : P(n)}`.  From it come the lemmas about what the models compute by
recursion: `FlattenSeq`, the list of writes applied to a file
(`Apply`), the walk along a chain of blocks and the walk along HEAD blocks.  The
walks of the models are functions on `0..Len(file)` and on the offsets of the
file, as a chain in a file cannot have more blocks than the file has cells.

### Placement (`PcfLayoutProofs`)

`PcfLayoutProofs` proves, for **every** value of the record sizes, the
capacities, `MAX_ENTRIES_PER_BLOCK`, the lengths, the reserves and the set of
UIDs (finite or not), that `SafeSpec` keeps `TypeOK`, `RegionsDisjoint`,
`TrailerApart`, `CountsMatch`, `CursorAhead` and `Present`: the invariants of
the run `layout`.  The only assumption is `LayoutAssumption`, that sizes and
limits are positive and lengths are natural numbers.

The argument is one inductive invariant, `IInv`.  None of the properties is
inductive alone:

* `RegionsDisjoint` needs `CursorAhead`: what is new is placed at the cursor,
  hence beyond everything reserved;
* `CursorAhead` across `Reopen`, where the cursor falls back to the physical
  end of the file, needs `Present` (live blocks are in the file) and the guard
  `Materialised` (so are the reservations);
* `Present` for an entry appended to a block needs `CountsMatch` (it lands
  within the capacity);
* `CountsMatch` for a removal needs the set of partitions to be finite
  (`IsFiniteSet`), so that taking one away lowers the cardinality;
* `TrailerApart` speaks of the live part of the blocks; an entry appended
  later makes that part longer.  `TrailerReserved` strengthens it to the whole
  capacity for a handle that is not finalized: re-opening gives up the spare
  capacity that a trailer may have been written into.

The proof has one lemma per action (`AddInPlaceIInv`, `AddInOverflowIInv`,
`UpdateIInv`, `RemoveIInv`, `FinalizeIInv`, `ReopenIInv`) and in each one step
per conjunct; `Placement` puts them together and the six theorems that name a
checked property follow from it.  Through `FollowsLayout` the run `container`
ties the theorem to the model of the code.

### Replacing a file (`ToolProofs`)

For every set of runs, process ids and clock readings, every bound on edits and
under `ReplaceAssumption` alone (two names, no run or temporary name among them,
`Torn` is no version), `Safety` keeps `TargetsWhole`, `DurableOnceReported` and
`CleanedUp`.  What makes them inductive:

* after a power failure programs see any directory of `pending`, so the invariant
  speaks of all of them: `DirsGood`, the targets of each are bound to data that
  is whole *and* fsynced;
* a run empties and writes an inode, so that inode must be no target in any of
  those directories: `Apart`, for inodes that have a temporary name now, and
  `Unborn`, for runs that have not created theirs;
* the rename makes the temporary file a target, so it must be whole, fsynced and
  hold the newest version: `RunsGood`, which follows a run from `create` to
  `rename`;
* a run's file stays its own until then because no live run shares its process
  id: `OwnPid`; a name left by a dead run is refused (`create_new`) or taken over;
* `Replaced` and `Owned` say of which run an inode is, for `DurableOnceReported`
  and `CleanedUp`.

### Acceptance of signatures (`ToolProofs`)

For every set of uids, contents, signers and algorithms and any number of calls
and damages, `HSpec` keeps `ValidMeansAsSigned`: an entry is accepted *exactly*
when its signature, a key of its signer and the partition are as they were
written.  The invariant says how far what is in the file can be from what was
written (`Good`): in the data alone, so type, algorithm and recorded hash are
still those of the writing; a damaged key parses no more (`KeyGood`); a damaged
signature that parses has the signature bytes it was made with (`SigGood`), and
those are of one manifest and one key, so any other manifest fails.  A signature
made from what `pfs sign` read earlier satisfies the same, because `PlanGood`
holds of what was read.  The symbolic signature is the only cryptographic
assumption: it is a pair of key and manifest.

The action properties `SigningIsAdditive` (`SigningAdds`) and `SigningConverges`
(`SigningAllConverges`) need `KeysApart` besides: no two partitions of a file that
parse are the key of one signer, also while a `pfs sign` of that signer, which has
looked for the key in one step, has not yet added it in the next; and nothing is
signed, or read to be signed, that is empty.  Without the first part a signature
could name either of two keys; without the second a signature could be made
that accepts nothing and adds no key.

### The session log (`PfsLogProofs`)

A commit is a list of writes that may stop after any of them, any number of
times, in a process that dies or in one that goes on.  Proved for sessions of any
size and number, any `MaxEntries`, `MaxFaults` and `MaxEof`:

* `CommittedStay`: no step changes a byte up to the newest trailer.  `StayInv` says
  that an open handle appends behind that trailer and that nothing at or past its
  append position is a trailer: debris of a failed commit may lie there, and the
  position may even be past the end of the file.
* `WriterAlwaysKnows` and `FileAlwaysVerifies`: of `LogInv`, which says what the
  file *is*.  There is a list of sessions, each a list of block offsets, `Published`
  up to the newest trailer: the blocks are whole and linked to one another and on
  to the next older session, entries lie below the trailer and hash to their data,
  the record of each session counts its blocks, covers its MEMBER hashes and
  names the older session by hash and number; and the head the newest trailer names
  is the first of them, and an open handle knows that one or the one before it.
  Neither property is inductive: that the file verifies says nothing of where
  the next session goes.
  What lies beyond the newest trailer is not mentioned, which is how debris is
  harmless: a commit that stops leaves the list as it was, one that ends, or fails
  at its last flush, puts a session on top of what its writer knows of the list.
* `FileIsALog`: `PfsCommit` implements `PfsLog`, call by call.  The list of sessions
  determines what a reader sees (`LogOf`), the trailer makes it the known sessions and
  the one being committed and every other write leaves it alone; `RefInv` adds that
  the checked module's `log` is that.

Hypotheses: `PlainSessions(D)`, contents are sequences of cells of `D` and none of these
is a trailer, which is just what the run `nested_trailer` violates, and with it the
theorems fail; for the last three also that a node record is one cell and
there is one record per node in a session, that no data cell looks like a table block
of more than `MaxEntries` entries, and that `NIL_UID` is none of the uids the writer
makes (`SoundSessions`).  `RunIsSound` proves that the sessions of the run
`commit` meet them.

### The container (`PcfContainerProofs`)

For every set of UIDs, all contents and reserves, every number of entries per block and all
bounds, `SafeSpec` keeps `AlwaysVerifies` and `HandleMatchesDisk`
(`ContainerAlwaysVerifies`, `HandleAlwaysMatches`, and `CheckedContainer` of the
specification that TLC runs).  `CInv` says that the file holds a table:

* `Image`: a list of blocks with their offsets, algorithms and live entries; each block
  is on disk with the hash of its entries and the link to the next one, each entry
  has its data on disk under its hash, no UID occurs twice;
* every cell of the file, and beyond it every reserved one, has *one owner*: the
  header, a block, a partition or a trailer.  This is what "regions do not overlap"
  becomes here, and it makes writes local: a write into cells of one owner leaves
  what the others hold (`EntryHeld`, `BlockHeld` of another owner) unchanged;
* `HeadIs`: the header names the first block, or the last trailer in the file does;
* `HandleIs`: the handle's list of blocks is that of the disk, with the capacity of
  each; while the handle is not finalized, the capacity is the block's own
  (`RoomHeld`).  After `finalize_with_trailer` it no longer is, since the trailer may be
  written into it, which is why the discipline excludes edits from then on;
* reservations end at `data_eof` for an open handle and at the end of the file
  without one: the step from the first to the second is `Close`, whose guard
  `Materialised` is the second half of the discipline.

There is a lemma for each plan (in place, with overflow, update in place and with a new
region, removal, trailer, close, open) and for compaction, which builds a new
file from lists: the entries that fill each block, the blocks in a row, the
data behind them; `PackedImage` shows that what it writes is an `Image` again.

`CompactionShrinks` (`CompactingShrinks`), that compacting never makes a file longer,
does not follow from `CInv`, by which a block may hold any number of entries: `Counted`
adds that none holds more than `MaxEntries`, so that the packed image needs no
more blocks than the file had.  Each region of the image then stands for one of
the old file: its header, a block, the entries and the data of a partition.  Those
are apart because each cell has one owner, so the old file has at least as many
cells (`RegionsSize`, `CompactedShorter`).

`ContainerIsAStore`: the checked container implements `PcfStore`, and each call is the
step of its name, partition and content there.  The table of
`CInv` determines what a reader sees (`MapIs`: the entries of all blocks have distinct
UIDs, and each reads back its data), so each plan is followed through that table:
an addition extends the map by one, an update changes the value of one, a removal
takes one away although it moves the last entry of the block to the gap, and
publishing, closing, opening and compacting leave the map alone.

Crashes are about the same plans cut short, so `CInv` holds *before* the operation;
`CrashInv` says of a crashed file which writes of which plan are in it, and each theorem
looks at every proper prefix of every plan:

* `CrashIsConfined`: what is written belongs to the owner of the touched partition
  and block, or lies beyond everything owned; by ownership the data of all others and
  every other block of the chain are as they were;
* `OverflowAlwaysAtomic`: of the writes that add a block, all but the last are in
  cells that no reader visits, and the last one is one cell;
* `CrashAlwaysDetected`: if the file verifies, the tables that changed have the hash
  of the old or of the new contents.  A chain that walks to the end is the old or
  the new one (`ChainBreaks`); then block by block the digest, of the entries and of
  the data, decides.  This needs that `"None"` is neither a table nor a data
  algorithm, which is what the property is about.

Hypothesis: `PlainContents(D)`, contents are sequences of cells none of which is a
trailer, for the reason given for sessions: the backward scan accepts a trailer in the data.
`RunIsPlain` and `CrashRunIsPlain` prove that the contents of the runs `container` and
`crash` meet it.

### Paths and history (`PfsWriterProofs`)

For any paths, contents, patches, host directories and batches, any number of
calls and any recommended depth, five properties of the tree: `NoTwoSiblings`,
`NothingInItself`, `DeathIsFinal`, `FewPatches` and `PastIsKept`.

`Kept` (theorem `KeptAlways`) is inductive, for `Next` with its unsafe moves as well:
the log is a sequence of sessions of sound records, `view` is what `build_node_view`
makes of it (`Logged`), and no two live nodes share a parent and a name (`Siblings`).
`SiblingsUnique` alone is not inductive: without it and `Sound` nothing says that
what a path leads to is the only node there, and the guards of all operations
look paths up in the tree.  Two conditions on the records of one more session keep
it, and every operation is shown to commit only such records:

* `Fits`: a node that is there already is live and keeps its kind; a parent is there
  or comes in the same session, and is live or new unless the record is a
  tombstone; a patch is put only on a version that may have one (`MayDelta`).
  No record makes a dead node live, so `LivingGrows`: what lives afterwards lived or is
  new, which is `DeathIsFinal`.
* `Apart`: no record that is not a tombstone puts a node where another one lives.

`commit_changes` is the hard case: it resolves every change against the tree
*before* the batch and the directories it made itself, and puts no two records
of one node.  `Making` is the invariant of the batch as it grows: new nodes are
numbered, each comes of one path, no two of one, and what is known of directories is
the path each came of; `Orderly` says in which order the changes come, and follows
from `Ordered` (`OrderlyIs`).  `Rises` adds that a new node's parent is live already or
has a smaller number, so that a batch makes no cycle.

What is said of live nodes is proved by `Downward`: what holds where the way to the
root ends, and of a node whenever it holds of its parent, holds of every node not
on a cycle.  `Fate` and `Resolve` are solved by the recursion lemmas of `DataInduction`;
`ResolveOnce` (two paths to one live node are one path) is what keeps the removals of
an update from naming a node twice.

* `NothingInItself` needs `Tidy` (no node on a cycle, none its own parent), which a
  move keeps because `SafeMv` takes it to a live directory that is not below it.
* `FewPatches` is of *every* node, live or not (`Light`): of the versions on its newest
  full one, each DELTA has at most as many DELTA and INHERIT versions up to and with
  it as recommended.  A move puts an INHERIT on top at any depth; a DELTA comes on top
  only where `MayDelta` finds the whole depth below the recommended one.
* `PastIsKept` is `Remembered`, by which `past` is a function of the log: `AsOf` reads a
  prefix of it, and only compaction changes a prefix.

Hypotheses: `WriterAssumption`; `PathAssumption`, paths have at least one component and
a host directory is finite; and `BatchAssumption`, a file that a batch writes is at
the path of no other entry that the batch makes or writes.  The code does not check
the last and breaks without it (the hazard at `writer.rs:812`); its own callers
keep it: `CollectPlain` proves it of every list `collect_changes` makes.

### Shared bytes (`DcpProofs`)

For contents, edits and chunks of every size, any number of partitions and
containers and any `MaxPerBlock`, all properties of the run `arena` are proved.  The
assumptions are `WriterAssumption` (contents are sequences of bytes, uids are not
containers) and `MaxPerBlockAssumption` (a block holds at least one entry).

* `Filed` is inductive: in every container the fragments are not empty, lie
  in the pool, cover bytes of content only, and any two that have a byte in common are
  both SHARED; no uid is given twice, within a container or between them.  For the
  edits this follows a fragment through the two cuts of `delete` and the one of
  `insert` (`Inside`: each new fragment is within an old one, or fresh bytes), for
  `add_inner` through every chunk, where marking the extent that a chunk was found
  in must reach all fragments of that extent, in any partition.
* `CompactionIsTight` and `DedupIsComplete` are of single steps: `Extents` lists each
  extent once, so the packed pool has no gaps and each fragment's new place is the
  one of its extent; after `dedup` equal chunks have met each other.
* `DcpIsAStore`: with `IsView`, the contents that the fragments spell are those
  `DcpStore` holds, through every edit, dedup, compaction and reopening.
* Reopening is the long case.  `Imaged` says what is where in the bytes that
  `to_bytes` writes: header, pool, one chain of blocks per fragment table, the chain
  of the inner table.  `ChainWalked` shows that a reader walks a chain back to the
  entries it was made from, for any number of blocks, and `ParsedIs` that the whole
  image parses to the arena it was made from, each fragment moved with its extent.
* `WrittenVerifies` follows: the image verifies and every uid is found where it
  is.  `InnerTablesProtected` takes the same bytes with one cell changed in any block
  of the inner table: the links before that block are untouched, so the reader
  still gets to it (`StillReached`), and finds a hash that is not that of its entries.
  Its premise is that the table has a hash at all; the algorithm is that of the first
  block, which a reader takes for the arena's, as `to_bytes` gave it to every block.

### Only model-checked

Of the container: that it steps as `PcfLayout`, that the inspector agrees with the
reader and that it notices crashes.
Of the file system: that it implements `PfsFileSystem` (`IsAFileSystem`), and that an
update without news commits nothing (`SyncsChange`); both compare what is read back
with what was written, through the recursion of `Versions` and of `LivePaths`.
And `EveryRunEnds`: liveness is out of the prover's reach.  Nothing in the others is
out of it in principle.

## 6. Plan

Modelled and checked so far: the container with crashes, placement, the
inspector, the commit protocol with crashes, failing writes and power loss, the
file system on top of it with its history, DCP containers, signatures and the
programs that make them, and the replacement of files; proved: placement, the
container's verification, its refinement of `PcfStore` and its crashes, the
session log, the tree of paths and its history, the marking, tables and images of
shared arenas, signatures and replacement.  Left, in order:

1. The refinement of `PfsFileSystem`, on the lemmas of `PfsWriterProofs`: what each
   session does to the live paths and to the version chain of the node it touches;
   then the inspector's two invariants, which need its walk solved for every file.
2. Container operations that fail and leave the handle in use.
3. One uid in two DCP containers; a move with a batch in one session.

## 7. Not modelled

* Byte layout, CRC and hash algorithms, compression and delta codecs, Ed25519:
  pure functions of data with no state of their own.
* The walk of the host file system by the directory sync, modes, times and
  writer ids; `session_at_time`, which compares timestamps.
* Symbolic links: `atomic_write` and `run` resolve them first, and what they
  resolve to is the target here.
* Two `pfs sign` of one signer at a time, a commit or edit during a compaction,
  and two writers on one archive: the code takes no lock against them and
  documents a single writer.
* The decoders of `pcf-debug` (`plugin/`) and its output (`render/`), the
  argument handling and printing of the tools, `pcf-sig keygen` and `keys`:
  formatting of what the libraries return.
* The ports to TypeScript, PHP and .NET, which follow the Rust reference line by
  line, and the test vectors with their generators.
