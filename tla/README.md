# A verification project for sqlite-on-gcs-rapid

The program is a SQLite VFS ("appendonly") that keeps a database as an
append-only log of 4105-byte records, in a local file or in an appendable
object of Google Cloud Storage. This directory holds TLA+ models of its
components, the TLC configurations that check them on small instances, and
theorems about them that TLAPS checks for every value of the constants.

- [The system](#the-system)
- [The modules](#the-modules)
- [The runs](#the-runs)
- [What disagrees](#what-disagrees)
- [Fairness and the environment](#fairness-and-the-environment)
- [What is proved](#what-is-proved)
- [What is only model-checked, and what is not modelled](#what-is-only-model-checked-and-what-is-not-modelled)
- [Plan](#plan)

## The system

| Component (`src/`) | State it keeps | Operations | Talks to |
|---|---|---|---|
| VFS (`vfs_backend.cc`) | `g_open_files` (path to file), `g_in_memory_journal_paths`, each behind its own mutex; per file a mapper and its path | xOpen, xClose, xRead, xWrite, xTruncate, xSync, xFileSize, xDelete, xAccess | called by SQLite on any connection's thread; creates a storage and a mapper per open file |
| Block mapper (`block_mapper.cc`) | `logical_to_physical_`, `pending_records_`, `logical_size_`, `initialized_`, one mutex | Init, Read, Write, Truncate, Sync | owns an `AppendOnlyStorage`: Append, PRead, GetSize, Sync |
| Crash recovery (`BlockMapper::Init`) | its loops' locals: the records, `applied[]`, `applied_next` | pad, scan and validate, backward pass, forward pass | reads the storage, may append padding |
| Local storage (`local_storage.cc`) | a file descriptor | Append (a loop of `write`), PRead, GetSize, Sync (`fsync`) | the file system |
| GCS storage (`gcs_storage.cc`) | `writer_`, `token_`, `descriptor_`, `initial_offset_`, `file_length_`, `buffer_`, one mutex | Create, Append, Sync, PRead, GetSize, destructor | the GCS service: metadata, appendable upload, read descriptors |
| In-memory journal storage (`vfs_backend.cc`) | a vector of bytes | Append, PRead, GetSize, Sync | a mapper of its own; dies with it |
| Compactor (`compactor.cc`) | a temporary file, a write stream | CompactGcsObject, WriteCompactedRecords | GCS, BlockMapper |
| Import and export (`import_export.cc`, `sqlite_log_tool_main.cc`) | a raw file and a mapper | ImportLog, ExportLog, delete the target | BlockMapper, storages |
| Extension entry (`extension.cc`) | none | registers the VFS once | SQLite |
| Fuzzer (`log_format_fuzzer*.cc`) | none | drives Init with generated logs | BlockMapper |

A transaction reaches the log like this. SQLite opens the database (xOpen:
registry look-up, storage, `BlockMapper::Init`), keeps its rollback journal
in memory, and at commit writes pages (xWrite: pending records), perhaps
truncates (xTruncate: a pending truncate record that prunes others) and calls
xSync once: `BlockMapper::Sync` appends every pending record, flag 2
("chained") on all but the last and flag 1 ("commit") on the last, and syncs
the storage. After a crash Init takes a record for applied when the run of
flag-2 records it is in reaches a flag-1 record.

What is hard here, and what makes each component correct:

- **Mapper and recovery.** Two representations of one file, memory and log,
  must agree: after a Sync that failed at any record and was retried, after a
  crash at any record, after a torn record was padded, with truncations in
  the middle of a batch or of the log. Correct: a batch is recovered whole or
  not at all; what a successful Sync covered is recovered; a Sync changes
  nothing of what is read; nothing uncommitted is ever served.
- **Local storage.** A failed append may leave a part of a record; a crash
  loses a suffix that no fsync covered.
- **GCS storage.** Data is in a buffer, on its way, or persisted, and each of
  the three may be read; failures come after the data left the buffer; readers
  lag. Correct: the object holds a prefix of what was appended, offsets are
  true, a read returns the data of its offsets or an error and does return,
  and an acknowledged Sync is durable.
- **VFS.** Two registries behind two mutexes, let go of between the steps of
  an open or close. Correct: no entry points to a closed file; one live mapper
  per log, which knows all of it; a live journal is reported.
- **Transactions.** The rollback journal is in memory and dies with the
  process, and over GCS an xSync that failed has already put its records in the
  mapping. Correct: after any crash the next open finds a transaction whole or
  not at all, also after commits and rollbacks that failed, and outside a
  transaction a session reads what was last committed, or its read fails.
- **Compactor.** A writer may append between the download and the overwrite,
  another compactor may be first, and any step may fail. Correct: only what was
  downloaded is replaced, and an open finds the same file before and after;
  where a failure breaks that, nothing but the end of the file is lost.
- **Import and export.** The old log is deleted before the new one is written,
  and reads may be short. Correct: an export after an import gives the raw file
  back, and an import that fails leaves the old log, none, or the whole new one.

`PROJECT.json` lists these hazards line by line with the properties that
would catch each, and says of the uncovered ones why.

## The modules

| Module | Models | Notes |
|---|---|---|
| `LogFormat` | the record format and, in closed form, what a log means: `Applied`, `RecoveredMap`, `RecoveredSize`, `ImageOf` | no state; a record is its block (or -1), payload, truncation size and flag; a position stands for a byte offset |
| `Recovery` | `BlockMapper::Init`, one action per loop iteration | the reference definition is `LogFormat`'s |
| `LocalStorage` | the file: complete records, how many start on the boundary, a torn tail, the fsynced prefix | operators used as pieces of the mapper's actions |
| `BlockMapper` | a mapper over a local file, across any number of sessions | Init is one step (module Recovery is its loops); Sync is taken record by record |
| `DurableFile` | what the logical file promises: an array its reader sees, and the set of contents the next open may find | implemented by `BlockMapper` and by `Transactions` (`Implements` of each) |
| `GcsStorage` | `GcsRapidStorage` against an external appendable object | Create, Sync, PRead and the destructor step by step |
| `AppendOnlyObject` | what `GcsRapidStorage` promises a mapper: a prefix of what was appended, and what a Sync's OK or failure means | implemented by `GcsStorage` (`ImplementsObject`) |
| `GcsMapper` | a mapper over an object in GCS: xOpen, xWrite, xTruncate, xSync, xClose | on `AppendOnlyObject`, with the operators of `BlockMapper` (`M!...`) where the code is the same |
| `Transactions` | SQLite's pager (external) over `GcsMapper`: commit, rollback from the in-memory journal, their failures, close, crash | implements `DurableFile` (`Implements`) |
| `Compactor` | `CompactGcsObject` of several compactors, a live writer, the object's generation | the object in whole records |
| `ImportExport` | `ImportLog`, `ExportLog` and the tool around them | extends `BlockMapper`: the mapper and file are the real ones |
| `VfsRegistry` | xOpen, xClose, xDelete, xAccess of several connections over the two registries | the log's contents counted in batches |
| `MCRecovery`, `MCBlockMapper`, `MCVfsRegistry`, `MCTransactions`, `MCCompactor`, `MCImportExport` | instances for TLC | values, initial logs, symmetry |
| `LogFormatProofs`, `RecoveryProofs`, `BlockMapperProofs`, `GcsStorageProofs`, `VfsRegistryProofs`, `CompactorProofs`, `TransactionsProofs`, `ImportExportProofs` | lemmas, inductive invariants, theorems | see [What is proved](#what-is-proved) |

How they compose. `LocalStorage` and `Recovery` extend `LogFormat`,
`BlockMapper` extends `LocalStorage` and `ImportExport` extends `BlockMapper`,
so that tool, mapper and file are one state machine. For a database in GCS
there are two layers with a specification between them: `GcsStorage` is shown
to implement `AppendOnlyObject`, and `Transactions`, over `GcsMapper`, is built
on `AppendOnlyObject` and shown to implement `DurableFile`, the specification
that the mapper over a local file implements too.

Definitions that begin with "Broken variant" are plausible mistakes in the
operator that follows them. They are part of no specification: each one,
put in the place of its operator, must make TLC find a named property
violated, which shows that the property watches that code (the pairs are
listed under "mutants" in `PROJECT.json`).

How state and actions correspond to the code:

- *Recovery.* `pc` is the loop: "align" (28-47), "scan" (58-101), "backward"
  (106-117), "forward" (119-138). `cursor` is the loop variable, `applied`
  and `appliedNext` are the code's. A block index or size outside its range is
  represented by the nearest values beyond it; a MetadataBlock that does not
  parse by a size of -2. `StorageFails` is any storage error.
- *BlockMapper.* `pending` keeps its slot numbers: Truncate's `remove_if`
  leaves a function with gaps, which keeps the order. `logicalToPhysical` has
  0 for the code's -1 and for "beyond the vector". `pc` is "appending" or
  "flushing" inside Sync; every method holds `mutex_`, so that only a crash
  comes between. `Write` computes the read-modify-write overlay of every block
  it touches; `WriteReadFails` is its early return after some blocks were
  pushed. `openLen` is a history variable: how long the log was when Init
  returned.
- *LocalStorage.* `intact` counts the records that start on a multiple of
  4105. Once an append has been torn and another follows, later records are
  off the boundary; `Framed` is what a reader of 4105-byte steps makes of the
  file: the intact records, then records that do not commit. Bytes read across
  a boundary could by chance be a valid record; that is not modelled.
- *GcsStorage.* `stored` and `sent` are the service's: persisted, and received
  or under way. `Persist` moves data at any time, also when the client was
  told of an error; `Break` loses what is under way. `appended`, `failed`,
  `acked` and `claimed` are history variables that the properties compare.
- *AppendOnlyObject.* A session's Sync takes the buffer (`SyncTakes`); what it
  took is `sent` until `Persist` moves it. `arrives` says whether data taken
  from now on reaches the stream: a session may have none (`OpenObject` with
  FALSE stands for a stream that another session has taken over), and it is lost
  when the stream breaks. `SyncEmpty` is the OK of a Sync with nothing buffered,
  whatever became of the data before.
- *GcsMapper.* Append only buffers and never fails, so that Sync's loop is one
  step: the batch goes to the object, its records are mapped and
  `pending_records_` is empty before the storage's Sync can fail. `XSyncFails`
  therefore leaves a mapping to records that may never be stored. `XRead(b)` is
  the set of outcomes of an xRead of a page, which changes nothing: beyond the
  end SQLITE_IOERR_SHORT_READ and zeroes (vfs_backend.cc 105-107); SQLITE_OK with
  the newest pending record, with zeroes for a hole, or with a record that is in
  `stored`; and SQLITE_IOERR_READ for any block that has to be read from the
  object (112-114, 120-122). A mapped record that a failed Sync lost is not in
  `stored`, so that SQLITE_IOERR_READ is all a read of it can return, as in
  PRead's last attempt (gcs_storage.cc 365-372). `Held` is the file as the mapper
  keeps it, stored or not.
- *Transactions.* `pager` is the state of SQLite's pager; `journal` is the
  contents of the in-memory journal. A page that is written or cut off for the
  first time in a transaction is read for the journal first, through the mapper;
  where it cannot be read the change does not happen (`Readable` in `WritePage`
  and `ShrinkTo`). A commit is `CommitStart` and then
  `CommitOk` or `CommitFails`; a rollback gives the file its old size, writes the
  journal's pages back in order and syncs. `committed` and `doubt` are history:
  the contents of the last commit that returned OK, and those of each sync that
  has failed, or runs, since then. `found` and `contents` (`Held`) are functions of the
  other variables, kept as variables so that the refinement evaluates them once.
- *Compactor.* `pc` is "found" (128-130), "downloaded" (133-140) or "writing"
  (147-200). `session` is a writer that appends to the generation it opened;
  `Overwrite` is the service taking an upload under IfGenerationMatch.
  `ReadError` is an error return whose stream, destroyed without being
  suspended, finalizes what it was given. `committed` is history: what an open
  would have found after the writer's last commit; no step of a compactor
  changes it, so that what a compactor loses shows. `whole` is the first block
  at which a compactor that took the object's place failed since that commit.
- *ImportExport.* `tool` is the step of the running process; `kept` is history:
  the raw files that the log may hold by what the imports so far returned.
  `CopyChunk` is one turn of the loop with a read of any length; `ReadChunk`
  one of the export's.
- *VfsRegistry.* `phase` of a file is how far its xOpen has come (checked,
  mapped, open) or its xClose (erased). A journal is opened, closed and
  deleted under its database's handle, as SQLite does.

## The runs

| Run | Shows | Bounds |
|---|---|---|
| `recovery` | the two passes compute what the log means, serve only committed records, keep mapped blocks within the size, ignore padding, and terminate | every log of up to 3 records of 2 blocks of 2 units, all flags, all valid and invalid headers, torn or not |
| `mapper` | `BlockMapper` implements `DurableFile`; `SessionInv`; a Sync changes nothing of what is read; what a settled session serves is what the next Init rebuilds; no block is lost off the end | 2 blocks of 2 units, 1 written value besides zero, 3 records in the file, 3 pending, reads may fail |
| `gcs` | prefix order, true offsets, right data, acknowledged means stored, reads return; `GcsStorage` implements `AppendOnlyObject` | 2 values, 3 units ever appended, 2 attempts per read |
| `transactions` | after any crash a transaction is there whole or not at all; a session's reads return what was committed or fail; what it reads is stored where no sync failed; the file implements `DurableFile` | 2 blocks of 1 unit, 2 written values (symmetric), 4 records in the object, 3 pending |
| `compactor` | with a writer that keeps still between a download and the overwrite, and reads of the copies that fail: only the copy's original is replaced; what a failure loses is the end of the file from the block it stopped at, and where none failed all of the file is kept (`BeginningKept`); a compaction ends | 2 compactors, 2 blocks of 1 unit, 4 different records, 3 records in the object, 3 generations |
| `import_export` | round trip, an import is atomic, the tool ends | 2 blocks of 2 units, raw files of 0, 1 and 3 units, old logs missing, with a batch, or ending in an unfinished chain, 6 records, 4 pending |
| `vfs` | no dangling entry under any overlap; one owner, full knowledge and journals reported where opens and closes of one path are serial | 3 connections (symmetric), 2 databases, of which one may see overlapping opens, 1 batch |
| `mapper_chain`, `gcs_retry`, `compactor_race`, `compactor_error`, `vfs_race` | counterexamples, see below | those of the run of the component; the mapper's with 1 unit, 2 values, 4 records and 2 pending |

Why the bounds are enough. Three records hold every pattern the passes
distinguish: a chain that is completed, one that is cut, and a record before
or after it; a write, a truncation over it and a write again. Three records in
the mapper's file hold a batch of two whose first attempt failed after one
record, and a torn record of an earlier session with a batch behind it. Two
blocks tell a block that a truncation keeps from one it removes, and two units
a block that is partly kept. In `gcs` three units are enough for one
persisted, one under way and one buffered at the same time, so that a read may
straddle, and two attempts for one retry. In `transactions` four records hold
a committed page, a commit of it that fails, its rollback and one more commit,
or a batch of two that fails, a rollback to the empty file and a commit; a unit per block is
enough because SQLite writes whole pages. In `compactor` two compactors overlap
and a third generation lets the second start from the first one's result. In
`import_export` a file of three units ends inside its second block, so that
the last write is a read-modify-write and Truncate cuts the size, and six
records let an import follow an old log that could not be deleted. In `vfs`
three connections let two overlap while a third acts after them.

`MaxLog`, `MaxPending`, `MaxLength`, `MaxBatches`, `MaxRecords` and
`MaxGenerations` are bounds in guards; `Inputs`, `PageData`, `Written`,
`RawFiles` and `OldLogs` bound what is written.
`NumBlocks` is the code's 1000000, `BlockUnits` its 4096, `MaxAttempts` its 15.
No run turns deadlock checking off.

## What disagrees

Five runs check one statement each that the code does not keep:

1. `mapper_chain`: Init leaves an unfinished chain at the end of the log
   unapplied, but the next session's batch ends in a commit record right
   behind it, which commits the chain too. The test that defines the format
   (`block_mapper_test.cc` 340-402) commits such a chain on purpose with a raw
   append, so the flags mean this; a *session* that was told the blocks are
   unmapped and writes others nevertheless brings them back.
2. `gcs_retry`: a failed `GcsRapidStorage::Sync` has already given its buffer
   away; the next Sync has nothing to write and returns OK.
3. `vfs_race`: xOpen checks and registers in two critical sections; two opens
   of one path may both succeed.
4. `compactor_race`: appends keep the generation of an object, so that a batch
   that a live writer commits between a compactor's download and its overwrite
   passes the precondition and is lost.
5. `compactor_error`: a compaction that fails to read its copy returns an
   error, and on the way the destructor of its stream finalizes the blocks
   written so far over the object. A batch that was committed before the
   compaction began is lost, with no writer and no other compactor involved,
   where `compactor.h` 13 says "Transactionally compacts" and `README.md` 117 of
   the repository "transactionally rewriting the file". `compactor` shows what
   such failures leave: the file up to the block that could not be read.

A sixth disagreement is in the model and in no run. A Sync retried in the same
session after `LocalStorage::Append` failed half way (`local_storage.cc` 53-58)
writes off the record boundary and returns OK, and recovery cannot read what it
wrote: only Init pads. With `AppendAfterTear = TRUE` in `mapper.cfg` TLC finds
`SettledIsRecovered` violated by it. The repository says nothing of a failed
append in particular.

One thing is by design of the models rather than a run. A size that is no
multiple of the block is recovered rounded up: the models keep sizes to the
block (`LogFormat!Image`), and SQLite's page writes hide it for pages of 4096
bytes and more.

## Fairness and the environment

- `Recovery`: weak fairness of the loops' steps, since Init runs in its
  caller's thread under the mapper's lock and no step of it waits for another
  actor. `Terminates` depends on it.
- `GcsStorage`: weak fairness of `ReadStep`, since the thread inside PRead
  goes on and every call it makes is answered, with success or an error.
  Nothing is assumed of `Persist`: the reader may lag for ever, and `ReadReturns`
  still holds because attempts are counted. No fairness for Sync: its waits
  have no time limit in the code, so that nothing is claimed.
- `Compactor`: weak fairness of `Compacting(c)` for each compactor. A compactor
  runs alone in its process and each call is answered; nothing is assumed of
  the writer, of others, or of `GiveUp`. `Ends` depends on it.
- `ImportExport`: weak fairness of `Import \/ Export`, the steps of a tool that
  does not fail; `Failure` and the start of a tool are not fair. `ToolEnds`
  depends on it.
- Other specifications have none; their properties are safety.

Six constants say what the environment does, so that properties can be
checked with the disagreements above both present and absent:

- `AppendAfterChain`: a session that opened a log ending in an unfinished chain
  may Sync new records (FALSE in `mapper` and `transactions`, TRUE in `mapper_chain` and
  `import_export`, where `OldLogs` has such logs).
- `AppendAfterTear`: a session may Sync again after an append that failed half
  way (FALSE in `mapper`, TRUE in `import_export`, where a tool
  never syncs twice; over GCS an append does not fail).
- `ReadsFail`: PRead may fail under a Write's read-modify-write.
- `AppendsMeanwhile`: the writer appends between a download and the overwrite
  (TRUE in `compactor_race`, FALSE in the other runs of the compactor).
- `CopyReadsFail`: reading the compactor's temporary file may fail (TRUE in
  `compactor` and `compactor_error`, FALSE in `compactor_race`).
- `Overlapping`: the databases of which opens and closes may overlap. The
  code does not prevent it for any; `ExclusiveOwner`, `KnowsTheLog` and
  `JournalReported` are stated for the others.

The code allows all of it. The passing runs with FALSE therefore show: apart
from the behaviours listed under "What disagrees", the property holds. Proved for
every value of these constants, TRUE included, are the types; everything about
`Recovery`, `GcsStorage`, `VfsRegistry` and `ImportExport`; `SessionInv` and
`SyncKeepsContents` of `BlockMapper`; and of `Transactions` that a session's reads
return what was committed or fail, and that it reads what is stored. The other theorems name the constants
that they need to be FALSE.

An oddity to know when reading `import_export`: with an unfinished chain in a log
that could not be deleted, the import's batch commits that chain too. Its
blocks come first and the import ends with a truncation to its own size after
writing all of it, so that nothing of the chain shows: the first
disagreement does not harm an import. The run shows it on its old logs, and
`ImportExportProofs!ImportTakesEffectWhole` for every one.

## What is proved

TLAPS checks these for every value of the constants that satisfies the named
assumptions (`FormatAssumption`, `LogsAssumption`, `BoundsAssumption`,
`MapperAssumption`, `PageAssumption`, `ToolAssumption`, `VfsAssumption`,
`GcsAssumption`, `CompactorAssumption`); where a theorem assumes more, its
statement does too. Every safety property of a passing run is the property of a
theorem.

`LogFormatProofs` holds no theorem of the list but the lemmas that the others
share: the last live write of a block in a log that grows by one record
(`LiveAfterWrite`, `LiveAfterCut`), what a set of records leaves of pages and size when a write or a
truncation joins it (the `Leaves` lemmas), and when two logs have the same image.

The mapper over a local file (`BlockMapperProofs`):

- `TypeCorrect`: `Spec => []TypeOK`.
- `SessionCorrect`: `Spec => []SessionInv`. That a block is
  mapped to the last live record of it is not inductive alone. The invariant
  adds: pending truncations never cut what was pending before them
  (`PendingOrdered`, the reason for Truncate's pruning), a pending truncation
  has unmapped what it cuts (`CutIsUnmapped`), the records a session appended
  form chains that end in a commit record once nothing is pending
  (`SessionChain`), and what Sync's loop has left (`SyncState`). The mapping
  clause itself is split: a block with a record still to be appended is
  excused, which is what makes it hold half way through a Sync and after a
  failed one. Each action has a lemma; the long ones are Write, Truncate and
  `SyncAppend`.
- `SyncIsUnseen` (`SyncKeepsContents`): while Sync runs, the newest
  record of a block that it has appended is the one that is mapped
  (`AppendedIsMapped`), so that emptying `pending_records_` hides nothing.
- `SettledSurvives` (`SettledIsRecovered`) and `SizeSurvives`
  (`SizeNotLost`), assuming `AppendAfterChain = FALSE` and
  `AppendAfterTear = FALSE`; `mapper_chain`, and `mapper.cfg` with
  the other constant TRUE, show that both are needed. All records then start on the boundary, and the log a session appended
  to did not end in a chain (`LogWhole`), so that what Init applies is what the
  session counts as its records (`SettledApplies`, `FramedApplies`); the mapping
  follows from `SessionInv`. For the size, some record reaches it that no
  truncation follows, in `pending_records_` or in the log (`SizeReached`), and a
  Sync brings its records to the log in slot order (`AppendedInOrder`).
- `MapperIsDurable` (`Implements`), under the same two conditions: every step of
  the mapper, its Sync taken record by record, its failures and its crashes are
  steps of `DurableFile` or change nothing of it. The invariant `DurableInv`
  adds to all of the above the size from the other side (`SizeWithin`): no
  record that no truncation follows lies beyond the session's last block,
  whether pending or in the log. With nothing pending, what the session
  shows is therefore what an open of the whole file finds, and the set of
  images that `DurableFile` promises is that of the prefixes between what fsync
  covered and the whole file (`Promised`). An appended record adds one prefix,
  which finds what was found before it unless it is the commit record of the
  batch; a flush and a crash each pick among them.

A database in GCS (`GcsStorageProofs`, `TransactionsProofs`):

- `GcsStorageProofs`: `NoHoles`, `OffsetsCorrect`, `AckedSurvives`,
  `ReadsCorrect`, `GcsTypeCorrect` and the refinement `IsAppendOnlyObject`. The
  inductive invariant `Inv` compares object, data under way, buffer and what was
  appended element by element (`Fits`), and says when nothing is missing between
  them: while the stream works and no Sync has failed or its data was lost
  (`Whole`, `Settled`), which the token tells (`Token`). Every action of
  `GcsStorage` is then an action of `AppendOnlyObject` or changes nothing of it.
- `TransactionsProofs!TransactionsTypeCorrect`, `SessionReadsStored`
  (`ReadsAreStored`) and `ReaderSeesCommit` (`SessionSeesCommitted`), for every
  value of `AppendAfterChain`. The invariant `FileInv` has six parts. The types
  and the agreement of pager and mapper (`TypeInv`). What a session that
  reaches the stream appended is stored or on its way, in order (`Arrival`).
  What is stored or on its way is a beginning of what was appended, also in a
  session that lost data (`InOrder`): a record that is stored is therefore the
  one that was appended there, and what a read that succeeds returns is the page
  the mapper keeps (`ReadIsKept`). The pages the mapper keeps, lost ones included,
  and the size are at all times what the records in effect leave, those of
  the log and then the pending ones (`SessionInv`). The history
  variables are the functions they are meant to be (`History`). And the pager's
  own promise (`JournalInv`): the journal holds what was committed of every page
  that differs or is missing in the file (`Saved`, `Tracked`), so that writing
  it back and giving the file its old size restores it (`Restored`),
  also when the commit, or the rollback's own sync, has failed. The journal is
  filled by reads, which is why `InOrder` is needed here too. `ReaderSeesCommit`
  claims nothing of reads that fail, and says that no read returns an older page
  in place of a lost one.
- `TransactionsProofs!CommitIsAtomic` (`AllOrNothing`) and `DatabaseIsDurable`
  (`Implements`), assuming `AppendAfterChain = FALSE`. In addition a session's
  appended records are whole batches (`SessionChain`), so that a prefix that
  ends inside one is found as the prefix before it, and what a settled
  session sees is what an open of all it appended finds. A Sync that fails
  leaves the images of the prefixes between `stored` and all that is under way,
  which are those that `doubt` and `committed` hold.

The other components:

- `RecoveryProofs`: `RebuildsMap`, `RebuildsSize`, `MapsWithinSize`,
  `ServesCommitted`, `PadChangesNothing`, `RecoveryTypeCorrect`: all safety
  properties of the run, for logs of any length. The inductive invariant
  `LoopInv` says of the backward pass that `applied` is the applied records
  beyond the cursor and `applied_next` whether the one after it is among them,
  and of the forward pass that map and size are those of the applied records up
  to the cursor. The lemmas `AppliedFromNext`, `MapWithNext` and `SizeWithNext`
  say how the closed forms of `LogFormat` change by one record.
- `VfsRegistryProofs!VfsTypeCorrect`, `NoDanglingEntry` (`NeverDangles`, with
  overlapping opens and closes), and for the databases outside `Overlapping`
  `SerialOwner` (`ExclusiveOwner`), `OwnerKnowsTheLog` (`KnowsTheLog`) and
  `OpenJournalReported` (`JournalReported`). The inductive invariant `SerialInv`
  counts files on their way in or out as owners (`OwnPath`), says an open one has
  its own entry (`Registered`), and that a journal is active only under an open
  database (`JournalOfOpen`), so that two journals of one path would mean two
  databases of one path.
- `CompactorProofs!TypeCorrect`, and, assuming `AppendsMeanwhile = FALSE`,
  `ReplacesItsCopy` (`OverwritesWhatItRead`) and `FailureLosesOnlyTheEnd`
  (`BeginningKept`); assuming `CopyReadsFail = FALSE` as well, `KeepsContents`
  (`ContentsKept`). `compactor_race` and `compactor_error` show that
  `KeepsContents` needs both. The argument: as long as the generation is the one
  seen, the copy is the object (`Fresh`); a writing compactor's map and size are
  its copy's (`MapsCopy`) and its upload has exactly the live blocks below its
  loop variable (`UploadIsLive`). Such an upload recovers to the copy's contents
  below that block and to zeroes from there on (`UploadData`), to a size no larger
  than the block (`UploadBlocks`), and at the last block to what the copy recovers
  to (`UploadRecovers`), because each record commits by itself and a mapped
  block is within the size (`MappedWithin`); a chained record the writer appends
  changes nothing of what is recovered (`ChainedAddsNothing`). A beginning of a
  beginning is one, so that failures may follow each other
  (`BeginningOfBeginning`); `BeginningKept` is inductive with these.
- `ImportExportProofs!ToolTypeCorrect`, `ExportReturnsImport` (`RoundTrip`) and
  `ImportTakesEffectWhole` (`ImportIsAtomic`), for every raw file and old log and
  every value of the constants. The invariant `ToolInv` says that the log is
  framed (`LogFramed`: no tool appends after a torn append), that for every
  length a crash may leave, the file which that prefix holds is one of `kept`
  (`KeptInv`), that what has been copied reads as the raw file (`Copied`), and,
  while the import's Sync runs, that every block of the raw file has a record of
  this session and the batch ends in the truncation to the raw size
  (`Replacing`: `ReadsRaw`, `Rewritten`, `EndsCut`); an export has read back
  what the log serves (`ReadBack`). The commit record applies an old chain too,
  but the newest record of each block is the session's (`NewestStays`), and the
  truncation ends the batch, so that the log holds the raw file and nothing of
  the chain (`RunApplies`, `CommittedHolds`).

## What is only model-checked, and what is not modelled

Only model-checked: the liveness properties `Terminates`, `ReadReturns`, `Ends`
and `ToolEnds` (liveness under fairness is beyond the prover). The properties of the
violation runs are refuted on the instances that those runs give, so that there is
nothing to prove of them there. No proof rests
on a run; the runs show that the behaviours the theorems speak of occur and, by
the mutants, that each property watches the code it is about.

Not modelled: the bytes of the record and of the MetadataBlock encoding; xRead's
zero fill and short reads; locks and the calls forwarded to the default VFS; the
arguments that fail the range checks (they change nothing); LocalStorage's Open;
files shared between processes; a file system that drops pages after a failed
fsync, or brings back a file that was unlinked before a power failure; deletion
of a GCS object by another client, or a session that stays open across a
compaction; what SQLite does after a read that failed (in `Transactions` the
call that needed it changes nothing); super-journals and transactions over two
databases; time. Also the fuzzer (a test driver of Init, whose inputs `recovery`
covers for short logs), the extension entry point (no state), the argument
handling of the two tools, and the tool's import into a log in GCS (a composition
of `ImportExport`'s steps with `GcsMapper`'s).

## Plan

The models are complete as far as the list above says, and every safety property,
action property and refinement of a passing run is proved. What could follow, most
important first:

1. The composition of the two GCS layers as one theorem: that `Transactions` over
   `GcsStorage` itself, not over `AppendOnlyObject`, implements `DurableFile`. Its
   two halves are proved (`IsAppendOnlyObject`, `DatabaseIsDurable`); the step
   between them is a model of both at once, in which a read takes PRead's steps.
2. Weaker conditions for the theorems that need `AppendAfterChain = FALSE`: what a
   session that appends behind a chain still promises, namely the chain and its
   batch together or neither.
3. The hazards in `PROJECT.json` without a property, each with its reason there;
   the nearest is a session that stays open across a compaction, which needs a
   model of the read descriptor's name.
