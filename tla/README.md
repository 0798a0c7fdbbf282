# A verification project for arxgo

arxgo keeps a file archive small: `scan` writes a registry of every file, `split` moves the large
payload files (videos, or CATIA documents) into a mirror root and leaves a Markdown description in
their place, `restore` moves them back. Every move is a transaction in a write-ahead log, every run
can be interrupted and resumed, and a lock file keeps two processes off the same root. The TLA+
modules here model these protocols from the Go code under `src/internal`; TLC checks them on small
instances and TLAPS proves the results that matter most for every instance.

## The system

| Component | State it keeps | Operations | What makes it correct | Modelled by |
| --- | --- | --- | --- | --- |
| Transfer transactions (`archive/split_exec.go`, `restore_exec.go`, `transfer.go`) | files of both roots, part files, descriptions, the open transaction | skip, begin, rename or copy-verify-move, describe, remove source, commit, abort | no content is lost; a placed file is never undone; a source goes only after its description; every candidate is settled | `Transfer`, `ArchiveMove` |
| WAL recovery (`state/recovery.go`, `archive/*_recovery.go`) | none of its own: reads log and files | abort or roll forward each open transaction | always finds a state it can explain, however often it is interrupted | `Transfer` |
| Transaction log (`state/wal*.go`) | `wal.jsonl`, sequence number, indexes of open work | append, sync, load, cut a torn tail, read other runs | a synced record stays; no start calls a log corrupt that a crash left | `WalFile` |
| Staged copy (`fsops/copyloop.go`, `transfer.go`) | part file, ring of buffers, digest | copy, hash beside the copy, sync, read back | what is staged is one version of the source; every copy returns | `CopyLoop` |
| Run lock (`state/lock*.go`) | `.arxgo/lock` in each root | acquire, take over with `--force-unlock`, verify, change run id, release | one holder; nobody removes another's lock; every attempt is answered | `RunLock` |
| Session (`archive/session*.go`, `finish.go`, `resume*.go`, `state/rundir.go`) | `current`, run directory, `report.json`, status | start, resume or replace a run, checkpoint, finish | open transactions are never left behind by a new run; a process without its lock opens no work and writes neither checkpoint nor, as a rule, report | `Session` |
| Scan (`archive/scan*.go`, `candidates.go`) | registry part, candidate list, checkpoint with cursor and offsets | walk, detect in a pool, write in order, sync, place, resume | every row once and in order; output agrees with the cursor; no deadlock | `Scan` |
| Registry view (`archive/registry_*.go`, `archive_view.go`, `history.go`, `scan_preserved.go`, `scan_reuse.go`, `*_report.go`) | the file registry, its stamp, two copies of each payload registry | replay the committed histories, preserve and reuse rows, update locations | a row says what is there now, or where the file went; both copies agree with the mirror | `RegistryView` |
| Sidecars (`archive/previews_*.go`, `text*.go`, `state/wal_event.go`) | preview and text files, their log events, links in descriptions | generate behind the split loop, adopt, delete with a restore | foreign files stay; a failed worker never blocks the loop; what was promised is caught up | `Sidecar` |
| Preview plans (`media/preview_plan.go`, `archive/previews_plan.go`, `previews_exec.go`) | who owns or started which preview | plan parts, images and names, generate, adopt, delete | within the video, in even frames, no name taken twice, no preview made twice | `PreviewPlan` |
| Descriptions (`report/names.go`, `description.go`, `archive/restore_recovery.go`, `text_identity.go`) | Markdown and text files with a marker | choose a name, find, write, remove if owned | one description per moved file, where its record says; a foreign file stays | `Names` |
| Preflight (`archive/preflight*.go`) | none | space needed per device, refusal | sums do not overflow; shared devices are counted once; what was let through fits | `Preflight` |
| Walker and order (`scanner/*.go`) | none | walk in key order from a cursor, exclusions | order of keys is walk order; a cursor prunes exactly what was delivered | `Walk` |
| Roots (`cli/roots.go`, `root.go`, `session.go`) | the mirror root a split creates | choose the payload, check the roots | no root holds another; the repeated command is the same command | `Roots` |
| Mirror directories (`archive/restore_dirs.go`) | directories of both roots | make parents, prune what was emptied | no empty directory is left, none that holds something goes | `MirrorDirs` |
| Formats, type detection, CATIA parsers, media tools, progress, developer tools | none shared | parsing, rendering, external tools | pure functions or external processes | - |

How they interact. A session takes the locks, decides whether `current` names a run to resume,
recovers the log of that run (or of the run it replaces), and verifies the locks in its first
checkpoint. Scan then fills the candidate list; preflight lets the run through; the executor moves
one candidate after another, each in one transaction; the sidecar worker runs beside it and shares
only the log, whose appends are serialised. Checkpoints verify the locks again, so a process whose
lock was taken stops at the next one. At its end a split or restore replays the histories of all
runs into the payload registries and edits the locations in the file registry. Nothing is shared in
memory between processes: they meet in the files of `.arxgo`, in the part files and in the roots.

The behaviours that are hard: a process dies between any two file operations, recovery included;
unsynced records disappear with the power while the files they tell of are there; users edit and
delete sources and other programs create destinations at any moment; processes compete for the lock
while one of them takes a stale one over; a scan has four kinds of goroutines connected by bounded
channels, a copy two, a split with previews two; registries, names and plans are derived from what
several earlier runs, some of them interrupted, left. `PROJECT.json` lists each such hazard with its
line and the properties that watch it.

## Modules

| Module | What it models |
| --- | --- |
| `Transfer` | one split or restore run, all its processes, its recovery and its environment |
| `ArchiveMove` | what such a run promises: the abstract specification `Transfer` implements |
| `RunLock` | the lock of one root and the processes that compete for it |
| `Scan` | the scan of one root: its goroutines, output files, checkpoint, and the processes that resume it |
| `Session` | the life of a run: locks, `current`, resumption and replacement, checkpoints, report, exit |
| `WalFile` | the text of the log, its two appenders, what loading makes of it |
| `CopyLoop` | one staged copy with its hashing goroutine |
| `Preflight` | the space check, and what the run it lets through writes |
| `Sidecar` | previews and text sidecars over several runs, with the worker, the queue and the log events |
| `RegistryView` | the registries over several runs |
| `Walk` | the walk in key order, exclusions, resumption after a cursor |
| `Names` | the names of descriptions and texts |
| `PreviewPlan` | the previews that splits plan, make, adopt and restores delete, and their names |
| `Roots` | the check of the roots of a command |
| `MirrorDirs` | directories made and pruned around a restore |
| `Transfer_proofs`, `RunLock_proofs`, `Scan_proofs`, `Session_proofs`, `Sidecar_proofs`, `RegistryView_proofs` | theorems about these modules |
| `Files_proofs` | theorems about `CopyLoop` and `WalFile` |
| `Paths_proofs` | theorems about `MirrorDirs`, `Names`, `Walk` and `PreviewPlan` |
| `MCTransfer`, `MCScan`, `MCSidecar`, `MCPreviews` | instances for TLC |
| `MCParts` | `CopyLoop`, `WalFile`, `Session`, `Preflight` and two contests of `RunLock` side by side: a behaviour is one of one part |
| `MCRegistry` | the same for `RegistryView`, `Walk`, `Names`, `PreviewPlan`, `Roots` and `MirrorDirs` |

The modules meet by abstraction: `Session` takes a lock in one step (`RunLock` has the protocol) and
settles a transaction in one (`Transfer`); `Sidecar`, `RegistryView` and `MirrorDirs` move a file in
one or two; `RegistryView` and `Scan` split the work of a scan between what a row says and when it is
written; `Walk` has the order and the pruning that `Scan` takes as numbers.

### Transfer

One state machine for both operations: `src` is the file in the root the run moves out of (archive
for split, mirror for restore), `dst` the file in the other root, `part` is `dst.arxgo-part`, `desc`
whether the archive holds an owned description. `last`, `begin` and `walSha` are what `wal.jsonl`
says of a file's latest transaction; `pc`, `cur`, `mode`, `over`, `changes`, `fallback` and
`handled` are the process (`transferAttempt` and the loop variables); `policy` is the option set,
which every process of the run shares because a run is resumed only with the same definition.
`orig` is a history variable: what the user last stored.

| Code | Actions |
| --- | --- |
| `state.Recover`, `recoverOne` and the split and restore resolvers | `RecoverOne` (one disjunct per last step), `DeletePart`, `RollLog`, `RollDescribe`, `RollRemove`, `Recovered` |
| `splitCandidate`, `restoreCandidate`, `destinationStatus` | `Pick`, `SkipMissing`, `SkipConflict`, `BeginTx` |
| `placePayload`, `hashRenamed`, `renameSource` | `CheckRename`, `Rename`, `CrossDevice`, `StageOpen`, `StageClose`, `StageFail`, `LogCopied`, `LogVerified`, `Move` |
| `placeFailed`, `abortConflict` | `CrossDevice`, `ChangedCleaned`, `ChangedAborted`, `ConflictAborted`, `ConflictCleaned` |
| `finishSplit`, `finishRestore` | `FinishLog`, `FinishDescribe`, `FinishRemove` |

The environment: `Crash` ends the process between any two steps (it also stands for an I/O error
that makes the process give up), `PowerLoss` additionally forgets the records `wal.go` does not sync
(`copied`, `verified`), `Edit` and `Delete` are the user at the source, `Foreign` another program at
the destination. After every stop the operator may run the same command again (`Start`).

What the model simplifies. `RemoveSource` checks and removes in one step, although the code hashes
between its first look and the removal. The look at a candidate (`Lstat`, `destinationStatus`) and
the begin record are one step. A removed part file stays removed. A copy is two steps, not one per
chunk. Verification after a copy fails only because the source changed. Candidates are taken in any
order, of which the walk order is one. Reports, counters, sidecars and directory creation are left
out, except that a restore may find a directory missing (`MissingDir`).

### ArchiveMove

The promise in four actions: a file appears in the other root (`Publish`), the descriptions are
brought up to date (`Tell`), the source is given up only after that (`Retire`), and only then is the
file settled (`Settle`). `Transfer` maps `where` from the two roots, `told` and `settled` from the
log; crashes, aborts and recoveries are stutters of it.

### RunLock

Each process runs `AcquireLock`, later `Verify`, `SetRunID` and `Release`. `lock` is the file at the
lock path (or none), `written` the lock files whose content is complete, so a file that was created
and not yet written reads as torn. `judged` and `aside` belong to a takeover: the bytes it judged
stale and the file it moved aside. `Create`, `WriteContent` and `GiveUp` are `createLockFile` and the
attempt loop, `Inspect` is `inspectLock` with `classify`, `MoveAside`, `Compare`, `PutBack` and
`Discard` are `takeOver`, `Verified` and `LoseLock` are the checks at a checkpoint, `SetRunID`
is the method of that name, `Release` and `Unlink` are the two steps of `Lock.Release`, which verifies
and then removes. `Crash` ends a process anywhere; its lock stays, torn or not.

Reading a lock and looking for its owner is one step, and so is the atomic rewrite of `SetRunID`.
A torn lock is read `Rereads` times, a delay apart, before it is judged; the history variable
`untimely` says that one was judged stale and taken over whose live creator was still to write it.

### Scan

Paths are numbers in walk order (0 is the start of the walk, and the header of the registry), so the
order of keys is `<` and a cursor is a number. `reg` and `cand` are the part file and
`candidates.jsonl` with what is buffered, `regSynced` and `candSynced` what a crash cannot take;
`disk` is `checkpoint.json`, `cp` what the next checkpoint will store. `final`, `version` and
`stamped` are the registry at its final path, its identity and whether `registry-stamp.json` names
it. `unread`, `unlisted` and `sources` are history variables.

| Code | Actions |
| --- | --- |
| `Scan`, `openScan`, `resume`, `Phase`, `preparePreserved` | `Start`, `OpenResumed`, `OpenScratch`, `Phase` |
| the callback of `scanner.Walk`, `walker.visit` | `Delivered` (which entries), `WalkVisit`, `WalkJob`, `WalkQueue` |
| the detection workers, `inspect` | `WorkerTake`, `WorkerDone` |
| `writeAll`, `writePreservedBefore`, `write` | `WriterTake`, `WriterWait`, `WriterMerge`, `WriterEntry` |
| `AdvanceSync`, `periodicSync`, `sync`, `Checkpoint` | `WriterAdvance`, `WriterSync`, `WriterCheckpoint` |
| the end of `pipeline` and of `Scan` | `Joined`, `Rest`, `Place`, `Stamp`, `Complete`, `FailSync`, `Finish` |

The walker, each worker and the writer move independently; `jobs` and `order` are the bounded
channels between them and `result` stands for the `done` channel of an item. When a checkpoint is
due is a free choice, so every place for one is covered. The environment: `Cancel` is a signal,
`Crash` ends the process anywhere and loses any unsynced tail, failing I/O is a disjunct of the
action it strikes and may damage the same tail, `Tamper` is somebody who removes a part file or the
candidate list, or removes or rewrites the registry, between two processes.

What the model simplifies. The tree and the run history stay as they are during a run, but what is
unreadable may change from one process to the next. A symlink is a file. A missing file is an empty
one. Cancellation while preserved rows are prepared, before the pipeline starts, is only the failure
of `Phase`. A registry that is not stamped has no identity in a checkpoint, neither in the code nor
here. Dry runs, which write nothing to resume from, are left out.

### Session

Each process is an element of `Proc` and starts once, with one of the commands `Offered` to it.
`lock` is who holds each root, `current` and `runs` are the files of `.arxgo`: the command in
`options.json`, whether the log has open transactions, the checkpoint and the report. `session` says
where a process is, what it locked and where it found a lock lost. `queued` and `outcomes` are the
videos in the channel of a split's preview worker and those whose outcome the worker wrote to the logs
of the run; `noted` are the processes whose run log tells of a lost lock.

| Code | Actions |
| --- | --- |
| `Start`, `lockRoots` | `Launch`, `LockArchive`, `LockMirror`, `StartErrs` |
| `openRun`, `tryResume`, `recoverReplaced`, `lockOtherMirror` | `OpenRun`, `Replace`, `LockOther`, `RecoverReplaced`, `ReleaseOther` |
| `CreateRunDir`, `WriteCurrent`, `SetRunID`, `recoverWAL`, the first checkpoint | `CreateRun`, `WriteCurrent`, `SetRunIDs`, `RecoverRun`, `FirstCheckpoint` |
| the operation's body | `OpenTransaction`, `SettleTransaction`, `BodyCheckpoint`, `BodyEnds` |
| `previewQueue.submit`, the worker, `defer previews.close()` in `split.go` | `Submit`, `WorkerRuns`, `Drained` |
| `Finish` | `FinalCheckpoint`, `WriteReport`, `ReleaseLocks` |

`CrashRun` kills a process anywhere; `RemoveLock` is an operator who removes the lock of a live one.
A body that returns while its worker still has videos waits for it (`OutOfBody`, `Drained`) before
`Finish` begins, also when the body returned because the lock is lost. `Finish` gives up the run log
only for a loss the body returned; one found by the final checkpoint or by the release is written there
(`noted`), which the model does in one step with the release, since the log is closed then. What the
worker writes for a video is one step here; `Sidecar` has the steps.

### WalFile

A line is the sequence of what was written into it, whole records or a fragment; only the last can
miss its newline. `OpenWAL` loads the text and truncates a torn tail; `Begin`, `AppendStep`,
`BeginEvent` and `FinishEvent` are the appends of the loop and of the worker (a write may fail half
way, a sync may fail); `Note` and `Ingest` are the indexes a process keeps of the records it writes
or loads, and what makes a record acceptable; `ReadWALRecords` is the reader of
other runs. `Killed` ends the process, `LinesLost` is the power: the synced lines stay, further
whole ones and the beginning of the next may.

### CopyLoop

`copyHashing` is `Take`, `Read`, `Hand`, `Write`, `Stop`, `Join` on one side and `HashTake`,
`HashDone`, `HashEnd` on the other, with the channels of filled and of free buffers; `copyChunks` is
`CopyChunk`. `SyncPart`, `CheckSource` and `FinishPart` are the rest of `StageCopy`. A block carries
the time of the write that made it, so that a mixture of two versions is visible. `Rewrite` is the
user, `Cancel` a signal, `Rot` a disk that returns something else than was written.

### Preflight

`ProbeDevices`, `NeedsOf`, `Required`, `Shortfall` and `Admits` are `preflight.go`, with sums that
saturate at `MaxInt`. After `Check` the run itself is there, reduced to what it writes where, so that
the property compares the requirement with what is really spent: `Rename`, or `StageCopy` and `Place`
for a copy, which a restore with `--overwrite` also makes on one device when it replaces another file
(`Copied`; `taken` has that file's size); `Describe`, `Retire`, `WriteSidecar`; then the registries, each written
in full through a part file beside the one it replaces (`WriteRegistry`, `PlaceRegistry`,
`RegistriesWritten`). `Rewrites` lists them: the file registry for a scan; for a split and a restore
both copies of the payload registry, with the rows of earlier runs (`history`), and the file registry
(`earlier`). `home` is the device the candidates lie on, which differs from that of their root when
another one is mounted below it: a rename then fails (`CrossDevice`), and every file left is checked
and copied as between two devices. A process may die anywhere (`Dies`); the part file of a registry
stays until it is written again.

Devices share no space, nobody else writes, and a scanned tree has not grown since the registry
before. All candidates lie on one device. `SpaceSuffices` speaks of what is left once what stands
twice stands once (`Twice`): a registry of a split or restore and the one it replaces, and on one device
a file that replaces another, until its source is gone. The code estimates neither. Two cases are excepted
by name: `PoolCountedTwice`, a split from a mount below the archive into a mirror on the archive's
device, for which `forcedOtherDevice` reads the same pool once for each root, and `CrossesUnseen`, a
restore whose copies under `--overwrite` cross between devices taken for one, before which nothing is
checked again.

### Sidecar

`file` is what lies at each path and who wrote it, `disk` the index the log's events give, `tx` the
last transaction of each file, `links` what a description lists, `indexed` the owners whose
description got neither of its two fixed names, because both were taken (`Placed`; a constant,
`Crowded`, says whose names may be). The worker looks for a description under the fixed names only, so
what an indexed one lists is never refreshed (`Refreshed`).

| Code | Actions |
| --- | --- |
| `planSplitPreviews`, `newSplitPreviews` | `Prepare`, `PlanPreviews` |
| the split loop, `catchUp`, `previewQueue.submit` and `close` | `Visit`, `Submit`, `Send`, `Return`, `Join`, `Stop` |
| `previewExecutor.run`, `splitTexts.generate` | `Take`, `Look`, `WritePart`, `Publish`, `FinishFailed`, `Done`, `Refresh` |
| `sidecarCleanup` in `previews_restore.go` | `Pick`, `DeleteOne`, `Unlink`, `FinishDeleted`, `AfterDelete`, `Restore` |

`Operator` adds, changes and removes files at any of the paths between processes, while a file is
generated and between the loop's files, but not between a publication or validation and the record
of its size. A file of the recorded size is taken for arxgo's, as the code takes it. For that reason
`FilesKept` speaks of the size recorded for some owner at the path, not for the one that is
restored: after one owner's file was generated at a name recorded for another and the process died
before its record, a restore of the other deletes it. Which of the recorded paths the registry
names, kept sources, previews that are switched off and dry runs are left out.

### RegistryView

A file is a version of its content with a modification time in seconds; all versions have one size,
so only the time tells them apart. `registry` has the rows, `stamp` what it was written from,
`copies` the two copies of each payload registry, `history` the logs of all runs.

| Code | Actions |
| --- | --- |
| `openRegistryBase`, `loadArchiveView`, `preparePreserved`, `baseStream.at`, `placeRegistry`, `writeRegistryStamp` | `ScanOpen`, `Visit`, `Place`, `Stamp` |
| the executors | `MoveOut`, `Refuse`, `Abort`, `RestoreOne`, `Executed` |
| `split_report.go`, `restore_report.go`, `writeRegistryCopies` | `ReportArchive`, `ReportMirror` |
| `updateSplitLocations`, `updateRestoredLocations` | `LocateSplit`, `LocateRestored`, `Restamp`, `Settle` |

Transactions and the detection of a file are single steps. The clock advances between runs and while
files are detected. `Crash`, `Mount` (a mirror comes or goes) and `Operator` (files, notes, registries
edited or deleted) are the environment. `RowsTrue` exempts values the operator typed into the registry: a later
split stamps them as its own, and a scan then reuses them. Symbolic links, `--exclude`,
`--overwrite` and previews are left out.

### Walk

`Compare` is the key order, `Against` the comparison with a cursor that prunes or enters a
directory, `Excluded` the globs, paths, reserved names and part files. `VisitEntry`, `Listed`,
`ListingFailed` and `EndOfWalk` are the callback of `filepath.WalkDir` with the directory that is
held back until it is known to be readable; `NewProcess` resumes from what was saved. The order of
`WalkDir` itself is external. Names are numbers and a segment of a glob is the set of names it
matches; `Matching` is as many steps of the loop in `Glob.Match` (`MatchStep`) as it can take. The tree
stays the same between walks; which directories cannot be listed does not. `TreeAssumption` says what a
file tree is: finite, and what lies in it lies in its directories.

### Names

`CandidateNames` are the names a description or text may have, `Inspect` what the marker of an
existing file tells, `ChooseDescriptionPath`, `FindDescriptionPath`, `OwnedDescriptionPath` and
`DescriptionCandidates` the searches of split, restore and recovery. A name is a sequence of parts of
length 1. The moves around them are steps a process may die between (`Die`, `Repeat`), and the
operator plants and removes files between runs. A restore that keeps descriptions keeps the text
sidecar too (`keptText`), with its record; the next split finds it there and writes nothing
(`TextPublished`). A lookup never fails, and nobody writes between a
lookup and the write.

### PreviewPlan

`owned` and `started` are what the log says: the previews a video completed, with the file that was
there, and those whose generation never logged an outcome. `shown` is whose file lies at each name, and
`made` the frame and the length it was made with.

| Code | Definitions and actions |
| --- | --- |
| `media/preview_plan.go` | `SampleRanges`, `ImageTimes`, `ClampPreviewSize`, `JobsWanted`, `Output`, `PlanPreviewsOf` |
| `planSplitPreviews`, `plan`, `occupied` in `previews_plan.go` | `PlanSplit`, `PlanOf`, `OccupiedFor`, `StartSplit` |
| `previewExecutor.run`, `generate`, `adopt` in `previews_exec.go` | `Generate`, `Adopt`, `PassOver`, `DiesGenerating` |
| `deleteAll` in `previews_restore.go` | `RestoreClip` |

The operator plants previews between runs and drops previews and videos (`PlantPreview`, `DropPreview`,
`DropClip`); the metadata of any video may be unreadable when a split plans (`unread`). The history
variables say what the properties except: a file that left the directory other than by a restore
(`gone`), other options or a plan that failed (`reordered`), a video that is planned a name another one
started (`crossed`). All videos lie in one directory and share a stem, times are integers, a file is
told by its maker. The check of its contents (`Passes`) compares the frame and, of a sample, the length
within the tolerance of the code with what the present plan wants (`Contents`). Deletions that are
interrupted are in `Sidecar`; floating point rounding and the size estimates are left out.

### Roots

`SelectPayload`, `PayloadErrors`, `CheckDir`, `EvalSymlinks`, `PathOnly` and `CheckApart` are
`cli/roots.go`; `LockArchive` and `CreateMirrorRoot` make a missing mirror root behind the lock;
`Defining` is what a repeated command is compared by. Paths are absolute and clean, links absolute
and without loops; the tree changes only by the command and by an operator who makes the missing
directory first (`OperatorCreates`).

### MirrorDirs

`EnsureRestoreDirs`, `MakeDir` and `ChmodDir` make the parents of a file in the archive, level by
level; `PlanPrune` and `PruneDir` remove what restores of any run emptied in the mirror. `SplitBack`
is a split between restores, `Interrupt` the death of a process, `Touch` the operator. Directories
of the mirror keep their modes; Windows is left out.

## Runs

Passing:

- **TransferSafety** (`TypeOK`, `NoLoss`, `NoClobber`): one file, all 20 option sets, two crashes or
  power losses, two edits or deletions, one foreign destination. One file is enough because a step
  reads and writes the data of one file only; two crashes because the hard case is the interruption
  of a recovery; two edits because the change counter of an attempt stops at two. Deadlock is
  checked: only a finished run stops.
- **TransferRecovery** (`NeverStuck`, `DescriptionTellsTruth`, `FinishedSettled`,
  `EventuallyFinished`, `ImplementsArchiveMove`): three files, one in a missing directory,
  destinations that are absent, equal or different at the start, without `--overwrite`, interrupted
  twice anywhere. Interference is left out here because these properties say what a run achieves
  when nobody works against it; with an edit after the copy, for one, every rerun rightly refuses to
  remove the source. Three files let one be open while one is settled and one is still to come.
- **ScanResume** (`CheckpointAgrees`, `RegistryComplete`, `OneBase`, `EventuallyFinished`): six
  paths: a directory with a candidate and the place of a moved file, a file at a moved file's path,
  something special at another's, and a moved file after the last entry; the directory and a file
  may be unreadable; two workers; a registry of an earlier scan or none; two faults of any kind. Two
  faults, because the hard case is a process that resumes from what an interrupted resume left. A
  window of one is reached at once and blocks the walker like a larger one.
- **Parts**, five parts, each alone:
  `StagedIsSource` and `CopyReturns` for a copy of up to three blocks through two buffers, with a
  rewrite of the source, a cancellation, failing writes and a rotten block (three blocks through two
  buffers make every buffer come back while the other is hashed);
  `AckedKept` and `NeverRefused` for a log of up to three records from two appenders with two failed
  or torn writes, crashes or power losses;
  `OpenIsCurrent`, `QuietWhenLost` and `EveryRunEnds` for two processes after a killed one, three
  roots, two payloads, forced and refused locks, a dry run, failing writes and one crash or removed
  lock; one video with a preview, as what counts is whether the worker still has one when the lock is lost;
  `SpaceSuffices` for scans, splits and restores of two candidates on one or two devices, or two that
  are taken for one, with the candidates where their root is or on a mount below it, other files at the
  destinations or not; the free space of each device lies at the boundaries of what these orders need,
  between integers that overflow at 255 units and devices that do not tell their size; one restart;
  and two contests for a lock. Without `--force-unlock` (`MutualExclusion`, `ReleasesOwn`,
  `EveryAttemptAnswered`): two processes of this host, one of another, a dead one that may have left a
  lock (complete or torn) and whose pid is used again; two crashes or failed writes. Two attempts instead
  of five make the last one reachable. With it (`TimelyTakeovers` and `OneHolderLeft`, which are
  `TimelyExclusion` and `EventuallyOneHolder` of that contest): two takeovers of the same stale lock
  interleaved at every step, with a crash or a failed write. The history variable `untimely` tells
  the case in which a lock is taken over whose live creator has not written it yet: both processes
  may then believe they hold the lock, and the check at the next checkpoint ends it. The instance is
  the largest the promise is true of: with a third contender, or when the lock left behind is torn,
  two processes can believe to hold it between their checks even if all writes are timely. The
  repository's own test (`TestConcurrentForceUnlockHasOneWinner`) counts only locks that still verify.
  Deadlock is checked.
- **Sidecars** (`CaughtUp`, `LinksMatch`, `CleanedUp`, `FilesKept`, `DeletesRestoredOnly`,
  `SidecarEnds`): three runs in any order, of two videos that plan the same names and of two texts,
  one whose description may find its names taken (`Crowded`), two troubles (a crash, Ctrl+C, a failing log
  write, a change by the operator) anywhere. Three runs, because
  a restore that was interrupted in its cleanup and replaced by a split shows in the third.
- **Registry**, six parts, each alone: `RowsTrue`, `OneInventory`, `StatusTruth` and
  `NothingToChange` for four runs (scans with two settings, splits and restores of two payloads, with
  and without registry updates), one crash and one change by the operator, times up to 2; `WalkedOnce`
  for three walks of a tree of three levels with four sets of exclusions; `OneDescription` for
  `clip.mp4` and `clip-1.mp4`, whose candidate names coincide, four moves, two foreign files, one
  death; `PreviewsSound` for a long landscape and a short portrait video of one stem, two splits under any
  of three settings, unreadable metadata, generations that fail or die, restores, a file of the operator,
  previews and videos that are dropped (the second split then plans over whatever the first one left at
  a name, and the short video is shorter than a sample or the distance of a series); `RootsApart` for
  all choices of roots among eight places with links and names that Windows folds; `MirrorTidy` for
  three files in two levels, two restores, one interrupted, one change by the operator.

`CHECK_DEADLOCK FALSE` stands where an instance ends because its bound on runs, walks or moves is
used up (`Sidecars`, `Registry` and the violation runs beside them).

Fairness. `WF_vars(Process)` in `Transfer`: a running process goes on, and the operator runs the
command again after a failure; nothing forces the environment to act, and no step of the process is
favoured over another. In `RunLock`, a process goes on with its acquisition and with a verification,
rewrite or release it has begun, and a holder whose lock is gone finds out, because checkpoints
recur; a run need not end. In `Scan`, the process outside the pipeline, the walker, the workers and
the writer each go on (four conditions, as the Go scheduler runs every goroutine that can run), and
the operator runs the command again. In `CopyLoop` the copier and the hashing goroutine go on, in
`Sidecar` the loop and the worker, in `Session` every started process, and its body ends because it
has finitely many candidates. Crashes, cancellations and failures are never forced.

Runs that show a disagreement between the code and what the repository says of it (each is a finding
in `PROJECT.json`, with the quotation):

- **OverwriteKept** (`CommittedComplete`): recovery's own abort removes the part file before the abort
  is logged. Interrupted in between, during `restore --overwrite` with a conflicting destination of the
  same size, the second recovery commits the old destination as the restored file. `NoLoss` still
  holds, as the mirror keeps its copy. With a destination of another size the same order leaves a
  transaction that every rerun calls corrupt; `NeverStuck` is therefore checked without `--overwrite`.
- **ScanReborn** (`RegistryComplete`): a directory at the path of a moved file sets the cursor to the
  moved file's key before its row is written; a checkpoint in between loses the row.
- **LogTorn** (`AckedReadable`): one appender's write fails half way; the record the other one then
  appends, syncs and acknowledges stands behind the fragment and cannot be read. `AckedKept` is
  everything else, and excepts exactly this, with a whole record that lacks only its newline counted as
  a fragment.
- **RunLogWritten** (`NothingMoreWritten`): a process that finds its lock lost still writes into the run
  directory: the worker's outcomes for the videos it already had, when the loop found the loss, and the
  run log, when the final checkpoint did. `QuietWhenLost` is everything else, and excepts exactly this and the
  report of a dry run.
- **StaleDeletion** (`SplitAgainKept`): a restore that dies inside a deletion leaves its intent in the
  log; a split moves the file again and makes the sidecar anew; the next restore deletes it although
  the file is in the mirror.
- **PreviewTaken** (`OthersProtected`): a split dies while it generates a preview of one video; in the next
  one this video cannot be read and another one of the same stem gets the name; in a third one the first
  video is planned the name it had started, finds a file with the frame it wants and records it as its
  own. A restore that deletes previews then removes the other video's. `PreviewsSound` excepts exactly
  this (`crossed`).

## Observations

Met while modelling, each at the limit of what a passing property promises and excepted there by
name, or outside the instance:

- `split --verify hash`: the hash of a renamed file is logged with a record that is not synced, so a
  commit after a power loss can lack it.
- A part file left by an earlier run makes recovery abort a rename that was done.
- A takeover can remove a lock of another host that arrived after the stale one was judged.
- `walker.go:146-152`: a directory that was delivered as readable, was the cursor, and cannot be
  listed on resume is left out without a count (`unlisted` in `Scan`, `blind` in `Walk`).
- A dry run that finds its lock lost only in the final checkpoint still writes `report.json` (excepted
  in `QuietWhenLost`; the same finding as `RunLogWritten`).
- A value the operator typed into the registry is stamped by the next `updateSplitLocations` and then
  reused as if detected (`Typed` in `RowsTrue`).
- Preflight: after a rename out of a mount below the archive failed, free space is checked with one
  pool counted once for each root (`archive/transfer.go:163-174`), although integrity.md:160-162 says
  that "two roots on one device are checked once with summed requirements and free space is read once
  per device", so that files are let through that do not fit (`PoolCountedTwice`).
- Preflight: with `--transfer copy` on one device only the largest file is reserved (integrity.md:148).
  `restore --overwrite` on one device stages copies that are not counted, and copies them with no second
  check when the candidates turn out to lie on another one (`CrossesUnseen`). The part files of registries
  that a split or a restore rewrites are not counted either (`Twice`). A requirement at the maximum of
  int64 passes when as much is said to be free.
- Sidecars: a description under an indexed name keeps the links it was first written with, because
  `previews_exec.go:170` tries the two fixed names only (`indexed` in `LinksMatch`).
- A text recorded under its plain name and, when a foreign file took that, under a fallback name, and
  made anew under the plain name after both are gone, is taken as done by a split that follows a crash
  before its record: `text.go:104` accepts any recorded path of the owner. The column `text_rel_path`
  keeps naming the fallback, where no file is (manual-linux.md:388-390 says it "holds the real path").
- Names: the search stops at an indexed name although an earlier one became free, unlike
  `report/names.go:37-39`; a restore without a registry hint leaves an indexed description; a
  description that was kept, or a foreign file removed while a split is interrupted, can give two
  (the exceptions of `OneDescription`).
- "A preview this video already owns or started keeps its name" (`previews_plan.go:111-112`) does not hold
  when the preferred name became free, because a file was removed or the other video was not planned: a
  second preview appears under the other name (`gone` and `reordered` in `PreviewsSound`).
- Roots: a link to nothing, given for the other payload, whose target is the missing mirror root under
  another name is not noticed, and the same command after a crash is then refused (excluded from `MCRequests`).
- A crash between the creation of a directory in the archive and its `chmod` leaves the mode the umask
  gave; no resume repairs it (`torn` in `MirrorDirs`).

## Proofs

`Transfer_proofs`, from the assumptions on the constants in `Transfer` and nothing else, for any
sets of files and contents and any bounds:

- `TypeCorrect`: `Spec => []TypeOK`. `TypeOK` is not inductive: that the part file is whole when a
  transfer verifies and moves it (`StagedWhole`), that the change counter is below two when it is
  raised (`TriesLeft`) and that only `--overwrite` replaces (`ReplacesAllowed`) are needed with it.
  `Typed` is their conjunction; the proof has one step per action.
- `NeverClobbers`: `Spec => NoClobber`, from `Typed`.
- `NothingLost`: `Spec => []NoLoss`. The invariant `Kept` adds that a source which is there is what
  the user stored, and that from the check of the attributes to the move the part file is a copy of
  the present source: a rewritten source has a new modification time, so the check would have failed.
  `RemovalKeeps` is the heart: what `RemoveSource` demands implies that the destination holds the
  source as far as `--verify` can tell.

and in its second part for a run nobody works against (`NoInterference`: no edits, no foreign
destinations, no part files left before, no `--overwrite`), interrupted as often as one likes:

- `AlwaysExplained`: `NeverStuck`; `DescriptionsTrue`: `DescriptionTellsTruth`; `FinishedClean`:
  `FinishedSettled`; and `CommittedAlone`: `CommittedComplete`, which `OverwriteKept` refutes for
  another policy. The invariant `RecoveryInv` says where each file can be given its last record
  (`Sides`, `PartHeld`, `Told`), what a skipped file looks like (`Skipped`), that after recovery only
  the current file's transaction is open (`Settling`), and what each label of the process knows
  (`AtLabel`). The invariant also held on the instance of `TransferRecovery` before it was proved.
  Every part of the hypothesis is needed: TLC finds a counterexample to one of the three invariants
  when an overwrite (`NeverStuck`, `DescriptionTellsTruth`), an old part file (`FinishedSettled`) or
  a foreign file (all three) is let in.
- `MovesAsPromised`: `Spec => ImplementsArchiveMove`. Initial states map to initial states; each step
  is `Publish`, `Tell`, `Retire` or `Settle` of the current file, or leaves what `ArchiveMove` sees
  as it is; `RecoveryInv` supplies that a source goes only after the description.

`RunLock_proofs`, for processes of which none has `--force-unlock`:

- `Exclusive`: at most one process holds the lock. The invariant `Owned` says that whoever created
  the lock or works under it has its own file at the path; two would be two files at one path.
- `RemovesOwnOnly`: a release removes the lock of the process that releases.

and for all processes, forced or not:

- `LockTypeCorrect`: `Spec => []TypeOK`, which is inductive here; it needs `LockAssumption` for the
  bounds and for the processes that are gone.

`Scan_proofs`, for any tree, pool, window and bound on faults:

- `RowsOfOneBase`: all rows of the part file were taken from one base registry. The invariant `Based`
  relates the rows to the base named in the stored checkpoint and in the next one, which differ only
  between the opening from scratch and the checkpoint at the phase boundary, when there is no row
  yet. It needs no assumption.
- `CheckpointsSound` (`CheckpointAgrees`) and `PlacedWhole` (`RegistryComplete`), when no directory
  stands at the path of a moved file (`NoReborn`; the run `ScanReborn` shows why). `ScanInv` says
  that the output always fits the cursor (`Fits`), that the offsets of a checkpoint are synced before
  it is stored, so that later rows and lost tails are beyond them (`Sound`), and that every path
  after the cursor is accounted for or still in one of the channels, goroutines or the walk
  (`Covered`), in walk order (`InOrder`). From `ScanAssumption` it uses that the tree is depth first:
  what comes between a directory and an entry below it is below it too.

`Session_proofs`, from the assumptions of `Session`, for any processes, commands and roots:

- `OpenWorkGuarded` (`OpenIsCurrent`) and `LostIsQuiet` (`QuietWhenLost`, with what it excepts).
  `SessionInv` says that two processes are never past the archive lock together (`Alone`), that a process there still has the
  locks it took (`LocksOf`), that only the current run has open transactions (`OpenWork`), which run
  each process works on (`RunOf`), and what a lost lock leads to (`LostOf`). Since a process past the
  lock is alone, the lemma `InsideStep` reduces an action to its own process and the files.

`Files_proofs`, in its first part, for any ring, source and number of rewrites of `CopyLoop`:

- `StagedCorrect`: `StagedIsSource`. `CopyInv` says that every buffer is in one place (`Distinct`),
  that the loop alone has the one it fills (`Owned`), that the digest, the block being hashed and the
  waiting ones follow one another as they were written (`Hashed`), and that all blocks are of the
  version that was there at the beginning as long as its time is (`Versions`).

and in its second part, for any records and failures of `WalFile`, from `LogAssumption`:

- `AcknowledgedKept` (`AckedKept`) and `StartsSucceed` (`NeverRefused`). `WalInv` gives the history
  of the text: indexes such that each ended line is one record acceptable to those before it and
  leads to those after it (`Followed`); the unended last line begins with a fragment or a record that
  would be acceptable next (`Half`); nothing behind the ended lines is synced; and a process knows
  the last indexes, but for numbers whose record did not get into the file (`Agree`). `LoadReads`
  connects this with the recursive function that loads the log.

`Sidecar_proofs`, for any owners, names, earlier runs and troubles, from `SidecarAssumption`:

- `SidecarFilesKept` (`FilesKept`) and `DeletionAllowed` (`DeletesRestoredOnly`), from `SidecarInv`:
  which command is at which step, that a file about to be recorded or removed has the size that goes
  with it, and for whom a restore deletes.
- `SplitCatchesUp` (`CaughtUp`), `DescriptionsList` (`LinksMatch`) and `RestoreCleansUp`
  (`CleanedUp`). These speak of the end of a command only. `Serving`, `Listing` and `Cleanup` say
  what holds on the way: every owner still waits, in the loop, the queue or the worker, or has been
  served; what was served is listed, unless its
  description has an indexed name; of a restored owner nothing is left, or its cleanup is to come,
  and of the one at hand only what is pending. `WorkInv`, on top of `SidecarInv`, follows the channel
  between the loop and the worker and the two copies of the index.

`RegistryView_proofs`, for any paths, payload kinds, commands, times, changes and crashes, from the three
assumptions of `RegistryView`:

- `RegistryInvariant`: the invariant `RegistryInv`, from which the following four are read off.
  `Truthful` says that the logs tell what lies in the mirror and which descriptions are ours, so that
  what the replay of all runs calls moved is right, also after a crash left a run unreported.
  `Honest` says what a row can be trusted for: one that agrees with the present file in its time,
  was written before the second its scan began, is not typed and whose file was not restored since
  has the value detection would give under its settings; `Reuse` has it of the stamped registry, of the
  rows so far and of the base, which is what the guards of `baseStream.at` are for. `Inventory` is
  `OneInventory` for the paths a scan has visited, `Reports` what the payload registries say at each
  step of a report, `Known` what a split during which nobody changed anything knows of the archive,
  and `Undisturbed` that after it the registry is what a scan with its settings would write.
- `RowsAreTrue` (`RowsTrue`), `InventoryIsOne` (`OneInventory`), `StatusesAreTrue` (`StatusTruth`) and
  `NothingChanges` (`NothingToChange`).

Two families of lemmas carry it: how one more record changes a replayed history (`Moves`, `Returns`,
`LastEvent`, `Records`), and what `Merge` and `MarkRestored` make of statuses, by induction on the
number of runs.

`Paths_proofs`, for any files, modes, runs and interruptions, from `PayloadAssumption` (no file is
a directory too):

- `MirrorStaysTidy`: `MirrorTidy`. Removing a directory can empty only its parent, which is shorter:
  `Pruned` says that a prune still has ahead everything shorter than what it has ahead, and all it
  could remove. `HasChild` says that whatever lies above a file that is there holds something, which
  keeps it from being pruned; `Made` follows the modes from `mkdir` to `chmod`.

and for any files of a directory, candidate names and limits on names, from `NamesAssumption`:

- `NamesInvariant` and `DescriptionsAreOne` (`OneDescription`). The invariant `NamesInv` says for a
  file nothing moves that its description and text are where its records say (`Settled`), and for the
  file of the open transaction that what was written so far is where it would be written again
  (`Underway`); a text that a restore kept counts as settled where it was (`HasText`, `PublishedKeeps`).
  The lemma behind it is `ChosenStays`: the first candidate that is absent or the file's own stays the first one while no foreign candidate before it goes away and nobody takes it.
  `RemovedIs` says that a restore removes only a description of its own file, and finds the recorded one
  unless its name is indexed and not listed.

and for any trees, names and exclusions and any number of processes, from `TreeAssumption` and
`GlobAssumption` (what the segments of a pattern are):

- `WalkInvariant` and `EachWalkedOnce` (`WalkedOnce`). The order of keys is shown to be total on keys
  of any length and to keep what lies below a directory together; hence what is skipped at the cursor
  lies before it (`Skipping`). `WalkPosition` places the cursor, the directory held back and the log
  in that order. `Accounted` says that nothing included is missing up to the cursor or the
  entry visited last, and that this holds of every prefix of the log a checkpoint can still cut it
  down to; that part is what makes it survive a new process.
- `MatchingIsMeant`, a lemma: the greedy matching with one remembered star decides what a pattern
  means, for every pattern and key. Its loop invariant says that what an earlier choice for the
  star could still match, the remembered one can match too (`Greedy`), and a measure bounded by
  the number of steps grows in each (`Effort`), so that the run of `Matching` has ended.

and for any videos, metadata, options and limits and any number of splits, from `PreviewAssumption`:

- `PreviewInvariant` and `PreviewsAreSound` (`PreviewsSound`). What one plan is follows from arithmetic
  alone (`SampleFits`, `ImageTimesFit`, `SizeFits`); that `PlanSplit`, a function whose value for a video
  takes the names of all earlier ones, is defined at all is `PlansExist`. `Protected` says that until
  videos cross or a file goes away every name a video owns or has ahead is its own or
  free, or the operator's where the video had started it. `Steady` looks at the videos that want a
  preview of one preferred name: the first in path order leads, and while every plan succeeds under the
  same options nobody else ever gets that name, and whatever the leader has under the other name it
  has because a file was, and still is, in the way; hence no video has both.

Each of these invariants (`RecoveryInv`, `ScanInv`, `SessionInv`, `CopyInv`, `WalInv`, `SidecarInv`,
`RegistryInv`, `NamesInv`, `WalkInv`, `PreviewInv`) was given to TLC on the instance of its run or a smaller one before
it was proved; several earlier forms of them did not survive that.

What the proofs changed in the models: `Scan` states as an assumption that the tree is depth first;
`Sidecar` reads its plans with set operators (`FirstName`, `PlanAll`), keeps the owners to visit as a
set; `RegistryView` states the replay of histories, the last event of a path and the last record of a
description directly, as what is there and in which order, where it first folded over the logs;
`Names` states its choices by the first good position; `Walk` writes the matching of a glob as a
recursive function and the furthest key as a choice; `PreviewPlan` plans with sets of jobs and a recursive
function where it folded, and, read again beside the code for the proof, has a worker that can adopt, pass
over or die and a restore that keeps what was replaced, which is how `PreviewTaken` was met; `CaughtUp` of `Sidecar` for texts is satisfied by
any recorded path, which is what the code checks (see the observation on `text_rel_path`).

Only model-checked:

- liveness under fairness (`EventuallyFinished`, `EveryAttemptAnswered`, `OneHolderLeft`,
  `CopyReturns`, `EveryRunEnds`, `SidecarEnds`), which is out of the prover's reach;
- `TimelyExclusion` (`TimelyTakeovers`) and everything else about takeovers. Exclusion rests there on timely writes and
  is not true of every instance (see `Parts`), so there is no theorem to prove. `ReleasesOwn` is
  neither checked nor proved for takeovers: with three of them a release can verify its lock, lose it
  to a takeover that moves it aside, and remove the one created meanwhile;
- `SpaceSuffices`: sums over sequences that saturate at the largest integer. Where they do, the
  property holds by the sizes of the instance only (see the observation on int64), and without
  saturation it needs what the instance says of estimates and of the devices a mount can stand for;
- `RootsApart`: it holds for trees whose links lead somewhere without loops and for requests that do not
  give a link to nothing for a root that is made by another name. These are conditions on
  `FileSystems` and `Requests` that are as long as the check itself;
- the properties of `TransferRecovery` when somebody works against the run; there they are false.

## Not modelled

`PROJECT.json` has a line for each component. Type detection, CSV and Markdown formats, CATIA
extraction and its text index, container parsing and the external media tools are pure functions or
external processes; progress and the run log are output only; flag parsing and help have no state;
the developer tools are not part of the program. When a periodic checkpoint is due is a free choice,
so the throttle is not modelled. The hash that `RemoveSource` computes between its look at the source
and the removal is one step with both (the hazard at `archive/split_recovery.go:107`).

## What remains

In the order in which it seems worth doing:

1. `Preflight`: `SpaceSuffices` for any sizes where the sums do not saturate, with the estimates and
   the mounts that the instance now spells out as assumptions, and under the exceptions it names.
2. `Roots`: `RootsApart`, from lemmas about links and folded names.
3. The owners of one description in `Sidecar` and in `Names` are two views of the same files; a
   refinement between them would show that they agree.
