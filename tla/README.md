# Verification of the transfer protocols

TLA+ models of the part of OpenAria Bridge Desktop that moves recordings from a
device into the local library and from there to an object store: connecting a
device, running the download jobs, publishing a bundle, delivering outcomes to
the library, deleting from it, uploading from it, importing a recording from a
memory card, and starting again after a crash.
TLC checks the models on small instances; TLAPS proves the theorems of the core for
every instance.

Paths: `core/` is `src/src-tauri/crates/ylx-transfer-core/src/`, `app/` is
`src/src-tauri/src/`.

## The system

| component | state | operations | module |
|---|---|---|---|
| job reducer (`core/transfer/aggregate.rs`) | none; decides on a job's state, run intent and versions | pause, resume, cancel, finalise, observe a device, worker reports | `TransferJob` |
| coordinator, work queue, target leases, commit control (`core/transfer/coordinator.rs`, `queue.rs`, `scheduler.rs`, `commit.rs`) | a serial section and a `JobControl` per job, a bounded set of notifications, holders of directories | worker loop, `run_transfer`, dispatcher `tick`, commands | `Coordinator` |
| transfer store, startup settlement, delivery (`core/persistence/transfer_store.rs`, `core/transfer/recovery.rs`, `app/composition.rs`) | job rows with lineage and tombstones, outbox, library row | enqueue, retry, dismiss, complete, deliver, acknowledge, settle | `JobLifecycle`, promise in `OutcomeDelivery` |
| derived media committer (`app/composition/derived_media.rs`) | session directory, backups, attempts, staging | commit, migrate, restore, clean up | `Publication` |
| library deletion (`app/library_delete.rs`) | trash with markers, intents, operation leases | stage, commit, roll back, clean, orphan scan, reap | `LibraryDelete` |
| uploads (`app/composition.rs`, `app/application/workflows.rs`, `core/persistence/upload_store.rs`) | upload rows, outbox, tokens, leases | start, retry, cancel, dismiss, finish, deliver, reconcile | `UploadJobs` |
| multipart transfer (`app/composition.rs`, `upload_store.rs`) | objects at the store, rows that track them, receipts | initiate, part, complete, stage, abort, clean up orphans | `Multipart` |
| device actor and fleet (`core/device/`, `app/composition.rs`) | connection, session, description, pairing entries and tasks | connect, poll, negotiate, cancel, disconnect, heartbeat, rebind | `DeviceSession` |
| recording ingest (`core/recording_ingestor/`, `core/ingest/job.rs`, `core/media_store/import_jobs.rs`, `app/media/ubuntu_ingestor.rs`, `ubuntu_workers.rs`) | import row with checkpoints and locator, staged files, stop flag and writer lock, wake queue | preflight, copy, verify, commit; pause, resume, cancel, retry; return of a card; recovery | `MediaImport` |
| media pipeline, derivation, normalization, adapters, front end, scripts | | | not modelled |

How they interact: a command of the user is a Tauri call on a thread of its own;
workers, the dispatcher, the poll loop, upload workers, the heartbeat loop and
pairing tasks run beside it. They share the stores (two SQLite databases that no
transaction spans), the file system and a few mutexes, none of which is held
during I/O. What is hard follows from that: every decision is a sequence of
separately visible effects, every reply may find another state than the one
it was asked in, a crash or a failing call may come between any two steps, and a
notification may be lost. `PROJECT.json` lists the hazards line by line, each with
the property aimed at it.

What makes each part correct:

- reducer and coordinator: commits follow one graph; one worker per job and one
  writer per directory; cancellation and publication exclude each other; a job
  that can run finishes and commands return;
- attempts and outcomes: retries share a live child; a dismissed job stays away; an
  outcome is recorded once, and acknowledged only when the library shows it;
- publication: no step destroys the only copy of what was visible;
- deletion: a row never outlives its files, and nothing but the orphan scan of another
  deletion (a deviation, see below) brings back what a committed deletion moved away;
- uploads: one open upload per entry, always owned; the first outcome stands;
  a multipart upload loses its row only when it is accounted for; marker last;
- device: a late reply changes only the connection it was asked for, and no pairing
  attempt stays pending (with two exceptions, see the deviations);
- imports: what becomes visible is the recording of one card, a checkpoint claims only
  what no crash can take away, a paused import writes nothing, a runnable one is run.

## Modules

In all modules data is cut down to what the control flow distinguishes: a payload is
a number or a name, a failure one of the classes the code tells apart. Bytes,
paths, hashes, texts and progress are left out. Definitions marked *Mutant* are the
plausible bugs each property is tried against; nothing refers to them.
`MC...` modules name instances; the remaining modules are parameterised by constants.

**`TransferJob`** has no state, as in the code: the graph (`Edges`), `Route`, `Readiness`, and
for every command the list of effects (`DecidePause`, `DecideCancel`, `DecideWorker`, ...).

**`Coordinator`** performs those effects. Threads are workers, users and the
dispatcher; `pc` is where a thread is, `todo` the effects still to perform, `serial` who is
in a job's section.

| model | code |
|---|---|
| `Apply`, `Perform...`, `...Fails`, `AwaitDone`, `AwaitTimeout`, `Reenter` | `apply`, `perform`, commits to the store, `wait_for_inactive` |
| `Claim`, `TryClaim`, `AcquireTarget`, `ReadJob`, `WorkerObserved` | `worker_loop`, head of `process_job` |
| `TestFlag` ... `FetchFile`, `FetchFails`, `ReadReason`, `Unwind...` | `run_transfer`, `interrupt_outcome` |
| `BeginIrreversible`, `Publish`, `ExportFails` | the commit port |
| `Report`, `Panic`, `LeaveTarget`, `ReleaseJob` | worker reports, `catch_unwind`, the drops at the end |
| `MintReading`, `ReadDevice`, `ObserveDevice` | `device_snapshot` and the observation command |
| `TickRead`, `TickCheck`, `TickProbe`, `TickObserved` | `tick`, one job at a time |
| `Pause`, `Resume`, `Cancel`, `FinalizeCancel`, `CancelReturns` | the public commands |

Flag and reason are separate steps because the code writes and reads them one at a
time. Versions are only compared, so the model keeps their order (`observing`,
`outdated`) and no counters. `TickCheck` reads holder, queue and `active` in one step: each is
read once and under its own lock, and none is used again. `Quiescent` is the stutter of a
system with nothing left to do. At the start every job is queued and rehydrated: `schedule` was
called for each, in some order, so the queue holds all of them or is full.

**`JobLifecycle`** is what happens to the attempts for one session outside the worker.
`row`, `outbox`, `acked`, `library`, `published`, `staged` are durable; `runtime`, `holder`, `lifecycle`, `th`, `poll` are
lost in a `Crash`, after which `Settle` does what `fail_interrupted_jobs_on_startup` does,
row by row and step by step. A step of the settlement that fails ends the start, and the next
start settles anew: that is a `Crash` while settling. `poll` and `settling` are the sets of rows a pass has still to visit,
taken in the order of the outbox (`InTurn`) and of creation (`ToSettle`). Users enqueue, retry and dismiss (`Enqueue`,
`ResolveExisting`, `Retry`, `SpawnChild`, `Install`, `Tombstone`, `Forget`), the poll loop delivers
(`ReadEntry`, `VerifyBundle`, `CommitEntry`, `Acknowledge`, `RetireNext`). A live attempt ends
with some outcome; how is `Coordinator`'s subject.

**`OutcomeDelivery`** is the abstract specification: outcomes are recorded once and
numbered, delivered when the library stands at the number or later, and the library
never goes back. `JobLifecycle` implements it (`KeepsPromise`, an `INSTANCE` that maps `outcome`
to the state of the row, `number` to the outbox, `delivered` to `acked`, `projected` to the
library's sequence): threads, crashes, retries and settlement all become one of its
steps or none.

**`Publication`** takes one session through `commit_cancellable`, `publish_attempt` and
`migrate_existing`, one action per file operation: the visible directory, a backup per
owner with its ownership file, tokens left inside moved directories, attempts,
staging. Any operation may fail and the process may die after any of them.

**`LibraryDelete`** has the two authorities of a deletion: disk (`dir`, `trash`, `marker`) and store
(`row`, `revision`, `intent`, `lease`). A deleting thread claims keys, takes leases, stages entry by
entry, commits under the revision, or rolls back, and cleans. Beside it downloads are
published and projected, uploads hold leases, and a reaper frees them.

**`UploadJobs`** has the rows, the lease, the operation token with its cancel flag, and the
threads: the command that starts, the worker of each attempt, the canceller, and
delivery passes by everyone, each over the outcomes it listed, in the order of the outbox
(`InTurn`). `Crash` loses the volatile part; `Boot...` are the steps of the next start in the two
stores.

**`Multipart`** is what such a worker does at the object store. A call either takes effect
or not, and its answer may be lost either way. Rows, receipts and the store's own state
are separate variables: no transaction spans them.

**`DeviceSession`** is one device: the actor (`conn`, `session`, `info`), the fences (`ticket`, epochs), the
entries `active` and `task`, a `run_pairing` task per attempt (`stage`) with the blocking call it
waits for (`call`), and the commands. Aborting a task stops it where it awaits, the call it
started goes on and is applied: hence `stage` and `call` are two things. A v4 device takes no
part in pairing (its client allows every attempt and negotiates instead); a legacy one
answers, hands a token out once, and lets sessions lapse. Its operator's decision is taken
when a request asks for it, since nothing else sees when it was taken.

**`MediaImport`** is the import of one recording from removable media. `row` is the durable
job (snapshot and locator row), `disk` the part, journal and target of each file and the visible
tree; `worker` is the thread of the import lane, `command` the user's, `stop` and `writer` are
`JobControl`, `wake` is the wake queue.

| model | code |
|---|---|
| `Start` ... `Retry`, `ResumePoint` | `reduce` in `ingest/job.rs`, one operator per command |
| `CompareAndSwap`, `LegalReset`, `Activate` | what the store refuses and the locator row it keeps |
| `NextJob`, `Turn`, `Done` | `run_import_once`, `run_to_quiescence_fenced` |
| `Enter...`, `Preflight`, `Resolve`, `File`, `CopyOneFile`, `Rehash`, `Prefix`, `Chunk`, `Journal`, `Checkpoint`, `Place`, ... | `run_preflight`, `run_copy`, `copy_one_file`, `copy_source_to_partial` |
| `Verify`, `Seal`, `Publish`, `Commit` | `run_verification`, `run_commit` |
| `Request`, `CommandEffects`, `Acknowledge` | `command_impl` with the effects after the swap |
| `SourceFound`, `Discard`, `Available`, `Activated` | `source_available` |

A change of the row is a load, a decision and a swap that is repeated when it loses: one
step, and its effects (stop flag, wake-up) are the next one. A card's bytes are a number, a digest
is the bytes it was taken of, and whether the recording is signed decides if another card may
continue it. Commands do not overlap, since the library-root mutex serialises them. A run that loses
the library root, its lease or a file ends in an error (`errored`), after which only a command
or a restart wakes the lane. Left out: the limits of 8 swaps, 32 worker steps and 64 turns, a
full wake queue, the reader gate between imports of one card, and the row's desired state and
attempt count, which no step of these reads.

## Runs

Each module has a constant `Budgets`, a set of records that bound commands, faults, crashes and
the like; a behaviour picks one. A run thus covers several mixes (many commands without a
fault, few commands with faults and crashes) without multiplying them.

| run | instance and mixes | question |
|---|---|---|
| `control` | 1 job, 1 worker, 2 users; 2 commands or 1 with a failing write and a panic while the device is ready, or 1 while a device that is ready or recording changes to any of four kinds | does cancellation exclude publication, is every commit current and along the graph? |
| `targets` | 2 jobs for one directory, 2 workers, queue of 1, a panic | one worker per job, one writer per directory |
| `liveness` | 1 job; pause and resume; a device that goes and comes back | do jobs finish and commands return? |
| `attempts` | 4 attempts of a revision, 2 users; 4 commands, or 3 around 2 crashes | one live child, no resurrection, no stranded row, staging kept, refinement of `OutcomeDelivery` |
| `outcomes` | 2 revisions, a crash, a conflicting write | is every outcome delivered, after the library shows it, without overwriting an upload? |
| `delete` | 2 entries; one thread with 2 deletions, 2 failing steps, a crash, 2 downloads; two threads beside an upload; or two threads with a failing step, a crash and a download | are files ever lost, taken from an upload, or brought back after the commit by anything but an orphan scan? |
| `uploads` | 2 uploads of an entry, 2 revisions, 2 settings; 3 commands; 2 with a failed start and a crash; 2 while the settings change; 2 while a download writes the entry, around a crash | one open upload, owned; first outcome; rows settled; every upload ends and is acknowledged |
| `multipart` | an attempt and its retry, 2 objects of 2 parts; 2 failing calls, or 1 and 2 crashes; a cancellation | accounted for, marker last, cleanup leaves open jobs alone and settles |
| `publication` | an attempt and two retries; failing operations and crashes, 4 in all | is the only copy ever destroyed, does a fresh attempt succeed? |
| `device` | 2 attempts with a disconnection or a new endpoint and a lapse; 1 attempt with a cancellation and a failing call; both profiles | are late replies fenced, do attempts end? (not with a cancellation or a failing call beside a second attempt: `MCLateCancel`, `MCFailedRetry`) |
| `imports` | 2 files of 2 chunks, 2 cards with equal or different bytes, signed or not; 3 exchanges around a pause, 2 around a crash and a retry, 1 with a failing step and every command | is one card's recording published, are checkpoints backed, is a pause quiet, is the lane always woken? |
| `spurious_cancel` | one pause | expected violation, see below |

Why the bounds are enough: the races are between two or three threads over one
object, so one job with two users, two jobs with two workers or two attempts meet
them; a second attempt, upload or deletion is what a stale step of the first can hurt;
two crashes put one inside the recovery from the other; two files, parts or entries
put an interruption between them. A queue of one with two jobs stands for more jobs than
capacity: `targets` has it, `liveness` does not, since two jobs with commands are too many states for
a liveness check. In `liveness` the notification that is dropped is the one of a job already
queued. `MCFullQueue.cfg`, beside the runs, checks `JobsFinish` with two jobs for one directory,
room for one, one worker and no commands (141426 states): the job whose notification found the
queue full is brought back by `tick`. Threads are interchangeable where a cfg states a symmetry, and no liveness
property is checked under one. Deadlock is not checked where the system may rest
(nothing left to do).

Type invariants (`TypeOK`) exist in every module; the one of `Coordinator` is part of the
run `liveness` and proved, the others hold in the same instances.

Fairness. `Coordinator`: threads keep running and the dispatcher ticks (weak); each tick goes through
all the jobs, so a job is looked at again and again (strong); a thread
waiting for a serial section or for `active` to clear gets strong fairness, since sections are
short and the dispatcher sleeps between ticks. `JobLifecycle`, `UploadJobs`: the poll loop,
settlement and started commands go on, and a settlement step that may fail does not fail in every
start. `Publication`: a started commit goes on and a job
in committing is offered again by the dispatcher. `Multipart`: the cleanup thread goes through its
list, each call having a timeout. `MediaImport`: the lane, started commands and the restart after
a crash go on. `DeviceSession`: threads, tasks and calls go on, time passes.
Faults, crashes, commands, device changes and the device's operator are never fair.

## Proofs

The theorems hold for all sets of jobs, threads, devices, targets, objects and entries and all
budgets, from the assumptions named in the modules (the kinds of threads are disjoint, maps are
total, capacity and numbers of files are positive, the entries of a library are finitely many).
`PROJECT.json` lists them. Each rests on an inductive invariant that TLC has checked on the
instances of the runs first; a lemma per group of actions shows that a step keeps it.

**`Coordinator_proofs`**
- `TypeCorrect`: `Spec => []TypeOK`. `TypeOK` is not inductive: a step applies functions at the
  thread's job, so `Engaged` adds that a thread away from `idle` has one, and `FilesLeft` that a
  worker fetching has a file left, or the counter would underflow.
- `SingleWorker`: `Spec => []OneWorkerPerJob`. `DriverIsActive` ties a driving worker to the claimed
  `active` bit; `try_claim` then refuses the second. `EffectsInside`: a worker's effects happen
  while it drives.
- `SingleWriter`: `Spec => []OneWriterPerTarget`. `LeaseHeld`: a worker inside `process_job` holds the
  lease in its job's name, except between a panic, which drops it, and the report of it
  (`PanicPath`).

Its second part goes on from there, in three layers.
- `SectionInv`: the effects a thread still has to perform are a `Plan`, commits along the graph from
  the state the job has now, as long as it is not outdated. This gives `CurrentCommits` (no commit
  is ever made against an old version) and `TransitionsAreLegal`.
- `AuthorInv`, `ControlInv`, `PlaceInv`: which states each kind of thread may commit (a user queues
  or cancels, an observation parks, a worker reports), what the commit control says about the
  job's state, and where the worker of a job in a given state is. Together they give
  `PublicationOwnsOutcome`: from `irreversible` on only the worker itself commits, and never
  `cancelled`.
- `CancelInv`: a cancel is at its second section only after an `Await` that saw no active worker, or
  gave up. It gives `CancelledJobsAreClosed`.

**`DeviceSession_proofs`**. `SessionInv` says of every place that can hold a token or a reply (calls,
connecting threads, the heartbeat loop) what it may hold: an epoch already given out, and the
present session if it is the present epoch; a refusal not yet applied is still true. From it
`SessionConsistent` and, as an action property, `RepliesFenced`.

**`Multipart_proofs`**. `UploadInv` follows the worker: objects before its own are finished, those
after were never tracked, its step says what the store and the rows hold of the present one, and
cleanup and dismissal touch only attempts that are over. From it `RowsAccountForUploads`,
`MarkerComesLast` (nobody who wrote the marker goes back to an object) and `CleanupSparesOpenJobs`.

**`Publication_proofs`**. `OpInv`: one live job, and the running commit is its own; `FileInv`: what the
visible directory and the owner's backup hold at each step. `SuccessesAreClean`, `OldSurvivesCommit`.

**`LibraryDelete_proofs`**, in layers again: `OwnInv` (operations and keys of deleting threads differ, an
operation not yet used has an empty trash), `RowInv` (the rows of a deletion under way are there,
those of a committed one are gone, and only one thread is between its commit and its end, because
the in-memory revision is then behind), `StageInv` (what is staged is leased to the operation) and
`FileInv` (rows have files; the projection under way still finds the revision it read, or its
files). `RowsKeepTheirFiles`, `UploadsKeepTheirFiles`. For committed deletions `PlaceInv` (every bundle is
in one place, visible or in one trash) and `CommitInv` (the thread of a committed operation is past
its commit) give `CommittedUnlessScanned` (`OnlyAScanRestores`): in every mix, what was committed becomes visible again
only through the orphan scan of another deletion that failed and had listed the intents before the
commit. `library_delete.rs:6` says more, that committed intents only clean trash
(`CommittedOnlyCleansTrash`); `MCUndoneDelete` shows that the scan breaks it, and the theorem that
nothing else does.

**`JobLifecycle_proofs`** shows that the detailed delivery implements `OutcomeDelivery` (`PromiseKept`) and
the safety properties of its runs. `LifecycleInv` has these parts.
- `RowInv`: rows are created in order, exactly the ended ones have a number, and the last number is
  the count of outcomes. The refinement needs the last part: the abstract `Record` gives the next
  number by counting, the code by an autoincremented key.
- `ThreadInv`: a thread under way names a row that exists, one that dismisses names a row that was
  acknowledged, and what the loop has listed has ended.
- `DeliveryInv`: what the loop has read of the library is still the library, unless a later commit
  moved it, which the write then notices; a success it goes on with is not in the library, one it
  acknowledges is. It gives `AckedSuccessShown` and `UploadsSurvive`.
- `OpenInv`: while the settlement runs, open rows are those it has still to settle (`NoRowStranded`).
- `ChildInv`: an open child is the latest of its parent. `OneLiveChild` alone is not inductive: the
  retry looks at the latest child only (`RetriesShareChild`).

`DismissedStay` is inductive beside them, `OpenStagingKept` follows step by step.

**`UploadJobs_proofs`**. `UploadInv` has these parts.
- `StarterOk`: the command that starts an upload holds the lease; it chooses what to start while
  nothing is open, and from then on the only open upload is its own. `LeaseInv`: a free lease means
  that nothing is open, the lease of an upload's reaper that nothing else is. `SingleUpload` and
  `OpenUploadsOwned` need the two together: the store's own check (an open upload refuses another)
  is made in an earlier transaction than the token is claimed in.
- `WorkerOk`, `CancellerOk`, `RowInv`: rows are created in order, what was acknowledged has ended, and a
  worker or a canceller that records an outcome does it from the state it knows
  (`CancellationStands`).
- `PassOk`: what a pass has read is the library, unless another write came between, which its own
  write then notices. `EntryInv`: the upload the row points at is of the row's revision
  (`OutcomesAreReal`).
- `DownInv`: a process that is down has no threads, and a start that spares rows owes an outcome
  (`RestartsSettle`).

Looking for `UploadInv` corrected `RestartSettlesRow`. It used to say that a row still shown as
uploading after a start is owed an outcome of its own revision, which held in the run and is not
true: with three uploads and a revision that is replaced and comes back twice, the outcome that
spares the row may be one of another revision. `reconcile_interrupted_uploads` asks whether
anything is owed, and that is what the property says now.

**`MediaImport_proofs`**. `ImportInv` has these parts.
- `LockInv`, `StateInv`: inside a phase the worker holds the writer lock and the job is in the state of
  the phase or has been told to stop since; from the card that was found to its activation the
  command holds the lock and the job waits. A paused job has thus nobody at its files
  (`PausesAreQuiet`).
- `DiskInv`: a checkpoint is covered by the journal and by the part, or the file is staged whole or
  visible. A crash takes a chunk only beyond the journal, or the one whose flush is under way, which
  the checkpoint does not claim yet (`CutBacked`). It gives `BackedCheckpoints`.
- `PassInv`: what came from the card was hashed on the way, also the part an earlier run left, so a
  file that is placed is the recording of the card of this pass; the files the pass is done with are
  staged, and its evidence is of what was staged.
- `TreeInv`: from the end of the copy, or the first durable digest, the staged or visible tree is one
  card's and the digests are of it. `PublishedFromOneCard` needs it because the locator in the job's
  row cannot carry the argument: a pause of a waiting job forgets it, and the resume falls back to
  the card the job was created from. What keeps two cards apart is what was hashed.

Looking for `ImportInv` corrected `PausedIsQuiet`. It used to allow no change of the files at all
between a pause and its resume; with two crashes, more than the run has, a chunk that survived
the first unflushed is lost in the second while the job is paused. The property now speaks of
what a running process writes.

Only model-checked: the liveness properties, which are out of the proof system's reach (`JobsFinish`,
`CommandsReturn`, `OutcomesDelivered`, `UploadsEnd`, `OrphansSettle`, `FreshAttemptSucceeds`, `PairingEnds`,
`NoLostWake`). Every other property of a passing run has a theorem.

## Deviations found

Where the code does something else than its comments, docs or tests say. The first is a
run of the project; the others have a cfg that shows them
(`tlc -config <cfg> <its MC module>`) and are not runs of their own. A passing run either leaves the mix
out in which its property fails (`PairingEnds`) or checks the property that holds in it as well
(`OnlyAScanRestores` for `CommittedOnlyCleansTrash`).

| cfg | property | what happens | what is said |
|---|---|---|---|
| `MCSpuriousCancel` | `CancelledOnlyIfRequested` | one pause cancels a job for good: the worker tests the flag, the pause clears the reason, no reason reads as a cancel (`coordinator.rs:2033`) | `coordinator.rs:77`, `queue.rs:298` |
| `MCLostCancel` | `CancelReachesWorker` | the late clear of a pause erases the interrupt of a later cancel; the transfer runs on to the next file (`coordinator.rs:1410`) | `aggregate.rs:408` |
| `MCStrandedCancel` | `CancellingEnds` | a cancel times out, then a pause: `tick` skips the paused job before looking at its state and it stays cancelling (`coordinator.rs:1163`) | `coordinator.rs:56` |
| `MCRedownload` | `RedownloadStarts` | a revision that was downloaded and deleted resolves to the finished job and is not fetched again (`coordinator.rs:1032`) | `README.md:65` |
| `MCUndoneDelete` | `CommittedOnlyCleansTrash` | the orphan scan of a failing deletion restores what another deletion has committed meanwhile (`library_delete.rs:216`, `872`) | `library_delete.rs:6-9` |
| `MCStrandedDelete` | `StagedIntentsRollBack` | intents staged before a crash are not rolled back at the next start: `recover_pending_deletes` is compiled for tests only (`state.rs:424`) | `library_delete.rs:6-9` |
| `MCReaper` | `UploadLeaseReleased` | the reaper gives up after 2400 polls; the lease of a longer upload stays until the next start (`library_delete.rs:847`) | `library_delete.rs:837` |
| `MCStuckUploading` | `UploadingEnds` | the start writes `uploading` after a cancellation was delivered; the row stays so (`composition.rs:8620`) | `composition.rs:6962` |
| `MCStaleDelivery` | `OutcomesMoveForward` | two delivery passes, each over its own list: the row returns to an older outcome (`composition.rs:2371`) | |
| `MCLostLegacy` | `FailedMigrationKeepsLegacy` | the directory is moved before its token is written; when the write fails it is not restored (`derived_media.rs:2236`) | `composition.rs:4193`, `state.rs:417` |
| `MCLateCancel` | `PairingEnds` | a cancellation still talking to the device aborts the task of the next attempt, which stays pending (`composition.rs:6568`) | `composition.rs:6532-6537` |
| `MCFailedRetry` | `PairingEnds` | a second attempt aborts the task of the first and then cannot be created: the first stays pending (`composition.rs:5912`) | `composition.rs:5888-5890` |
| `MCImportCancel` | `CancelEnds` | `compare_and_swap_import_snapshot` refuses terminal snapshots (`import_jobs.rs:92`), and nothing completes a cancelled or failed import otherwise: it stays cancelling, or copying after a permanent failure | `ports.rs:88-90` |
| `MCImportPause` | `PauseEnds` | a crash between a pause and its acknowledgement: recovery skips pausing, a pause changes nothing, a resume is rejected (`ubuntu_ingestor.rs:659`) | |
| `MCImportRetry` | `RunnableSettles` | a retry clears the stop flag before the failed run has set it: the job is queued and never runs (`engine.rs:444`, `473`) | `ubuntu_ingestor.rs:191-194` |
| `MCImportCommit` | `CommitEnds` | a crash between the rename of a part and the removal of its journal: the leftover makes every seal fail (`engine.rs:906`, `staging.rs:786`) | |

Met while modelling, without a cfg: a restored directory keeps its token, so a later
commit of the same owner fails at `create_new` (`derived_media.rs:2338`; `FreshAttemptSucceeds`
excludes it); after a crash between the two renames the settlement's discard removes the
staging directory with the backup in it (`recovery.rs:84`; `CommitKeepsOld` speaks of commits
and migrations only); attempt directories of jobs that died, or whose removal failed, stay for ever; a row left
`uploading` by a start that failed after its job was created is not settled when the job is
acknowledged; a device reading gets its version before
the device is read, so an older reading may park a job again until the next tick; a
connection made over an endpoint that was replaced meanwhile is reported as failed and
stays connected (`composition.rs:6163`); overlapping `connect_device` calls overwrite each other's
entry in `active_pairings`, so the `device` run has one connecting thread; a retryable failure of an
import overrides a pause or a cancellation that was asked for meanwhile (`job.rs:1032`); an unsigned
import that was verified once cannot be continued from another insertion (`import_jobs.rs:631`); a crash
between reset and discard followed by the first card again finds a journal that is ahead, and every
attempt fails until the staging directory is gone (`download.rs:535`).

## Not modelled

- shutdown of the coordinator and of the queue: it ends the process;
- a dispatcher that ends after a panic in a collaborator: it gives up on purpose and
  records a fault; every liveness property assumes a running one;
- detection of recordings on a card and normalization: sequential transformations of files;
- the derivation, pipeline and upload lanes behind an import (`app/media/ubuntu_pipeline.rs` and
  its neighbours): state machines of the same kind as the import, left for later;
- ranges and tags of the HTTP download, manifests, hashes and signatures: pure or sequential;
- adapters (HTTP, S3, mDNS, keyring, ffmpeg): what can go wrong in them is a failing call
  here; stores' schemas and migrations; the TypeScript front end; release scripts.

`PROJECT.json` gives status and reason for each. More than half of the repository's lines are
tests, adapters and media code of this kind.

## Plan

What is left is to model: the derivation jobs, the pipeline and the upload lane that follow an import.
