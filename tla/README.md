# TLA+ models of diskcutter

diskcutter writes disk images to removable media. A burn is not one program: a
window (React in a Tauri webview), the app's own threads, a helper that runs as
root behind `osascript`, and a SQLite row that outlives them all have to agree
on what happened to the device. This directory models the parts where they can
disagree, checks them with TLC on small instances and proves what matters most
with TLAPS for every value of the constants.

Paths below are relative to `src-tauri/src/` unless they start with `src/`.

## 1. The system

### 1.1 Components

| Component | Source | State | Operations | Correct if |
|---|---|---|---|---|
| Threaded device writers | `writers/parallel.rs`, `writers/pipelined.rs` | buffer pool, work channel, error vector, worker threads | `open_write`, `write`, `finish`, worker loop | nothing accepted is lost or written twice, Ok means written, nobody waits for ever |
| Synchronous writers | `writers/plain.rs`, `raw.rs`, `block.rs` | a file handle | `write`, `finish` | (one call each; the trait's promise) |
| Burn loop and verify | `pipeline.rs` | the chunk being filled, a cancel flag | `burn_with_hash`, `hash_image`, `verify_device`, byte comparison | the cancel is honoured, every error surfaces |
| Elevated burn | `disks.rs` | `ActiveBurns`, `ElevatedJobs`, download threads, tail threads | `start_write`, `begin_burn`, `spawn_elevated_burn`, `tail_helper`, `cancel_write`, `reattach_running_helpers` | one helper per job, one verdict per burn, every running row is settled |
| Root helper | `helper.rs` | progress file, `AtomicBool` | `run_helper`, `run_helper_capture` | one terminal line, written after the work |
| Job database | `db/mod.rs` | `burn_jobs`, image cache, `config` | the `record_burn_*` updates, requeue, enqueue, removal, listing | a settled row is not rewritten |
| Queue store and window | `src/store/queue.js`, `src/job-reducers.js`, `src/App.jsx` | rows of the queue, selection | `hydrate`, job events, clicks | what is shown is what is recorded |
| Cloud materialization | `cloud.rs` | cursor, byte count, stop flag, live count, first error | `materialize`, worker pool, progress monitor | Ok means the file is local |
| In-process burn and quit | `disks.rs`, `lib.rs` | `CancelRegistry`, `ActiveBurns`, cancel files, rows | `run_job`, `cancel_write`, close guard, `abort_and_quit`, launch | no quit in the middle of a burn nobody was asked about, a cancel reaches the burn at work |
| Capture | `capture.rs`, `disks.rs`, `helper.rs` | image file, cancel file and flag, progress file | start, copy, cancel, tail thread | a partial image is not announced as complete, every capture ends |
| Image scan cache | `image_scan.rs`, `commands.rs` | cache rows | scan, refresh, freshness test | a cached scan belongs to the file as it is |
| URL download | `url_fetch.rs` | registry of downloads, file in the download directory | fetch, cancel, completion | what is announced as complete holds the whole body |
| Disk claim | `disk_arb.rs` | session, mount approval callback, worker thread | claim, unmount, drop | no remount while the device is written |
| Process with timeout, enumeration, eject | `proc.rs`, `disks.rs`, `eject.rs` | child, drain threads, last-good cache | `output_with_timeout`, `list_disks`, `recheck_disks_healthy`, `eject` | every call returns, the boot drive is never offered as the disk to unplug |
| Image sources, decoders, validation, inspection | `source.rs`, `image.rs`, `readers/`, `decoder_chain/`, `validate.rs`, `inspect.rs` | none that is shared | open, peel layers, report | what is reported is said of the stream that is burned |
| Backup, sparse copy, snapshots | `backup.rs`, `sparse.rs`, `snapshot.rs` | output file, recovery file | copy, capture, restore | a copy is faithful, a restore never writes what was not captured |
| Catalog, updater, doctor, QEMU, command line, reports | the other files | none that is shared | formatting, network and tool calls | not modelled but for the choice of one operation by the command line |

### 1.2 How they interact

    window --command--> main thread --(cloud image)--> download thread --> pool of readers
                             |                               |
                             +-------- begin_burn <----------+
                                           |
                           reserve slot, spawn osascript --> root helper --> threaded writer --> device
                                           |                     |   ^
                                      tail thread <-- progress file  +-- cancel file <-- Cancel
                                           |
                               database row, job events --> window

* The window calls commands; synchronous commands run one at a time on the
  main thread. Everything that takes time is a thread of its own.
* The app and the helper share no memory. They talk through an append-only
  progress file (helper to app), a cancel file whose existence is the message
  (app to helper), and the exit status of `osascript`. The progress file has
  one path per job and is kept from one run to the next.
* The database row is written by the main thread, download threads and tail
  threads, each with one guarded `UPDATE`.
* When the app dies its threads and registries go; the helper, the two files
  and the row stay. At the next start `reattach_running_helpers` puts the pieces
  together again.

### 1.3 What is hard

* **Ownership of a job.** A click, the end of a download and the end of an
  earlier run meet at `spawn_elevated_burn`.
* **Who reads which line.** Runs of one job append to the same file.
* **Process exit against file contents.** A tail thread learns the end of a run
  from two sources it cannot read at once.
* **Cancel.** One file is cleared as stale by some paths and watched by others.
* **Death at any step.** What the row says must be enough to pick up from.
* **Bounded pools.** A failed worker keeps its buffer; a pool too small hangs.
* **Wind-down.** A failing worker of a pool stops the others, whose own errors
  must not hide the first or pass for it.

`PROJECT.json` lists each hazard with the line where it bites and the
properties that are aimed at it.

## 2. The modules

| Module | Models | Sources |
|---|---|---|
| `DeviceWriter` | abstract: what `trait DeviceWriter` promises the burn loop | `writers/mod.rs` |
| `BufferedWriter` | the pipelined and the parallel writer with the burn loop that drives them | `writers/*.rs`, `pipeline.rs` |
| `BurnJob` | abstract: what a queued job is promised, whichever way it is burned | `db/mod.rs`, `disks.rs`, `helper.rs` |
| `ElevatedBurn` | one queued job from click to settled row: window, download thread, spawn, helper, tail thread, row, death and restart | `disks.rs`, `helper.rs`, `db/mod.rs`, `src/store/queue.js`, `src/job-reducers.js` |
| `Materialize` | the pool of readers that makes a cloud image local | `cloud.rs` |
| `AppQuit` | several jobs burned by threads of the app: the two registries, cancel, close guard, `abort_and_quit`, a kill and the next launch | `disks.rs`, `lib.rs`, `db/mod.rs`, `src/App.jsx` |
| `Capture` | a device read into an image file, by the app or by a helper with its tail thread | `capture.rs`, `disks.rs`, `helper.rs` |
| `ImageIntake` | download threads, the queue that adds what arrives, scan threads and the cache table | `url_fetch.rs`, `image_scan.rs`, `commands.rs`, `db/mod.rs` |
| `Devices` | enumeration with killed children and a last-good cache, disk claims, leftover helpers, eject | `disks.rs`, `proc.rs`, `disk_arb.rs`, `eject.rs`, `helper.rs` |
| `ImageProbe` | how window, command line and burn each decide how to read an image file | `image.rs`, `inspect.rs`, `source.rs`, `decoder_chain/`, `validate.rs` |
| `Verify` | the fast and the slow pass after a burn | `pipeline.rs`, `helper.rs` |
| `Backup` | a device, file or qcow2 disk copied to an image, with the sparse writer | `backup.rs`, `sparse.rs` |
| `Snapshot` | the recovery file and the restore | `snapshot.rs` |
| `ImageTools` | composition: one of `ImageIntake`, `ImageProbe`, `AppQuit`, `Verify`, `Backup`, `Snapshot` per behaviour | `cli.rs` |
| `DeviceTools` | composition: one of `Devices`, `Capture` and two more instances of `BufferedWriter` | |
| `BufferedWriterProofs`, `ElevatedBurnProofs`, `MaterializeProofs`, `AppQuitProofs`, `BackupProofs`, `ImageIntakeProofs` | theorems about the modules they are named for | |
| `ImageToolsProofs` | the theorems about burns of the app, backups, downloads and scans, carried to the composition; those about restores, verify passes and readers, proved of it directly | |
| `DeviceToolsProofs` | theorems about captures, claims and the enumeration, stated of the composition | |

Definitions that begin with the comment `Bug:` are not part of any
specification. Each is a plausible mistake in the definition that follows it
(a lost guard, a missing reset, an off-by-one); put in its place it makes the
property named for it in `PROJECT.json` fail, which shows that the property
would notice.

The two compositions put operations that share no state into one state space:
`tool` says which of them runs, the others stay as they start. That the
operations do not meet is how the program is used, not an assumption of the
models: a file that is burned while it is downloaded again is two runs of two
modules whose only common variable would be the file's bytes.

### 2.1 BufferedWriter

`pc` is the burn loop inside `burn_with_hash` and, between `write` and `send`,
inside `Write::write`; `finish`, `join` and `fsync` are `DeviceWriter::finish`.
`wpc[w]` is a worker thread. The unit of data is one chunk: chunk *c* stands for
its bytes and its offset. `work` and `free` are the two bounded channels; the
free pool is a count because empty buffers are alike. `errors` is the shared
vector. Dropping the writer (any return) closes both of its channel ends in
`Return`; worker threads are detached, and may still land chunks.

A failing worker takes two steps (`PwriteFails`, `WorkerDies`): the error is
pushed while its channel ends are still open, and other threads can run between.

Both implementations are one module. `Impl` selects the size of the pool, the
capacity of the channel and the number of workers, which is all they differ in
as far as the control goes.

`KeepsPromise` is the refinement: `accepted <- offset`, `landed <- written`,
`verdict <- outcome`.

### 2.2 ElevatedBurn

| Variable | In the code |
|---|---|
| `row` | the job's row: `state`, `error_code`, `helper_pid` |
| `ui` | what the window shows (`idle`, `working`, `success`, `error`, `fda`) |
| `active`, `slot` | the job's entries in `ActiveBurns` and `ElevatedJobs` |
| `sentinel`, `file`, `log` | cancel file, progress file exists, its terminal lines |
| `helper`, `flag`, `spawned` | `osascript` and helper of each run, the helper's `cancel` flag, number of runs |
| `thr` | the main thread and the download threads |
| `tail` | the tail thread of each run: position in the file, verdict found |
| `asked` | history: Cancel was clicked since the last start |
| `up`, `crashes` | the app runs, deaths so far |

Commands are `StartRefused`, `StartLocal`, `StartCloud`, `CancelWrite`,
`Requeue`, `ClearFdaError`. A download thread is at `announce` (its first event),
`enter` and `download`: `materialize` looks for the cancel file when it is entered
(`MatEnter`), between its reads (`MatCancelled`) and once more when its workers are
joined (`MatDone`). `thr[t]` then walks through `begin_burn`:
`insert` (ActiveBurns), `reserve` (the slot), `clear` (stale cancel file),
`spawn`, `stamp` (row and tail thread); each is one lock, one file operation or
one `UPDATE` that other threads can observe. `TailThread` is the loop of
`tail_helper`; `tail_helper_reattach` is the same loop entered at `restart`, and
differs in how it asks for the process and in the code it records, so the two
share their actions.

`KeepsJob` is the refinement of `BurnJob`, which has a row, an app that may be
down, and whether somebody has the job in hand: `state <- row.state`,
`hand <- InHand` (the slot is taken or a thread is on its way to it),
`earned <- Matched` (the progress file has a line that reports a match),
`late <- ~Followed` (a tail thread gave up). `BurnJob` says which changes of the
row exist, who may make them, and that a job whose row runs is let go by nobody,
the app's death and a follower that gave up excepted. A mismatch is a `Fail`,
because the row then says error.

Choices worth knowing:

* Job events are applied to the window when they are emitted. Order between
  threads is kept; the delay of the event queue is not modelled.
* Progress lines are not kept in `log`: `TailProgress` is their only effect. The
  log has the terminal lines, each written whole.
* `StartCloud` is one step: its three writes are blind and read nothing back.
* `abort_and_quit` is `CancelWrite` followed, at any later step, by `AppDies`.
  RETRY is `Requeue` and then a start.
* An error of `try_wait` is not an action of its own; it ends the loop as the
  hour does (`TailTimeout`), and is as rare.
* A helper between its last line and its exit (`reported`) no longer touches the
  device and may overlap the next run; `OneWriter` speaks of the phases before.
* Process ids are not reused and the row is not removed while it runs.

### 2.3 Materialize

`workers` is the configured number after `clamp`; `cursor`, `done`, `stop`,
`live`, `first_err` are the fields of `MaterializeState`; `pc` is the calling
thread (checks, spawn, the monitor's poll, join, verdict); `wk[w]` is a worker
with the block it holds, its attempts and the error it returns. A block is the
unit. `Raise` and `Withdraw` are the environment: the user writes the cancel
file, and the tail thread of an earlier run of the same job may remove it. The
three outcomes are `MatDone`, `MatCancelled` and `MatFails` of `ElevatedBurn`. The
first needs the last look at the cancel file to find none and the second needs
one look to find it; the third needs nothing, because a read that fails is
returned before the cancel file is asked for again (see 5.2).

### 2.4 AppQuit

`run[r]` is a thread of `run_job`: its job, step, cancel flag and outcome.
`registry` is `CancelRegistry` (a job's entry is never removed, so it may name a
run that is over), `active` is `ActiveBurns`. `Quit` is the `CloseRequested` guard of
`lib.rs`, the dialog of `src/App.jsx` and the thread of `abort_and_quit`: it takes a
snapshot of `active`, raises flags and sentinels, and polls until the set is
empty or its time is over. The outcome of a run is kept by what the row is told
of it: a match, a mismatch, a cancel, or an error whatever its code. `Killed` is any other end of the process, and
`Launch` settles what it left. The verdict is written to the row before the job
leaves `active`; `QuietExit` rests on that order. A download that has looked for
the cancel file the last time (`DownloadChecked`) hands its job on in a later step
(`DownloadDone`), so a cancel or a quit may come in between.

`KeepsJobs` maps every job to a `BurnJob` of its own: `state <- row[j]`, `hand <-
InHand(j)` (its download, or a burn that has not recorded its outcome), `earned <-
Matched(j)` (a burn of it reported a match and is not over), `late <- FALSE`:
nobody here gives up on a burn. A step may move several jobs, as a launch does; it
is then a step of each of them.

### 2.5 Capture, ImageIntake, Devices

In `Capture` one set of steps stands for the copy loop on both paths; `path`
says whether a thread of the app or a helper behind `osascript` takes them, and
`tail` follows the progress file only for the latter. `flagAt` remembers how far
the copy was when the flag went up, because a cancel that comes after the last
chunk is lost and that is no error. The tail thread ends with a terminal line,
without one (the helper is gone, its file cannot be opened or a line of it cannot
be read), or because no file appears.

In `ImageIntake` two threads may write one file (names are derived from URLs), a
body may come without an announced length, and scans of one path may meet. In the
window the progress strip is a job's, and two jobs may show one image; the model
has a strip for each scan. The clock counts the seconds that `mtime` resolves.
`alone` and the column `stat` of a cache row are history: they say in which cases
the code can promise anything.

In `Devices` a child of the enumeration may take any time or never end, the
pass kills it when its clock is over; passes overlap and share the cache. A
claim is a worker thread with a session: it registers the callback that refuses
mounts, asks for the unmount, and answers the daemon from its run loop. A
daemon that wants to mount asks every registered session and waits for one whose
run loop does not run yet, which is why `Mount` needs `held` and later claims to
agree.

### 2.6 ImageProbe, Verify, Backup, Snapshot

These are sequential. In `ImageProbe` a file is an extension and a disk wrapped
in layers, and a stream is the number of layers taken off; three operators
model the three places that choose a reader, and the decoder chain is run
round by round up to `MaxDepth`. In `Verify` the two passes read a device that may
answer them differently. In `Backup` the file is what is left of it after the
writer is dropped, `held` is what the encoder or buffer has not let go of. In
`Snapshot` every write is a step and the process may end between any two; a
digest stands for the blocks it is of, so a damaged file is one whose blocks and
digest disagree.

## 3. The runs

Every run says `CHECK_DEADLOCK FALSE`, because a job, a download or a tool that is
over has nothing left to do.

### 3.1 Runs that pass

| Run | Configuration | Shows |
|---|---|---|
| `threaded_writers` | parallel writer, 3 workers, depth 4, 6 chunks, fair | no order of writes, failures and a cancel starves the producer, blocks a send, loses or doubles a chunk, or keeps the burn from returning; the promise of the trait holds |
| `elevated_burn` | 2 runs of a local image, 1 death, burns over an hour | one writer, one verdict per run, the success belongs to the run the row names, a cancel stays visible, a running row is attended, each as long as what it rests on (the app up, no tail thread that gave up) lasts; every step is one that `BurnJob` allows |
| `burn_restart` | 1 run of a cloud image, 1 death, fair | wherever the app dies, the row is reattached or orphaned after the restart and settled in the end, and a success was reported by a helper |
| `cloud_download` | 0, 2 or 5 workers configured (pool 1 or 2), up to 3 blocks, 3 attempts, fair | Ok means local; blocks are handed out once; errors have a cause; progress is real; the call returns |
| `image_tools` | two downloads into one file and two scans; two jobs, two burns and one exit; three compression layers; 4 bytes in chunks of 3; sources of 5 sectors; two snapshots of devices of one and of three blocks; two threads at work at a time | what is announced as complete, fresh, valid, cleared, matching, copied or restored is so; each job is kept as `BurnJob` says |
| `device_tools` | two enumeration passes, two helpers, or one of each; a capture of two chunks; the default writer with 1 worker and pool 2; the parallel one with 2 workers and depth 1; fair | no mount under a claim, the boot drive is not offered, a capture shown as a success is whole, and every call returns although tools, workers or daemon do not |

### 3.2 Bounds

* Two runs: everything about the succession of runs (who reads whose line, who
  gives whose slot back) is about one run and the next. The proofs cover any
  number.
* Local image in `elevated_burn`, cloud image in `burn_restart`: both together
  with two runs are out of reach of the model checker; the theorems about the
  slot, the writer and the running row hold for any number of downloads.
* One death: after a restart the threads and registries are as in the initial
  state, and only row, files and helpers differ.
* Three workers and four buffers: all three workers may die with a buffer each
  and one is left for the producer to fill and to fail with. `device_tools` adds the
  smallest pools of both writers, the one that is raised to the workers included.
* Three blocks and two readers: one block each and one more to compete for;
  three attempts leave room for a retry that is not the last.
* One scan at a time in `image_tools` (`AtOnce`): two at once are the
  counterexample of 3.4. Two threads of downloads and scans together
  (`AtWork`): two downloads that share a file, or a download under a scan; the
  theorems of 4.7 have no such bound. Three layers are as deep as the chain goes there, so
  that the image which is one layer too deep is among the inputs. Chunks of three
  and groups of two make a short last chunk and a group that spans its end. Five
  sectors in chunks of two end in a chunk that is zeros, in part or in full.
* Three rows, one clock tick after the file changed: `MaxClock = 2` is the
  smallest in which a file can have been at rest when it is scanned.
* `MaxRuns` is also a guard of `StartLocal` and `StartCloud`; `Raise` and
  `Withdraw` happen once each. Nothing else is cut off.

The composed runs list the properties of their components and not the `TypeOK`
of each, which says little more than the properties already need.

### 3.3 Fairness

Weak fairness, per thread, of: the burn loop and each worker; the calling thread
and each reader; the download thread, `begin_burn`, helper, and tail thread; the
copy of a capture, once the password prompt is answered, and its tail thread; each
pass of the enumeration, each claim and its worker; and `AppStarts`. It says that
the operating system schedules runnable threads, that reads and writes of image
and device return, and that somebody starts the app again. In `ElevatedBurn` the
operator answers the password prompt one way or the other. Nothing is asked of the
tools that are run with a timeout or of the disk arbitration daemon (the tools of
`eject.rs` are run without one, and are not among the calls that `CallsReturn`
speaks of): `CallsReturn` holds although they stay silent for ever. Clicks,
cancels, kills and deaths are never owed. Weak fairness is enough because each of
these, once enabled, is disabled only by its own thread or by the death of the
app.

### 3.4 Runs that end in a counterexample

Each checks one statement the repository makes about itself, and TLC returns a
behaviour of the code that contradicts it.

| Run | Statement | What happens instead |
|---|---|---|
| `verdict_missed` | a loss is recorded when "osascript exited but no terminal message" | the helper writes its last line and exits between the read to end of file and `try_wait`; a finished burn is recorded as EHELPER |
| `live_orphan` | "Rows whose helper is gone get marked EORPHAN" | a restart while the password prompt is open finds no progress file and marks a live run |
| `fda_row` | the table is the source of truth for queue and history | re-arming after access was granted does not requeue the row: it burns on screen and stays in error in the table |
| `cancel_lost` | the download is "Cancellable mid-download via the same sentinel file" | a cancel that arrives after the download looked for it the last time, while the job is handed to `begin_burn`, is cleared as stale and the burn starts |
| `long_burn_abandoned` | every job lives in the table "through to a terminal state" | after 3600 s the tail thread records nothing and the row stays running |
| `scan_overlap` | a probe short-circuits only "if the cached row is still fresh" | two scans of one path meet while the file is replaced: the row holds the old table under the new stamp, and passes for fresh |

## 4. The proofs

All proofs are for arbitrary constants under the named assumptions of each
module. Every safety property of every run that passes is a theorem.
`SettledRowKept` of `ElevatedBurn` and `RunningIsAttended` of `AppQuit` are theorems
too, but no run lists them: `KeepsJob` and `KeepsJobs` say as much and more.

### 4.1 BufferedWriter

No assumption beyond the types of the constants; both implementations, zero
workers, zero depth and an empty image included.

* `TypeInvariant` strengthens types with what the producer's position says about
  its channel ends.
* `Conservation` counts buffers: the pool's size is free + queued + held + lost.
  Cardinality arguments go through `HoldingFinite`.
* `NotStarved` and `SendsDoNotBlock` follow from the count and the sizes of pool
  and channel (`Sizes`).
* `OneHome` needs `DispatchInv`: the queue holds the most recent chunks in order,
  and what has left it is written or with exactly one worker.
* `OkIsWritten` needs `OutcomeInv`: until the producer has seen an error one stays
  recorded, and a worker that left in peace left nothing queued. Without these
  two facts `JoinClean` could return Ok over a lost chunk.
* `Refinement`: each step of the writers is `Accept`, `Land`, `FinishOk`,
  `GiveUp` or a stutter of `DeviceWriter`.

### 4.2 ElevatedBurn

Two conditions come up in the properties themselves. `Followed`: no tail thread
of the running app has given up after its hour (its verdict is `late`). `Steady`:
`Followed`, and the app has not died. They are not assumptions on the constants:
the theorems hold for behaviours with deaths and long burns, up to where they
happen. `LateInv` (a thread that gave up is on its way out) and the lemmas
`FollowedBefore` and `SteadyBefore` (a step never makes them true) carry an
invariant of the form `Steady => I` through a step.

* `SettledKept`: every recorder keeps a settled row (`RecordersKeep`), and no
  action writes the row in another way.
* `OwnerInvariant`: the slot has one owner. `OwnerInv` says that a thread between
  `reserve` and `stamp`, or a tail thread, implies the slot; that there is one of
  them at most; that a run not yet spawned has no trace (else `Stamp` could meet
  a tail thread); and that an app that is not up has no thread (else a restart
  could meet an old owner).
* `Attended`: `RunningIsAttended` is not inductive. When the tail thread gives the
  slot back, one must know it has recorded an outcome, so `AttendInv` adds that a
  tail thread that has made up its mind has settled the row, unless a new
  download has set it running since.
* `JobKept`: every step of the burn is one of `BurnJob` or stutters. `RowMoves` sorts
  the ways in which a step changes the row, `LogMoves` and `DownMoves` those in
  which a line is written and the app goes down or returns, and `JobStep` joins
  them. Where the slot is released, `BurnJob` asks that the row does not run or
  its follower gave up: that is `RunningIsAttended` after the step, so the proof
  needs `AttendInv`, and for a return `OwnerInv` (the app that is down has no
  threads).
* `OnlyOneWriter`: `SessionInv` adds to the ownership that a working run has a
  follower that has read no verdict of it, and that lines behind the follower's
  position are of its own run. Both parts of `Steady` are needed: after a death
  or an hour a second helper can really start.
* `OneVerdictEach`: a helper that has written its line has left the phases that
  write one. `SuccessReported`: the row becomes a success only where a tail
  thread has read a match.
* `SuccessEarned` and `CancelStays` are for a local image (`MaxMats = 0`). With
  downloads they are not only unproved. A job that is set running by a download
  while the tail thread of its last run still reads can take that run's verdict
  with the pid of neither; and the hand-off of a download removes the cancel file
  (`cancel_lost`).

### 4.3 Materialize

`PoolOk` is the inductive invariant, in three parts: `PoolInv` (where the caller
stands says where the workers are), `CursorInv` (blocks behind the cursor are
local, held by one worker, or the reason for an error) and `CauseInv` (a worker
leaves because the file is claimed to its end, because of `stop`, or with an
error; `stop` has a cause; an error is recorded before its worker leaves).
`OkIsResident` is then one step: at the verdict there is no error, hence no
`stop`, hence the first worker (there is one, by the clamp) left because the
cursor had passed the end, hence every block is local. `Accounted` and
`ErrorHasCause` are parts of the invariant. `ProgressReal` counts: blocks counted,
and workers between read and count, together are the blocks that are local.

### 4.4 AppQuit

`BurnsAreInHand`, for any number of jobs, burns, cancels and exits. The invariant
says (`OneThread`) that a job has one thread at most, a burn or a download, that
the registry names the burn at work, and that an app that is down has no threads;
(`AskedInv`) that a flag once raised stays up; and the two properties that are
inductive beside it, `InFlightIsTracked` and `RunningIsAttended`. `CancelReachesBurn`
is `AskedInv`. `QuietExit` needs one more fact, that `active` is empty from the
moment the wait ends well until the exit (`QuietInv`): no command is taken then,
and a running row is attended, hence in `active`. Without the order "row first,
registry second" in `run_job` this step fails.

`JobsKept` is the refinement of `BurnJob` by each job. `JobsStep` takes a job and a
step: `RecorderMoves` says what the recorders make of a row, `BurnMoves`, `WindowMoves`,
`DownMoves` and `QuitMoves` what the operations do to row, hands and finding, and
`MatchedKept` that a finding is neither made nor lost by the steps of another
thread. It takes the invariant before the step and `RunningIsAttended` after it.

### 4.5 Backup

`CopiesAreFaithful`, for sources, chunks and extents of any size. `SparseInv` says of
the file under the sparse writer that it agrees with the source as far as it
goes, that the source is zeros from there to the cursor, and that `truncate` is up
if there are any; `SetLenIs` and `DropIs` turn that into the image, or into a
beginning of it when `set_len` failed unseen. Under the other writers all that was
copied is held until the flush. `ExtentIs` is a least-number argument: an extent
has an end, and everything up to it is allocated as its first sector is.

### 4.6 Snapshot

`RestoresAreSafe`, for devices and snapshots of any size. The invariant adds to
`RestoreIsSafe` that the digest of every header is of blocks once captured
(`HeaderInv`), that what an operation holds in memory is too (`MemoryInv`), and
that during a restore the device is the first `back` blocks of what is held and
its old self behind them (`Patched`).

### 4.7 ImageIntake

For any number of downloads, scans and rows, and bodies of any length.

* `CompleteWhole`: `FetchInv` says of a download that has had its file alone that
  the file holds as many blocks of its body as it has counted and nothing else,
  that nobody else has the file open, and that it comes to the flush with the
  whole body if the length was announced. A download that meets another under
  its name leaves `alone`, and the claim with it.
* `StripsDoEnd`: the strip goes up with a scan's first step, and every way out of a
  scan takes it down (`ThreadTypes` names the steps a thread may be at).
* `CacheIsCurrent`: `ScanInv` says that what a scan knows is of the file, as long
  as the file bears the stamp the scan took and that stamp was already past
  when it was taken (`ReadOk`); that the row a scan is filling is incomplete and
  carries its stamps (`ScanOk`); and that a complete row whose stamp is the file's
  has the file's table (`RowOk`). Writing a file gives it the stamp of now, so a
  file that changed under a scan either has another stamp or was looked at
  within the second. All this needs that no other scan of the path writes the
  row between the steps that begin and finish it: `OneScanPerPath`. The theorem
  of `ImageIntakeProofs` is for the behaviours in which that holds throughout,
  whatever the number of scans; that of `ImageToolsProofs` for one scan at a time,
  where it always holds. Without it the claim is false (`scan_overlap`).

### 4.8 Verify

`VerdictEarned`, for images, chunks and groups of any size, room for any number
of mismatches, and devices that answer as they like. `ScanMismatches` and the
walk over groups are recursive functions on the naturals; TLAPS is shown that
they exist by a least-number argument (`GroupsExist`), which a definition by
`CHOOSE` alone does not give. An entry of the list is evidence if its first byte
differs (`Sound`), and the list is complete for a stretch if every byte that
differs there lies in an entry (`Covers`); both are shown of one scan, then of the
join of two neighbouring ones, then of a pass. `VerifyInv` carries them from
chunk to chunk. The fast pass is one comparison of digests.

### 4.9 ImageProbe

`ReportOfTheBurn`, for images of any number of layers and a chain of any depth
but zero (with none nothing could be read through the chain at all). What window,
command line and burn answer are functions of the image, so the invariant only
says of each answer that it is the one its function gives; the work is
`AnswersAgree`, by what the extension makes of the image. Under the extension of
a compression all three go through the chain, whatever it does; under that of a
container or an archive they open the same reader or none; under any other the
window reads the file as it lies, and then it finds a disk only if no layer is
around it (`ShownAsItIs`), which is when the chain leaves it alone
(`PlainIsStreamed`). The chain is a recursive function, and exists by a
least-number argument (`RoundsExist`).

### 4.10 Captures, claims and the enumeration

`DeviceToolsProofs` proves these of the composition directly; each invariant is
of the variables of one operation.

* `CapturesAreWhole`, `CancelsAreHonoured`: the copy goes to the flush, and to Ok,
  with all that was wanted (`CopyInv`); a line in the progress file is the
  result of the helper that wrote it (`VerdictInv`); a flag that was up before
  the last chunk is seen by the next poll (`CancelInv`).
* `ClaimsHold`: the unmount is asked for by a session that already objects to
  mounts, its answer is passed on by the run loop, and the claim is held on that
  answer while the session still objects (`ClaimSafe`). Any number of helpers may
  fail, be killed or drop their claims meanwhile.
* `BootDriveSafe`: what a pass returns is in the cache before it is returned, and
  the cache never forgets (`PassSafe`); so what was known when a pass began is
  there when its list hangs.

### 4.11 From a module to the composition

`ImageToolsProofs` instantiates the proof modules on the variables of `ImageTools`.
`SameIntake`, `SameBurns`, `SameJobs` and `SameBackups` show that the modules instantiated
there and the ones the composition is built from are the same formulas, and
`OperationSteps` that a step of the composition is a step of each operation or
leaves its variables alone. The theorems of `ImageIntake`, `AppQuit` and `Backup`
then hold of the composition.

### 4.12 Only model-checked

* Liveness: `BurnEnds`, `BurnSettles`, `Returns`, `CallsReturn`, `CaptureEnds`. Fairness
  and ENABLED are out of the prover's reach.
* `SuccessIsEarned` and `CancelStaysVisible` are theorems for a local image; with
  downloads they are false (4.2).

## 5. What was found on the way

### 5.1 Runs

The disagreements of 3.4 are listed with their lines under `findings`.

### 5.2 Seen in the models and not given a run

* `writers/parallel.rs:157` says the producer "will pick up the queued error on
  its next write". If the failing worker is the last one, the producer waiting
  for a buffer returns "writer threads gone" and the recorded error is never
  read. The burn still fails, with a less useful message.
* `disks.rs:1424-1426` says a tail thread emits only what the current helper
  writes. A helper that outlived the app before its row was stamped appends to
  the same file, and the next run's tail thread takes its line.
* `disks.rs:182-183` says the paths register in `ActiveBurns` "on entry to
  `start_write` and deregister on terminal event". A start between the terminal
  event and the release of the slot registers, is refused by
  `spawn_elevated_burn`, and stays registered: no terminal event follows. The
  other way round, the end of one run can remove the entry the next has just made.
* `cloud.rs:114` says `Interrupted` is returned when the cancel is seen. A read
  that fails while the pool winds down for that cancel is returned instead, and
  the job ends as ECLOUD with its cancel file in place.
* `cloud.rs:151` asks for the cancel file again after the pool is gone. If it was
  removed meanwhile, a cancelled download returns Ok.
* The repository's `README.md:34-35` and `cli.rs:169-170` say a renamed image is
  recognised by its content. The burn does that; `DiskImage::open`
  (`image.rs:164-249`) and `inspect_any` (`inspect.rs:83`) go by the extension.
  The window then reports a renamed compressed image as raw and not valid, and
  `src/components.jsx:455-459` does not arm the burn of such a row.
  `ReportIsOfTheBurn` is stated of what the window accepts.
* `image.rs:291` says the El Torito descriptor at 0x8800 is inside the default
  prefix; the prefix ends at 0x8200 (`image.rs:334`).
* A decoder that cannot peek at its input is replaced by an empty reader: an
  inner layer that cannot be decoded becomes an empty image without an error.
  The chain refuses an image with exactly as many layers as it allows.
* A new snapshot to the path of an old one empties the old file first, before
  anything of the new one is on disk. A restore does not compare the size or the
  path of the device with those in the header.
* A sparse backup whose last `set_len` fails in `Drop` is reported as a success;
  a source that shrank while it was read gives a shorter image and Ok.
* A disk whose own info call timed out is shown as suspect even if it is the
  boot disk; `find_orphan_helpers` lists helpers at work, and a pid may be reused
  before `kill -9` (`disks.rs:310`).

## 6. Not modelled

* Bytes: alignment, hashing, decoding, parsing of partition tables, file
  systems, plists and footers, the text of events and progress lines, statistics,
  thread priorities. The window's size of a compressed image, which is the
  compressed size for gz, bz2 and zst, is among them.
* `hydrate` of the queue store against job events, entries with copies, selection
  and layout: several interleaved stores; the models take what the window shows
  of a job as one value that follows the row.
* Several elevated jobs at once. They share the two registries keyed by id and
  the database connection and nothing else. `AppQuit` has several jobs, because
  there quitting joins them.
* The operating system's side: that `osascript` passes the exit status on, that
  `pwrite` and `fsync` mean what they say.
* A file that shrinks while it is being made local, and a file without a byte,
  for which `materialize` returns before it looks for the cancel file.
* A progress file that `tail_helper` cannot read: its loop goes on as at the end
  of the file, and a verdict it could not read is lost as in `verdict_missed`.
* Whether a match was compared. With `verify.skip` the helper reports the digest
  it computed while writing as the one it read back (`helper.rs:354`), so a disk
  nobody read is recorded as matching; `SuccessIsEarned` and `SuccessWasReported`
  are about what was reported.
* Progress events that reach the window late. `applyJobUpdate`
  (`job-reducers.js:13`) takes one for a settled job too and shows it as writing
  again; `TailProgress` does the same, and no property speaks of what the window
  shows then. The row is not touched.
* Files that are valid as two formats at once, such as a fixed VHD whose contents
  begin with the magic of a compression: its head is recognised before its footer
  is looked at. Disks listed and ejected on
  Linux; the backup's cancel flag, which nothing raises.
* Catalog, updater, doctor, QEMU test, tool paths: each is one request and its
  answer. Job log, forensic report and the xz footer: output and parsing.
* The synchronous writers: one write call each, which is the promise itself.

## 7. Plan

In order of what the system depends on; done are the modules of section 2 and
the proofs of section 4.

1. `QueueStore`: `hydrate` against job events, late progress events, rows with
   copies, composed with the row actions of `AppQuit`.
2. `SuccessIsEarned` with downloads, for a weaker statement: the verdict is of
   the run whose tail thread recorded it.
