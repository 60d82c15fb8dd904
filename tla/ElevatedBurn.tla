---------------------------- MODULE ElevatedBurn ----------------------------
(***************************************************************************)
(* One queued job burned through the elevated path of src-tauri/src/       *)
(* disks.rs: the window's commands run on the main thread, a cloud image   *)
(* is first downloaded on a thread of its own, osascript asks for a        *)
(* password and runs the root helper, and a tail thread follows the        *)
(* helper's append-only progress file.  The app and the helper share only  *)
(* files (progress file, cancel sentinel) and the osascript exit status;   *)
(* the job's database row is what survives the app.                        *)
(***************************************************************************)
EXTENDS Integers, Sequences

CONSTANTS
    MaxRuns,     \* bound: helpers spawned for the job
    MaxMats,     \* bound: download threads alive at once; 0: a local image
    MaxCrashes,  \* bound: deaths of the app (quit, crash, dev-server restart)
    LongBurns    \* may a burn outlast the tail thread's 3600 seconds?

ASSUME ElevatedBurnAssumption ==
    /\ MaxRuns \in Nat /\ MaxMats \in Nat /\ MaxCrashes \in Nat
    /\ LongBurns \in BOOLEAN

Runs == 1..MaxRuns
Mats == 1..MaxMats
Main == 0                       \* the thread that runs the commands
Threads == {Main} \cup Mats

VARIABLES
    row,       \* burn_jobs: state, error_code, helper_pid (0: NULL)
    ui,        \* the row the window shows
    active,    \* ActiveBurns holds the job
    slot,      \* ElevatedJobs holds the job
    sentinel,  \* the cancel file exists
    asked,     \* history: Cancel was clicked since the last start_write
    file,      \* the progress file exists
    log,       \* its terminal lines, oldest first
    spawned,   \* runs spawned so far; run r is the r-th
    helper,    \* each run: osascript and the helper it waits for
    flag,      \* each run: the helper's AtomicBool `cancel`
    thr,       \* the main thread and the download threads
    tail,      \* each run: its tail thread; verdict "late" is history
    up,        \* the app is running
    crashes

dbVars == row
registryVars == <<active, slot>>
fileVars == <<sentinel, file, log>>
helperVars == <<spawned, helper, flag>>
appVars == <<ui, asked, thr, tail, up, crashes>>
vars == <<dbVars, registryVars, fileVars, helperVars, appVars>>

-----------------------------------------------------------------------------
(* The database: each recorder is one UPDATE under the connection's lock.  *)

Terminal == {"success", "error", "cancelled"}
Open(r) == r.state \in {"queued", "running"}

ResetToQueued(r) ==
    IF r.state \in {"error", "cancelled"}
    THEN [state |-> "queued", code |-> "none", pid |-> 0] ELSE r

Started(r, pid) ==
    IF Open(r)
    THEN [r EXCEPT !.state = "running", !.pid = IF pid = 0 THEN @ ELSE pid]
    ELSE r

(* Bug: the UPDATE lost its state guard. *)
FailedUnguarded(r, code) ==
    [r EXCEPT !.state = IF code = "ECANCELLED" THEN "cancelled" ELSE "error",
              !.code = code]

Failed(r, code) ==
    IF Open(r)
    THEN [r EXCEPT !.state = IF code = "ECANCELLED" THEN "cancelled" ELSE "error",
                   !.code = code]
    ELSE r

(* Bug: a completed burn counts as a success whatever the comparison said. *)
CompletedAnyway(r, match) ==
    IF r.state = "running" THEN [r EXCEPT !.state = "success", !.code = "none"] ELSE r

Completed(r, match) ==
    IF r.state # "running" THEN r
    ELSE IF match THEN [r EXCEPT !.state = "success", !.code = "none"]
    ELSE [r EXCEPT !.state = "error", !.code = "EHASHMISMATCH"]

(* Bug: the error code is taken for the row's state. *)
UiErrorRaw(code) == code

(* The window's view of an error; ENEEDS_FDA is shown apart. *)
UiError(code) == IF code = "ENEEDS_FDA" THEN "fda" ELSE "error"

(* emit_helper_line on a terminal line: what it records, what it shows. *)
RecordLine(r, line) ==
    IF line.kind \in {"match", "mismatch"}
    THEN Completed(r, line.kind = "match") ELSE Failed(r, line.kind)
ShowLine(line) ==
    IF line.kind = "match" THEN "success" ELSE UiError(line.kind)

-----------------------------------------------------------------------------
NoTail == [pc |-> "none", pos |-> 0, verdict |-> "none"]

Init ==
    /\ row = [state |-> "queued", code |-> "none", pid |-> 0]
    /\ ui = "idle" /\ asked = FALSE
    /\ active = FALSE /\ slot = FALSE
    /\ sentinel = FALSE /\ file = FALSE /\ log = <<>>
    /\ spawned = 0 /\ helper = [r \in Runs |-> "unborn"]
    /\ flag = [r \in Runs |-> FALSE]
    /\ thr = [t \in Threads |-> "idle"]
    /\ tail = [r \in Runs |-> NoTail]
    /\ up = TRUE /\ crashes = 0

Writing(r) == helper[r] \in {"setup", "writing", "verifying"}
OsascriptLive(r) == Writing(r) \/ helper[r] \in {"prompt", "reported"}
(* The helper returns 0 exactly when it wrote a complete line. *)
ExitedCleanly(r) ==
    \E i \in 1..Len(log) :
        log[i].run = r /\ log[i].kind \in {"match", "mismatch"}

-----------------------------------------------------------------------------
(* Commands of the window.  They are synchronous, so the main thread runs  *)
(* one at a time; start_write is the only one with several visible steps.  *)

Command == up /\ thr[Main] = "idle"
CanStart == Command /\ ui = "idle" /\ spawned < MaxRuns

(* The parent's Full Disk Access probe fails. *)
StartRefused ==
    /\ CanStart
    /\ row' = Failed(row, "ENEEDS_FDA")
    /\ ui' = "fda"
    /\ asked' = FALSE
    /\ UNCHANGED <<registryVars, fileVars, helperVars, thr, tail, up, crashes>>

(* A local image: start_write goes straight to begin_burn. *)
StartLocal ==
    /\ CanStart
    /\ thr' = [thr EXCEPT ![Main] = "insert"]
    /\ asked' = FALSE
    /\ UNCHANGED <<dbVars, registryVars, fileVars, helperVars, ui, tail, up, crashes>>

(* A dataless image: spawn_materialize_then_burn.  Its calls write three    *)
(* stores and read none, so they are one step; download threads are alike, *)
(* the lowest idle one is taken.                                           *)
StartCloud ==
    /\ CanStart
    /\ \E t \in Mats :
         /\ thr[t] = "idle" /\ \A s \in Mats : s < t => thr[s] # "idle"
         /\ thr' = [thr EXCEPT ![t] = "announce"]
    /\ sentinel' = FALSE
    /\ active' = TRUE
    /\ row' = Started(row, 0)
    /\ asked' = FALSE
    /\ UNCHANGED <<slot, file, log, helperVars, ui, tail, up, crashes>>

CancelWrite ==
    /\ Command /\ ui \in {"idle", "working"}
    /\ sentinel' = TRUE
    /\ asked' = TRUE
    /\ UNCHANGED <<dbVars, registryVars, file, log, helperVars, ui, thr, tail, up, crashes>>

(* RETRY and RESET ERROR: the row shows idle again, requeue_burn re-arms it. *)
Requeue ==
    /\ Command /\ ui \in {"error", "fda"}
    /\ row' = ResetToQueued(row)
    /\ ui' = "idle"
    /\ UNCHANGED <<registryVars, fileVars, helperVars, asked, thr, tail, up, crashes>>

(* clearEneedsFdaErrors: access was granted; only the window is re-armed. *)
ClearFdaError ==
    /\ Command /\ ui = "fda"
    /\ ui' = "idle"
    /\ UNCHANGED <<dbVars, registryVars, fileVars, helperVars, asked, thr, tail, up, crashes>>

-----------------------------------------------------------------------------
(* The download thread.  materialize asks for the cancel file when it is    *)
(* entered, between its reads, and once more when its workers are joined:   *)
(* a cancel after that last look is not seen by the download.  (An image    *)
(* without a byte, which is not asked about at all, is not dataless.)       *)

MatAnnounce(t) ==
    /\ thr[t] = "announce"
    /\ thr' = [thr EXCEPT ![t] = "enter"]
    /\ ui' = "working"
    /\ UNCHANGED <<dbVars, registryVars, fileVars, helperVars, asked, tail, up, crashes>>

MatEnter(t) ==
    /\ thr[t] = "enter" /\ ~sentinel
    /\ thr' = [thr EXCEPT ![t] = "download"]
    /\ UNCHANGED <<dbVars, registryVars, fileVars, helperVars, ui, asked, tail, up, crashes>>

MatDone(t) ==
    /\ thr[t] = "download" /\ ~sentinel
    /\ thr' = [thr EXCEPT ![t] = "insert"]
    /\ UNCHANGED <<dbVars, registryVars, fileVars, helperVars, ui, asked, tail, up, crashes>>

(* emit_job_failure *)
FailJob(code) ==
    /\ row' = Failed(row, code)
    /\ active' = FALSE
    /\ ui' = UiError(code)

MatCancelled(t) ==
    /\ thr[t] \in {"enter", "download"} /\ sentinel
    /\ sentinel' = FALSE
    /\ FailJob("ECANCELLED")
    /\ thr' = [thr EXCEPT ![t] = "idle"]
    /\ UNCHANGED <<slot, file, log, helperVars, asked, tail, up, crashes>>

(* Bug: a failed download ends its thread without a word. *)
MatFailsSilently(t) ==
    /\ thr[t] \in {"enter", "download"}
    /\ thr' = [thr EXCEPT ![t] = "idle"]
    /\ UNCHANGED <<dbVars, registryVars, fileVars, helperVars, ui, asked, tail, up, crashes>>

MatFails(t) ==
    /\ thr[t] \in {"enter", "download"}
    /\ FailJob("ECLOUD")
    /\ thr' = [thr EXCEPT ![t] = "idle"]
    /\ UNCHANGED <<slot, fileVars, helperVars, asked, tail, up, crashes>>

-----------------------------------------------------------------------------
(* begin_burn and spawn_elevated_burn, on either thread.                   *)

InsertActive(t) ==
    /\ thr[t] = "insert"
    /\ active' = TRUE
    /\ thr' = [thr EXCEPT ![t] = "reserve"]
    /\ UNCHANGED <<dbVars, slot, fileVars, helperVars, ui, asked, tail, up, crashes>>

(* Bug: the in-flight check is gone. *)
ReserveUnchecked(t) ==
    /\ thr[t] = "reserve"
    /\ slot' = TRUE
    /\ thr' = [thr EXCEPT ![t] = "clear"]
    /\ UNCHANGED <<dbVars, active, fileVars, helperVars, ui, asked, tail, up, crashes>>

Reserve(t) ==
    /\ thr[t] = "reserve" /\ ~slot
    /\ slot' = TRUE
    /\ thr' = [thr EXCEPT ![t] = "clear"]
    /\ UNCHANGED <<dbVars, active, fileVars, helperVars, ui, asked, tail, up, crashes>>

(* "burn already in flight": the window ignores this error, the download   *)
(* thread reports it with emit_job_failure.                                *)
ReserveRefused(t) ==
    /\ thr[t] = "reserve" /\ slot
    /\ thr' = [thr EXCEPT ![t] = "idle"]
    /\ IF t = Main THEN UNCHANGED <<row, active, ui>> ELSE FailJob("EHELPER")
    /\ UNCHANGED <<slot, fileVars, helperVars, asked, tail, up, crashes>>

ClearSentinel(t) ==
    /\ thr[t] = "clear"
    /\ sentinel' = FALSE
    /\ thr' = [thr EXCEPT ![t] = "spawn"]
    /\ UNCHANGED <<dbVars, registryVars, file, log, helperVars, ui, asked, tail, up, crashes>>

Spawn(t) ==
    /\ thr[t] = "spawn" /\ spawned < MaxRuns
    /\ spawned' = spawned + 1
    /\ helper' = [helper EXCEPT ![spawned'] = "prompt"]
    /\ thr' = [thr EXCEPT ![t] = "stamp"]
    /\ UNCHANGED <<dbVars, registryVars, fileVars, flag, ui, asked, tail, up, crashes>>

SpawnFails(t) ==
    /\ thr[t] = "spawn"
    /\ row' = Failed(row, "EHELPER")
    /\ active' = FALSE
    /\ slot' = FALSE
    /\ ui' = IF t = Main THEN ui ELSE "error"
    /\ thr' = [thr EXCEPT ![t] = "idle"]
    /\ UNCHANGED <<fileVars, helperVars, asked, tail, up, crashes>>

(* record_burn_started stamps the breadcrumbs; the tail thread starts. *)
Stamp(t) ==
    /\ thr[t] = "stamp"
    /\ row' = Started(row, spawned)
    /\ thr' = [thr EXCEPT ![t] = "idle"]
    /\ tail' = [tail EXCEPT ![spawned].pc = "start"]
    /\ UNCHANGED <<registryVars, fileVars, helperVars, ui, asked, up, crashes>>

-----------------------------------------------------------------------------
(* osascript and the helper.  Only its terminal line is kept in the log;   *)
(* progress lines matter for what the window shows and nothing else.       *)

(* The operator refuses, or the helper cannot open its progress file. *)
AuthDenied(r) ==
    /\ helper[r] = "prompt"
    /\ helper' = [helper EXCEPT ![r] = "exited"]
    /\ UNCHANGED <<dbVars, registryVars, fileVars, spawned, flag, appVars>>

Authorised(r) ==
    /\ helper[r] = "prompt"
    /\ helper' = [helper EXCEPT ![r] = "setup"]
    /\ file' = TRUE
    /\ UNCHANGED <<dbVars, registryVars, sentinel, log, spawned, flag, appVars>>

OpenTarget(r) ==
    /\ helper[r] = "setup"
    /\ helper' = [helper EXCEPT ![r] = "writing"]
    /\ UNCHANGED <<dbVars, registryVars, fileVars, spawned, flag, appVars>>

(* Bug: the helper goes on after its error line. *)
ReportAndGoOn(r, kind) ==
    /\ log' = Append(log, [run |-> r, kind |-> kind])
    /\ UNCHANGED <<dbVars, registryVars, sentinel, file, helperVars, appVars>>

Report(r, kind) ==
    /\ log' = Append(log, [run |-> r, kind |-> kind])
    /\ helper' = [helper EXCEPT ![r] = "reported"]
    /\ UNCHANGED <<dbVars, registryVars, sentinel, file, spawned, flag, appVars>>

SetupFails(r) ==
    /\ helper[r] = "setup"
    /\ \E code \in {"EIO", "ENEEDS_FDA"} : Report(r, code)

(* The watcher thread polls the sentinel from the moment the burn starts. *)
WatchSentinel(r) ==
    /\ helper[r] \in {"writing", "verifying"} /\ sentinel /\ ~flag[r]
    /\ flag' = [flag EXCEPT ![r] = TRUE]
    /\ UNCHANGED <<dbVars, registryVars, fileVars, spawned, helper, appVars>>

(* The flag is polled at the top of each loop; set later it is not seen. *)
NoticeCancel(r) ==
    /\ helper[r] \in {"writing", "verifying"} /\ flag[r]
    /\ Report(r, "ECANCELLED")

IoFails(r) ==
    /\ helper[r] \in {"writing", "verifying"}
    /\ Report(r, "EIO")

WriteDone(r) ==
    /\ helper[r] = "writing"
    /\ helper' = [helper EXCEPT ![r] = "verifying"]
    /\ UNCHANGED <<dbVars, registryVars, fileVars, spawned, flag, appVars>>

(* verify.skip: a match is reported without reading back. *)
SkipVerify(r) ==
    /\ helper[r] = "writing"
    /\ Report(r, "match")

VerifyDone(r) ==
    /\ helper[r] = "verifying"
    /\ \E kind \in {"match", "mismatch"} : Report(r, kind)

HelperExits(r) ==
    /\ helper[r] = "reported"
    /\ helper' = [helper EXCEPT ![r] = "exited"]
    /\ UNCHANGED <<dbVars, registryVars, fileVars, spawned, flag, appVars>>

(* kill -9 by kill_orphan_helpers: no terminal line. *)
HelperKilled(r) ==
    /\ Writing(r)
    /\ helper' = [helper EXCEPT ![r] = "exited"]
    /\ UNCHANGED <<dbVars, registryVars, fileVars, spawned, flag, appVars>>

-----------------------------------------------------------------------------
(* tail_helper and tail_helper_reattach: they differ only in how they      *)
(* learn that osascript is gone and in the code they then record.          *)

TailVars(r, t) == tail' = [tail EXCEPT ![r] = t]

(* Bug: what earlier runs left in the file is replayed. *)
TailStartAtZero(r) ==
    /\ tail[r].pc \in {"start", "restart"}
    /\ TailVars(r, [tail[r] EXCEPT
            !.pc = IF @ = "start" THEN "read" ELSE "reread", !.pos = 0])
    /\ UNCHANGED <<dbVars, registryVars, fileVars, helperVars, ui, asked, thr, up, crashes>>

(* last_pos is the end of the file when the thread first looks. *)
TailStart(r) ==
    /\ tail[r].pc \in {"start", "restart"}
    /\ TailVars(r, [tail[r] EXCEPT
            !.pc = IF @ = "start" THEN "read" ELSE "reread", !.pos = Len(log)])
    /\ UNCHANGED <<dbVars, registryVars, fileVars, helperVars, ui, asked, thr, up, crashes>>

Reading(r) == tail[r].pc \in {"read", "reread"}
LossCode(r) ==
    IF tail[r].pc = "recheck" THEN "EORPHAN"
    ELSE IF ExitedCleanly(r) THEN "EHELPER" ELSE "EAUTH"

(* A progress line reached the window; it shows even over a settled row. *)
TailProgress(r) ==
    /\ Reading(r) /\ helper[r] \in {"writing", "verifying"} /\ ui # "working"
    /\ ui' = "working"
    /\ UNCHANGED <<dbVars, registryVars, fileVars, helperVars, asked, thr, tail, up, crashes>>

(* A terminal line: recorded first, then dropped from ActiveBurns and shown. *)
TailLine(r) ==
    /\ Reading(r) /\ tail[r].pos < Len(log)
    /\ LET line == log[tail[r].pos + 1] IN
         /\ row' = RecordLine(row, line)
         /\ TailVars(r, [tail[r] EXCEPT
                !.pc = IF @ = "read" THEN "show" ELSE "reshow",
                !.pos = @ + 1, !.verdict = ShowLine(line)])
    /\ UNCHANGED <<registryVars, fileVars, helperVars, ui, asked, thr, up, crashes>>

TailShow(r) ==
    /\ tail[r].pc \in {"show", "reshow"}
    /\ active' = FALSE
    /\ ui' = tail[r].verdict
    /\ TailVars(r, [tail[r] EXCEPT !.pc = IF @ = "show" THEN "read" ELSE "reread"])
    /\ UNCHANGED <<dbVars, slot, fileVars, helperVars, asked, thr, up, crashes>>

TailEof(r) ==
    /\ Reading(r) /\ tail[r].pos = Len(log)
    /\ TailVars(r, [tail[r] EXCEPT
            !.pc = IF tail[r].verdict # "none" THEN "unflag"
                   ELSE IF @ = "read" THEN "check" ELSE "recheck"])
    /\ UNCHANGED <<dbVars, registryVars, fileVars, helperVars, ui, asked, thr, up, crashes>>

Checking(r) == tail[r].pc \in {"check", "recheck"}

TailSleep(r) ==
    /\ Checking(r) /\ OsascriptLive(r)
    /\ TailVars(r, [tail[r] EXCEPT !.pc = IF @ = "check" THEN "read" ELSE "reread"])
    /\ UNCHANGED <<dbVars, registryVars, fileVars, helperVars, ui, asked, thr, up, crashes>>

(* Bug: the loss is shown but not recorded. *)
TailLostUnrecorded(r) ==
    /\ Checking(r) /\ ~OsascriptLive(r)
    /\ TailVars(r, [tail[r] EXCEPT !.pc = "lost"])
    /\ UNCHANGED <<dbVars, registryVars, fileVars, helperVars, ui, asked, thr, up, crashes>>

(* osascript is gone and no terminal line was read. *)
TailLost(r) ==
    /\ Checking(r) /\ ~OsascriptLive(r)
    /\ row' = Failed(row, LossCode(r))
    /\ TailVars(r, [tail[r] EXCEPT !.pc = "lost"])
    /\ UNCHANGED <<registryVars, fileVars, helperVars, ui, asked, thr, up, crashes>>

TailShowLost(r) ==
    /\ tail[r].pc = "lost"
    /\ active' = FALSE
    /\ ui' = "error"
    /\ TailVars(r, [tail[r] EXCEPT !.pc = "unflag"])
    /\ UNCHANGED <<dbVars, slot, fileVars, helperVars, asked, thr, up, crashes>>

(* 3600 seconds are over: nothing is recorded. *)
TailTimeout(r) ==
    /\ LongBurns /\ Checking(r) /\ OsascriptLive(r)
    /\ TailVars(r, [tail[r] EXCEPT !.pc = "unflag", !.verdict = "late"])
    /\ UNCHANGED <<dbVars, registryVars, fileVars, helperVars, ui, asked, thr, up, crashes>>

TailUnflag(r) ==
    /\ tail[r].pc = "unflag"
    /\ sentinel' = FALSE
    /\ TailVars(r, [tail[r] EXCEPT !.pc = "release"])
    /\ UNCHANGED <<dbVars, registryVars, file, log, helperVars, ui, asked, thr, up, crashes>>

TailRelease(r) ==
    /\ tail[r].pc = "release"
    /\ slot' = FALSE
    /\ TailVars(r, [tail[r] EXCEPT !.pc = "done"])
    /\ UNCHANGED <<dbVars, active, fileVars, helperVars, ui, asked, thr, up, crashes>>

-----------------------------------------------------------------------------
(* The app dies: threads and registries go, files, row and helpers stay.   *)
AppDies ==
    /\ up /\ crashes < MaxCrashes
    /\ up' = FALSE
    /\ crashes' = crashes + 1
    /\ active' = FALSE /\ slot' = FALSE
    /\ thr' = [t \in Threads |-> "idle"]
    /\ tail' = [r \in Runs |-> NoTail]
    /\ UNCHANGED <<dbVars, fileVars, helperVars, ui, asked>>

Reattachable ==
    /\ row.state = "running" /\ row.pid # 0
    /\ OsascriptLive(row.pid)
    /\ file

(* The window after hydrate. *)
Hydrated(r) ==
    CASE r.state = "queued" -> "idle"
      [] r.state = "running" -> "working"
      [] r.state = "success" -> "success"
      [] OTHER -> UiError(r.code)

(* Bug: rows whose helper is gone are left as they are. *)
AppStartsWithoutOrphans ==
    /\ ~up
    /\ up' = TRUE
    /\ IF Reattachable
       THEN /\ active' = TRUE /\ slot' = TRUE
            /\ tail' = [tail EXCEPT ![row.pid].pc = "restart"]
       ELSE UNCHANGED <<registryVars, tail>>
    /\ ui' = Hydrated(row)
    /\ UNCHANGED <<dbVars, fileVars, helperVars, asked, thr, crashes>>

(* Startup: reattach_running_helpers, then the window hydrates. *)
AppStarts ==
    /\ ~up
    /\ up' = TRUE
    /\ IF Reattachable
       THEN /\ active' = TRUE /\ slot' = TRUE
            /\ tail' = [tail EXCEPT ![row.pid].pc = "restart"]
            /\ row' = row
       ELSE /\ row' = IF row.state = "running" THEN Failed(row, "EORPHAN") ELSE row
            /\ UNCHANGED <<registryVars, tail>>
    /\ ui' = Hydrated(row')
    /\ UNCHANGED <<fileVars, helperVars, asked, thr, crashes>>

-----------------------------------------------------------------------------
Window ==
    \/ StartRefused \/ StartLocal \/ StartCloud
    \/ CancelWrite \/ Requeue \/ ClearFdaError

Materialize(t) ==
    \/ MatAnnounce(t) \/ MatEnter(t) \/ MatDone(t)
    \/ MatCancelled(t) \/ MatFails(t)

BeginBurn(t) ==
    \/ InsertActive(t) \/ Reserve(t) \/ ReserveRefused(t) \/ ClearSentinel(t)
    \/ Spawn(t) \/ SpawnFails(t) \/ Stamp(t)

HelperRun(r) ==
    \/ AuthDenied(r) \/ Authorised(r) \/ OpenTarget(r) \/ SetupFails(r)
    \/ NoticeCancel(r) \/ IoFails(r) \/ WriteDone(r) \/ SkipVerify(r)
    \/ VerifyDone(r) \/ HelperExits(r)

TailThread(r) ==
    \/ TailStart(r) \/ TailLine(r) \/ TailShow(r) \/ TailEof(r) \/ TailSleep(r)
    \/ TailLost(r) \/ TailShowLost(r) \/ TailTimeout(r) \/ TailUnflag(r)
    \/ TailRelease(r)

Next ==
    \/ Window
    \/ \E t \in Mats : Materialize(t)
    \/ \E t \in Threads : BeginBurn(t)
    \/ \E r \in Runs : HelperRun(r) \/ WatchSentinel(r) \/ HelperKilled(r)
    \/ \E r \in Runs : TailThread(r) \/ TailProgress(r)
    \/ AppDies \/ AppStarts

Spec == Init /\ [][Next]_vars

(* The operator answers the password prompt, a download ends one way or    *)
(* the other, the app is started again after it died, and the threads and  *)
(* the helper are scheduled.  Clicks, kills and deaths of the app are not  *)
(* owed.                                                                   *)
FairSpec ==
    /\ Spec
    /\ \A t \in Mats : WF_vars(Materialize(t))
    /\ \A t \in Threads : WF_vars(BeginBurn(t))
    /\ \A r \in Runs : WF_vars(HelperRun(r)) /\ WF_vars(TailThread(r))
    /\ WF_vars(AppStarts)

-----------------------------------------------------------------------------
Codes == {"none", "ENEEDS_FDA", "EHELPER", "EAUTH", "EIO", "EHASHMISMATCH",
          "ECANCELLED", "ECLOUD", "EORPHAN"}
Row == [state : Terminal \cup {"queued", "running"}, code : Codes, pid : {0} \cup Runs]
Line == [run : Runs, kind : {"match", "mismatch", "EIO", "ENEEDS_FDA", "ECANCELLED"}]
HelperPC == {"unborn", "prompt", "setup", "writing", "verifying", "reported", "exited"}
ThreadPC == {"idle", "announce", "enter", "download", "insert", "reserve", "clear",
             "spawn", "stamp"}
(* From the click to the reservation of the slot. *)
Arriving == {"announce", "enter", "download", "insert", "reserve"}
TailPC == {"none", "start", "restart", "read", "reread", "show", "reshow", "check",
           "recheck", "lost", "unflag", "release", "done"}
Shown == {"success", "error", "fda"}
TailState == [pc : TailPC, pos : Nat, verdict : Shown \cup {"none", "late"}]

(* Every variable has its type. *)
TypeOK ==
    /\ row \in Row
    /\ ui \in Shown \cup {"idle", "working"}
    /\ active \in BOOLEAN /\ slot \in BOOLEAN
    /\ sentinel \in BOOLEAN /\ asked \in BOOLEAN /\ file \in BOOLEAN
    /\ log \in Seq(Line)
    /\ spawned \in 0..MaxRuns
    /\ helper \in [Runs -> HelperPC]
    /\ flag \in [Runs -> BOOLEAN]
    /\ thr \in [Threads -> ThreadPC]
    /\ tail \in [Runs -> TailState]
    /\ up \in BOOLEAN /\ crashes \in 0..MaxCrashes

(* No tail thread of the running app has given up on its helper; and the    *)
(* app has not died either.                                                 *)
Followed == \A r \in Runs : tail[r].verdict # "late"
Steady == Followed /\ crashes = 0

(* Somebody has the job: a thread on its way to the spawn, or the owner of   *)
(* the slot.  And some run of it has reported a match.                       *)
InHand ==
    slot \/ \E t \in Threads : thr[t] \in Arriving
Matched == \E i \in 1..Len(log) : log[i].kind = "match"

(* As long as the app stays up and burns take less than an hour, two helpers *)
(* of one job never work on the device at the same time, however clicks,     *)
(* downloads and the end of an earlier run interleave: the slot is held from *)
(* before the spawn until the helper's last line was read.                   *)
OneWriter == Steady => \A r, s \in Runs : Writing(r) /\ Writing(s) => r = s

(* A helper leaves one verdict: it writes one terminal line and no more.     *)
OneVerdict ==
    \A i, j \in 1..Len(log) : log[i].run = log[j].run => i = j

(* A row says success only if the run whose pid it carries reported a match  *)
(* (by comparing, or unasked under verify.skip): one run's verdict is never  *)
(* booked for another, while the app stays up and burns take less than an    *)
(* hour.                                                                     *)
SuccessIsEarned ==
    Steady /\ row.state = "success" =>
        \E i \in 1..Len(log) : log[i] = [run |-> row.pid, kind |-> "match"]

(* With downloads and restarts too, a row says success only if some helper   *)
(* of the job finished and reported a match.                                 *)
SuccessWasReported == row.state = "success" => Matched

(* A click on Cancel is not lost while a helper works: the sentinel is still *)
(* there, or the helper's flag is up.                                        *)
CancelStaysVisible ==
    Steady => \A r \in Runs : asked /\ Writing(r) => sentinel \/ flag[r]

(* A running row has somebody who will settle it: a thread on its way to the *)
(* spawn, or the tail thread behind the slot, unless that one gave up after  *)
(* an hour; also after a death of the app, once it is up again.              *)
RunningIsAttended ==
    up /\ Followed /\ row.state = "running" => InHand

(* A settled row changes only by being put back in the queue, and a success  *)
(* never changes (record_burn_failed: "a stale event can't overwrite a       *)
(* settled outcome").                                                        *)
SettledRowKept ==
    [][row.state \in Terminal =>
        row' = row \/ (row.state # "success" /\ row'.state = "queued")]_vars

(* What the queue is promised of a job holds of a burn behind a helper: the  *)
(* row goes from queued to running to settled and back by a requeue only, a  *)
(* running row is in the hands of a thread on its way to the spawn or of the *)
(* slot's owner, a success was reported by a helper, and a row that ran when *)
(* the app went down is taken up again or settled.  A burn whose tail thread  *)
(* gave up may be let go while its row runs.                                   *)
Job == INSTANCE BurnJob
       WITH state <- row.state, hand <- InHand, earned <- Matched, late <- ~Followed
KeepsJob == Job!Spec

(* Every running row is settled in the end (burn_jobs: a job lives in the    *)
(* table "through to a terminal state").                                     *)
BurnSettles == row.state = "running" ~> row.state # "running"

-----------------------------------------------------------------------------
(* Why OneWriter holds while the app stays up and burns are short: the slot  *)
(* is owned by one thread or one tail thread at a time, and a run that may   *)
(* still work has an owner that has not read a terminal line of it.          *)

Busy(t) == thr[t] \in {"clear", "spawn", "stamp"}
Tailing(r) == tail[r].pc \notin {"none", "done"}
Working(r) == Writing(r) \/ helper[r] = "prompt"

SlotOwned ==
    /\ \A t \in Threads : Busy(t) => slot
    /\ \A r \in Runs : Tailing(r) => slot
    /\ \A t, u \in Threads : Busy(t) /\ Busy(u) => t = u
    /\ \A r, s \in Runs : Tailing(r) /\ Tailing(s) => r = s
    /\ \A t \in Threads, r \in Runs : ~(Busy(t) /\ Tailing(r))

FreshRuns ==
    /\ \A r \in Runs : r > spawned => helper[r] = "unborn" /\ tail[r] = NoTail
    /\ \A t \in Threads : thr[t] = "stamp" => spawned # 0 /\ tail[spawned] = NoTail

RunOwned ==
    /\ FreshRuns
    /\ \A r \in Runs : Working(r) =>
            \/ tail[r].pc \in {"start", "read", "check"} /\ tail[r].verdict = "none"
            \/ r = spawned /\ \E t \in Threads : thr[t] = "stamp"
    /\ \A r \in Runs : tail[r].pc \notin {"restart", "reread", "reshow", "recheck"}

LinesOwned ==
    /\ \A i \in 1..Len(log) : helper[log[i].run] \in {"reported", "exited"}
    /\ \A r \in Runs : tail[r].pc \in {"read", "check", "show"} =>
            \A i \in 1..Len(log) : i > tail[r].pos => log[i].run = r

SessionInv == up /\ SlotOwned /\ RunOwned /\ LinesOwned

(* Why RunningIsAttended holds across deaths of the app: the slot has one    *)
(* owner whatever happens, and a tail thread that will give it back has      *)
(* settled the row first, unless a download set it running again.            *)

Quiet ==
    /\ ~slot
    /\ \A t \in Threads : thr[t] = "idle"
    /\ \A r \in Runs : tail[r] = NoTail
Judged(r) ==
    Tailing(r) /\ (tail[r].pc \in {"lost", "unflag", "release"} \/ tail[r].verdict # "none")
Downloading ==
    \E t \in Mats : thr[t] \in Arriving

OwnerInv == SlotOwned /\ FreshRuns /\ (~up => Quiet)

AttendInv ==
    /\ up /\ row.state = "running" => slot \/ Downloading
    /\ \A r \in Runs : Judged(r) => row.state # "running" \/ Downloading

-----------------------------------------------------------------------------
(* What comments of the code say and a run refutes. *)

(* tail_helper: "osascript exited but no terminal message".  The tail thread *)
(* records a loss only if its run left no terminal line behind the position  *)
(* it has read to.                                                           *)
LossIsReal ==
    \A r \in Runs : tail[r].pc = "lost" =>
        \A i \in tail[r].pos + 1 .. Len(log) : log[i].run # r

(* reattach_running_helpers: "Rows whose helper is gone get marked EORPHAN". *)
OrphanIsGone ==
    row.code = "EORPHAN" => \A r \in Runs : ~OsascriptLive(r)

(* burn_jobs is "the source of truth for both the live queue and the burn    *)
(* history": what the window shows as burned is recorded as burned.          *)
ShownIsRecorded == ui = "success" => row.state = "success"
=============================================================================
