------------------------------ MODULE AppQuit ------------------------------
(***************************************************************************)
(* Burns that run inside the app (src-tauri/src/disks.rs: start_write and  *)
(* begin_burn without elevation, one thread per burn), the registries that *)
(* let the window cancel them, and the two ways out of the app: closing    *)
(* the window, which the guard of lib.rs refuses while a burn is in        *)
(* flight, and abort_and_quit, which cancels everything and waits a while. *)
(* Jobs share the registries and the quit; each has a row of its own.      *)
(***************************************************************************)
EXTENDS Naturals, FiniteSets

CONSTANTS
    Jobs,       \* queued jobs
    NoJob,      \* not a job: what a thread not yet started works on
    CloudJobs,  \* those whose image must be downloaded first
    MaxRuns,    \* bound: burn threads started
    MaxExits    \* bound: times the app goes down

AppQuitAssumption ==
    /\ CloudJobs \subseteq Jobs /\ NoJob \notin Jobs
    /\ MaxRuns \in Nat /\ MaxExits \in Nat

Runs == 1..MaxRuns
None == 0

VARIABLES
    row,       \* burn_jobs.state of each job
    ui,        \* what the window shows of each job
    active,    \* ActiveBurns: the jobs in flight
    registry,  \* CancelRegistry: the run whose flag a job's entry is
    sentinel,  \* the jobs whose cancel file exists
    run,       \* the burn threads: job, step, flag, outcome
    asked,     \* history: runs at work when Cancel was clicked for their job
    dl,        \* the jobs whose download thread is at work
    warm,      \* the cloud jobs whose image is resident by now
    quit,      \* the window's close dialog and the abort_and_quit thread
    snap,      \* the jobs abort_and_quit found in flight
    down,      \* how the app went down last; "up" while it runs
    exits      \* how often it went down

rowVars == <<row, ui>>
regVars == <<active, registry, sentinel>>
dlVars == <<dl, warm>>
quitVars == <<quit, snap, down, exits>>
vars == <<rowVars, regVars, run, asked, dlVars, quitVars>>

Up == down = "up"
Command == Up /\ quit = "no"     \* the close dialog is modal

Settled == {"success", "error", "cancelled"}
BeforeRecord == {"starting", "opening", "writing", "reopening", "verifying",
                 "finished", "swept"}
Working == BeforeRecord \cup {"recorded", "deregistered"}
Steps == Working \cup {"none", "done"}

(* What the row is told: ECANCELLED and EHASHMISMATCH of the codes, "error" *)
(* for EUNSUPPORTED, ETARGET, EIMAGE, EIO and ECLOUD, which go one way.     *)
Outcomes == {"none", "match", "EHASHMISMATCH", "ECANCELLED", "error"}

Fresh == {r \in Runs : run[r].pc = "none"}
Next1 == CHOOSE r \in Fresh : \A s \in Fresh : r <= s
RunsOf(j) == {r \in Runs : run[r].job = j /\ run[r].pc \in Working}

-----------------------------------------------------------------------------
Init ==
    /\ row = [j \in Jobs |-> "queued"]
    /\ ui = [j \in Jobs |-> "idle"]
    /\ active = {}
    /\ registry = [j \in Jobs |-> None]
    /\ sentinel = {}
    /\ run = [r \in Runs |-> [job |-> NoJob, pc |-> "none", flag |-> FALSE,
                              code |-> "none"]]
    /\ asked = {}
    /\ dl = {} /\ warm = {}
    /\ quit = "no" /\ snap = {} /\ down = "up" /\ exits = 0

(* record_burn_started, record_burn_completed, record_burn_failed.          *)
Started(s) == IF s \in {"queued", "running"} THEN "running" ELSE s
Recorded(s, code) ==
    IF code \in {"match", "EHASHMISMATCH"}
    THEN IF s = "running" THEN IF code = "match" THEN "success" ELSE "error" ELSE s
    ELSE IF s \in {"queued", "running"}
         THEN IF code = "ECANCELLED" THEN "cancelled" ELSE "error" ELSE s

-----------------------------------------------------------------------------
(* start_write: a new flag, a new thread; nothing asks whether the job is   *)
(* already being burned.                                                    *)

(* Bug: an entry that exists is kept (entry().or_insert). *)
RegisterOnce(j, r) ==
    registry' = [registry EXCEPT ![j] = IF @ = None THEN r ELSE @]

Register(j, r) == registry' = [registry EXCEPT ![j] = r]

BeginBurn(j) ==
    /\ Fresh # {}
    /\ Register(j, Next1)
    /\ active' = active \cup {j}
    /\ run' = [run EXCEPT ![Next1] = [job |-> j, pc |-> "starting",
                                      flag |-> FALSE, code |-> "none"]]

(* The arm confirmation is used up by the start: an idle job is started     *)
(* once, also when its first event is still to come.                        *)
Idle(j) == Command /\ ui[j] = "idle" /\ RunsOf(j) = {} /\ j \notin dl

StartLocal(j) ==
    /\ Idle(j) /\ j \notin CloudJobs \ warm
    /\ BeginBurn(j)
    /\ UNCHANGED <<rowVars, sentinel, asked, dlVars, quitVars>>

(* spawn_materialize_then_burn, up to the thread and its first event *)
StartCloud(j) ==
    /\ Idle(j) /\ j \in CloudJobs \ warm
    /\ sentinel' = sentinel \ {j}
    /\ active' = active \cup {j}
    /\ row' = [row EXCEPT ![j] = Started(@)]
    /\ ui' = [ui EXCEPT ![j] = "working"]
    /\ dl' = dl \cup {j}
    /\ UNCHANGED <<registry, run, asked, warm, quitVars>>

(* RETRY: requeue_burn, then start_write *)
Requeue(j) ==
    /\ Command /\ ui[j] = "error"
    /\ row' = [row EXCEPT ![j] = IF @ \in {"error", "cancelled"} THEN "queued" ELSE @]
    /\ ui' = [ui EXCEPT ![j] = "idle"]
    /\ UNCHANGED <<regVars, run, asked, dlVars, quitVars>>

Flagged(rs) == [r \in Runs |-> IF r \in rs THEN [run[r] EXCEPT !.flag = TRUE]
                               ELSE run[r]]

(* cancel_write *)
Cancel(j) ==
    /\ Command /\ ui[j] = "working"
    /\ run' = Flagged({registry[j]})
    /\ sentinel' = sentinel \cup {j}
    /\ asked' = asked \cup RunsOf(j)
    /\ UNCHANGED <<rowVars, active, registry, dlVars, quitVars>>

-----------------------------------------------------------------------------
(* The download thread. Only it looks at the cancel file: at the entry of   *)
(* materialize, between its reads and when its workers are joined; a cancel *)
(* after that last look is not seen.                                        *)

(* emit_job_failure *)
FailJob(j, code) ==
    /\ row' = [row EXCEPT ![j] = Recorded(@, code)]
    /\ active' = active \ {j}
    /\ ui' = [ui EXCEPT ![j] = "error"]

DownloadCancelled(j) ==
    /\ Up /\ j \in (dl \ warm) \cap sentinel
    /\ sentinel' = sentinel \ {j}
    /\ FailJob(j, "ECANCELLED")
    /\ dl' = dl \ {j}
    /\ UNCHANGED <<registry, run, asked, warm, quitVars>>

DownloadFails(j) ==
    /\ Up /\ j \in dl \ warm
    /\ FailJob(j, "error")
    /\ dl' = dl \ {j}
    /\ UNCHANGED <<registry, sentinel, run, asked, warm, quitVars>>

DownloadChecked(j) ==
    /\ Up /\ j \in dl \ (warm \cup sentinel)
    /\ warm' = warm \cup {j}
    /\ UNCHANGED <<rowVars, regVars, run, asked, dl, quitVars>>

DownloadDone(j) ==
    /\ Up /\ j \in dl \cap warm
    /\ BeginBurn(j)
    /\ dl' = dl \ {j}
    /\ UNCHANGED <<rowVars, sentinel, asked, warm, quitVars>>

-----------------------------------------------------------------------------
(* The burn thread: run_job, then the bookkeeping in the order of the code. *)

To(r, from, to) ==
    /\ Up /\ run[r].pc = from
    /\ run' = [run EXCEPT ![r].pc = to]

EndsWith(r, from, code) ==
    /\ Up /\ run[r].pc = from
    /\ run' = [run EXCEPT ![r].pc = "finished", ![r].code = code]

ThreadStarts(r) ==
    /\ To(r, "starting", "opening")
    /\ row' = [row EXCEPT ![run[r].job] = Started(@)]
    /\ UNCHANGED <<ui, regVars, asked, dlVars, quitVars>>

(* open_streaming_with_log, open_write, and after the burn the same again   *)
(* for the verify                                                           *)
Opens(r) ==
    /\ \/ To(r, "opening", "writing")
       \/ To(r, "reopening", "verifying")
       \/ \E pc \in {"opening", "reopening"} : EndsWith(r, pc, "error")
    /\ UNCHANGED <<rowVars, regVars, asked, dlVars, quitVars>>

Progress(r) ==
    /\ Up /\ run[r].pc \in {"writing", "verifying"} /\ ui[run[r].job] # "working"
    /\ ui' = [ui EXCEPT ![run[r].job] = "working"]
    /\ UNCHANGED <<row, regVars, run, asked, dlVars, quitVars>>

(* Each loop polls the flag before a chunk; a flag raised after the last    *)
(* poll is not seen by that loop.                                           *)
Loops(r) ==
    /\ \/ \E pc \in {"writing", "verifying"} :
            \/ run[r].flag /\ EndsWith(r, pc, "ECANCELLED")
            \/ EndsWith(r, pc, "error")
       \/ To(r, "writing", "reopening")
       \/ \E code \in {"match", "EHASHMISMATCH"} : EndsWith(r, "verifying", code)
    /\ UNCHANGED <<rowVars, regVars, asked, dlVars, quitVars>>

(* Bug: the job is dropped from ActiveBurns before its row is settled. *)
SweepsAndDeregisters(r) ==
    /\ To(r, "finished", "swept")
    /\ sentinel' = sentinel \ {run[r].job}
    /\ active' = active \ {run[r].job}
    /\ UNCHANGED <<rowVars, registry, asked, dlVars, quitVars>>

Sweeps(r) ==
    /\ To(r, "finished", "swept")
    /\ sentinel' = sentinel \ {run[r].job}
    /\ UNCHANGED <<rowVars, active, registry, asked, dlVars, quitVars>>

Records(r) ==
    /\ To(r, "swept", "recorded")
    /\ row' = [row EXCEPT ![run[r].job] = Recorded(@, run[r].code)]
    /\ UNCHANGED <<ui, regVars, asked, dlVars, quitVars>>

Deregisters(r) ==
    /\ To(r, "recorded", "deregistered")
    /\ active' = active \ {run[r].job}
    /\ UNCHANGED <<rowVars, registry, sentinel, asked, dlVars, quitVars>>

Emits(r) ==
    /\ Up /\ run[r].pc = "deregistered"
    /\ run' = [run EXCEPT ![r].pc = "done", ![r].code = "none"]
    /\ ui' = [ui EXCEPT ![run[r].job] =
                IF run[r].code = "match" THEN "success" ELSE "error"]
    /\ UNCHANGED <<row, regVars, asked, dlVars, quitVars>>

-----------------------------------------------------------------------------
(* Going down, and coming up again.                                         *)

GoDown(how) ==
    /\ exits < MaxExits
    /\ down' = how /\ exits' = exits + 1
    /\ quit' = "no" /\ snap' = {}
    /\ active' = {} /\ registry' = [j \in Jobs |-> None]
    /\ run' = [r \in Runs |-> IF run[r].pc \in Working
                              THEN [run[r] EXCEPT !.pc = "done", !.code = "none"] ELSE run[r]]
    /\ dl' = {}
    /\ UNCHANGED <<rowVars, sentinel, asked, warm>>

(* Bug: the guard looks at the flags that can be raised, not at ActiveBurns. *)
CloseByFlags ==
    /\ Command
    /\ IF \A j \in Jobs : registry[j] = None THEN GoDown("closed")
       ELSE quit' = "dialog" /\ UNCHANGED <<rowVars, regVars, run, asked, dlVars,
                                            snap, down, exits>>

CloseWindow ==
    /\ Command
    /\ IF active = {} THEN GoDown("closed")
       ELSE quit' = "dialog" /\ UNCHANGED <<rowVars, regVars, run, asked, dlVars,
                                            snap, down, exits>>

QuitTo(from, to) ==
    /\ Up /\ quit = from /\ quit' = to
    /\ UNCHANGED <<rowVars, active, registry, asked, dlVars, down, exits>>

KeepBurning == QuitTo("dialog", "no") /\ UNCHANGED <<sentinel, run, snap>>
AbortAndQuit == QuitTo("dialog", "abort") /\ UNCHANGED <<sentinel, run, snap>>

(* cancel_all_burns: a snapshot, then the flags, then the cancel files *)
TakeSnapshot ==
    /\ QuitTo("abort", "snapped")
    /\ snap' = active
    /\ UNCHANGED <<sentinel, run>>
RaiseFlags ==
    /\ QuitTo("snapped", "flagged")
    /\ run' = Flagged({registry[j] : j \in snap})
    /\ UNCHANGED <<sentinel, snap>>
WriteSentinels ==
    /\ QuitTo("flagged", "waiting")
    /\ sentinel' = sentinel \cup snap
    /\ UNCHANGED <<run, snap>>

(* wait_for_burns_to_clear returns, within 8 seconds or because of them *)
Cleared == active = {} /\ QuitTo("waiting", "cleared") /\ UNCHANGED <<sentinel, run, snap>>
GraceOver == active # {} /\ QuitTo("waiting", "gave up") /\ UNCHANGED <<sentinel, run, snap>>

Exit == Up /\ quit \in {"cleared", "gave up"} /\ GoDown(quit)

(* A crash, a kill, or Quit from the menu: no close request is made. *)
Killed == Up /\ GoDown("killed")

(* Bug: a row without a helper pid is left for later. *)
ReattachLeaves(s) == s

(* reattach_running_helpers for rows that never had a helper: EORPHAN *)
Reattach(s) == IF s = "running" THEN "error" ELSE s

Launch ==
    /\ ~Up
    /\ down' = "up"
    /\ row' = [j \in Jobs |-> Reattach(row[j])]
    /\ ui' = [j \in Jobs |-> IF row'[j] = "queued" THEN "idle"
                             ELSE IF row'[j] = "success" THEN "success" ELSE "error"]
    /\ UNCHANGED <<regVars, run, asked, dlVars, quit, snap, exits>>

-----------------------------------------------------------------------------
Window ==
    \/ \E j \in Jobs : StartLocal(j) \/ StartCloud(j) \/ Requeue(j) \/ Cancel(j)
    \/ CloseWindow \/ KeepBurning \/ AbortAndQuit
Download ==
    \E j \in Jobs : \/ DownloadCancelled(j) \/ DownloadFails(j)
                    \/ DownloadChecked(j) \/ DownloadDone(j)
Burn(r) ==
    \/ ThreadStarts(r) \/ Opens(r) \/ Progress(r) \/ Loops(r)
    \/ Sweeps(r) \/ Records(r) \/ Deregisters(r) \/ Emits(r)
Quit == TakeSnapshot \/ RaiseFlags \/ WriteSentinels \/ Cleared \/ GraceOver \/ Exit

Next == Window \/ Download \/ (\E r \in Runs : Burn(r)) \/ Quit \/ Killed \/ Launch

Spec == Init /\ [][Next]_vars

-----------------------------------------------------------------------------
(* Every variable keeps to the values the code can give it. *)
TypeOK ==
    /\ row \in [Jobs -> {"queued", "running"} \cup Settled]
    /\ ui \in [Jobs -> {"idle", "working", "success", "error"}]
    /\ active \subseteq Jobs /\ sentinel \subseteq Jobs
    /\ registry \in [Jobs -> Runs \cup {None}]
    /\ run \in [Runs -> [job : Jobs \cup {NoJob}, pc : Steps,
                         flag : BOOLEAN, code : Outcomes]]
    /\ asked \subseteq Runs
    /\ dl \subseteq CloudJobs /\ warm \subseteq CloudJobs
    /\ quit \in {"no", "dialog", "abort", "snapped", "flagged", "waiting",
                 "cleared", "gave up"}
    /\ snap \subseteq Jobs
    /\ down \in {"up", "closed", "cleared", "gave up", "killed"}
    /\ exits \in 0..MaxExits

(* A burn or a download that has not settled its row is in ActiveBurns, the *)
(* only thing the close guard and abort_and_quit look at (disks.rs 180-183). *)
InFlightIsTracked ==
    /\ \A r \in Runs : run[r].pc \in BeforeRecord => run[r].job \in active
    /\ dl \subseteq active

(* When the window closed without a dialog, or abort_and_quit reported that *)
(* the burns cleared, no job was left running in the database: the wait and *)
(* the close guard may only see an empty set after the verdict is written.  *)
QuietExit ==
    down \in {"closed", "cleared"} => \A j \in Jobs : row[j] # "running"

(* A click on Cancel while a burn thread of the job is at work raises the   *)
(* flag of that very thread, also for the second burn of a retried job      *)
(* whose registry entry is still there from the first.                      *)
CancelReachesBurn == \A r \in asked : run[r].flag

(* Somebody has the job: its download, or a burn that has not told its      *)
(* outcome.                                                                 *)
InHand(j) == j \in dl \/ \E r \in Runs : run[r].job = j /\ run[r].pc \in BeforeRecord

(* While the app runs, a row in state running has a thread that will settle *)
(* it: also after a death of the app in any step and a new launch.          *)
RunningIsAttended == Up => \A j \in Jobs : row[j] = "running" => InHand(j)

(* What the queue is promised of a job holds of each job that a thread of    *)
(* the app burns: its row goes from queued to running to settled and back by *)
(* a requeue only, a running row is in the hands of a download or of a burn  *)
(* that has not recorded its outcome, a success is that of a burn that       *)
(* reported a match, and a row that ran when the app went down, in    *)
(* whatever way, is settled by the next launch.                              *)
Matched(j) ==
    \E r \in Runs :
        /\ run[r].job = j /\ run[r].code = "match"
        /\ run[r].pc \in {"finished", "swept", "recorded", "deregistered"}

Job(j) == INSTANCE BurnJob
          WITH state <- row[j], up <- Up, hand <- InHand(j), earned <- Matched(j),
               late <- FALSE
KeepsJobs ==
    /\ \A j \in Jobs : Job(j)!Init
    /\ [][\A j \in Jobs : [Job(j)!Next]_(Job(j)!vars)]_vars
=============================================================================
