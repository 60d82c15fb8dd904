------------------------------ MODULE Capture ------------------------------
(***************************************************************************)
(* One capture of a device into an image file: start_capture of            *)
(* src-tauri/src/disks.rs, either on a thread of the app or, for a device  *)
(* node and an unprivileged app, in a helper that osascript starts as root *)
(* and that a tail thread follows; the copy loop of capture.rs is the same *)
(* in both.  Device and image are counted in chunks.                       *)
(***************************************************************************)
EXTENDS Naturals

CONSTANTS
    DevChunks,  \* chunks the device holds
    Totals      \* total_bytes the window may pass; 0: size unknown

CaptureAssumption == DevChunks \in Nat /\ Totals \subseteq Nat

Smaller(m, n) == IF m < n THEN m ELSE n

VARIABLES
    row,       \* the window's capture row
    shown,     \* the byte count it shows when it is a success
    path,      \* "app", "helper", or "none" before the start
    total,     \* total_bytes
    copy,      \* where the capture is, on its thread or in the helper
    result,    \* what it ended with
    done,      \* chunks read and hashed
    out,       \* chunks in the output file
    flag,      \* its AtomicBool `cancel`
    watching,  \* the watcher thread that turns the cancel file into the flag
    sentinel,  \* the cancel file exists
    asked,     \* history: Cancel was clicked
    flagAt,    \* history: `done` when the flag went up
    line,      \* the progress file: absent, empty, or its terminal line
    tail,      \* the thread that follows the helper
    skipped    \* that thread sought past the terminal line

copyVars == <<copy, result, done, out>>
cancelVars == <<flag, watching, sentinel, asked, flagAt>>
windowVars == <<row, shown>>
tailVars == <<line, tail, skipped>>
vars == <<windowVars, path, total, copyVars, cancelVars, tailVars>>

(* What a complete capture reads: never past the end of either. *)
Wanted == IF total = 0 THEN DevChunks ELSE Smaller(total, DevChunks)

Never == DevChunks + 1
Errors == {"ENEEDS_FDA", "ETARGET", "EIO", "ECANCELLED", "ETIMEOUT"}

Init ==
    /\ row = "configuring" /\ shown = 0
    /\ path = "none" /\ total \in Totals
    /\ copy = "none" /\ result = "none" /\ done = 0 /\ out = 0
    /\ flag = FALSE /\ watching = FALSE /\ sentinel = FALSE
    /\ asked = FALSE /\ flagAt = Never
    /\ line = "absent" /\ tail = "none" /\ skipped = FALSE

-----------------------------------------------------------------------------
(* The window: a row is started once; its id is new for every row.          *)

StartInApp ==
    /\ row = "configuring"
    /\ row' = "reading" /\ path' = "app" /\ copy' = "open" /\ watching' = TRUE
    /\ UNCHANGED <<shown, total, result, done, out, flag, sentinel, asked, flagAt, tailVars>>

(* fda_granted is asked first; osascript may fail to start. *)
StartRefused ==
    /\ row = "configuring"
    /\ row' \in {"ENEEDS_FDA", "EIO"} /\ path' = "helper"
    /\ UNCHANGED <<shown, total, copyVars, cancelVars, tailVars>>

StartHelper ==
    /\ row = "configuring"
    /\ row' = "reading" /\ path' = "helper" /\ copy' = "prompt" /\ tail' = "wait"
    /\ sentinel' = FALSE
    /\ UNCHANGED <<shown, total, result, done, out, flag, watching, asked, flagAt,
                   line, skipped>>

Cancel ==
    /\ row = "reading"
    /\ sentinel' = TRUE /\ asked' = TRUE
    /\ UNCHANGED <<windowVars, path, total, copyVars, flag, watching, flagAt, tailVars>>

-----------------------------------------------------------------------------
(* The capture itself.                                                      *)

Copying == UNCHANGED <<windowVars, path, total, tail, skipped>>

EndWith(r) == copy' = "ended" /\ result' = r

(* osascript: the password is refused, or the helper runs and opens its     *)
(* progress file.                                                           *)
Authenticate ==
    /\ copy = "prompt"
    /\ \/ copy' = "gone" /\ UNCHANGED line
       \/ copy' = "open" /\ line' = "empty"
    /\ Copying /\ UNCHANGED <<result, done, out, cancelVars>>

(* The disk claim and open_read, then File::create on the output, which     *)
(* truncates it.  The helper's watcher starts when the source is open.      *)
OpenSource ==
    /\ copy = "open"
    /\ \/ copy' = "poll" /\ out' = 0 /\ watching' = TRUE /\ UNCHANGED result
       \/ \E r \in {"ETARGET", "EIO"} \cup
                   (IF path = "helper" THEN {"ENEEDS_FDA"} ELSE {}) :
            EndWith(r) /\ UNCHANGED <<out, watching>>
    /\ Copying /\ UNCHANGED <<done, flag, sentinel, asked, flagAt, line>>

WatchSentinel ==
    /\ watching /\ sentinel /\ ~flag
    /\ flag' = TRUE /\ watching' = FALSE /\ flagAt' = done
    /\ Copying /\ UNCHANGED <<copyVars, sentinel, asked, line>>

(* Bug: the flag is asked for only before the first chunk. *)
PollOnce ==
    /\ copy = "poll"
    /\ IF flag /\ done = 0 THEN EndWith("ECANCELLED")
       ELSE copy' = (IF total # 0 /\ done = total THEN "flush" ELSE "read")
            /\ UNCHANGED result
    /\ Copying /\ UNCHANGED <<done, out, cancelVars, line>>

(* The top of the loop: the flag, then what is left of total_bytes. *)
Poll ==
    /\ copy = "poll"
    /\ IF flag THEN EndWith("ECANCELLED")
       ELSE copy' = (IF total # 0 /\ done = total THEN "flush" ELSE "read")
            /\ UNCHANGED result
    /\ Copying /\ UNCHANGED <<done, out, cancelVars, line>>

(* Bug: a read error is taken for the end of the device. *)
ReadOrStop ==
    /\ copy = "read"
    /\ \/ done < DevChunks /\ copy' = "poll" /\ done' = done + 1 /\ out' = out + 1
       \/ copy' = "flush" /\ UNCHANGED <<done, out>>
    /\ Copying /\ UNCHANGED <<result, cancelVars, line>>

(* read, write_all and the hash: the end of the device, a chunk, an error. *)
ReadChunk ==
    /\ copy = "read"
    /\ \/ done < DevChunks /\ copy' = "poll" /\ done' = done + 1 /\ out' = out + 1
          /\ UNCHANGED result
       \/ done = DevChunks /\ copy' = "flush" /\ UNCHANGED <<result, done, out>>
       \/ EndWith("EIO") /\ UNCHANGED <<done, out>>
    /\ Copying /\ UNCHANGED <<cancelVars, line>>

Flush ==
    /\ copy = "flush"
    /\ \E r \in {"ok", "EIO"} : EndWith(r)
    /\ Copying /\ UNCHANGED <<done, out, cancelVars, line>>

(* On the app's thread: done is stored, the cancel file removed, unless the *)
(* source did not open; then the window is told.                            *)
Shows(r) ==
    /\ row' = IF r = "ok" THEN "success" ELSE r
    /\ shown' = IF r = "ok" THEN done ELSE shown

SweepInApp ==
    /\ path = "app" /\ copy = "ended"
    /\ copy' = "swept" /\ watching' = FALSE
    /\ sentinel' = IF result = "ETARGET" THEN sentinel ELSE FALSE
    /\ UNCHANGED <<windowVars, path, total, result, done, out, flag, asked, flagAt, tailVars>>

ShowInApp ==
    /\ path = "app" /\ copy = "swept"
    /\ Shows(result)
    /\ copy' = "gone"
    /\ UNCHANGED <<path, total, result, done, out, cancelVars, tailVars>>

(* In the helper: one terminal line, then the exit, which ends the watcher. *)
Report ==
    /\ path = "helper" /\ copy = "ended"
    /\ copy' = "reported" /\ line' = result
    /\ Copying /\ UNCHANGED <<result, done, out, cancelVars>>

HelperExits ==
    /\ path = "helper" /\ copy = "reported"
    /\ copy' = "gone" /\ watching' = FALSE
    /\ Copying /\ UNCHANGED <<result, done, out, flag, sentinel, asked, flagAt, line>>

HelperDies ==
    /\ path = "helper" /\ copy \in {"open", "poll", "read", "flush", "ended"}
    /\ copy' = "gone" /\ watching' = FALSE
    /\ Copying /\ UNCHANGED <<result, done, out, flag, sentinel, asked, flagAt, line>>

-----------------------------------------------------------------------------
(* tail_capture_helper.                                                     *)

Following == UNCHANGED <<path, total, copyVars, flag, watching, asked, flagAt, line>>

(* 30 seconds without a progress file.  osascript goes on. *)
TailTimeout ==
    /\ tail = "wait" /\ line = "absent"
    /\ row' = "ETIMEOUT" /\ tail' = "over"
    /\ Following /\ UNCHANGED <<shown, sentinel, skipped>>

TailOpens ==
    /\ tail = "wait" /\ line # "absent"
    /\ tail' = "read" /\ skipped' = (line # "empty")
    /\ Following /\ UNCHANGED <<windowVars, sentinel>>

TailOpenFails ==
    /\ tail = "wait" /\ line # "absent"
    /\ row' = "EIO" /\ tail' = "over"
    /\ Following /\ UNCHANGED <<shown, sentinel, skipped>>

HasLine == line \notin {"absent", "empty"} /\ ~skipped

(* A terminal line: shown, and after child.wait the cancel file removed. *)
TailLine ==
    /\ tail = "read" /\ HasLine
    /\ Shows(line)
    /\ tail' = "wait exit"
    /\ Following /\ UNCHANGED <<sentinel, skipped>>

TailReaps ==
    /\ tail = "wait exit" /\ copy = "gone"
    /\ sentinel' = FALSE /\ tail' = "over"
    /\ Following /\ UNCHANGED <<windowVars, skipped>>

TailEof ==
    /\ tail = "read" /\ ~HasLine
    /\ tail' = "check"
    /\ Following /\ UNCHANGED <<windowVars, sentinel, skipped>>

TailSleeps ==
    /\ tail = "check" /\ copy # "gone"
    /\ tail' = "read"
    /\ Following /\ UNCHANGED <<windowVars, sentinel, skipped>>

(* Bug: the exit of osascript is not asked for. *)
TailForgetsExit ==
    /\ tail = "check" /\ copy = "gone"
    /\ tail' = "read"
    /\ Following /\ UNCHANGED <<windowVars, sentinel, skipped>>

(* "helper exited unexpectedly" *)
TailLost ==
    /\ tail = "check" /\ copy = "gone"
    /\ row' = "EIO" /\ sentinel' = FALSE /\ tail' = "over"
    /\ Following /\ UNCHANGED <<shown, skipped>>

(* A line that cannot be read ends the loop the same way, whatever the      *)
(* helper still does.                                                       *)
TailReadFails ==
    /\ tail = "read"
    /\ row' = "EIO" /\ sentinel' = FALSE /\ tail' = "over"
    /\ Following /\ UNCHANGED <<shown, skipped>>

-----------------------------------------------------------------------------
Window == StartInApp \/ StartRefused \/ StartHelper \/ Cancel
Thread ==
    \/ Authenticate \/ OpenSource \/ Poll \/ ReadChunk \/ Flush
    \/ SweepInApp \/ ShowInApp \/ Report \/ HelperExits
Tail ==
    \/ TailTimeout \/ TailOpens \/ TailOpenFails \/ TailLine \/ TailReaps
    \/ TailEof \/ TailSleeps \/ TailLost \/ TailReadFails

Next == Window \/ Thread \/ WatchSentinel \/ HelperDies \/ Tail

Spec == Init /\ [][Next]_vars

(* Threads and the helper are scheduled; the password prompt may stay open  *)
(* for ever, clicks and deaths are not owed.                                *)
FairSpec ==
    /\ Spec
    /\ WF_vars(Thread /\ copy # "prompt")
    /\ WF_vars(Tail)

-----------------------------------------------------------------------------
(* Every variable keeps to the values the code can give it. *)
TypeOK ==
    /\ row \in {"configuring", "reading", "success"} \cup Errors
    /\ shown \in 0..DevChunks /\ total \in Totals
    /\ path \in {"none", "app", "helper"}
    /\ copy \in {"none", "prompt", "open", "poll", "read", "flush", "ended",
                 "swept", "reported", "gone"}
    /\ result \in {"none", "ok"} \cup Errors
    /\ done \in 0..DevChunks /\ out \in 0..DevChunks
    /\ flag \in BOOLEAN /\ watching \in BOOLEAN /\ sentinel \in BOOLEAN
    /\ asked \in BOOLEAN /\ flagAt \in 0..Never
    /\ line \in {"absent", "empty", "ok"} \cup Errors
    /\ tail \in {"none", "wait", "read", "check", "wait exit", "over"}
    /\ skipped \in BOOLEAN

(* A capture shown as a success left the whole image behind: all the device *)
(* holds up to the size asked for, in the file and in the count shown.  A   *)
(* read error, a flush error, a cancel or a dead helper is never a success. *)
SuccessIsWhole ==
    row = "success" => done = Wanted /\ out = Wanted /\ shown = Wanted

(* A cancel whose flag is up before the last chunk was read stops the copy: *)
(* it cannot end as a success; and no capture ends as cancelled unasked.    *)
CancelIsHonoured ==
    /\ row = "success" => flagAt >= Wanted
    /\ row = "ECANCELLED" => asked

(* A capture that reads ends, on every path: a helper that never starts, or *)
(* dies without a line, or whose lines were skipped or cannot be read,      *)
(* included.                                                                *)
CaptureEnds == []<>(row # "reading")
=============================================================================
