------------------------------- MODULE BurnJob -------------------------------
(***************************************************************************)
(* What a job of the queue is promised, whichever way it is burned: by a   *)
(* thread of the app or by a root helper behind osascript, its image local *)
(* or in the cloud.  No threads, files, registries or process ids: a row   *)
(* (burn_jobs of db/mod.rs), an app that may go down and come back, and    *)
(* whether somebody has the job in hand, who will settle its row.          *)
(***************************************************************************)
VARIABLES
    state,      \* the state of the row
    up,         \* the app runs
    hand,       \* a thread of the app has the job in hand
    earned,     \* a burn of the job reported a match
    late        \* a follower has given up on a burn that takes too long

vars == <<state, up, hand, earned, late>>

Open == {"queued", "running"}

Init == state = "queued" /\ up = TRUE /\ hand = FALSE /\ earned = FALSE /\ late = FALSE

(* start_write, a download that ends, a tail thread that starts: the job is *)
(* taken, or passed on.                                                     *)
Take ==
    /\ up /\ hand' = TRUE
    /\ UNCHANGED <<state, up, earned, late>>

(* record_burn_started: only a queued row starts to run, and not without    *)
(* somebody who will settle it.                                             *)
Start ==
    /\ up /\ state = "queued" /\ state' = "running" /\ hand' = TRUE
    /\ UNCHANGED <<up, earned, late>>

(* A burn ends with a match: its verify found the device equal to the image, *)
(* or verify.skip asked for none.  Also while the app is down.              *)
Match ==
    /\ ~earned /\ earned' = TRUE
    /\ UNCHANGED <<state, up, hand, late>>

(* record_burn_completed with a match: only a running row, and only what a  *)
(* burn has earned.                                                         *)
Succeed ==
    /\ up /\ state = "running" /\ earned /\ state' = "success"
    /\ hand' \in BOOLEAN
    /\ UNCHANGED <<up, earned, late>>

(* record_burn_failed, or a completion without a match: from any thread, on *)
(* a row that is not settled.                                               *)
Fail ==
    /\ up /\ state \in Open /\ state' \in {"error", "cancelled"}
    /\ hand' \in BOOLEAN
    /\ UNCHANGED <<up, earned, late>>

(* requeue_burn: never a success. *)
Retry ==
    /\ up /\ state \in {"error", "cancelled"} /\ state' = "queued"
    /\ UNCHANGED <<up, hand, earned, late>>

(* The job is let go, but not while its row runs, unless its follower gave  *)
(* up.                                                                      *)
LetGo ==
    /\ up /\ hand' = FALSE
    /\ state # "running" \/ late
    /\ UNCHANGED <<state, up, earned, late>>

(* tail_helper after an hour: nothing is recorded. *)
GiveUp ==
    /\ up /\ late' = TRUE
    /\ UNCHANGED <<state, up, hand, earned>>

(* What a burn reported is forgotten once it is told. *)
Forget ==
    /\ up /\ earned' = FALSE
    /\ UNCHANGED <<state, up, hand, late>>

(* The app goes down: the row stays, whoever had the job is gone. *)
Die ==
    /\ up /\ up' = FALSE /\ hand' = FALSE
    /\ earned' \in {earned, FALSE} /\ late' = FALSE
    /\ UNCHANGED state

(* reattach_running_helpers: a row that runs is taken up again or settled.  *)
Return ==
    /\ ~up /\ up' = TRUE
    /\ \/ state = "running" /\ hand' = TRUE /\ UNCHANGED state
       \/ hand' = FALSE /\ state' = IF state = "running" THEN "error" ELSE state
    /\ UNCHANGED <<earned, late>>

Next ==
    \/ Take \/ Start \/ Match \/ Succeed \/ Fail \/ Retry \/ LetGo \/ GiveUp
    \/ Forget \/ Die \/ Return

Spec == Init /\ [][Next]_vars
=============================================================================
