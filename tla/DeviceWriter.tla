---------------------------- MODULE DeviceWriter ----------------------------
(***************************************************************************)
(* What `trait DeviceWriter` (writers/mod.rs) promises the burn loop, with *)
(* no threads, buffers or channels: chunks are accepted in order, each     *)
(* accepted chunk lands on the device at most once and in any order, and   *)
(* the only way to reach "ok" is a finish with every accepted chunk        *)
(* landed.  A writer that was given up (an error, a cancel) may still land *)
(* chunks it had accepted: its worker threads are detached, not stopped.   *)
(***************************************************************************)
EXTENDS Naturals

VARIABLES
    accepted,   \* chunks 1..accepted were taken by write()
    landed,     \* chunks whose pwrite returned Ok
    verdict     \* "open" until finish returns or the writer is dropped

vars == <<accepted, landed, verdict>>

Init ==
    /\ accepted = 0
    /\ landed = {}
    /\ verdict = "open"

(* Write::write of one chunk. *)
Accept ==
    /\ verdict = "open"
    /\ accepted' = accepted + 1
    /\ UNCHANGED <<landed, verdict>>

(* A chunk reaches the device; a writer that finished Ok writes no more. *)
Land ==
    /\ verdict # "ok"
    /\ \E c \in 1..accepted :
          /\ c \notin landed
          /\ landed' = landed \cup {c}
    /\ UNCHANGED <<accepted, verdict>>

(* DeviceWriter::finish returns Ok(()). *)
FinishOk ==
    /\ verdict = "open"
    /\ landed = 1..accepted
    /\ verdict' = "ok"
    /\ UNCHANGED <<accepted, landed>>

(* write or finish returned Err, or the caller dropped the writer. *)
GiveUp ==
    /\ verdict = "open"
    /\ verdict' = "err"
    /\ UNCHANGED <<accepted, landed>>

Next == Accept \/ Land \/ FinishOk \/ GiveUp

Spec == Init /\ [][Next]_vars
=============================================================================
