----------------------------- MODULE Materialize -----------------------------
(***************************************************************************)
(* materialize of src-tauri/src/cloud.rs: a dataless cloud file is read    *)
(* once, start to end, by a pool of workers that claim blocks off a shared *)
(* cursor, while the calling thread reports progress and watches for a     *)
(* cancel.  ElevatedBurn has its outcome as one step of its download       *)
(* thread.  A block is the unit of offsets and of progress.                *)
(***************************************************************************)
EXTENDS Integers, FiniteSets

CONSTANTS
    Configured,  \* what cloud.materialize_workers may say
    MaxWorkers,  \* the upper end of the clamp (64)
    MaxLength,   \* bound: length of the file in blocks
    Attempts     \* MATERIALIZE_BLOCK_ATTEMPTS

ASSUME MaterializeAssumption ==
    /\ Configured \subseteq Nat
    /\ MaxWorkers \in Nat \ {0} /\ MaxLength \in Nat /\ Attempts \in Nat \ {0}

VARIABLES
    workers,    \* size of the pool
    len,        \* length of the file
    cursor, done, stop, live, first_err,    \* MaterializeState
    pc,         \* the calling thread
    result,     \* what materialize returned
    seen,       \* the last value handed to on_progress
    wk,         \* the worker threads
    faulted,    \* blocks that are local now
    cancel      \* the sentinel: never written, there, or removed again

fileVars == <<workers, len, cancel>>
stateVars == <<cursor, done, stop, live, first_err>>
callerVars == <<pc, result, seen>>
vars == <<fileVars, stateVars, callerVars, wk, faulted>>

Pool == 1..MaxWorkers
Blocks == 0..len - 1
None == -1

(* Bug: the configured number is taken as it is. *)
Unclamped(n) == n
Clamp(n) == IF n < 1 THEN 1 ELSE IF n > MaxWorkers THEN MaxWorkers ELSE n

NoWorker == [pc |-> "unborn", off |-> None, attempt |-> 0, err |-> "none"]

Init ==
    /\ workers \in {Clamp(n) : n \in Configured}
    /\ len \in 0..MaxLength
    /\ cancel = "never"
    /\ cursor = 0 /\ done = 0 /\ stop = FALSE /\ live = workers /\ first_err = "none"
    /\ pc = "enter" /\ result = "none" /\ seen = 0
    /\ wk = [w \in Pool |-> NoWorker]
    /\ faulted = {}

-----------------------------------------------------------------------------
(* The sentinel belongs to the job: Cancel writes it, and the tail thread  *)
(* of an earlier run may still remove it (bound: once each).               *)
Raise ==
    /\ cancel = "never" /\ cancel' = "raised"
    /\ UNCHANGED <<workers, len, stateVars, callerVars, wk, faulted>>

Withdraw ==
    /\ cancel = "raised" /\ cancel' = "withdrawn"
    /\ UNCHANGED <<workers, len, stateVars, callerVars, wk, faulted>>

should_cancel == cancel = "raised"

-----------------------------------------------------------------------------
(* The calling thread. *)

Return(r) == pc' = "returned" /\ result' = r

EnterReturns ==
    /\ pc = "enter"
    /\ \/ len = 0 /\ Return("ok")
       \/ len # 0 /\ should_cancel /\ Return("cancelled")
       \/ Return("error")                       \* metadata(path)?
    /\ UNCHANGED <<fileVars, stateVars, seen, wk, faulted>>

SpawnWorkers ==
    /\ pc = "enter" /\ len # 0 /\ ~should_cancel
    /\ wk' = [w \in Pool |-> IF w <= workers THEN [NoWorker EXCEPT !.pc = "open"] ELSE NoWorker]
    /\ pc' = "poll"
    /\ UNCHANGED <<fileVars, stateVars, result, seen, faulted>>

PollCancel ==
    /\ pc = "poll"
    /\ IF should_cancel THEN stop' = TRUE /\ pc' = "join"
                        ELSE stop' = stop /\ pc' = "report"
    /\ UNCHANGED <<fileVars, cursor, done, live, first_err, result, seen, wk, faulted>>

ReportProgress ==
    /\ pc = "report"
    /\ seen' = done
    /\ pc' = "live"
    /\ UNCHANGED <<fileVars, stateVars, result, wk, faulted>>

PollLive ==
    /\ pc = "live"
    /\ pc' = IF live = 0 THEN "join" ELSE "poll"
    /\ UNCHANGED <<fileVars, stateVars, result, seen, wk, faulted>>

JoinWorkers ==
    /\ pc = "join"
    /\ \A w \in 1..workers : wk[w].pc = "gone"
    /\ pc' = "judge"
    /\ UNCHANGED <<fileVars, stateVars, result, seen, wk, faulted>>

Judge ==
    /\ pc = "judge"
    /\ \/ first_err # "none" /\ Return("error") /\ seen' = seen
       \/ first_err = "none" /\ should_cancel /\ Return("cancelled") /\ seen' = seen
       \/ first_err = "none" /\ ~should_cancel /\ Return("ok") /\ seen' = len
    /\ UNCHANGED <<fileVars, stateVars, wk, faulted>>

-----------------------------------------------------------------------------
(* A worker: fault_worker and fault_block, then the closure around them.   *)

At(w, p) == wk[w].pc = p
Go(w, p) == wk' = [wk EXCEPT ![w].pc = p]
Fail(w, e) == wk' = [wk EXCEPT ![w].pc = "fail", ![w].err = e]

Open(w) ==
    /\ At(w, "open")
    /\ Go(w, "top") \/ Fail(w, "open")
    /\ UNCHANGED <<fileVars, stateVars, callerVars, faulted>>

CheckStop(w) ==
    /\ At(w, "top")
    /\ Go(w, IF stop THEN "leave" ELSE "claim")
    /\ UNCHANGED <<fileVars, stateVars, callerVars, faulted>>

(* Bug: off = len is taken for a block. *)
ClaimPastEnd(w) ==
    /\ At(w, "claim")
    /\ cursor' = cursor + 1
    /\ IF cursor > len
       THEN Go(w, "leave")
       ELSE wk' = [wk EXCEPT ![w].pc = "read", ![w].off = cursor, ![w].attempt = 0]
    /\ UNCHANGED <<fileVars, done, stop, live, first_err, callerVars, faulted>>

(* Bug: the cursor is read without being advanced. *)
ClaimWithoutAdvance(w) ==
    /\ At(w, "claim")
    /\ \E c \in {cursor, cursor + 1} : cursor' = c
    /\ IF cursor >= len
       THEN Go(w, "leave")
       ELSE wk' = [wk EXCEPT ![w].pc = "read", ![w].off = cursor, ![w].attempt = 0]
    /\ UNCHANGED <<fileVars, done, stop, live, first_err, callerVars, faulted>>

(* Bug: progress is counted when the block is claimed. *)
ClaimAndCount(w) ==
    /\ At(w, "claim")
    /\ cursor' = cursor + 1
    /\ IF cursor >= len
       THEN Go(w, "leave") /\ done' = done
       ELSE /\ wk' = [wk EXCEPT ![w].pc = "read", ![w].off = cursor, ![w].attempt = 0]
            /\ done' = done + 1
    /\ UNCHANGED <<fileVars, stop, live, first_err, callerVars, faulted>>

Claim(w) ==
    /\ At(w, "claim")
    /\ cursor' = cursor + 1
    /\ IF cursor >= len
       THEN Go(w, "leave")
       ELSE wk' = [wk EXCEPT ![w].pc = "read", ![w].off = cursor, ![w].attempt = 0]
    /\ UNCHANGED <<fileVars, done, stop, live, first_err, callerVars, faulted>>

ReadBlock(w) ==
    /\ At(w, "read")
    /\ faulted' = faulted \cup {wk[w].off}
    /\ Go(w, "count")
    /\ UNCHANGED <<fileVars, stateVars, callerVars>>

(* Bug: a failed read is not tried again. *)
ReadFailsForGood(w) ==
    /\ At(w, "read")
    /\ Fail(w, IF wk[w].attempt + 1 >= Attempts THEN "spent" ELSE "stopped")
    /\ UNCHANGED <<fileVars, stateVars, callerVars, faulted>>

(* The error of the last attempt ("spent"), or one met while the pool winds *)
(* down ("stopped"), is returned; any other is tried again after a backoff.  *)
ReadFails(w) ==
    /\ At(w, "read")
    /\ \/ wk[w].attempt + 1 >= Attempts /\ Fail(w, "spent")
       \/ wk[w].attempt + 1 < Attempts /\ stop /\ Fail(w, "stopped")
       \/ /\ wk[w].attempt + 1 < Attempts /\ ~stop
          /\ wk' = [wk EXCEPT ![w].attempt = @ + 1]
    /\ UNCHANGED <<fileVars, stateVars, callerVars, faulted>>

Count(w) ==
    /\ At(w, "count")
    /\ done' = done + 1
    /\ wk' = [wk EXCEPT ![w].pc = "top", ![w].off = None]
    /\ UNCHANGED <<fileVars, cursor, stop, live, first_err, callerVars, faulted>>

SetStop(w) ==
    /\ At(w, "fail")
    /\ stop' = TRUE
    /\ Go(w, "record")
    /\ UNCHANGED <<fileVars, cursor, done, live, first_err, callerVars, faulted>>

(* Bug: the closure returns early on an error. *)
RecordAndReturn(w) ==
    /\ At(w, "record")
    /\ first_err' = IF first_err = "none" THEN wk[w].err ELSE first_err
    /\ Go(w, "gone")
    /\ UNCHANGED <<fileVars, cursor, done, stop, live, callerVars, faulted>>

RecordError(w) ==
    /\ At(w, "record")
    /\ first_err' = IF first_err = "none" THEN wk[w].err ELSE first_err
    /\ Go(w, "leave")
    /\ UNCHANGED <<fileVars, cursor, done, stop, live, callerVars, faulted>>

Leave(w) ==
    /\ At(w, "leave")
    /\ live' = live - 1
    /\ Go(w, "gone")
    /\ UNCHANGED <<fileVars, cursor, done, stop, first_err, callerVars, faulted>>

-----------------------------------------------------------------------------
Caller ==
    \/ EnterReturns \/ SpawnWorkers \/ PollCancel \/ ReportProgress
    \/ PollLive \/ JoinWorkers \/ Judge

Worker(w) ==
    \/ Open(w) \/ CheckStop(w) \/ Claim(w) \/ ReadBlock(w) \/ ReadFails(w)
    \/ Count(w) \/ SetStop(w) \/ RecordError(w) \/ Leave(w)

Next ==
    \/ Raise \/ Withdraw
    \/ Caller
    \/ \E w \in Pool : Worker(w)

Spec == Init /\ [][Next]_vars

(* Threads are scheduled and a read of the file provider returns. *)
FairSpec == Spec /\ WF_vars(Caller) /\ \A w \in Pool : WF_vars(Worker(w))

-----------------------------------------------------------------------------
Errors == {"none", "open", "spent", "stopped"}
WorkerPC == {"unborn", "open", "top", "claim", "read", "count", "fail", "record", "leave", "gone"}

(* Every variable has its type; only a worker with a block has an offset,   *)
(* or one that failed on it.                                                *)
TypeOK ==
    /\ workers \in Pool /\ len \in 0..MaxLength
    /\ cancel \in {"never", "raised", "withdrawn"}
    /\ cursor \in Nat /\ done \in Nat /\ stop \in BOOLEAN /\ live \in Int
    /\ first_err \in Errors
    /\ pc \in {"enter", "poll", "report", "live", "join", "judge", "returned"}
    /\ result \in {"none", "ok", "error", "cancelled"}
    /\ seen \in Nat
    /\ wk \in [Pool -> [pc : WorkerPC, off : Blocks \cup {None}, attempt : 0..Attempts, err : Errors]]
    /\ faulted \subseteq Blocks

(* Ok means that every block is local now, whatever number of workers was    *)
(* configured, unless somebody removed the cancel file of this download.     *)
OkMeansResident ==
    result = "ok" /\ cancel # "withdrawn" => faulted = Blocks

(* The cursor hands each block to one worker, and every block behind it is   *)
(* local, in a worker's hands, or the reason for an error.                   *)
BlocksAccounted ==
    /\ \A v, w \in Pool : At(v, "read") /\ At(w, "read") /\ v # w => wk[v].off # wk[w].off
    /\ \A w \in Pool : At(w, "read") => wk[w].off \notin faulted
    /\ \A b \in Blocks : b < cursor =>
          b \in faulted \/ \E w \in Pool : wk[w].off = b /\ (At(w, "read") \/ wk[w].err # "none")

(* Progress never runs ahead of what was read. *)
ProgressIsReal == result = "none" => seen <= Cardinality(faulted)

(* Unless the user cancelled, the download fails only for a block that       *)
(* failed every attempt or a file that could not be opened: errors met by    *)
(* the other workers while they wind down are never the only cause.          *)
ErrorIsEarned ==
    first_err # "none" /\ cancel = "never" => \E w \in Pool : wk[w].err \in {"open", "spent"}

(* However the workers end, the calling thread gets to know and returns. *)
Returns == <>(result # "none")

-----------------------------------------------------------------------------
(* Why OkMeansResident and ErrorIsEarned hold: what the pool knows at each  *)
(* point.  A worker leaves because the file is claimed to its end, because   *)
(* of stop, or with an error; stop has a cause, and an error is recorded.    *)

Over == {"unborn", "gone"}

PoolInv ==
    /\ \A w \in Pool : w > workers => wk[w] = NoWorker
    /\ \A w \in Pool : wk[w].err # "none" => wk[w].pc \in {"fail", "record", "leave", "gone"}
    /\ pc = "enter" => cursor = 0 /\ faulted = {} /\ ~stop /\ first_err = "none"
                       /\ \A w \in Pool : At(w, "unborn")
    /\ pc \in {"judge", "returned"} => \A w \in Pool : wk[w].pc \in Over
    /\ pc \notin {"enter", "returned"} => \A w \in 1..workers : ~At(w, "unborn")
    /\ pc # "returned" => result = "none"

CursorInv ==
    /\ \A w \in Pool : At(w, "read") => wk[w].off \in Blocks /\ wk[w].off < cursor
    /\ \A b \in faulted : b < cursor
    /\ BlocksAccounted

CauseInv ==
    /\ \A w \in Pool : At(w, "fail") \/ At(w, "record") => wk[w].err # "none"
    /\ \A w \in Pool : wk[w].err # "none" =>
          At(w, "fail") \/ At(w, "record") \/ first_err # "none"
    /\ \A w \in Pool : wk[w].err = "stopped" => stop
    /\ stop \/ first_err # "none" =>
          cancel # "never" \/ \E w \in Pool : wk[w].err \in {"open", "spent"}
    /\ \A w \in Pool : At(w, "leave") \/ At(w, "gone") =>
          stop \/ cursor >= len \/ wk[w].err # "none"

PoolOk == PoolInv /\ CursorInv /\ CauseInv /\ OkMeansResident
=============================================================================
