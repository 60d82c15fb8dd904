--------------------------- MODULE BufferedWriter ---------------------------
(***************************************************************************)
(* The threaded device writers of src-tauri/src/writers: `pipelined` (one  *)
(* worker, the default) and `parallel` (N workers), driven by the burn     *)
(* loop of pipeline.rs.  A fixed pool of recyclable buffers goes round     *)
(*                                                                         *)
(*    free pool -> producer -> work channel -> worker -> free pool         *)
(*                                                                         *)
(* A worker whose pwrite fails records the error, leaves its loop and      *)
(* takes its buffer with it.  The unit of data is one chunk; chunk c is    *)
(* the c-th chunk_size block of the image and its offset on the device.    *)
(***************************************************************************)
EXTENDS Integers, Sequences, FiniteSets, SequencesExt

CONSTANTS
    Impl,           \* "pipelined" or "parallel": writer.impl
    WorkerThreads,  \* writer.worker_threads as configured, 0 included
    QueueDepth,     \* writer.queue_depth as configured, 0 included
    SourceChunks    \* chunks the image reader yields before end of file

ASSUME ConstantsAssumption ==
    /\ Impl \in {"pipelined", "parallel"}
    /\ WorkerThreads \in Nat
    /\ QueueDepth \in Nat
    /\ SourceChunks \in Nat

AtLeast(n, low) == IF n < low THEN low ELSE n        \* n.max(low)

(* pipelined ignores worker_threads; parallel clamps it to one or more. *)
ThreadCount == IF Impl = "pipelined" THEN 1 ELSE AtLeast(WorkerThreads, 1)
Workers == 1..ThreadCount

(* Bug: the buffers the workers hold are not counted as pool. *)
PoolWithoutHeld == AtLeast(QueueDepth - ThreadCount, 1)

ParallelPoolSize == AtLeast(AtLeast(QueueDepth, ThreadCount), 1)
PipelinedPoolSize == AtLeast(QueueDepth, 1)
PoolSize == IF Impl = "parallel" THEN ParallelPoolSize ELSE PipelinedPoolSize

(* Bug: the work channel has room for one job per worker. *)
CapacityOfThreads == ThreadCount

WorkCapacity ==
    IF Impl = "parallel" THEN PoolSize + ThreadCount ELSE PoolSize

Chunk == 1..SourceChunks

VARIABLES
    pc,        \* where the burn loop stands
    outcome,   \* what burn_with_hash returned
    cancel,    \* the AtomicBool polled at the top of the loop
    offset,    \* chunks handed to the work channel (self.offset)
    work,      \* the work channel, oldest job first
    txOpen,    \* work_tx is still held by the writer
    free,      \* empty buffers in the free pool
    freeOpen,  \* free_rx is still held by the writer
    wpc,       \* where each worker thread stands
    wjob,      \* the chunk of a worker's current (or last) job, 0 before one
    errors,    \* the shared Vec of pwrite errors, as the chunks that failed
    written    \* chunks whose write_all_at returned Ok

producerVars == <<pc, outcome, cancel, offset>>
channelVars  == <<work, txOpen, free, freeOpen>>
workerVars   == <<wpc, wjob, errors, written>>
vars == <<producerVars, channelVars, workerVars>>

-----------------------------------------------------------------------------
(* open_write: the channels are created, the free pool is filled, the      *)
(* workers are spawned; the burn loop has not run yet.                     *)
Init ==
    /\ pc = "loop" /\ outcome = "none" /\ cancel = FALSE /\ offset = 0
    /\ work = <<>> /\ txOpen = TRUE
    /\ free = PoolSize /\ freeOpen = TRUE
    /\ wpc = [w \in Workers |-> "recv"]
    /\ wjob = [w \in Workers |-> 0]
    /\ errors = <<>> /\ written = {}

Gone(w) == wpc[w] \in {"exited", "failed"}
AllGone == \A w \in Workers : Gone(w)

(* Every return of the burn: the writer is dropped (or consumed by finish),*)
(* which closes its ends of both channels and detaches the workers.        *)
Return(result) ==
    /\ pc' = "done"
    /\ outcome' = result
    /\ txOpen' = FALSE
    /\ freeOpen' = FALSE

-----------------------------------------------------------------------------
(* The burn loop. *)

SetCancel ==
    /\ pc # "done" /\ ~cancel
    /\ cancel' = TRUE
    /\ UNCHANGED <<pc, outcome, offset, channelVars, workerVars>>

LoopCancelled ==
    /\ pc = "loop" /\ cancel
    /\ Return("cancelled")
    /\ UNCHANGED <<cancel, offset, work, free, workerVars>>

(* Bug: end of file is noticed one read late. *)
ReadChunkPastEof ==
    /\ pc = "loop" /\ ~cancel
    /\ offset <= SourceChunks
    /\ pc' = "write"
    /\ UNCHANGED <<outcome, cancel, offset, channelVars, workerVars>>

ReadChunk ==
    /\ pc = "loop" /\ ~cancel
    /\ offset < SourceChunks
    /\ pc' = "write"
    /\ UNCHANGED <<outcome, cancel, offset, channelVars, workerVars>>

ReadEof ==
    /\ pc = "loop" /\ ~cancel
    /\ offset = SourceChunks
    /\ pc' = "finish"
    /\ UNCHANGED <<outcome, cancel, offset, channelVars, workerVars>>

ReadFails ==
    /\ pc = "loop" /\ ~cancel
    /\ Return("read")
    /\ UNCHANGED <<cancel, offset, work, free, workerVars>>

(* Write::write, first statement: an error recorded by a worker comes back *)
(* to the burn loop, which gives the writer up.                            *)
WriteSeesError ==
    /\ pc = "write" /\ errors # <<>>
    /\ errors' = Front(errors)
    /\ Return("io")
    /\ UNCHANGED <<cancel, offset, work, free, wpc, wjob, written>>

WriteSeesNoError ==
    /\ pc = "write" /\ errors = <<>>
    /\ pc' = "take"
    /\ UNCHANGED <<outcome, cancel, offset, channelVars, workerVars>>

(* free_rx.recv(): blocks while the pool is empty and some worker could    *)
(* still return a buffer; fails when the pool is empty and none can.       *)
TakeBuffer ==
    /\ pc = "take" /\ free > 0
    /\ free' = free - 1
    /\ pc' = "send"
    /\ UNCHANGED <<outcome, cancel, offset, work, txOpen, freeOpen, workerVars>>

TakeFails ==
    /\ pc = "take" /\ free = 0 /\ AllGone
    /\ Return("pipe")
    /\ UNCHANGED <<cancel, offset, work, free, workerVars>>

(* work_tx.send(job), then the offset moves on. *)
SendJob ==
    /\ pc = "send" /\ ~AllGone
    /\ Len(work) < WorkCapacity
    /\ work' = Append(work, offset + 1)
    /\ offset' = offset + 1
    /\ pc' = "loop"
    /\ UNCHANGED <<outcome, cancel, txOpen, free, freeOpen, workerVars>>

SendFails ==
    /\ pc = "send" /\ AllGone
    /\ Return("pipe")
    /\ UNCHANGED <<cancel, offset, work, free, workerVars>>

(* DeviceWriter::finish: close the work channel, join, look for an error,  *)
(* fsync.                                                                  *)
(* Bug: finish joins without having taken work_tx out of the writer. *)
JoinWithoutClose ==
    /\ pc = "finish"
    /\ pc' = "join"
    /\ UNCHANGED <<outcome, cancel, offset, channelVars, workerVars>>

CloseWork ==
    /\ pc = "finish"
    /\ txOpen' = FALSE
    /\ pc' = "join"
    /\ UNCHANGED <<outcome, cancel, offset, work, free, freeOpen, workerVars>>

JoinSeesError ==
    /\ pc = "join" /\ AllGone /\ errors # <<>>
    /\ errors' = Front(errors)
    /\ Return("io")
    /\ UNCHANGED <<cancel, offset, work, free, wpc, wjob, written>>

(* Bug: finish does not wait for the workers. *)
SkipJoin ==
    /\ pc = "join" /\ errors = <<>>
    /\ pc' = "fsync"
    /\ UNCHANGED <<outcome, cancel, offset, channelVars, workerVars>>

JoinClean ==
    /\ pc = "join" /\ AllGone /\ errors = <<>>
    /\ pc' = "fsync"
    /\ UNCHANGED <<outcome, cancel, offset, channelVars, workerVars>>

Fsync ==
    /\ pc = "fsync"
    /\ \E result \in {"ok", "fsync"} : Return(result)
    /\ UNCHANGED <<cancel, offset, work, free, workerVars>>

-----------------------------------------------------------------------------
(* A worker thread. *)

(* Bug: the buffer goes back to the pool when the job is taken. *)
RecvAndRecycle(w) ==
    /\ wpc[w] = "recv" /\ work # <<>>
    /\ wjob' = [wjob EXCEPT ![w] = Head(work)]
    /\ work' = Tail(work)
    /\ free' = free + 1
    /\ wpc' = [wpc EXCEPT ![w] = "pwrite"]
    /\ UNCHANGED <<producerVars, txOpen, freeOpen, errors, written>>

(* Bug: the job is copied out of the shared queue and stays in it. *)
RecvWithoutRemoving(w) ==
    /\ wpc[w] = "recv" /\ work # <<>>
    /\ wjob' = [wjob EXCEPT ![w] = Head(work)]
    /\ wpc' = [wpc EXCEPT ![w] = "pwrite"]
    /\ UNCHANGED <<producerVars, channelVars, errors, written>>

WorkerRecv(w) ==
    /\ wpc[w] = "recv" /\ work # <<>>
    /\ wjob' = [wjob EXCEPT ![w] = Head(work)]
    /\ work' = Tail(work)
    /\ wpc' = [wpc EXCEPT ![w] = "pwrite"]
    /\ UNCHANGED <<producerVars, txOpen, free, freeOpen, errors, written>>

(* recv() fails once the channel is closed and drained. *)
WorkerExit(w) ==
    /\ wpc[w] = "recv" /\ work = <<>> /\ ~txOpen
    /\ wpc' = [wpc EXCEPT ![w] = "exited"]
    /\ UNCHANGED <<producerVars, channelVars, wjob, errors, written>>

PwriteOk(w) ==
    /\ wpc[w] = "pwrite"
    /\ written' = written \cup {wjob[w]}
    /\ wpc' = [wpc EXCEPT ![w] = "recycle"]
    /\ UNCHANGED <<producerVars, channelVars, wjob, errors>>

(* Bug: the worker leaves its loop without recording the error. *)
FailSilently(w) ==
    /\ wpc[w] = "pwrite"
    /\ wpc' = [wpc EXCEPT ![w] = "failing"]
    /\ UNCHANGED <<producerVars, channelVars, wjob, errors, written>>

(* The error is pushed while the thread is alive; its channel ends close   *)
(* when the closure returns, a step later.  The buffer dies with it.       *)
PwriteFails(w) ==
    /\ wpc[w] = "pwrite"
    /\ errors' = Append(errors, wjob[w])
    /\ wpc' = [wpc EXCEPT ![w] = "failing"]
    /\ UNCHANGED <<producerVars, channelVars, wjob, written>>

WorkerDies(w) ==
    /\ wpc[w] = "failing"
    /\ wpc' = [wpc EXCEPT ![w] = "failed"]
    /\ UNCHANGED <<producerVars, channelVars, wjob, errors, written>>

(* free_tx.send(job.data): a bounded channel, whose error (the writer is   *)
(* gone) is ignored and drops the buffer.                                  *)
Recycle(w) ==
    /\ wpc[w] = "recycle"
    /\ IF freeOpen THEN /\ free < PoolSize
                        /\ free' = free + 1
                   ELSE UNCHANGED free
    /\ wpc' = [wpc EXCEPT ![w] = "recv"]
    /\ UNCHANGED <<producerVars, work, txOpen, freeOpen, wjob, errors, written>>

-----------------------------------------------------------------------------
Producer ==
    \/ LoopCancelled \/ ReadChunk \/ ReadEof \/ ReadFails
    \/ WriteSeesError \/ WriteSeesNoError
    \/ TakeBuffer \/ TakeFails \/ SendJob \/ SendFails
    \/ CloseWork \/ JoinSeesError \/ JoinClean \/ Fsync

Worker(w) ==
    \/ WorkerRecv(w) \/ WorkerExit(w) \/ PwriteOk(w) \/ PwriteFails(w)
    \/ WorkerDies(w) \/ Recycle(w)

Next == SetCancel \/ Producer \/ \E w \in Workers : Worker(w)

Spec == Init /\ [][Next]_vars

(* Every thread is scheduled and every read and pwrite returns; nothing    *)
(* makes the user cancel.                                                  *)
FairSpec == Spec /\ WF_vars(Producer) /\ \A w \in Workers : WF_vars(Worker(w))

-----------------------------------------------------------------------------
(* Properties. *)

PCs == {"loop", "write", "take", "send", "finish", "join", "fsync", "done"}
Outcomes == {"none", "ok", "cancelled", "read", "io", "pipe", "fsync"}
WorkerPCs == {"recv", "pwrite", "recycle", "failing", "failed", "exited"}

(* Every variable has the type its Rust counterpart gives it, and the      *)
(* burn loop accepts no chunk past end of file.                            *)
TypeOK ==
    /\ pc \in PCs /\ outcome \in Outcomes /\ cancel \in BOOLEAN
    /\ offset \in 0..SourceChunks
    /\ work \in Seq(Chunk) /\ txOpen \in BOOLEAN
    /\ free \in 0..PoolSize /\ freeOpen \in BOOLEAN
    /\ wpc \in [Workers -> WorkerPCs]
    /\ wjob \in [Workers -> 0..SourceChunks]
    /\ errors \in Seq(0..SourceChunks)
    /\ written \subseteq Chunk

(* The workers that hold a buffer, or lost one with a failed pwrite. *)
Holding == {w \in Workers : wpc[w] \in {"pwrite", "recycle", "failing", "failed"}}

(* No buffer is duplicated or leaked on any path of producer and workers   *)
(* except the one a failing worker takes with it: the pool never changes   *)
(* size while the writer is alive (the recycle loop of parallel.rs).       *)
BufferConservation ==
    freeOpen =>
        free + Len(work) + Cardinality(Holding)
             + (IF pc = "send" THEN 1 ELSE 0) = PoolSize

(* A producer waiting in free_rx.recv() is never waiting on nobody: a      *)
(* live worker has a buffer in hand or a queued job to take.  This is why  *)
(* the pool of the parallel writer is at least as large as its workers: a  *)
(* failed worker keeps a buffer for ever, and an idle one returns none.    *)
ProducerNotStarved ==
    (pc = "take" /\ free = 0 /\ ~AllGone) =>
        \E w \in Workers :
            \/ wpc[w] \in {"pwrite", "recycle", "failing"}
            \/ wpc[w] = "recv" /\ work # <<>>

(* Neither channel ever blocks a sender: the pool bounds what can be       *)
(* queued, so backpressure is felt only in free_rx.recv().                 *)
SendsNeverBlock ==
    /\ pc = "send" => Len(work) < WorkCapacity
    /\ \A w \in Workers : (wpc[w] = "recycle" /\ freeOpen) => free < PoolSize

(* A burn that returned Ok put every chunk of the image on the device:     *)
(* neither an error, nor a queued or unfinished write, is lost in finish.  *)
OkMeansAllWritten == outcome = "ok" => written = Chunk

Carries(w, c) == wjob[w] = c /\ wpc[w] \in {"pwrite", "failing", "failed"}

(* Every accepted chunk is queued, in a worker's hands (or lost with a     *)
(* recorded failure) or written, and a chunk about to be written is        *)
(* nowhere else: no chunk is dropped and none is written twice.            *)
ChunksHaveOneHome ==
    /\ \A c \in 1..offset :
          \/ c \in written
          \/ \E i \in 1..Len(work) : work[i] = c
          \/ \E w \in Workers : Carries(w, c)
    /\ \A w \in Workers : wpc[w] = "pwrite" =>
          /\ wjob[w] \notin written
          /\ \A i \in 1..Len(work) : work[i] # wjob[w]
          /\ \A v \in Workers \ {w} : ~Carries(v, wjob[w])

(* The burn returns and every worker thread ends, whichever writes fail    *)
(* and whenever the user cancels: finish never joins a stuck thread.       *)
BurnEnds == <>[](pc = "done" /\ AllGone)

-----------------------------------------------------------------------------
(* The strengthening that makes the properties above inductive. *)

Busy == {"pwrite", "recycle", "failing", "failed"}

(* How the producer's position fixes the ends of the channels it holds.    *)
ProducerInv ==
    /\ pc \in {"write", "take", "send"} => offset < SourceChunks
    /\ pc \in {"finish", "join", "fsync"} => offset = SourceChunks
    /\ outcome = "none" <=> pc # "done"
    /\ freeOpen <=> pc # "done"
    /\ txOpen <=> pc \notin {"join", "fsync", "done"}

TypeInv ==
    /\ TypeOK
    /\ ProducerInv
    /\ \A w \in Workers : wpc[w] \in Busy => wjob[w] \in Chunk

(* Chunks 1..Dispatched have left the queue. *)
Dispatched == offset - Len(work)

(* The queue holds the latest chunks in order; what left it is written or  *)
(* with exactly one worker.                                                *)
DispatchInv ==
    /\ Dispatched >= 0
    /\ \A i \in 1..Len(work) : work[i] = Dispatched + i
    /\ \A w \in Workers : wpc[w] \in Busy => wjob[w] <= Dispatched
    /\ \A c \in written : c <= Dispatched
    /\ \A c \in 1..Dispatched : c \in written \/ \E w \in Workers : Carries(w, c)
    /\ \A w \in Workers : wpc[w] = "pwrite" =>
          /\ wjob[w] \notin written
          /\ \A v \in Workers \ {w} : ~Carries(v, wjob[w])

(* A failure stays recorded until the producer has seen one; a worker that *)
(* left in peace left nothing queued.                                      *)
OutcomeInv ==
    /\ pc # "done" =>
          \A w \in Workers : wpc[w] \in {"failing", "failed"} => errors # <<>>
    /\ \A w \in Workers : wpc[w] = "exited" => work = <<>> /\ ~txOpen
    /\ pc = "fsync" => AllGone /\ errors = <<>>
    /\ outcome = "ok" => written = Chunk /\ AllGone

-----------------------------------------------------------------------------
(* The threaded writers keep the promise of trait DeviceWriter. *)
Promise == INSTANCE DeviceWriter WITH
    accepted <- offset,
    landed   <- written,
    verdict  <- IF outcome = "none" THEN "open"
                ELSE IF outcome = "ok" THEN "ok" ELSE "err"
KeepsPromise == Promise!Spec
=============================================================================
