------------------------ MODULE BufferedWriterProofs ------------------------
(***************************************************************************)
(* Theorems of BufferedWriter, for every number of workers, queue depth    *)
(* and image length: type correctness, the conservation of buffers and     *)
(* what follows from it (nobody waits for ever in a channel), that Ok      *)
(* means written, and that the writers implement DeviceWriter.             *)
(***************************************************************************)
EXTENDS BufferedWriter, FiniteSetTheorems, SequenceTheorems, TLAPS

(* The clamps of the two constructors leave at least one thread, a pool no *)
(* smaller than the set of threads and a work channel no smaller than it.  *)
LEMMA Sizes ==
    /\ ThreadCount \in Nat \ {0}
    /\ PoolSize \in Nat \ {0}
    /\ WorkCapacity \in Nat
    /\ ThreadCount <= PoolSize
    /\ PoolSize <= WorkCapacity
BY ConstantsAssumption
   DEF ThreadCount, AtLeast, PoolSize, ParallelPoolSize, PipelinedPoolSize,
       WorkCapacity

(* new(): the workers are a finite set of the clamped size. *)
LEMMA WorkersFinite == IsFiniteSet(Workers) /\ Cardinality(Workers) = ThreadCount
BY Sizes, FS_Interval DEF Workers

(* Dropping the last error leaves a sequence of chunks. *)
LEMMA FrontType ==
    ASSUME NEW S, NEW s \in Seq(S), s # <<>>
    PROVE  Front(s) \in Seq(S)
<1>1. Len(s) \in Nat /\ Len(s) >= 1
  BY EmptySeq, LenProperties
<1>2. \A i \in 1..(Len(s) - 1) : s[i] \in S
  BY <1>1, ElementOfSeq
<1>. QED
  BY <1>1, <1>2, SubSeqProperties DEF Front

-----------------------------------------------------------------------------
(* TypeInv is inductive: the queue holds chunks, the producer never accepts *)
(* one past end of file, and its position says which channel ends it holds. *)
THEOREM TypeInvariant == Spec => []TypeInv
<1> USE DEF TypeInv, TypeOK, ProducerInv, Busy, PCs, Outcomes, WorkerPCs, Chunk
<1>1. Init => TypeInv
  <2> SUFFICES ASSUME Init PROVE TypeInv
    OBVIOUS
  <2>1. work \in Seq(Chunk) /\ errors \in Seq(0..SourceChunks)
    BY DEF Init
  <2>2. wpc \in [Workers -> WorkerPCs] /\ wjob \in [Workers -> 0..SourceChunks]
    BY ConstantsAssumption DEF Init
  <2>3. \A w \in Workers : wpc[w] = "recv"
    BY DEF Init
  <2>4. TypeOK
    <3>1. free \in 0..PoolSize /\ offset \in 0..SourceChunks
      BY Sizes, ConstantsAssumption DEF Init
    <3>2. cancel \in BOOLEAN /\ txOpen \in BOOLEAN /\ freeOpen \in BOOLEAN
      BY DEF Init
    <3>3. pc \in PCs /\ outcome \in Outcomes /\ written \subseteq Chunk
      BY DEF Init
    <3> QED BY <2>1, <2>2, <3>1, <3>2, <3>3
  <2>5. ProducerInv
    BY DEF Init
  <2> QED BY <2>3, <2>4, <2>5
<1>2. TypeInv /\ [Next]_vars => TypeInv'
  <2> SUFFICES ASSUME TypeInv, [Next]_vars PROVE TypeInv'
    OBVIOUS
  <2> USE Sizes, ConstantsAssumption DEF producerVars, channelVars, workerVars
  <2>1. CASE SetCancel BY <2>1 DEF SetCancel
  <2>2. CASE LoopCancelled BY <2>2 DEF LoopCancelled, Return
  <2>3. CASE ReadChunk BY <2>3 DEF ReadChunk
  <2>4. CASE ReadEof BY <2>4 DEF ReadEof
  <2>5. CASE ReadFails BY <2>5 DEF ReadFails, Return
  <2>6. CASE WriteSeesError
    BY <2>6, FrontType DEF WriteSeesError, Return
  <2>7. CASE WriteSeesNoError BY <2>7 DEF WriteSeesNoError
  <2>8. CASE TakeBuffer BY <2>8 DEF TakeBuffer
  <2>9. CASE TakeFails BY <2>9 DEF TakeFails, Return
  <2>10. CASE SendJob BY <2>10 DEF SendJob
  <2>11. CASE SendFails BY <2>11 DEF SendFails, Return
  <2>12. CASE CloseWork BY <2>12 DEF CloseWork
  <2>13. CASE JoinSeesError
    BY <2>13, FrontType DEF JoinSeesError, Return
  <2>14. CASE JoinClean BY <2>14 DEF JoinClean
  <2>15. CASE Fsync BY <2>15 DEF Fsync, Return
  <2>16. ASSUME NEW w \in Workers, Worker(w) PROVE TypeInv'
    <3>1. CASE WorkerRecv(w) BY <3>1 DEF WorkerRecv
    <3>2. CASE WorkerExit(w) BY <3>2 DEF WorkerExit
    <3>3. CASE PwriteOk(w) BY <3>3 DEF PwriteOk
    <3>4. CASE PwriteFails(w) BY <3>4 DEF PwriteFails
    <3>5. CASE WorkerDies(w) BY <3>5 DEF WorkerDies
    <3>6. CASE Recycle(w) BY <3>6 DEF Recycle
    <3> QED BY <2>16, <3>1, <3>2, <3>3, <3>4, <3>5, <3>6 DEF Worker
  <2>17. CASE UNCHANGED vars BY <2>17 DEF vars
  <2> QED
    BY <2>1, <2>2, <2>3, <2>4, <2>5, <2>6, <2>7, <2>8, <2>9, <2>10, <2>11,
       <2>12, <2>13, <2>14, <2>15, <2>16, <2>17 DEF Next, Producer
<1> QED BY <1>1, <1>2, PTL DEF Spec

(* Every variable keeps its type on every run (BufferedWriter!TypeOK).     *)
THEOREM TypeCorrect == Spec => []TypeOK
<1>1. TypeInv => TypeOK
  BY DEF TypeInv
<1> QED BY <1>1, TypeInvariant, PTL

-----------------------------------------------------------------------------
(* Those who hold a buffer are among the workers, so they can be counted. *)
LEMMA HoldingFinite ==
    /\ IsFiniteSet(Holding)
    /\ Cardinality(Holding) \in Nat
    /\ Cardinality(Holding) <= ThreadCount
<1>1. Holding \in SUBSET Workers
  BY DEF Holding
<1> QED BY <1>1, WorkersFinite, FS_Subset, FS_CardinalityType

(* The pool never changes size while the writer lives                      *)
(* (BufferedWriter!BufferConservation): each step moves one buffer.        *)
THEOREM Conservation == Spec => []BufferConservation
<1> DEFINE HeldByProducer == IF pc = "send" THEN 1 ELSE 0
<1>1. Init => BufferConservation
  <2> SUFFICES ASSUME Init PROVE BufferConservation
    OBVIOUS
  <2>1. Holding = {}
    BY DEF Init, Holding
  <2> QED BY <2>1, FS_EmptySet, Sizes DEF Init, BufferConservation
<1>2. TypeInv /\ BufferConservation /\ [Next]_vars => BufferConservation'
  <2> SUFFICES ASSUME TypeInv, BufferConservation, [Next]_vars, freeOpen'
               PROVE  (free + Len(work) + Cardinality(Holding) + HeldByProducer)'
                        = PoolSize
    BY DEF BufferConservation
  <2> USE DEF producerVars, channelVars, workerVars
  <2>1. free \in Nat /\ Len(work) \in Nat /\ Cardinality(Holding) \in Nat
    BY HoldingFinite, Sizes, LenProperties DEF TypeInv, TypeOK
  <2>2. freeOpen => free + Len(work) + Cardinality(Holding) + HeldByProducer
                       = PoolSize
    BY DEF BufferConservation
  <2>3. (UNCHANGED wpc) => Holding' = Holding
    BY DEF Holding
  <2>4. CASE SetCancel BY <2>2, <2>3, <2>4 DEF SetCancel
  <2>5. CASE ReadChunk BY <2>2, <2>3, <2>5 DEF ReadChunk
  <2>6. CASE ReadEof BY <2>2, <2>3, <2>6 DEF ReadEof
  <2>7. CASE WriteSeesNoError BY <2>2, <2>3, <2>7 DEF WriteSeesNoError
  <2>8. CASE CloseWork BY <2>2, <2>3, <2>8 DEF CloseWork
  <2>9. CASE JoinClean BY <2>2, <2>3, <2>9 DEF JoinClean
  <2>10. CASE TakeBuffer BY <2>1, <2>2, <2>3, <2>10 DEF TakeBuffer
  <2>11. CASE SendJob
    <3>1. Len(work') = Len(work) + 1
      BY <2>11, AppendProperties DEF SendJob, TypeInv, TypeOK
    <3>2. HeldByProducer = 1 /\ HeldByProducer' = 0
      BY <2>11 DEF SendJob
    <3>3. free' = free /\ Cardinality(Holding)' = Cardinality(Holding) /\ freeOpen
      BY <2>3, <2>11 DEF SendJob
    <3> HIDE DEF HeldByProducer
    <3> QED BY <2>1, <2>2, <3>1, <3>2, <3>3
  <2>12. CASE LoopCancelled \/ ReadFails \/ WriteSeesError \/ TakeFails
                \/ SendFails \/ JoinSeesError \/ Fsync
    BY <2>12 DEF LoopCancelled, ReadFails, WriteSeesError, TakeFails,
                 SendFails, JoinSeesError, Fsync, Return
  <2>13. ASSUME NEW w \in Workers, Worker(w)
         PROVE  (free + Len(work) + Cardinality(Holding) + HeldByProducer)'
                   = PoolSize
    <3>1. wpc \in [Workers -> WorkerPCs]
      BY DEF TypeInv, TypeOK
    <3>2. CASE WorkerRecv(w)
      <4>1. Holding' = Holding \cup {w} /\ w \notin Holding
        BY <3>1, <3>2 DEF WorkerRecv, Holding
      <4>2. Cardinality(Holding') = Cardinality(Holding) + 1
        BY <4>1, HoldingFinite, FS_AddElement
      <4>3. Len(work') = Len(work) - 1
        BY <3>2, HeadTailProperties DEF WorkerRecv, TypeInv, TypeOK
      <4> QED BY <2>1, <2>2, <3>2, <4>2, <4>3 DEF WorkerRecv
    <3>3. CASE Recycle(w)
      <4>1. Holding' = Holding \ {w} /\ w \in Holding
        BY <3>1, <3>3 DEF Recycle, Holding
      <4>2. Cardinality(Holding') = Cardinality(Holding) - 1
        BY <4>1, HoldingFinite, FS_RemoveElement
      <4> QED BY <2>1, <2>2, <3>3, <4>2 DEF Recycle
    <3>4. CASE WorkerExit(w) \/ PwriteOk(w) \/ PwriteFails(w) \/ WorkerDies(w)
      <4>1. Holding' = Holding
        BY <3>1, <3>4
           DEF Holding, WorkerExit, PwriteOk, PwriteFails, WorkerDies
      <4> QED
        BY <2>2, <3>4, <4>1
           DEF WorkerExit, PwriteOk, PwriteFails, WorkerDies
    <3> QED BY <2>13, <3>2, <3>3, <3>4 DEF Worker
  <2>14. CASE UNCHANGED vars BY <2>2, <2>3, <2>14 DEF vars
  <2> QED
    BY <2>4, <2>5, <2>6, <2>7, <2>8, <2>9, <2>10, <2>11, <2>12, <2>13, <2>14
       DEF Next, Producer
<1> QED BY <1>1, <1>2, TypeInvariant, PTL DEF Spec

(* A waiting producer always waits on someone                              *)
(* (BufferedWriter!ProducerNotStarved).  With the pool empty and the       *)
(* producer holding nothing, queue and workers hold all PoolSize buffers;  *)
(* an idle worker holds none, so if no live worker is busy the fewer than  *)
(* ThreadCount holders leave at least one buffer in the queue.             *)
THEOREM NotStarved == Spec => []ProducerNotStarved
<1>1. TypeInv /\ BufferConservation => ProducerNotStarved
  <2> SUFFICES ASSUME TypeInv, BufferConservation,
                      pc = "take", free = 0, ~AllGone,
                      \A w \in Workers : wpc[w] \notin {"pwrite", "recycle", "failing"}
               PROVE  \E w \in Workers : wpc[w] = "recv" /\ work # <<>>
    BY DEF ProducerNotStarved
  <2>1. PICK w \in Workers : wpc[w] = "recv"
    BY DEF AllGone, Gone, TypeInv, TypeOK, WorkerPCs
  <2>2. Holding \in SUBSET (Workers \ {w})
    BY <2>1 DEF Holding
  <2>3. Cardinality(Workers \ {w}) = ThreadCount - 1 /\ IsFiniteSet(Workers \ {w})
    BY <2>1, WorkersFinite, FS_RemoveElement
  <2>4. Cardinality(Holding) <= ThreadCount - 1
    BY <2>2, <2>3, FS_Subset
  <2>5. Len(work) + Cardinality(Holding) = PoolSize /\ Len(work) \in Nat
    BY HoldingFinite, LenProperties
       DEF BufferConservation, TypeInv, TypeOK, ProducerInv
  <2>6. Len(work) # 0
    BY <2>4, <2>5, Sizes, HoldingFinite
  <2> QED BY <2>1, <2>6, EmptySeq
<1> QED BY <1>1, TypeInvariant, Conservation, PTL

(* A bounded channel never blocks its sender                               *)
(* (BufferedWriter!SendsNeverBlock): a sender holds a buffer, so at most   *)
(* PoolSize - 1 are in the channel it sends to.                            *)
THEOREM SendsDoNotBlock == Spec => []SendsNeverBlock
<1>1. TypeInv /\ BufferConservation => SendsNeverBlock
  <2> SUFFICES ASSUME TypeInv, BufferConservation PROVE SendsNeverBlock
    OBVIOUS
  <2>1. free \in Nat /\ Len(work) \in Nat
    BY Sizes, LenProperties DEF TypeInv, TypeOK
  <2>2. pc = "send" => Len(work) < WorkCapacity
    BY <2>1, Sizes, HoldingFinite DEF BufferConservation, TypeInv, ProducerInv
  <2>3. ASSUME NEW w \in Workers, wpc[w] = "recycle", freeOpen
        PROVE  free < PoolSize
    <3>1. w \in Holding
      BY <2>3 DEF Holding
    <3>2. Cardinality(Holding) >= 1
      BY <3>1, HoldingFinite, FS_EmptySet
    <3> QED BY <2>1, <2>3, <3>2, HoldingFinite, Sizes DEF BufferConservation
  <2> QED BY <2>2, <2>3 DEF SendsNeverBlock
<1> QED BY <1>1, TypeInvariant, Conservation, PTL

-----------------------------------------------------------------------------
(* Where the chunks are.  Only four steps matter: SendJob appends chunk    *)
(* offset + 1, WorkerRecv hands chunk Dispatched + 1 to one worker,        *)
(* PwriteOk moves a worker's chunk to the device, PwriteFails keeps it.    *)
THEOREM DispatchInvariant == Spec => []DispatchInv
<1>1. Init => DispatchInv
  BY DEF Init, DispatchInv, Dispatched, Busy
<1>2. TypeInv /\ DispatchInv /\ [Next]_vars => DispatchInv'
  <2> SUFFICES ASSUME TypeInv, DispatchInv, [Next]_vars PROVE DispatchInv'
    OBVIOUS
  <2> USE DEF producerVars, channelVars, workerVars
  <2>1. /\ work \in Seq(Chunk) /\ Len(work) \in Nat
        /\ offset \in 0..SourceChunks
        /\ wpc \in [Workers -> WorkerPCs]
        /\ wjob \in [Workers -> 0..SourceChunks]
        /\ written \subseteq Chunk
        /\ SourceChunks \in Nat
    BY ConstantsAssumption, LenProperties DEF TypeInv, TypeOK
  <2>2. ASSUME UNCHANGED <<offset, work, wpc, wjob, written>>
        PROVE  DispatchInv'
    BY <2>2 DEF DispatchInv, Dispatched, Carries
  <2>3. CASE SetCancel \/ LoopCancelled \/ ReadChunk \/ ReadEof \/ ReadFails
               \/ WriteSeesError \/ WriteSeesNoError \/ TakeBuffer \/ TakeFails
               \/ SendFails \/ CloseWork \/ JoinSeesError \/ JoinClean \/ Fsync
    BY <2>2, <2>3
       DEF SetCancel, LoopCancelled, ReadChunk, ReadEof, ReadFails,
           WriteSeesError, WriteSeesNoError, TakeBuffer, TakeFails, SendFails,
           CloseWork, JoinSeesError, JoinClean, Fsync
  <2>4. CASE SendJob
    <3>1. /\ Len(work') = Len(work) + 1
          /\ \A i \in 1..Len(work) : work'[i] = work[i]
          /\ work'[Len(work) + 1] = offset + 1
      BY <2>1, <2>4, AppendProperties DEF SendJob, Chunk, TypeInv, ProducerInv
    <3>2. Dispatched' = Dispatched
      BY <2>1, <2>4, <3>1 DEF SendJob, Dispatched
    <3>3. ASSUME NEW j \in 1..Len(work') PROVE work'[j] = Dispatched' + j
      <4>1. CASE j \in 1..Len(work)
        BY <3>1, <3>2, <4>1 DEF DispatchInv
      <4>2. CASE j = Len(work) + 1
        BY <2>1, <3>1, <3>2, <4>2 DEF Dispatched
      <4> QED BY <2>1, <3>1, <4>1, <4>2
    <3> QED
      BY <2>4, <3>2, <3>3 DEF SendJob, DispatchInv, Carries
  <2>5. ASSUME NEW w \in Workers, Worker(w) PROVE DispatchInv'
    <3>1. CASE WorkerRecv(w)
      <4>1. /\ Len(work) >= 1
            /\ Len(work') = Len(work) - 1
            /\ \A i \in 1..Len(work') : work'[i] = work[i + 1]
            /\ wjob'[w] = work[1]
        BY <2>1, <3>1, EmptySeq, HeadTailProperties DEF WorkerRecv
      <4>2. Dispatched \in Int /\ Dispatched' = Dispatched + 1
        BY <2>1, <3>1, <4>1 DEF WorkerRecv, Dispatched
      <4>3. wjob'[w] = Dispatched + 1 /\ wpc'[w] = "pwrite"
        BY <2>1, <3>1, <4>1 DEF WorkerRecv, DispatchInv
      <4>4. \A v \in Workers \ {w} : wjob'[v] = wjob[v] /\ wpc'[v] = wpc[v]
        BY <2>1, <3>1 DEF WorkerRecv
      <4>5. written' = written /\ wpc[w] = "recv"
        BY <3>1 DEF WorkerRecv
      <4>6. /\ Dispatched' >= 0
            /\ \A i \in 1..Len(work') : work'[i] = Dispatched' + i
        BY <2>1, <4>1, <4>2 DEF DispatchInv
      <4>7. \A v \in Workers : wpc'[v] \in Busy => wjob'[v] <= Dispatched'
        BY <2>1, <4>2, <4>3, <4>4 DEF DispatchInv
      <4>8. \A c \in written' : c <= Dispatched'
        BY <2>1, <4>2, <4>5 DEF DispatchInv, Chunk
      <4>9. \A c \in 1..Dispatched' :
               c \in written' \/ \E v \in Workers : Carries(v, c)'
        <5> SUFFICES ASSUME NEW c \in 1..Dispatched', c \notin written'
                     PROVE  \E v \in Workers : Carries(v, c)'
          OBVIOUS
        <5>1. CASE c = Dispatched + 1
          BY <4>3, <5>1 DEF Carries
        <5>2. CASE c # Dispatched + 1
          <6>1. PICK v \in Workers : Carries(v, c)
            BY <4>2, <4>5, <5>2 DEF DispatchInv
          <6> QED BY <4>4, <4>5, <6>1 DEF Carries
        <5> QED BY <5>1, <5>2
      <4>10. ASSUME NEW v \in Workers, wpc'[v] = "pwrite"
             PROVE  /\ wjob'[v] \notin written'
                    /\ \A u \in Workers \ {v} : ~Carries(u, wjob[v])'
        <5>1. CASE v = w
          BY <2>1, <4>2, <4>3, <4>4, <4>5, <5>1
             DEF DispatchInv, Carries, Busy, Chunk
        <5>2. CASE v # w
          BY <2>1, <4>2, <4>3, <4>4, <4>5, <4>10, <5>2
             DEF DispatchInv, Carries, Busy
        <5> QED BY <5>1, <5>2
      <4> QED BY <4>6, <4>7, <4>8, <4>9, <4>10 DEF DispatchInv
    <3>2. CASE PwriteOk(w)
      <4>1. /\ Dispatched' = Dispatched /\ work' = work /\ wjob' = wjob
            /\ written' = written \cup {wjob[w]}
            /\ wpc[w] = "pwrite" /\ wpc'[w] = "recycle"
            /\ \A v \in Workers \ {w} : wpc'[v] = wpc[v]
        BY <2>1, <3>2 DEF PwriteOk, Dispatched
      <4>2. /\ Dispatched' >= 0
            /\ \A i \in 1..Len(work') : work'[i] = Dispatched' + i
            /\ \A v \in Workers : wpc'[v] \in Busy => wjob'[v] <= Dispatched'
            /\ \A c \in written' : c <= Dispatched'
        BY <4>1 DEF DispatchInv, Busy
      <4>3. \A c \in 1..Dispatched' :
               c \in written' \/ \E v \in Workers : Carries(v, c)'
        BY <4>1 DEF DispatchInv, Carries
      <4>4. \A v \in Workers : wpc'[v] = "pwrite" =>
               /\ wjob'[v] \notin written'
               /\ \A u \in Workers \ {v} : ~Carries(u, wjob[v])'
        BY <4>1 DEF DispatchInv, Carries
      <4> QED BY <4>2, <4>3, <4>4 DEF DispatchInv
    <3>3. CASE WorkerExit(w) \/ PwriteFails(w) \/ WorkerDies(w) \/ Recycle(w)
      <4>1. /\ UNCHANGED <<offset, work, wjob, written>>
            /\ \A v \in Workers \ {w} : wpc'[v] = wpc[v]
            /\ \/ wpc[w] = "recv" /\ wpc'[w] = "exited"
               \/ wpc[w] = "pwrite" /\ wpc'[w] = "failing"
               \/ wpc[w] = "failing" /\ wpc'[w] = "failed"
               \/ wpc[w] = "recycle" /\ wpc'[w] = "recv"
        BY <2>1, <3>3 DEF WorkerExit, PwriteFails, WorkerDies, Recycle
      <4>2. \A v \in Workers, c \in Chunk : Carries(v, c)' <=> Carries(v, c)
        BY <4>1 DEF Carries
      <4>3. \A v \in Workers : wpc'[v] \in Busy => wpc[v] \in Busy
        BY <4>1 DEF Busy
      <4>4. \A v \in Workers : wpc'[v] = "pwrite" => wpc[v] = "pwrite"
        BY <4>1
      <4>5. Dispatched' = Dispatched /\ 1..Dispatched \subseteq Chunk
        BY <2>1, <4>1 DEF Dispatched, Chunk
      <4>6. \A v \in Workers : wpc[v] = "pwrite" => wjob[v] \in Chunk
        BY DEF TypeInv, Busy
      <4>7. /\ Dispatched' >= 0
            /\ \A i \in 1..Len(work') : work'[i] = Dispatched' + i
            /\ \A v \in Workers : wpc'[v] \in Busy => wjob'[v] <= Dispatched'
            /\ \A c \in written' : c <= Dispatched'
        BY <4>1, <4>3, <4>5 DEF DispatchInv
      <4>8. \A c \in 1..Dispatched' :
               c \in written' \/ \E v \in Workers : Carries(v, c)'
        BY <4>1, <4>2, <4>5 DEF DispatchInv
      <4>9. \A v \in Workers : wpc'[v] = "pwrite" =>
               /\ wjob'[v] \notin written'
               /\ \A u \in Workers \ {v} : ~Carries(u, wjob[v])'
        BY <4>1, <4>4, <4>6 DEF DispatchInv, Carries
      <4> QED BY <4>7, <4>8, <4>9 DEF DispatchInv
    <3> QED BY <2>5, <3>1, <3>2, <3>3 DEF Worker
  <2>6. CASE UNCHANGED vars BY <2>2, <2>6 DEF vars
  <2> QED BY <2>3, <2>4, <2>5, <2>6 DEF Next, Producer
<1> QED BY <1>1, <1>2, TypeInvariant, PTL DEF Spec

(* No chunk is dropped and none is written twice                           *)
(* (BufferedWriter!ChunksHaveOneHome).                                     *)
THEOREM OneHome == Spec => []ChunksHaveOneHome
<1>1. TypeInv /\ DispatchInv => ChunksHaveOneHome
  <2> SUFFICES ASSUME TypeInv, DispatchInv PROVE ChunksHaveOneHome
    OBVIOUS
  <2>1. /\ Len(work) \in Nat /\ offset \in Nat /\ Dispatched \in Nat
        /\ offset = Dispatched + Len(work)
    BY ConstantsAssumption, LenProperties
       DEF TypeInv, TypeOK, DispatchInv, Dispatched
  <2>2. ASSUME NEW c \in 1..offset
        PROVE  \/ c \in written
               \/ \E i \in 1..Len(work) : work[i] = c
               \/ \E w \in Workers : Carries(w, c)
    <3>1. CASE c \in 1..Dispatched
      BY <3>1 DEF DispatchInv
    <3>2. CASE c \notin 1..Dispatched
      <4>1. c - Dispatched \in 1..Len(work)
        BY <2>1, <3>2
      <4>2. work[c - Dispatched] = c
        BY <2>1, <4>1 DEF DispatchInv
      <4> QED BY <4>1, <4>2
    <3> QED BY <3>1, <3>2
  <2>3. ASSUME NEW w \in Workers, wpc[w] = "pwrite", NEW i \in 1..Len(work)
        PROVE  work[i] # wjob[w]
    <3>1. work[i] = Dispatched + i /\ wjob[w] <= Dispatched
      BY <2>3 DEF DispatchInv, Busy
    <3>2. wjob[w] \in Nat
      BY <2>3, ConstantsAssumption DEF TypeInv, Busy, Chunk
    <3> QED BY <2>1, <3>1, <3>2
  <2> QED BY <2>2, <2>3 DEF ChunksHaveOneHome, DispatchInv
<1> QED BY <1>1, TypeInvariant, DispatchInvariant, PTL

(* What the producer knows when it returns Ok: every worker left, none of  *)
(* them with a failure, so nothing was queued or in anyone's hands.        *)
THEOREM OutcomeInvariant == Spec => []OutcomeInv
<1>1. Init => OutcomeInv
  BY DEF Init, OutcomeInv
<1>2. TypeInv /\ DispatchInv /\ OutcomeInv /\ [Next]_vars => OutcomeInv'
  <2> SUFFICES ASSUME TypeInv, DispatchInv, OutcomeInv, [Next]_vars
               PROVE  OutcomeInv'
    OBVIOUS
  <2> USE DEF producerVars, channelVars, workerVars
  <2>1. /\ wpc \in [Workers -> WorkerPCs]
        /\ outcome = "none" <=> pc # "done"
        /\ txOpen <=> pc \notin {"join", "fsync", "done"}
    BY DEF TypeInv, TypeOK, ProducerInv
  <2>2. CASE SetCancel \/ ReadChunk \/ ReadEof \/ WriteSeesNoError \/ TakeBuffer
               \/ CloseWork
    BY <2>1, <2>2
       DEF SetCancel, ReadChunk, ReadEof, WriteSeesNoError, TakeBuffer,
           CloseWork, OutcomeInv, AllGone, Gone
  <2>3. CASE LoopCancelled \/ ReadFails \/ TakeFails \/ SendFails
               \/ WriteSeesError \/ JoinSeesError
    BY <2>1, <2>3
       DEF LoopCancelled, ReadFails, TakeFails, SendFails, WriteSeesError,
           JoinSeesError, Return, OutcomeInv
  <2>4. CASE SendJob
    <3>1. \A w \in Workers : wpc[w] # "exited"
      BY <2>1, <2>4 DEF SendJob, OutcomeInv
    <3> QED BY <2>1, <2>4, <3>1 DEF SendJob, OutcomeInv
  <2>5. CASE JoinClean
    BY <2>1, <2>5 DEF JoinClean, OutcomeInv, AllGone, Gone
  <2>6. CASE Fsync
    <3>1. /\ AllGone /\ errors = <<>> /\ pc = "fsync"
          /\ UNCHANGED <<wpc, errors, work, written, offset>>
          /\ pc' = "done" /\ ~txOpen'
      BY <2>6 DEF Fsync, Return, OutcomeInv
    <3>2. \A w \in Workers : wpc[w] = "exited"
      BY <2>1, <3>1 DEF OutcomeInv, AllGone, Gone
    <3>3. work = <<>>
      <4>1. 1 \in Workers
        BY Sizes DEF Workers
      <4> QED BY <3>2, <4>1 DEF OutcomeInv
    <3>4. Dispatched = SourceChunks
      BY <3>1, <3>3, EmptySeq, ConstantsAssumption
         DEF TypeInv, TypeOK, ProducerInv, Dispatched
    <3>5. \A w \in Workers, c \in Chunk : ~Carries(w, c)
      BY <3>2 DEF Carries
    <3>6. written = Chunk
      BY <3>4, <3>5 DEF DispatchInv, Chunk, TypeInv, TypeOK
    <3>7. AllGone'
      BY <3>1 DEF AllGone, Gone
    <3> QED BY <3>1, <3>3, <3>6, <3>7 DEF OutcomeInv
  <2>7. ASSUME NEW w \in Workers, Worker(w) PROVE OutcomeInv'
    <3>1. ~AllGone
      BY <2>7
         DEF Worker, WorkerRecv, WorkerExit, PwriteOk, PwriteFails, WorkerDies,
             Recycle, AllGone, Gone
    <3>2. outcome # "ok" /\ pc # "fsync"
      BY <3>1 DEF OutcomeInv
    <3>4. CASE WorkerRecv(w)
      BY <2>1, <3>2, <3>4 DEF WorkerRecv, OutcomeInv
    <3>5. CASE WorkerExit(w)
      BY <2>1, <3>2, <3>5 DEF WorkerExit, OutcomeInv
    <3>6. CASE PwriteOk(w) \/ WorkerDies(w) \/ Recycle(w)
      BY <2>1, <3>2, <3>6 DEF PwriteOk, WorkerDies, Recycle, OutcomeInv
    <3>7. CASE PwriteFails(w)
      <4>1. errors \in Seq(0..SourceChunks) /\ wjob[w] \in 0..SourceChunks
        BY DEF TypeInv, TypeOK
      <4>2. errors' # <<>>
        BY <3>7, <4>1, AppendProperties DEF PwriteFails
      <4> QED BY <2>1, <3>2, <3>7, <4>2 DEF PwriteFails, OutcomeInv
    <3> QED BY <2>7, <3>4, <3>5, <3>6, <3>7 DEF Worker
  <2>8. CASE UNCHANGED vars
    BY <2>8 DEF vars, OutcomeInv, AllGone, Gone
  <2> QED
    BY <2>2, <2>3, <2>4, <2>5, <2>6, <2>7, <2>8 DEF Next, Producer
<1> QED BY <1>1, <1>2, TypeInvariant, DispatchInvariant, PTL DEF Spec

(* A burn that returns Ok wrote the whole image                            *)
(* (BufferedWriter!OkMeansAllWritten).                                     *)
THEOREM OkIsWritten == Spec => []OkMeansAllWritten
<1>1. OutcomeInv => OkMeansAllWritten
  BY DEF OutcomeInv, OkMeansAllWritten
<1> QED BY <1>1, OutcomeInvariant, PTL

(* The threaded writers implement DeviceWriter (KeepsPromise): SendJob     *)
(* accepts, PwriteOk lands, a return finishes or gives up, and every other *)
(* step is invisible to the burn loop and the device.                      *)
THEOREM Refinement == Spec => KeepsPromise
<1> DEFINE Mapped == IF outcome = "none" THEN "open"
                     ELSE IF outcome = "ok" THEN "ok" ELSE "err"
<1>1. Init => Promise!Init
  BY DEF Init, Promise!Init
<1>2. TypeInv /\ DispatchInv /\ OutcomeInv /\ OutcomeInv' /\ [Next]_vars
        => [Promise!Next]_(Promise!vars)
  <2> SUFFICES ASSUME TypeInv, DispatchInv, OutcomeInv, OutcomeInv', [Next]_vars
               PROVE  \/ Promise!Next
                      \/ UNCHANGED <<offset, written, Mapped>>
    BY DEF Promise!vars
  <2> USE DEF producerVars, channelVars, workerVars
  <2>1. /\ outcome = "none" <=> pc # "done"
        /\ offset \in Nat
    BY ConstantsAssumption DEF TypeInv, TypeOK, ProducerInv
  <2>2. CASE SetCancel \/ ReadChunk \/ ReadEof \/ WriteSeesNoError
               \/ TakeBuffer \/ CloseWork \/ JoinClean
    BY <2>2 DEF SetCancel, ReadChunk, ReadEof, WriteSeesNoError, TakeBuffer,
                CloseWork, JoinClean
  <2>3. CASE LoopCancelled \/ ReadFails \/ TakeFails \/ SendFails
               \/ WriteSeesError \/ JoinSeesError
    <3>1. /\ UNCHANGED <<offset, written>>
          /\ Mapped = "open" /\ Mapped' = "err"
      BY <2>1, <2>3
         DEF LoopCancelled, ReadFails, TakeFails, SendFails, WriteSeesError,
             JoinSeesError, Return
    <3> QED BY <3>1 DEF Promise!Next, Promise!GiveUp
  <2>4. CASE SendJob
    <3>1. /\ UNCHANGED <<written, outcome>> /\ outcome = "none"
          /\ offset' = offset + 1
      BY <2>1, <2>4 DEF SendJob
    <3> QED BY <3>1 DEF Promise!Next, Promise!Accept
  <2>5. CASE Fsync
    <3>1. /\ UNCHANGED <<offset, written>> /\ outcome = "none"
          /\ offset = SourceChunks /\ outcome' \in {"ok", "fsync"}
      BY <2>1, <2>5 DEF Fsync, Return, TypeInv, ProducerInv
    <3>2. CASE outcome' = "ok"
      <4>1. written = 1..offset
        BY <3>1, <3>2 DEF OutcomeInv, Chunk
      <4> QED BY <3>1, <3>2, <4>1 DEF Promise!Next, Promise!FinishOk
    <3>3. CASE outcome' = "fsync"
      BY <3>1, <3>3 DEF Promise!Next, Promise!GiveUp
    <3> QED BY <3>1, <3>2, <3>3
  <2>6. ASSUME NEW w \in Workers, Worker(w)
        PROVE  Promise!Next \/ UNCHANGED <<offset, written, Mapped>>
    <3>1. CASE PwriteOk(w)
      <4>1. /\ UNCHANGED <<offset, outcome>>
            /\ written' = written \cup {wjob[w]} /\ wpc[w] = "pwrite"
        BY <3>1 DEF PwriteOk
      <4>2. outcome # "ok"
        BY <4>1 DEF OutcomeInv, AllGone, Gone
      <4>3. wjob[w] \notin written /\ wjob[w] \in Chunk /\ wjob[w] <= Dispatched
        BY <4>1 DEF DispatchInv, TypeInv, Busy
      <4>4. wjob[w] \in 1..offset
        BY <2>1, <4>3, ConstantsAssumption, LenProperties
           DEF Dispatched, Chunk, TypeInv, TypeOK
      <4> QED BY <4>1, <4>2, <4>3, <4>4 DEF Promise!Next, Promise!Land
    <3>2. CASE WorkerRecv(w) \/ WorkerExit(w) \/ PwriteFails(w)
                 \/ WorkerDies(w) \/ Recycle(w)
      BY <3>2
         DEF WorkerRecv, WorkerExit, PwriteFails, WorkerDies, Recycle
    <3> QED BY <2>6, <3>1, <3>2 DEF Worker
  <2>7. CASE UNCHANGED vars
    BY <2>7 DEF vars
  <2> QED
    BY <2>2, <2>3, <2>4, <2>5, <2>6, <2>7 DEF Next, Producer
<1> QED
  BY <1>1, <1>2, TypeInvariant, DispatchInvariant, OutcomeInvariant, PTL
     DEF Spec, KeepsPromise, Promise!Spec
=============================================================================
