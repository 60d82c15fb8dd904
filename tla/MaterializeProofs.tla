-------------------------- MODULE MaterializeProofs --------------------------
(***************************************************************************)
(* Proofs about Materialize, for any pool, file length and retry budget.   *)
(***************************************************************************)
EXTENDS Materialize, FiniteSetTheorems, TLAPS

-----------------------------------------------------------------------------
(* Types. *)

WorkerState ==
    [pc : WorkerPC, off : Blocks \cup {None}, attempt : 0..Attempts, err : Errors]
TypeInv == TypeOK /\ \A w \in Pool : At(w, "read") => wk[w].off \in Blocks

(* The clamp yields the size of a pool that has somebody in it. *)
LEMMA ClampIsPool == \A n \in Nat : Clamp(n) \in Pool /\ Clamp(n) \in Nat /\ Clamp(n) >= 1
BY MaterializeAssumption DEF Clamp, Pool

(* Replacing one worker's state by another of the type. *)
LEMMA WorkerUpdate ==
    ASSUME wk \in [Pool -> WorkerState], NEW w \in Pool, NEW s \in WorkerState,
           wk' = [wk EXCEPT ![w] = s]
    PROVE  /\ wk' \in [Pool -> WorkerState]
           /\ wk'[w] = s /\ \A v \in Pool : v # w => wk'[v] = wk[v]
OBVIOUS

(* A worker leaves the caller's variables and the file alone. *)
LEMMA WorkerFrame ==
    ASSUME NEW w \in Pool, Worker(w)
    PROVE  /\ UNCHANGED <<workers, len, cancel, pc, result, seen>>
           /\ wk[w].pc \notin Over
BY DEF Worker, Open, CheckStop, Claim, ReadBlock, ReadFails, Count, SetStop, RecordError, Leave,
       At, Over, fileVars, callerVars

(* What a worker's step makes of the worker. *)
LEMMA WorkerType ==
    ASSUME TypeInv, NEW w \in Pool, Worker(w)
    PROVE  /\ wk' \in [Pool -> WorkerState]
           /\ \A v \in Pool : v # w => wk'[v] = wk[v]
           /\ wk'[w].pc \notin {"unborn", "open"}
           /\ wk'[w].pc = "read" => wk'[w].off \in Blocks
<1>0. /\ wk \in [Pool -> WorkerState] /\ wk[w] \in WorkerState
      /\ len \in Nat /\ cursor \in Nat /\ Attempts \in Nat \ {0}
      /\ At(w, "read") => wk[w].off \in Blocks
  BY MaterializeAssumption DEF WorkerState, TypeInv, TypeOK
<1> DEFINE Kept ==
           /\ wk' \in [Pool -> WorkerState]
           /\ \A v \in Pool : v # w => wk'[v] = wk[v]
           /\ wk'[w].pc \notin {"unborn", "open"}
           /\ wk'[w].pc = "read" => wk'[w].off \in Blocks
<1> SUFFICES Kept
  OBVIOUS
<1>a. ASSUME NEW s \in WorkerState, wk' = [wk EXCEPT ![w] = s],
             s.pc \notin {"unborn", "open"}, s.pc = "read" => s.off \in Blocks
      PROVE  Kept
  BY <1>0, <1>a, WorkerUpdate
<1>1. ASSUME NEW p \in WorkerPC \ {"read", "unborn", "open"}, Go(w, p)
      PROVE  Kept
  <2> DEFINE s == [wk[w] EXCEPT !.pc = p]
  <2>1. s \in WorkerState /\ s.pc = p /\ wk' = [wk EXCEPT ![w] = s]
    BY <1>0, <1>1 DEF WorkerState, Go
  <2> HIDE DEF s
  <2> QED BY <1>a, <2>1
<1>2. ASSUME NEW e \in Errors, Fail(w, e)
      PROVE  Kept
  <2> DEFINE s == [wk[w] EXCEPT !.pc = "fail", !.err = e]
  <2>1. s \in WorkerState /\ s.pc = "fail" /\ wk' = [wk EXCEPT ![w] = s]
    BY <1>0, <1>2 DEF WorkerState, WorkerPC, Fail
  <2> HIDE DEF s
  <2> QED BY <1>a, <2>1
<1> HIDE DEF Kept
<1>3. CASE Open(w)
  BY <1>1, <1>2, <1>3 DEF Open, WorkerPC, Errors
<1>4. CASE CheckStop(w)
  BY <1>1, <1>4 DEF CheckStop, WorkerPC
<1>5. CASE Claim(w)
  <2>1. CASE cursor >= len
    BY <1>1, <1>5, <2>1 DEF Claim, WorkerPC
  <2>2. CASE ~(cursor >= len)
    <3> DEFINE s == [wk[w] EXCEPT !.pc = "read", !.off = cursor, !.attempt = 0]
    <3>1. wk' = [wk EXCEPT ![w] = s]
      BY <1>5, <2>2 DEF Claim
    <3>2. cursor \in Blocks /\ 0 \in 0..Attempts
      BY <1>0, <2>2 DEF Blocks
    <3>3. s \in WorkerState /\ s.pc = "read" /\ s.off = cursor
      BY <1>0, <3>2 DEF WorkerState, WorkerPC
    <3> HIDE DEF s
    <3> QED BY <1>a, <3>1, <3>2, <3>3
  <2> QED BY <2>1, <2>2
<1>6. CASE ReadBlock(w)
  BY <1>1, <1>6 DEF ReadBlock, WorkerPC
<1>7. CASE ReadFails(w)
  <2>1. CASE Fail(w, "spent") \/ Fail(w, "stopped")
    BY <1>2, <2>1 DEF Errors
  <2>2. CASE wk[w].attempt + 1 < Attempts /\ wk' = [wk EXCEPT ![w].attempt = @ + 1]
    <3> DEFINE n == wk[w].attempt + 1
               s == [wk[w] EXCEPT !.attempt = n]
    <3>1. wk' = [wk EXCEPT ![w] = s]
      BY <2>2
    <3>2. n \in 0..Attempts
      BY <1>0, <2>2 DEF WorkerState
    <3> HIDE DEF n
    <3>3. s \in WorkerState /\ s.pc = wk[w].pc /\ s.off = wk[w].off
      BY <1>0, <3>2 DEF WorkerState
    <3>4. s.pc = "read"
      BY <1>7, <3>3 DEF ReadFails, At
    <3> HIDE DEF s
    <3> QED BY <1>0, <1>a, <1>7, <3>1, <3>3, <3>4 DEF ReadFails
  <2> QED BY <1>7, <2>1, <2>2 DEF ReadFails
<1>8. CASE Count(w)
  <2> DEFINE s == [wk[w] EXCEPT !.pc = "top", !.off = None]
  <2>1. wk' = [wk EXCEPT ![w] = s]
    BY <1>8 DEF Count
  <2>2. s \in WorkerState /\ s.pc = "top"
    BY <1>0 DEF WorkerState, WorkerPC
  <2> HIDE DEF s
  <2> QED BY <1>a, <2>1, <2>2
<1>9. CASE SetStop(w)
  BY <1>1, <1>9 DEF SetStop, WorkerPC
<1>10. CASE RecordError(w)
  BY <1>1, <1>10 DEF RecordError, WorkerPC
<1>11. CASE Leave(w)
  BY <1>1, <1>11 DEF Leave, WorkerPC
<1> QED
  BY <1>3, <1>4, <1>5, <1>6, <1>7, <1>8, <1>9, <1>10, <1>11 DEF Worker

(* A worker's step keeps the types of the shared state. *)
LEMMA WorkerCounts ==
    ASSUME NEW w \in Pool, Worker(w),
           cursor \in Nat, done \in Nat, live \in Int, stop \in BOOLEAN,
           first_err \in Errors, wk[w].err \in Errors,
           faulted \subseteq Blocks, At(w, "read") => wk[w].off \in Blocks
    PROVE  /\ cursor' \in Nat /\ done' \in Nat /\ live' \in Int /\ stop' \in BOOLEAN
           /\ first_err' \in Errors /\ faulted' \subseteq Blocks
<1> USE DEF stateVars
<1>1. CASE Open(w) \/ CheckStop(w) \/ ReadFails(w)
  BY <1>1 DEF Open, CheckStop, ReadFails
<1>2. CASE Claim(w) \/ Count(w) \/ Leave(w)
  BY <1>2 DEF Claim, Count, Leave
<1>3. CASE ReadBlock(w)
  BY <1>3 DEF ReadBlock
<1>4. CASE SetStop(w) \/ RecordError(w)
  BY <1>4 DEF SetStop, RecordError
<1> QED BY <1>1, <1>2, <1>3, <1>4 DEF Worker

(* Types are kept by every step. *)
THEOREM TypeInvariant == Spec => []TypeInv
<1>1. Init => TypeInv
  <2> SUFFICES ASSUME Init PROVE TypeInv
    OBVIOUS
  <2>1. workers \in Pool /\ workers \in Nat
    BY ClampIsPool, MaterializeAssumption DEF Init
  <2>2. NoWorker \in WorkerState /\ NoWorker.pc = "unborn"
    BY MaterializeAssumption DEF NoWorker, WorkerState, WorkerPC, Errors
  <2>3. wk \in [Pool -> WorkerState] /\ \A w \in Pool : ~At(w, "read")
    BY <2>2 DEF Init, At
  <2>i. /\ len \in 0..MaxLength /\ cursor = 0 /\ done = 0 /\ stop = FALSE /\ live = workers
        /\ seen = 0 /\ first_err = "none" /\ faulted = {}
    BY DEF Init
  <2>4. /\ len \in 0..MaxLength /\ cursor \in Nat /\ done \in Nat /\ stop \in BOOLEAN
        /\ live \in Int /\ seen \in Nat /\ first_err \in Errors /\ faulted \subseteq Blocks
    <3>1. stop \in BOOLEAN /\ first_err \in Errors /\ faulted \subseteq Blocks
      BY <2>i DEF Errors
    <3>2. cursor \in Nat /\ done \in Nat /\ live \in Int /\ seen \in Nat
      BY <2>1, <2>i
    <3> QED BY <2>i, <3>1, <3>2
  <2>5. /\ cancel \in {"never", "raised", "withdrawn"}
        /\ pc \in {"enter", "poll", "report", "live", "join", "judge", "returned"}
        /\ result \in {"none", "ok", "error", "cancelled"}
    BY DEF Init
  <2> QED BY <2>1, <2>3, <2>4, <2>5 DEF TypeInv, TypeOK, WorkerState
<1>2. TypeInv /\ [Next]_vars => TypeInv'
  <2> SUFFICES ASSUME TypeInv, [Next]_vars PROVE TypeInv'
    OBVIOUS
  <2> USE DEF TypeInv, TypeOK, fileVars, stateVars, callerVars, Blocks, At
  <2>1. CASE Raise \/ Withdraw
    BY <2>1 DEF Raise, Withdraw
  <2>2. CASE Caller
    <3>1. CASE SpawnWorkers
      <4>1. /\ NoWorker \in WorkerState /\ [NoWorker EXCEPT !.pc = "open"] \in WorkerState
            /\ NoWorker.pc = "unborn" /\ [NoWorker EXCEPT !.pc = "open"].pc = "open"
        BY MaterializeAssumption DEF NoWorker, WorkerState, WorkerPC, Errors
      <4>2. wk' \in [Pool -> WorkerState] /\ \A w \in Pool : wk'[w].pc # "read"
        BY <3>1, <4>1 DEF SpawnWorkers
      <4> QED BY <3>1, <4>2 DEF SpawnWorkers, WorkerState
    <3>2. CASE EnterReturns \/ PollCancel \/ ReportProgress
      BY <3>2 DEF EnterReturns, PollCancel, ReportProgress, Return
    <3>3. CASE PollLive \/ JoinWorkers
      BY <3>3 DEF PollLive, JoinWorkers
    <3>4. CASE Judge
      <4>1. len \in Nat
        BY MaterializeAssumption
      <4> QED BY <3>4, <4>1 DEF Judge, Return
    <3> QED BY <2>2, <3>1, <3>2, <3>3, <3>4 DEF Caller
  <2>3. CASE \E w \in Pool : Worker(w)
    <3> PICK w \in Pool : Worker(w)
      BY <2>3
    <3>1. UNCHANGED <<workers, len, cancel, pc, result, seen>>
      BY WorkerFrame
    <3>2. /\ wk' \in [Pool -> WorkerState]
          /\ \A v \in Pool : wk'[v].pc = "read" => wk'[v].off \in Blocks
      BY WorkerType
    <3>3. /\ cursor \in Nat /\ done \in Nat /\ live \in Int /\ stop \in BOOLEAN
          /\ first_err \in Errors /\ faulted \subseteq Blocks
          /\ At(w, "read") => wk[w].off \in Blocks
          /\ wk[w].err \in Errors
      OBVIOUS
    <3>4. /\ cursor' \in Nat /\ done' \in Nat /\ live' \in Int /\ stop' \in BOOLEAN
          /\ first_err' \in Errors /\ faulted' \subseteq Blocks
      BY <3>3, WorkerCounts
    <3> QED BY <3>1, <3>2, <3>4 DEF WorkerState
  <2>4. CASE UNCHANGED vars
    BY <2>4 DEF vars
  <2> QED BY <2>1, <2>2, <2>3, <2>4 DEF Next
<1> QED
  BY <1>1, <1>2, PTL DEF Spec

(* TypeOK holds for all constants. *)
THEOREM TypeCorrect == Spec => []TypeOK
<1>1. TypeInv => TypeOK
  BY DEF TypeInv
<1> QED
  BY <1>1, TypeInvariant, PTL

-----------------------------------------------------------------------------
(* The pool. *)

(* What one step of a worker does to its own record. *)
Keeping(w) == wk'[w].off = wk[w].off /\ wk'[w].err = wk[w].err

(* Where each step of a worker leaves its own record. *)
LEMMA WorkerFields ==
    ASSUME TypeInv, NEW w \in Pool
    PROVE  /\ Claim(w) =>
                \/ /\ cursor < len /\ wk'[w].err = wk[w].err
                   /\ wk'[w].pc = "read" /\ wk'[w].off = cursor
                \/ cursor >= len /\ wk'[w].pc = "leave" /\ Keeping(w)
           /\ ReadBlock(w) => wk'[w].pc = "count" /\ Keeping(w)
           /\ Count(w) => wk'[w].pc = "top" /\ wk'[w].off = None /\ wk'[w].err = wk[w].err
           /\ Open(w) =>
                \/ wk'[w].pc = "top" /\ Keeping(w)
                \/ wk'[w].pc = "fail" /\ wk'[w].err = "open" /\ wk'[w].off = wk[w].off
           /\ CheckStop(w) => wk'[w].pc = (IF stop THEN "leave" ELSE "claim") /\ Keeping(w)
           /\ SetStop(w) => wk'[w].pc = "record" /\ Keeping(w)
           /\ RecordError(w) => wk'[w].pc = "leave" /\ Keeping(w)
           /\ Leave(w) => wk'[w].pc = "gone" /\ Keeping(w)
           /\ ReadFails(w) =>
                /\ wk'[w].off = wk[w].off
                /\ \/ wk'[w].pc = "read" /\ wk'[w].err = wk[w].err
                   \/ wk'[w].pc = "fail" /\ wk'[w].err = "spent"
                   \/ wk'[w].pc = "fail" /\ wk'[w].err = "stopped" /\ stop
<1>0. /\ wk \in [Pool -> WorkerState] /\ wk[w] \in WorkerState
      /\ cursor \in Nat /\ len \in Int
  BY DEF TypeInv, TypeOK, WorkerState
<1> USE DEF WorkerState, Go, Fail, Keeping
<1>1. Claim(w) =>
        \/ /\ cursor < len /\ wk'[w].err = wk[w].err
           /\ wk'[w].pc = "read" /\ wk'[w].off = cursor
        \/ cursor >= len /\ wk'[w].pc = "leave" /\ Keeping(w)
  BY <1>0 DEF Claim
<1>2. ReadBlock(w) => wk'[w].pc = "count" /\ Keeping(w)
  BY <1>0 DEF ReadBlock
<1>3. Count(w) => wk'[w].pc = "top" /\ wk'[w].off = None /\ wk'[w].err = wk[w].err
  BY <1>0 DEF Count
<1>4. Open(w) =>
        \/ wk'[w].pc = "top" /\ Keeping(w)
        \/ wk'[w].pc = "fail" /\ wk'[w].err = "open" /\ wk'[w].off = wk[w].off
  BY <1>0 DEF Open
<1>5. /\ CheckStop(w) => wk'[w].pc = (IF stop THEN "leave" ELSE "claim") /\ Keeping(w)
      /\ SetStop(w) => wk'[w].pc = "record" /\ Keeping(w)
      /\ RecordError(w) => wk'[w].pc = "leave" /\ Keeping(w)
      /\ Leave(w) => wk'[w].pc = "gone" /\ Keeping(w)
  BY <1>0 DEF CheckStop, SetStop, RecordError, Leave
<1>6. ReadFails(w) =>
        /\ wk'[w].off = wk[w].off
        /\ \/ wk'[w].pc = "read" /\ wk'[w].err = wk[w].err
           \/ wk'[w].pc = "fail" /\ wk'[w].err = "spent"
           \/ wk'[w].pc = "fail" /\ wk'[w].err = "stopped" /\ stop
  BY <1>0 DEF ReadFails, At
<1> QED BY <1>1, <1>2, <1>3, <1>4, <1>5, <1>6

(* While a worker can still step, the caller has not judged the pool. *)
LEMMA WorkerKeepsPool ==
    ASSUME TypeInv, PoolInv, NEW w \in Pool, Worker(w)
    PROVE  /\ PoolInv' /\ pc \notin {"enter", "judge", "returned"} /\ result = "none"
<1>1. /\ \A v \in Pool : v # w => wk'[v] = wk[v]
      /\ wk'[w].pc \notin {"unborn", "open"} /\ wk[w].pc \notin Over
      /\ UNCHANGED <<workers, len, cancel, pc, result, seen>>
  BY WorkerType, WorkerFrame
<1>2. pc \notin {"enter", "judge", "returned"} /\ result = "none" /\ ~(w > workers)
  BY <1>1 DEF PoolInv, Over, At, NoWorker
<1>3. wk'[w].err # "none" => wk'[w].pc \in {"fail", "record", "leave", "gone"}
  <2>1. CASE SetStop(w) \/ RecordError(w) \/ Leave(w)
    BY <2>1, WorkerFields
  <2>2. CASE Open(w) \/ CheckStop(w) \/ Claim(w) \/ ReadBlock(w) \/ Count(w) \/ ReadFails(w)
    <3>1. wk[w].err = "none"
      BY <2>2 DEF PoolInv, Open, CheckStop, Claim, ReadBlock, Count, ReadFails, At
    <3> QED BY <2>2, <3>1, WorkerFields DEF Keeping
  <2> QED BY <2>1, <2>2 DEF Worker
<1>4. \A v \in Pool : wk'[v].err # "none" => wk'[v].pc \in {"fail", "record", "leave", "gone"}
  BY <1>1, <1>3 DEF PoolInv
<1>5. \A v \in Pool : v > workers => wk'[v] = NoWorker
  BY <1>1, <1>2 DEF PoolInv
<1>6. \A v \in 1..workers : wk'[v].pc # "unborn"
  BY <1>1, <1>2, MaterializeAssumption DEF PoolInv, At, Pool, TypeInv, TypeOK
<1> QED BY <1>1, <1>2, <1>4, <1>5, <1>6 DEF PoolInv, At

(* The cursor hands out each block once, and no block behind it is dropped. *)
LEMMA WorkerKeepsCursor ==
    ASSUME TypeInv, PoolInv, CursorInv, NEW w \in Pool, Worker(w)
    PROVE  CursorInv'
<1>1. /\ \A v \in Pool : v # w => wk'[v] = wk[v]
      /\ len' = len /\ cursor \in Nat /\ len \in Nat
  BY WorkerType, WorkerFrame, MaterializeAssumption DEF TypeInv, TypeOK
<1>2. wk[w].err # "none" => wk[w].pc \in {"fail", "record", "leave", "gone"}
  BY DEF PoolInv
<1>3. ASSUME UNCHANGED <<cursor, faulted>>, wk'[w].off = wk[w].off,
             wk'[w].pc = "read" => wk[w].pc = "read",
             wk[w].pc = "read" => wk'[w].pc = "read" \/ wk'[w].err # "none",
             wk[w].err # "none" => wk'[w].err # "none"
      PROVE  CursorInv'
  <2>1. \A v \in Pool : /\ At(v, "read")' => At(v, "read")
                        /\ wk'[v].off = wk[v].off
                        /\ At(v, "read") => At(v, "read")' \/ wk'[v].err # "none"
                        /\ wk[v].err # "none" => wk'[v].err # "none"
    BY <1>1, <1>3 DEF At
  <2>2. /\ \A v \in Pool : At(v, "read")' => wk'[v].off \in Blocks /\ wk'[v].off < cursor
        /\ \A b \in faulted : b < cursor
        /\ \A u, v \in Pool : At(u, "read")' /\ At(v, "read")' /\ u # v => wk'[u].off # wk'[v].off
        /\ \A v \in Pool : At(v, "read")' => wk'[v].off \notin faulted
    BY <2>1 DEF CursorInv, BlocksAccounted
  <2>3. \A b \in Blocks : b < cursor =>
            b \in faulted \/ \E v \in Pool : wk'[v].off = b /\ (At(v, "read")' \/ wk'[v].err # "none")
    BY <2>1 DEF CursorInv, BlocksAccounted
  <2> QED BY <1>1, <1>3, <2>2, <2>3 DEF CursorInv, BlocksAccounted, Blocks
<1>4. CASE Claim(w)
  <2>1. /\ cursor' = cursor + 1 /\ faulted' = faulted /\ ~At(w, "read") /\ wk[w].err = "none"
    BY <1>2, <1>4 DEF Claim, At
  <2>2. \A b \in Blocks : b < cursor =>
            b \in faulted \/ \E v \in Pool : /\ v # w /\ wk[v].off = b
                                             /\ At(v, "read") \/ wk[v].err # "none"
    BY <2>1 DEF CursorInv, BlocksAccounted
  <2>3. \A b \in Blocks : b < cursor =>
            b \in faulted \/ \E v \in Pool : wk'[v].off = b /\ (At(v, "read")' \/ wk'[v].err # "none")
    BY <1>1, <2>2 DEF At
  <2>4. CASE cursor < len /\ wk'[w].pc = "read" /\ wk'[w].off = cursor
    <3>1. \A v \in Pool : At(v, "read")' => wk'[v].off \in Blocks /\ wk'[v].off < cursor'
      BY <1>1, <2>1, <2>4 DEF CursorInv, At, Blocks
    <3>2. \A b \in faulted : b < cursor'
      BY <1>1, <2>1 DEF CursorInv, TypeInv, TypeOK, Blocks
    <3>3. \A u, v \in Pool : At(u, "read")' /\ At(v, "read")' /\ u # v => wk'[u].off # wk'[v].off
      BY <1>1, <2>4 DEF CursorInv, BlocksAccounted, At, Blocks
    <3>4. \A v \in Pool : At(v, "read")' => wk'[v].off \notin faulted
      BY <1>1, <2>4 DEF CursorInv, BlocksAccounted, At
    <3>5. \A b \in Blocks : b < cursor' =>
              b \in faulted \/ \E v \in Pool : wk'[v].off = b /\ (At(v, "read")' \/ wk'[v].err # "none")
      BY <1>1, <2>1, <2>3, <2>4 DEF Blocks, At
    <3> QED BY <1>1, <2>1, <3>1, <3>2, <3>3, <3>4, <3>5 DEF CursorInv, BlocksAccounted, Blocks
  <2>5. CASE cursor >= len /\ wk'[w].pc = "leave" /\ wk'[w].off = wk[w].off
    <3>1. \A v \in Pool : At(v, "read")' => At(v, "read") /\ wk'[v] = wk[v]
      BY <1>1, <2>5 DEF At
    <3>2. /\ \A v \in Pool : At(v, "read")' => wk'[v].off \in Blocks /\ wk'[v].off < cursor'
          /\ \A b \in faulted : b < cursor'
      BY <1>1, <2>1, <3>1 DEF CursorInv, TypeInv, TypeOK, Blocks
    <3>3. /\ \A u, v \in Pool : At(u, "read")' /\ At(v, "read")' /\ u # v => wk'[u].off # wk'[v].off
          /\ \A v \in Pool : At(v, "read")' => wk'[v].off \notin faulted
      BY <3>1 DEF CursorInv, BlocksAccounted
    <3>4. \A b \in Blocks : b < cursor
      BY <1>1, <2>5 DEF Blocks
    <3> QED BY <1>1, <2>1, <2>3, <3>2, <3>3, <3>4 DEF CursorInv, BlocksAccounted, Blocks
  <2> QED BY <1>4, <2>4, <2>5, WorkerFields DEF Keeping
<1>5. CASE ReadBlock(w)
  <2>1. /\ At(w, "read") /\ ~At(w, "read")' /\ cursor' = cursor
        /\ faulted' = faulted \cup {wk[w].off}
        /\ \A v \in Pool : At(v, "read")' => v # w /\ At(v, "read") /\ wk'[v] = wk[v]
    BY <1>1, <1>5, WorkerFields DEF At, ReadBlock, stateVars
  <2>2. /\ \A v \in Pool : At(v, "read")' => wk'[v].off \in Blocks /\ wk'[v].off < cursor
        /\ \A b \in faulted' : b < cursor
    BY <2>1 DEF CursorInv
  <2>3. /\ \A u, v \in Pool : At(u, "read")' /\ At(v, "read")' /\ u # v => wk'[u].off # wk'[v].off
        /\ \A v \in Pool : At(v, "read")' => wk'[v].off \notin faulted'
    BY <2>1 DEF CursorInv, BlocksAccounted
  <2>4. \A b \in Blocks : b < cursor =>
            b \in faulted' \/ \E v \in Pool : wk'[v].off = b /\ (At(v, "read")' \/ wk'[v].err # "none")
    <3> SUFFICES ASSUME NEW b \in Blocks, b < cursor, b \notin faulted'
                 PROVE  \E v \in Pool : wk'[v].off = b /\ (At(v, "read")' \/ wk'[v].err # "none")
      OBVIOUS
    <3>1. PICK v \in Pool : wk[v].off = b /\ (At(v, "read") \/ wk[v].err # "none")
      BY <2>1 DEF CursorInv, BlocksAccounted
    <3>2. v # w
      BY <2>1, <3>1
    <3> QED BY <1>1, <3>1, <3>2 DEF At
  <2> QED BY <1>1, <2>1, <2>2, <2>3, <2>4 DEF CursorInv, BlocksAccounted, Blocks
<1>6. CASE Count(w)
  <2>1. /\ wk[w].pc = "count" /\ wk[w].err = "none" /\ wk'[w].pc = "top"
        /\ UNCHANGED <<cursor, faulted>>
    BY <1>2, <1>6 DEF At, Count, TypeInv, TypeOK
  <2>2. \A v \in Pool : At(v, "read") <=> At(v, "read")'
    BY <1>1, <2>1 DEF At
  <2>3. \A v \in Pool : At(v, "read") \/ wk[v].err # "none" => wk'[v] = wk[v]
    BY <1>1, <2>1 DEF At
  <2>4. /\ \A v \in Pool : At(v, "read")' => wk'[v].off \in Blocks /\ wk'[v].off < cursor
        /\ \A b \in faulted : b < cursor
        /\ \A u, v \in Pool : At(u, "read")' /\ At(v, "read")' /\ u # v => wk'[u].off # wk'[v].off
        /\ \A v \in Pool : At(v, "read")' => wk'[v].off \notin faulted
    BY <2>2, <2>3 DEF CursorInv, BlocksAccounted
  <2>5. \A b \in Blocks : b < cursor =>
            b \in faulted \/ \E v \in Pool : wk'[v].off = b /\ (At(v, "read")' \/ wk'[v].err # "none")
    BY <2>2, <2>3 DEF CursorInv, BlocksAccounted
  <2> QED BY <1>1, <2>1, <2>4, <2>5 DEF CursorInv, BlocksAccounted, Blocks
<1>7. CASE ReadFails(w)
  <2>1. UNCHANGED <<cursor, faulted>> /\ wk[w].pc = "read" /\ wk[w].err = "none"
    BY <1>2, <1>7 DEF ReadFails, At, stateVars
  <2>2. /\ wk'[w].off = wk[w].off
        /\ wk'[w].pc = "read" \/ wk'[w].err # "none"
    BY <1>7, <2>1, WorkerFields
  <2> QED BY <1>3, <2>1, <2>2
<1>8. CASE Open(w) \/ CheckStop(w) \/ SetStop(w) \/ RecordError(w) \/ Leave(w)
  <2>1. UNCHANGED <<cursor, faulted>> /\ wk[w].pc # "read"
    BY <1>8 DEF Open, CheckStop, SetStop, RecordError, Leave, At, stateVars
  <2>2. /\ wk'[w].off = wk[w].off /\ wk'[w].pc # "read"
        /\ wk[w].err # "none" => wk'[w].err # "none"
    BY <1>8, WorkerFields DEF Keeping
  <2> QED BY <1>3, <2>1, <2>2
<1> QED BY <1>4, <1>5, <1>6, <1>7, <1>8 DEF Worker

(* Whoever leaves has a reason, and whoever fails gets it recorded. *)
LEMMA WorkerKeepsCause ==
    ASSUME TypeInv, PoolInv, CauseInv, NEW w \in Pool, Worker(w)
    PROVE  CauseInv'
<1> USE DEF At, Keeping, stateVars
<1>1. /\ \A v \in Pool : v # w => wk'[v] = wk[v]
      /\ len' = len /\ cancel' = cancel
      /\ cursor \in Nat /\ wk[w].err \in Errors
  BY WorkerType, WorkerFrame DEF TypeInv, TypeOK
<1>2. wk[w].err # "none" => wk[w].pc \in {"fail", "record", "leave", "gone"}
  BY DEF PoolInv
<1>3. /\ stop => stop'
      /\ first_err # "none" => first_err' # "none"
      /\ cursor' = cursor \/ cursor' = cursor + 1
      /\ wk[w].err # "none" => wk'[w].err = wk[w].err
  <2>1. /\ stop => stop'
        /\ first_err # "none" => first_err' # "none"
        /\ cursor' = cursor \/ cursor' = cursor + 1
    BY DEF Worker, Open, CheckStop, Claim, ReadBlock, ReadFails, Count, SetStop, RecordError, Leave
  <2>2. wk[w].err # "none" => wk'[w].err = wk[w].err
    <3>1. CASE SetStop(w) \/ RecordError(w) \/ Leave(w)
      BY <3>1, WorkerFields
    <3>2. CASE Open(w) \/ CheckStop(w) \/ Claim(w) \/ ReadBlock(w) \/ Count(w) \/ ReadFails(w)
      BY <1>2, <3>2 DEF Open, CheckStop, Claim, ReadBlock, Count, ReadFails
    <3> QED BY <3>1, <3>2 DEF Worker
  <2> QED BY <2>1, <2>2
<1>4. wk'[w].pc \in {"fail", "record"} => wk'[w].err # "none"
  <2>1. wk[w].pc = "fail" => wk[w].err # "none"
    BY DEF CauseInv
  <2> QED BY <2>1, WorkerFields DEF Worker, SetStop
<1>5. wk'[w].err # "none" => wk'[w].pc \in {"fail", "record"} \/ first_err' # "none"
  <2>1. CASE RecordError(w)
    BY <2>1 DEF RecordError, CauseInv
  <2>2. CASE Leave(w) \/ SetStop(w)
    BY <1>3, <2>2, WorkerFields DEF Leave, SetStop, CauseInv
  <2>3. CASE Open(w) \/ CheckStop(w) \/ Claim(w) \/ ReadBlock(w) \/ Count(w) \/ ReadFails(w)
    <3>1. wk[w].err = "none"
      BY <1>2, <2>3 DEF Open, CheckStop, Claim, ReadBlock, Count, ReadFails
    <3> QED BY <2>3, <3>1, WorkerFields
  <2> QED BY <2>1, <2>2, <2>3 DEF Worker
<1>6. wk'[w].err = "stopped" => stop'
  <2>1. wk[w].err = "stopped" => stop'
    BY <1>3 DEF CauseInv
  <2> QED BY <1>3, <2>1, WorkerFields DEF Worker
<1>7. stop' \/ first_err' # "none" =>
          stop \/ first_err # "none" \/ wk[w].err # "none"
  BY DEF Worker, Open, CheckStop, Claim, ReadBlock, ReadFails, Count, SetStop, RecordError, Leave,
         CauseInv
<1>8. stop' \/ first_err' # "none" =>
          cancel # "never" \/ \E v \in Pool : wk'[v].err \in {"open", "spent"}
  <2>1. wk[w].err \in {"open", "spent"} => wk'[w].err \in {"open", "spent"}
    BY <1>3
  <2>2. stop \/ first_err # "none" =>
            cancel # "never" \/ \E v \in Pool : wk'[v].err \in {"open", "spent"}
    BY <1>1, <2>1 DEF CauseInv
  <2>3. wk[w].err = "stopped" => stop
    BY DEF CauseInv
  <2> QED BY <1>1, <1>7, <2>1, <2>2, <2>3 DEF Errors
<1>9. wk'[w].pc \in {"leave", "gone"} => stop' \/ cursor' >= len \/ wk'[w].err # "none"
  <2>1. CASE Leave(w)
    BY <1>1, <1>3, <2>1, WorkerFields DEF Leave, CauseInv, TypeInv, TypeOK
  <2>2. CASE RecordError(w)
    BY <1>3, <2>2 DEF RecordError, CauseInv
  <2>3. CASE Claim(w)
    BY <1>1, <1>3, <2>3, WorkerFields DEF TypeInv, TypeOK
  <2>4. CASE Open(w) \/ CheckStop(w) \/ ReadBlock(w) \/ Count(w) \/ ReadFails(w) \/ SetStop(w)
    BY <1>3, <2>4, WorkerFields
  <2> QED BY <2>1, <2>2, <2>3, <2>4 DEF Worker
<1>10. \A v \in Pool : v # w =>
          /\ wk'[v].pc \in {"leave", "gone"} => stop' \/ cursor' >= len \/ wk'[v].err # "none"
          /\ wk'[v].err # "none" => wk'[v].pc \in {"fail", "record"} \/ first_err' # "none"
          /\ wk'[v].err = "stopped" => stop'
          /\ wk'[v].pc \in {"fail", "record"} => wk'[v].err # "none"
  BY <1>1, <1>3 DEF CauseInv, TypeInv, TypeOK
<1> QED BY <1>1, <1>4, <1>5, <1>6, <1>8, <1>9, <1>10 DEF CauseInv

(* The caller's steps: it judges a pool that is gone, and Ok leaves nothing. *)
LEMMA CallerKeeps ==
    ASSUME TypeInv, PoolOk, Caller
    PROVE  PoolOk'
<1> USE DEF fileVars, stateVars, callerVars, At
<1>t. /\ len \in Nat /\ cursor \in Nat /\ workers \in Pool /\ workers >= 1
      /\ wk \in [Pool -> WorkerState] /\ Pool \subseteq Nat
  BY MaterializeAssumption DEF TypeInv, TypeOK, WorkerState, Pool
<1>c. ASSUME UNCHANGED <<cursor, faulted, wk, len>> PROVE CursorInv'
  BY <1>c DEF PoolOk, CursorInv, BlocksAccounted, Blocks
<1>k. ASSUME UNCHANGED <<wk, cursor, first_err, len, cancel>>,
             stop' = stop \/ (stop' /\ cancel # "never")
      PROVE  CauseInv'
  BY <1>k DEF PoolOk, CauseInv
<1>1. CASE EnterReturns
  <2>1. /\ pc = "enter" /\ pc' = "returned" /\ (result' = "ok" => len = 0)
        /\ UNCHANGED <<workers, len, cancel, stateVars, wk, faulted>>
    BY <1>1 DEF EnterReturns, Return
  <2>2. PoolInv'
    BY <2>1 DEF PoolOk, PoolInv, Over
  <2>3. len = 0 => Blocks = {}
    BY DEF Blocks
  <2>4. OkMeansResident'
    BY <2>1, <2>3 DEF PoolOk, PoolInv, OkMeansResident, Blocks
  <2> QED BY <1>c, <1>k, <2>1, <2>2, <2>4 DEF PoolOk
<1>2. CASE SpawnWorkers
  <2>1. /\ pc = "enter" /\ pc' = "poll" /\ result = "none" /\ faulted = {} /\ cursor = 0
        /\ ~stop /\ first_err = "none"
        /\ UNCHANGED <<workers, len, cancel, stateVars, result, faulted>>
    BY <1>2 DEF SpawnWorkers, PoolOk, PoolInv
  <2>2. \A w \in Pool : /\ w > workers => wk'[w] = NoWorker
                        /\ w <= workers => wk'[w].pc = "open"
                        /\ wk'[w].pc \in {"open", "unborn"}
                        /\ wk'[w].err = "none" /\ wk'[w].off = None
    BY <1>t, <1>2 DEF SpawnWorkers, NoWorker
  <2>3. \A w \in 1..workers : wk'[w].pc = "open"
    <3>1. \A w \in 1..workers : w \in Pool /\ w <= workers
      BY <1>t, MaterializeAssumption DEF Pool
    <3> QED BY <2>2, <3>1
  <2>4. PoolInv'
    BY <2>1, <2>2, <2>3 DEF PoolInv
  <2>5. CursorInv'
    BY <2>1, <2>2 DEF CursorInv, BlocksAccounted, Blocks
  <2>6. CauseInv'
    BY <2>1, <2>2 DEF CauseInv
  <2> QED BY <2>1, <2>4, <2>5, <2>6 DEF PoolOk, OkMeansResident
<1>3. CASE PollCancel \/ ReportProgress \/ PollLive
  <2>1. /\ pc \notin {"enter", "judge", "returned"} /\ pc' \notin {"enter", "judge", "returned"}
        /\ UNCHANGED <<workers, len, cancel, cursor, first_err, result, wk, faulted>>
        /\ stop' = stop \/ (stop' /\ cancel # "never")
    BY <1>3 DEF PollCancel, ReportProgress, PollLive, should_cancel
  <2>2. PoolInv'
    BY <2>1 DEF PoolOk, PoolInv
  <2>3. OkMeansResident'
    BY <2>1 DEF PoolOk, PoolInv, OkMeansResident
  <2> QED BY <1>c, <1>k, <2>1, <2>2, <2>3 DEF PoolOk
<1>4. CASE JoinWorkers
  <2>1. /\ pc = "join" /\ pc' = "judge" /\ \A w \in 1..workers : wk[w].pc = "gone"
        /\ UNCHANGED <<workers, len, cancel, stateVars, result, wk, faulted>>
    BY <1>4 DEF JoinWorkers
  <2>2. \A w \in Pool : w \in 1..workers \/ w > workers
    BY <1>t DEF Pool
  <2>3. \A w \in Pool : wk[w].pc \in Over
    BY <2>1, <2>2 DEF PoolOk, PoolInv, Over, NoWorker
  <2>4. PoolInv'
    BY <2>1, <2>3 DEF PoolOk, PoolInv
  <2>5. OkMeansResident'
    BY <2>1 DEF PoolOk, PoolInv, OkMeansResident
  <2> QED BY <1>c, <1>k, <2>1, <2>4, <2>5 DEF PoolOk
<1>5. CASE Judge
  <2>1. /\ pc = "judge" /\ pc' = "returned" /\ \A w \in Pool : wk[w].pc \in Over
        /\ UNCHANGED <<workers, len, cancel, stateVars, wk, faulted>>
        /\ result' = "ok" => first_err = "none" /\ cancel # "raised"
    BY <1>5 DEF Judge, Return, should_cancel, PoolOk, PoolInv
  <2>2. PoolInv'
    BY <2>1 DEF PoolOk, PoolInv
  <2>3. ASSUME result' = "ok", cancel # "withdrawn" PROVE faulted = Blocks
    <3>1. cancel = "never" /\ first_err = "none"
      BY <2>1, <2>3 DEF TypeInv, TypeOK
    <3>2. \A w \in Pool : wk[w].err = "none"
      BY <2>1, <3>1 DEF PoolOk, CauseInv, Over
    <3>3. ~stop
      BY <3>1, <3>2 DEF PoolOk, CauseInv
    <3>4. 1 \in Pool /\ 1 \in 1..workers
      BY <1>t, MaterializeAssumption DEF Pool
    <3>5. wk[1].pc = "gone"
      BY <2>1, <3>4 DEF PoolOk, PoolInv, Over
    <3>6. cursor >= len
      BY <3>2, <3>3, <3>4, <3>5 DEF PoolOk, CauseInv
    <3>7. \A b \in Blocks : b < cursor
      BY <1>t, <3>6 DEF Blocks
    <3>8. \A b \in Blocks : b \in faulted
      BY <2>1, <3>2, <3>7 DEF PoolOk, CursorInv, BlocksAccounted, Over
    <3> QED BY <3>8 DEF TypeInv, TypeOK
  <2>4. OkMeansResident'
    BY <2>1, <2>3 DEF OkMeansResident, Blocks
  <2> QED BY <1>c, <1>k, <2>1, <2>2, <2>4 DEF PoolOk
<1> QED BY <1>1, <1>2, <1>3, <1>4, <1>5 DEF Caller

(* Every step keeps what the pool knows. *)
THEOREM PoolInvariant == Spec => []PoolOk
<1>1. Init => PoolOk
  <2> SUFFICES ASSUME Init PROVE PoolOk
    OBVIOUS
  <2>1. /\ cursor = 0 /\ faulted = {} /\ stop = FALSE /\ first_err = "none"
        /\ pc = "enter" /\ result = "none"
        /\ \A w \in Pool : wk[w] = NoWorker
    BY DEF Init
  <2>2. \A b \in Blocks : ~(b < 0)
    BY DEF Init, Blocks
  <2>3. PoolInv /\ OkMeansResident
    BY <2>1 DEF PoolInv, OkMeansResident, At, NoWorker
  <2>4. CursorInv
    BY <2>1, <2>2 DEF CursorInv, BlocksAccounted, At, NoWorker
  <2>5. CauseInv
    BY <2>1 DEF CauseInv, At, NoWorker
  <2> QED BY <2>3, <2>4, <2>5 DEF PoolOk
<1>2. TypeInv /\ PoolOk /\ [Next]_vars => PoolOk'
  <2> SUFFICES ASSUME TypeInv, PoolOk, [Next]_vars PROVE PoolOk'
    OBVIOUS
  <2>1. CASE Raise \/ Withdraw \/ UNCHANGED vars
    <3>1. /\ UNCHANGED <<workers, len, stateVars, callerVars, wk, faulted>>
          /\ cancel' = cancel \/ (cancel' # "never" /\ (cancel = "never" \/ cancel' = "withdrawn"))
      BY <2>1 DEF Raise, Withdraw, vars, fileVars
    <3> USE DEF stateVars, callerVars, At
    <3>2. PoolInv' /\ CursorInv'
      BY <3>1 DEF PoolOk, PoolInv, CursorInv, BlocksAccounted, Blocks
    <3>3. CauseInv'
      BY <3>1 DEF PoolOk, CauseInv
    <3>4. OkMeansResident'
      BY <3>1 DEF PoolOk, OkMeansResident, Blocks
    <3> QED BY <3>2, <3>3, <3>4 DEF PoolOk
  <2>2. CASE Caller
    BY <2>2, CallerKeeps
  <2>3. CASE \E w \in Pool : Worker(w)
    <3> PICK w \in Pool : Worker(w)
      BY <2>3
    <3>1. result' = "none"
      BY WorkerKeepsPool, WorkerFrame DEF PoolOk
    <3> QED BY <3>1, WorkerKeepsPool, WorkerKeepsCursor, WorkerKeepsCause DEF PoolOk, OkMeansResident
  <2> QED BY <2>1, <2>2, <2>3 DEF Next
<1> QED
  BY <1>1, <1>2, TypeInvariant, PTL DEF Spec

(* For any configured number of workers, zero included, and any length: Ok   *)
(* means that the file is local.                                            *)
THEOREM OkIsResident == Spec => []OkMeansResident
<1>1. PoolOk => OkMeansResident
  BY DEF PoolOk
<1> QED
  BY <1>1, PoolInvariant, PTL

(* No block is handed out twice, and none that was handed out is forgotten. *)
THEOREM Accounted == Spec => []BlocksAccounted
<1>1. PoolOk => BlocksAccounted
  BY DEF PoolOk, CursorInv
<1> QED
  BY <1>1, PoolInvariant, PTL

(* A download nobody cancelled fails only for a cause of its own. *)
THEOREM ErrorHasCause == Spec => []ErrorIsEarned
<1>1. PoolOk => ErrorIsEarned
  BY DEF PoolOk, CauseInv, ErrorIsEarned
<1> QED
  BY <1>1, PoolInvariant, PTL

-----------------------------------------------------------------------------
(* Progress: what is read and not yet counted is in a worker's hands.       *)

Counting == {w \in Pool : At(w, "count")}

ProgressInv ==
    /\ IsFiniteSet(Counting) /\ IsFiniteSet(faulted)
    /\ done + Cardinality(Counting) = Cardinality(faulted)
    /\ result = "none" => seen <= done

(* Steps that neither read nor count a block leave the two sets alone. *)
LEMMA ProgressFrame ==
    ASSUME ProgressInv, Counting' = Counting, UNCHANGED <<done, faulted>>,
           result' = "none" => result = "none" /\ seen' \in {seen, done}, done \in Nat
    PROVE  ProgressInv'
BY DEF ProgressInv

(* A worker reads a block nobody has read, and counts it later. *)
LEMMA WorkerProgress ==
    ASSUME TypeInv, PoolOk, ProgressInv, NEW w \in Pool, Worker(w)
    PROVE  ProgressInv'
<1>1. /\ UNCHANGED <<result, seen>> /\ done \in Nat /\ seen \in Nat
      /\ \A v \in Pool : v # w => wk'[v] = wk[v]
  BY WorkerFrame, WorkerType DEF TypeInv, TypeOK
<1>2. CASE ReadBlock(w)
  <2>1. wk[w].pc = "read" /\ wk'[w].pc = "count" /\ done' = done
        /\ faulted' = faulted \cup {wk[w].off}
    BY <1>2, WorkerFields DEF ReadBlock, At, stateVars
  <2>2. wk[w].off \notin faulted
    BY <2>1 DEF PoolOk, CursorInv, BlocksAccounted, At
  <2>3. w \notin Counting /\ Counting' = Counting \cup {w}
    BY <1>1, <2>1 DEF Counting, At, Pool
  <2>4. /\ IsFiniteSet(Counting') /\ Cardinality(Counting') = Cardinality(Counting) + 1
        /\ IsFiniteSet(faulted') /\ Cardinality(faulted') = Cardinality(faulted) + 1
    BY <2>1, <2>2, <2>3, FS_AddElement DEF ProgressInv
  <2>5. Cardinality(Counting) \in Nat /\ Cardinality(faulted) \in Nat
    BY FS_CardinalityType DEF ProgressInv
  <2> QED BY <1>1, <2>1, <2>4, <2>5 DEF ProgressInv
<1>3. CASE Count(w)
  <2>1. wk[w].pc = "count" /\ wk'[w].pc = "top" /\ done' = done + 1 /\ faulted' = faulted
    BY <1>3, WorkerFields DEF Count, At
  <2>2. w \in Counting /\ Counting' = Counting \ {w}
    BY <1>1, <2>1 DEF Counting, At, Pool
  <2>3. IsFiniteSet(Counting') /\ Cardinality(Counting') = Cardinality(Counting) - 1
    BY <2>2, FS_RemoveElement DEF ProgressInv
  <2>4. Cardinality(Counting) \in Nat /\ Cardinality(faulted) \in Nat
    BY FS_CardinalityType DEF ProgressInv
  <2> QED BY <1>1, <2>1, <2>3, <2>4 DEF ProgressInv
<1>4. CASE ~ReadBlock(w) /\ ~Count(w)
  <2>1. wk[w].pc # "count" /\ wk'[w].pc # "count" /\ UNCHANGED <<done, faulted>>
    BY <1>4, WorkerFields DEF Worker, Open, CheckStop, Claim, ReadFails, SetStop, RecordError,
       Leave, At, stateVars
  <2>2. Counting' = Counting
    BY <1>1, <2>1 DEF Counting, At, Pool
  <2> QED BY <1>1, <2>1, <2>2, ProgressFrame
<1> QED BY <1>2, <1>3, <1>4

(* Until the call returns, what it reports is no more than what was read. *)
THEOREM ProgressReal == Spec => []ProgressIsReal
<1>1. Init => ProgressInv
  <2> SUFFICES ASSUME Init PROVE ProgressInv
    OBVIOUS
  <2>1. Counting = {} /\ faulted = {} /\ done = 0 /\ seen = 0
    BY DEF Init, Counting, At, NoWorker
  <2> QED BY <2>1, FS_EmptySet DEF ProgressInv
<1>2. TypeInv /\ PoolOk /\ ProgressInv /\ [Next]_vars => ProgressInv'
  <2> SUFFICES ASSUME TypeInv, PoolOk, ProgressInv, [Next]_vars PROVE ProgressInv'
    OBVIOUS
  <2>0. done \in Nat
    BY DEF TypeInv, TypeOK
  <2>1. CASE Raise \/ Withdraw \/ UNCHANGED vars
    <3>1. UNCHANGED <<stateVars, callerVars, wk, faulted>> /\ Pool' = Pool
      BY <2>1 DEF Raise, Withdraw, vars, Pool
    <3>2. Counting' = Counting
      BY <3>1 DEF Counting, At
    <3> QED BY <2>0, <3>1, <3>2, ProgressFrame DEF stateVars, callerVars
  <2>2. CASE Caller
    <3>1. CASE SpawnWorkers
      <4>1. \A w \in Pool : wk[w].pc # "count" /\ wk'[w].pc # "count"
        BY <3>1 DEF SpawnWorkers, PoolOk, PoolInv, At, NoWorker
      <4>2. Counting' = Counting
        BY <4>1 DEF Counting, At, Pool
      <4> QED BY <2>0, <3>1, <4>2, ProgressFrame DEF SpawnWorkers, stateVars
    <3>2. CASE ~SpawnWorkers
      <4>1. wk' = wk /\ UNCHANGED <<done, faulted>>
        BY <2>2, <3>2 DEF Caller, EnterReturns, PollCancel, ReportProgress, PollLive,
           JoinWorkers, Judge, stateVars
      <4>2. Counting' = Counting
        BY <4>1 DEF Counting, At, Pool
      <4>3. result' = "none" => result = "none" /\ seen' \in {seen, done}
        BY <2>2, <3>2 DEF Caller, EnterReturns, PollCancel, ReportProgress, PollLive,
           JoinWorkers, Judge, Return, stateVars
      <4> QED BY <2>0, <4>1, <4>2, <4>3, ProgressFrame
    <3> QED BY <3>1, <3>2
  <2>3. CASE \E w \in Pool : Worker(w)
    BY <2>3, WorkerProgress
  <2> QED BY <2>1, <2>2, <2>3 DEF Next
<1>3. TypeInv /\ ProgressInv => ProgressIsReal
  <2> SUFFICES ASSUME TypeInv, ProgressInv PROVE ProgressIsReal
    OBVIOUS
  <2>1. Cardinality(Counting) \in Nat /\ Cardinality(faulted) \in Nat
    BY FS_CardinalityType DEF ProgressInv
  <2> QED BY <2>1 DEF ProgressInv, ProgressIsReal, TypeInv, TypeOK
<1> QED
  BY <1>1, <1>2, <1>3, TypeInvariant, PoolInvariant, PTL DEF Spec
=============================================================================
