------------------------- MODULE ElevatedBurnProofs -------------------------
(***************************************************************************)
(* Proofs about ElevatedBurn, for any number of runs and download threads. *)
(***************************************************************************)
EXTENDS ElevatedBurn, TLAPS

-----------------------------------------------------------------------------
(* Settled rows.  Every recorder leaves a settled row alone, requeue_burn  *)
(* takes back only errors and cancellations, and no action writes the row  *)
(* but through these.                                                      *)

Keeps(r, s) ==
    r.state \in Terminal => s = r \/ (r.state # "success" /\ s.state = "queued")

(* Each UPDATE of the database module keeps a settled row. *)
LEMMA RecordersKeep ==
    /\ \A r : Keeps(r, ResetToQueued(r))
    /\ \A r, pid : Keeps(r, Started(r, pid))
    /\ \A r, code : Keeps(r, Failed(r, code))
    /\ \A r, match : Keeps(r, Completed(r, match))
BY DEF Keeps, Terminal, ResetToQueued, Started, Failed, Completed, Open

(* The row is written by the recorders only, so a settled row is kept by    *)
(* every step of every thread.                                              *)
LEMMA StepKeeps == ASSUME [Next]_vars PROVE Keeps(row, row')
<1> USE RecordersKeep
<1>0. ASSUME UNCHANGED row PROVE Keeps(row, row')
  BY <1>0 DEF Keeps
<1>1. CASE Window
  BY <1>0, <1>1 DEF Window, StartRefused, StartLocal, StartCloud, CancelWrite,
      Requeue, ClearFdaError, dbVars
<1>2. CASE \E t \in Mats : Materialize(t)
  BY <1>0, <1>2 DEF Materialize, MatAnnounce, MatEnter, MatDone, MatCancelled, MatFails,
      FailJob, dbVars
<1>3. CASE \E t \in Threads : BeginBurn(t)
  BY <1>0, <1>3 DEF BeginBurn, InsertActive, Reserve, ReserveRefused,
      ClearSentinel, Spawn, SpawnFails, Stamp, FailJob, dbVars
<1>4. CASE \E r \in Runs : HelperRun(r) \/ WatchSentinel(r) \/ HelperKilled(r)
  BY <1>0, <1>4 DEF HelperRun, AuthDenied, Authorised, OpenTarget, SetupFails,
      NoticeCancel, IoFails, WriteDone, SkipVerify, VerifyDone, HelperExits,
      Report, WatchSentinel, HelperKilled, dbVars
<1>5. CASE \E r \in Runs : TailThread(r) \/ TailProgress(r)
  BY <1>0, <1>5 DEF TailThread, TailStart, TailLine, TailShow, TailEof, TailSleep,
      TailLost, TailShowLost, TailTimeout, TailUnflag, TailRelease, TailProgress,
      RecordLine, dbVars
<1>6. CASE AppDies
  BY <1>0, <1>6 DEF AppDies, dbVars
<1>7. CASE AppStarts
  BY <1>0, <1>7 DEF AppStarts
<1>8. CASE UNCHANGED vars
  BY <1>0, <1>8 DEF vars, dbVars
<1> QED
  BY <1>1, <1>2, <1>3, <1>4, <1>5, <1>6, <1>7, <1>8 DEF Next

(* The doc of record_burn_failed, for every step of every behaviour.        *)
THEOREM SettledKept == Spec => SettledRowKept
<1>1. [Next]_vars => Keeps(row, row')
  BY StepKeeps
<1>2. [Next]_vars => [row.state \in Terminal =>
        row' = row \/ (row.state # "success" /\ row'.state = "queued")]_vars
  BY <1>1 DEF Keeps
<1> QED
  BY <1>2, PTL DEF Spec, SettledRowKept

-----------------------------------------------------------------------------
(* Types.  A run is stamped into the row after it was spawned, and a tail   *)
(* thread shows a verdict after it read one: hence the last two conjuncts.  *)
TypeInv ==
    /\ TypeOK
    /\ \A t \in Threads : thr[t] = "stamp" => spawned # 0
    /\ \A r \in Runs : tail[r].pc \in {"show", "reshow"} => tail[r].verdict \in Shown

(* Each recorder of db/mod.rs turns a row into a row. *)
LEMMA RecordersType ==
    ASSUME NEW r \in Row
    PROVE  /\ ResetToQueued(r) \in Row
           /\ \A pid \in {0} \cup Runs : Started(r, pid) \in Row
           /\ \A code \in Codes : Failed(r, code) \in Row
           /\ \A match \in BOOLEAN : Completed(r, match) \in Row
           /\ \A line \in Line : RecordLine(r, line) \in Row
<1> USE DEF Row, Terminal
<1>1. ResetToQueued(r) \in Row
  BY DEF ResetToQueued, Codes
<1>2. \A pid \in {0} \cup Runs : Started(r, pid) \in Row
  BY DEF Started
<1>3. ASSUME NEW code \in Codes PROVE Failed(r, code) \in Row
  BY DEF Failed
<1>4. ASSUME NEW match \in BOOLEAN PROVE Completed(r, match) \in Row
  <2>1. "none" \in Codes /\ "EHASHMISMATCH" \in Codes
    BY DEF Codes
  <2> QED BY <2>1 DEF Completed
<1>5. ASSUME NEW line \in Line PROVE RecordLine(r, line) \in Row
  <2>1. CASE line.kind \in {"match", "mismatch"}
    BY <2>1, <1>4 DEF RecordLine
  <2>2. CASE line.kind \notin {"match", "mismatch"}
    <3>1. line.kind \in Codes
      BY <2>2 DEF Line, Codes
    <3> QED BY <2>2, <3>1, <1>3 DEF RecordLine
  <2> QED BY <2>1, <2>2
<1> QED BY <1>1, <1>2, <1>3, <1>4, <1>5

(* What a tail thread does to its own state, and what the others do not.    *)
LEMMA TailUpdate ==
    ASSUME tail \in [Runs -> TailState], NEW r \in Runs, NEW t \in TailState,
           TailVars(r, t)
    PROVE  /\ tail' \in [Runs -> TailState]
           /\ tail'[r] = t
           /\ \A s \in Runs : s # r => tail'[s] = tail[s]
BY DEF TailVars

(* What a terminal line makes the window show is one of the settled looks. *)
LEMMA ShownType ==
    /\ \A code : UiError(code) \in Shown
    /\ \A line : ShowLine(line) \in Shown
BY DEF UiError, ShowLine, Shown

(* A tail thread that takes a line keeps the shape of its state.            *)
LEMMA TailReads ==
    ASSUME NEW t \in TailState, NEW pc \in TailPC, NEW pos \in Nat, NEW v \in Shown
    PROVE  LET s == [t EXCEPT !.pc = pc, !.pos = pos, !.verdict = v]
           IN  s \in TailState /\ s.verdict \in Shown
BY DEF TailState

(* Every variable keeps its type. *)
THEOREM TypeInvariant == Spec => []TypeInv
<1> USE ElevatedBurnAssumption DEF TypeInv, TypeOK
<1>1. Init => TypeInv
  <2> SUFFICES ASSUME Init PROVE TypeInv
    OBVIOUS
  <2> USE DEF Init
  <2>1. row \in Row
    BY DEF Row, Codes
  <2>2. helper \in [Runs -> HelperPC] /\ thr \in [Threads -> ThreadPC]
    BY DEF HelperPC, ThreadPC
  <2>3. NoTail \in TailState /\ NoTail.pc = "none"
    BY DEF NoTail, TailState, TailPC
  <2>4. tail \in [Runs -> TailState] /\ \A r \in Runs : tail[r].pc = "none"
    BY <2>3
  <2>5. log \in Seq(Line) /\ spawned \in 0..MaxRuns /\ crashes \in 0..MaxCrashes
    OBVIOUS
  <2>6. \A t \in Threads : thr[t] = "idle"
    OBVIOUS
  <2>7. TypeOK
    BY <2>1, <2>2, <2>4, <2>5
  <2> QED BY <2>4, <2>6, <2>7
<1>2. TypeInv /\ [Next]_vars => TypeInv'
  <2> SUFFICES ASSUME TypeInv, [Next]_vars PROVE TypeInv'
    OBVIOUS
  <2> USE DEF dbVars, registryVars, fileVars, helperVars, appVars
  <2>0. /\ \A code \in {"ENEEDS_FDA", "EHELPER", "EAUTH", "ECANCELLED", "ECLOUD", "EORPHAN"} :
               Failed(row, code) \in Row
        /\ ResetToQueued(row) \in Row /\ Started(row, 0) \in Row
        /\ \A code : UiError(code) \in Shown
    BY RecordersType, ShownType DEF Codes
  <2>1. CASE Window
    <3>1. CASE StartRefused BY <2>0, <3>1 DEF StartRefused, Shown
    <3>2. CASE StartLocal
      <4>1. thr' \in [Threads -> ThreadPC] /\ \A t \in Threads : thr'[t] = "stamp" => thr[t] = "stamp"
        BY <3>2 DEF StartLocal, ThreadPC
      <4> QED BY <3>2, <4>1 DEF StartLocal
    <3>3. CASE StartCloud
      <4>1. thr' \in [Threads -> ThreadPC] /\ \A t \in Threads : thr'[t] = "stamp" => thr[t] = "stamp"
        BY <3>3 DEF StartCloud, ThreadPC, Threads
      <4> QED BY <2>0, <3>3, <4>1 DEF StartCloud
    <3>4. CASE CancelWrite BY <3>4 DEF CancelWrite
    <3>5. CASE Requeue BY <2>0, <3>5 DEF Requeue
    <3>6. CASE ClearFdaError BY <3>6 DEF ClearFdaError
    <3> QED BY <2>1, <3>1, <3>2, <3>3, <3>4, <3>5, <3>6 DEF Window
  <2>2. CASE \E t \in Mats : Materialize(t)
    <3> PICK t \in Mats : Materialize(t)
      BY <2>2
    <3> t \in Threads
      BY DEF Threads
    <3>1. ASSUME NEW pc \in {"idle", "enter", "download", "insert"}, thr' = [thr EXCEPT ![t] = pc]
          PROVE  thr' \in [Threads -> ThreadPC] /\ \A u \in Threads : thr'[u] = "stamp" => thr[u] = "stamp"
      BY <3>1 DEF ThreadPC
    <3>2. CASE MatAnnounce(t) BY <3>1, <3>2 DEF MatAnnounce
    <3>3. CASE MatEnter(t) \/ MatDone(t) BY <3>1, <3>3 DEF MatEnter, MatDone
    <3>4. CASE MatCancelled(t) BY <2>0, <3>1, <3>4 DEF MatCancelled, FailJob
    <3>5. CASE MatFails(t) BY <2>0, <3>1, <3>5 DEF MatFails, FailJob
    <3> QED BY <3>2, <3>3, <3>4, <3>5 DEF Materialize
  <2>3. CASE \E t \in Threads : BeginBurn(t)
    <3> PICK t \in Threads : BeginBurn(t)
      BY <2>3
    <3>0. ASSUME NEW pc \in {"idle", "reserve", "clear", "spawn"}, thr' = [thr EXCEPT ![t] = pc]
          PROVE  thr' \in [Threads -> ThreadPC] /\ \A u \in Threads : thr'[u] = "stamp" => thr[u] = "stamp"
      BY <3>0 DEF ThreadPC
    <3>1. CASE InsertActive(t) BY <3>0, <3>1 DEF InsertActive
    <3>2. CASE Reserve(t) BY <3>0, <3>2 DEF Reserve
    <3>3. CASE ReserveRefused(t)
      BY <2>0, <3>0, <3>3 DEF ReserveRefused, FailJob
    <3>4. CASE ClearSentinel(t) BY <3>0, <3>4 DEF ClearSentinel
    <3>5. CASE Spawn(t)
      <4>1. thr' \in [Threads -> ThreadPC] /\ spawned' \in 0..MaxRuns /\ spawned' # 0
        BY <3>5 DEF Spawn, ThreadPC
      <4>2. helper' \in [Runs -> HelperPC]
        BY <3>5 DEF Spawn, HelperPC
      <4> QED BY <3>5, <4>1, <4>2 DEF Spawn
    <3>6. CASE SpawnFails(t)
      BY <2>0, <3>0, <3>6 DEF SpawnFails, Shown
    <3>7. CASE Stamp(t)
      <4>1. spawned \in Runs
        BY <3>7 DEF Stamp, Runs
      <4>2. row' \in Row
        BY <3>7, <4>1, RecordersType DEF Stamp
      <4>3. [tail[spawned] EXCEPT !.pc = "start"] \in TailState
            /\ [tail[spawned] EXCEPT !.pc = "start"].pc = "start"
        <5>1. tail[spawned] \in TailState /\ "start" \in TailPC
          BY <4>1 DEF TailPC
        <5> QED BY <5>1 DEF TailState
      <4>4. TailVars(spawned, [tail[spawned] EXCEPT !.pc = "start"])
        BY <3>7 DEF Stamp, TailVars
      <4>5. tail' \in [Runs -> TailState]
            /\ \A s \in Runs : tail'[s].pc = "start" \/ tail'[s] = tail[s]
        BY <4>1, <4>3, <4>4, TailUpdate
      <4> QED BY <3>0, <3>7, <4>2, <4>5 DEF Stamp
    <3> QED BY <3>1, <3>2, <3>3, <3>4, <3>5, <3>6, <3>7 DEF BeginBurn
  <2>4. CASE \E r \in Runs : HelperRun(r) \/ WatchSentinel(r) \/ HelperKilled(r)
    <3> PICK r \in Runs : HelperRun(r) \/ WatchSentinel(r) \/ HelperKilled(r)
      BY <2>4
    <3>1. ASSUME NEW kind \in {"match", "mismatch", "EIO", "ENEEDS_FDA", "ECANCELLED"},
                 Report(r, kind)
          PROVE  TypeInv'
      <4>1. log' \in Seq(Line)
        BY <3>1 DEF Report, Line
      <4> QED BY <3>1, <4>1 DEF Report, HelperPC
    <3>2. CASE SetupFails(r) \/ NoticeCancel(r) \/ IoFails(r) \/ SkipVerify(r) \/ VerifyDone(r)
      BY <3>1, <3>2 DEF SetupFails, NoticeCancel, IoFails, SkipVerify, VerifyDone
    <3>3. CASE AuthDenied(r) \/ Authorised(r) \/ OpenTarget(r) \/ WriteDone(r) \/ HelperExits(r)
      BY <3>3 DEF AuthDenied, Authorised, OpenTarget, WriteDone, HelperExits, HelperPC
    <3>4. CASE WatchSentinel(r) \/ HelperKilled(r)
      BY <3>4 DEF WatchSentinel, HelperKilled, HelperPC
    <3> QED BY <3>2, <3>3, <3>4 DEF HelperRun
  <2>5. CASE \E r \in Runs : TailThread(r) \/ TailProgress(r)
    <3> PICK r \in Runs : TailThread(r) \/ TailProgress(r)
      BY <2>5
    <3>0. ASSUME NEW t \in TailState, TailVars(r, t),
                 t.pc \in {"show", "reshow"} => t.verdict \in Shown
          PROVE  /\ tail' \in [Runs -> TailState]
                 /\ \A s \in Runs : tail'[s].pc \in {"show", "reshow"} => tail'[s].verdict \in Shown
      BY <3>0, TailUpdate
    <3>a. ASSUME NEW pc \in TailPC \ {"show", "reshow"},
                 TailVars(r, [tail[r] EXCEPT !.pc = pc])
          PROVE  /\ tail' \in [Runs -> TailState]
                 /\ \A s \in Runs : tail'[s].pc \in {"show", "reshow"} => tail'[s].verdict \in Shown
      <4>1. tail[r] \in TailState
        OBVIOUS
      <4>2. /\ [tail[r] EXCEPT !.pc = pc] \in TailState
            /\ [tail[r] EXCEPT !.pc = pc].pc = pc
        BY <4>1 DEF TailState
      <4> QED BY <3>0, <3>a, <4>2
    <3>1. CASE TailStart(r)
      <4> DEFINE t == [tail[r] EXCEPT
            !.pc = IF @ = "start" THEN "read" ELSE "reread", !.pos = Len(log)]
      <4>1. t \in TailState /\ t.pc \in {"read", "reread"}
        <5>1. tail[r] \in TailState /\ Len(log) \in Nat /\ {"read", "reread"} \subseteq TailPC
          BY DEF TailPC
        <5> QED BY <5>1 DEF TailState
      <4>2. TailVars(r, t)
        BY <3>1 DEF TailStart
      <4> QED BY <3>0, <3>1, <4>1, <4>2 DEF TailStart
    <3>2. CASE TailLine(r)
      <4> DEFINE line == log[tail[r].pos + 1]
                 t == [tail[r] EXCEPT !.pc = IF @ = "read" THEN "show" ELSE "reshow",
                                      !.pos = @ + 1, !.verdict = ShowLine(line)]
      <4>1. line \in Line
        BY <3>2 DEF TailLine, TailState
      <4>2. row' \in Row
        BY <3>2, <4>1, RecordersType DEF TailLine
      <4>3. t \in TailState /\ t.verdict \in Shown
        <5> DEFINE pc == IF tail[r].pc = "read" THEN "show" ELSE "reshow"
                   pos == tail[r].pos + 1
                   v == ShowLine(line)
        <5>1. tail[r] \in TailState /\ v \in Shown /\ pc \in TailPC
          BY <4>1, ShownType DEF TailPC
        <5>2. pos \in Nat
          BY <5>1 DEF TailState
        <5> HIDE DEF pc, pos, v
        <5>3. LET s == [tail[r] EXCEPT !.pc = pc, !.pos = pos, !.verdict = v]
              IN  s \in TailState /\ s.verdict \in Shown
          BY <5>1, <5>2, TailReads
        <5> QED BY <5>3 DEF pc, pos, v
      <4>4. TailVars(r, t)
        BY <3>2 DEF TailLine
      <4> HIDE DEF t
      <4> QED BY <3>0, <3>2, <4>2, <4>3, <4>4 DEF TailLine
    <3>3. CASE TailShow(r)
      <4>1. ui' \in Shown
        BY <3>3 DEF TailShow
      <4>2. TailVars(r, [tail[r] EXCEPT !.pc = IF tail[r].pc = "show" THEN "read" ELSE "reread"])
        BY <3>3 DEF TailShow, TailState
      <4> QED BY <3>3, <3>a, <4>1, <4>2 DEF TailShow, TailPC
    <3>4. CASE TailEof(r)
      <4>1. TailVars(r, [tail[r] EXCEPT !.pc =
                IF tail[r].verdict # "none" THEN "unflag"
                ELSE IF tail[r].pc = "read" THEN "check" ELSE "recheck"])
        BY <3>4 DEF TailEof, TailState
      <4> QED BY <3>4, <3>a, <4>1 DEF TailEof, TailPC
    <3>5. CASE TailSleep(r)
      <4>1. TailVars(r, [tail[r] EXCEPT !.pc = IF tail[r].pc = "check" THEN "read" ELSE "reread"])
        BY <3>5 DEF TailSleep, TailState
      <4> QED BY <3>5, <3>a, <4>1 DEF TailSleep, TailPC
    <3>6. CASE TailLost(r)
      <4>1. LossCode(r) \in {"EHELPER", "EAUTH", "EORPHAN"}
        BY DEF LossCode
      <4> QED BY <2>0, <3>6, <3>a, <4>1 DEF TailLost, TailPC
    <3>7. CASE TailShowLost(r) BY <3>7, <3>a DEF TailShowLost, Shown, TailPC
    <3>8. CASE TailTimeout(r)
      <4> DEFINE t == [tail[r] EXCEPT !.pc = "unflag", !.verdict = "late"]
      <4>1. t \in TailState /\ t.pc = "unflag"
        <5>1. tail[r] \in TailState /\ "unflag" \in TailPC
          BY DEF TailPC
        <5> QED BY <5>1 DEF TailState
      <4>2. TailVars(r, t)
        BY <3>8 DEF TailTimeout
      <4> HIDE DEF t
      <4> QED BY <3>0, <3>8, <4>1, <4>2 DEF TailTimeout
    <3>9. CASE TailUnflag(r) BY <3>9, <3>a DEF TailUnflag, TailPC
    <3>10. CASE TailRelease(r) BY <3>10, <3>a DEF TailRelease, TailPC
    <3>11. CASE TailProgress(r) BY <3>11 DEF TailProgress
    <3> QED
      BY <3>1, <3>2, <3>3, <3>4, <3>5, <3>6, <3>7, <3>8, <3>9, <3>10, <3>11 DEF TailThread
  <2>6. CASE AppDies
    <3>1. NoTail \in TailState /\ NoTail.pc = "none"
      BY DEF NoTail, TailState, TailPC
    <3>2. thr' \in [Threads -> ThreadPC]
      BY <2>6 DEF AppDies, ThreadPC
    <3>3. /\ tail' \in [Runs -> TailState]
          /\ \A r \in Runs : tail'[r].pc = "none"
      BY <2>6, <3>1 DEF AppDies
    <3>4. \A t \in Threads : thr'[t] = "idle"
      BY <2>6 DEF AppDies
    <3>5. crashes' \in 0..MaxCrashes
      BY <2>6 DEF AppDies
    <3>6. TypeOK'
      BY <2>6, <3>2, <3>3, <3>5 DEF AppDies
    <3>7. \A t \in Threads : thr'[t] # "stamp"
      BY <3>4
    <3>8. \A r \in Runs : tail'[r].pc \notin {"show", "reshow"}
      BY <3>3
    <3> QED BY <3>6, <3>7, <3>8
  <2>7. CASE AppStarts
    <3>1. row' \in Row
      BY <2>0, <2>7 DEF AppStarts
    <3>2. ui' \in Shown \cup {"idle", "working"}
      BY <2>0, <2>7, <3>1 DEF AppStarts, Hydrated, Shown
    <3>3. CASE Reattachable
      <4>1. row.pid \in Runs
        BY <3>3 DEF Reattachable, Row
      <4>2. [tail[row.pid] EXCEPT !.pc = "restart"] \in TailState
            /\ [tail[row.pid] EXCEPT !.pc = "restart"].pc = "restart"
        <5> DEFINE own == tail[row.pid]
        <5>1. own \in TailState /\ "restart" \in TailPC
          BY <4>1 DEF TailPC
        <5> HIDE DEF own
        <5>2. [own EXCEPT !.pc = "restart"] \in TailState
              /\ [own EXCEPT !.pc = "restart"].pc = "restart"
          BY <5>1 DEF TailState
        <5> QED BY <5>2 DEF own
      <4>3. TailVars(row.pid, [tail[row.pid] EXCEPT !.pc = "restart"])
        BY <2>7, <3>3 DEF AppStarts, TailVars
      <4>4. tail' \in [Runs -> TailState]
            /\ \A s \in Runs : tail'[s].pc = "restart" \/ tail'[s] = tail[s]
        BY <4>1, <4>2, <4>3, TailUpdate
      <4> QED BY <2>7, <3>1, <3>2, <3>3, <4>4 DEF AppStarts
    <3>4. CASE ~Reattachable
      BY <2>7, <3>1, <3>2, <3>4 DEF AppStarts
    <3> QED BY <3>3, <3>4
  <2>8. CASE UNCHANGED vars
    BY <2>8 DEF vars
  <2> QED
    BY <2>1, <2>2, <2>3, <2>4, <2>5, <2>6, <2>7, <2>8 DEF Next
<1> QED
  BY <1>1, <1>2, PTL DEF Spec

(* TypeOK, which every run checks, holds for all constants.                 *)
THEOREM TypeCorrect == Spec => []TypeOK
<1>1. TypeInv => TypeOK
  BY DEF TypeInv
<1> QED
  BY <1>1, TypeInvariant, PTL

-----------------------------------------------------------------------------
(* The slot has one owner even when the app dies and burns last long.       *)

(* A step of the helper, or of a thread outside the reserved part.          *)
LEMMA OwnerFrame ==
    ASSUME OwnerInv, UNCHANGED <<slot, spawned, tail, up>>,
           \A t \in Threads : Busy(t)' <=> Busy(t),
           \A t \in Threads : thr'[t] = "stamp" <=> thr[t] = "stamp",
           ~up => UNCHANGED thr,
           \A r \in Runs : helper[r] = "unborn" => helper'[r] = "unborn"
    PROVE  OwnerInv'
<1>1. SlotOwned'
  BY DEF OwnerInv, SlotOwned, Tailing
<1>2. FreshRuns'
  BY DEF OwnerInv, FreshRuns
<1>3. ~up => Quiet'
  BY DEF OwnerInv, Quiet
<1> QED BY <1>1, <1>2, <1>3 DEF OwnerInv

(* A tail thread moves on and keeps the slot. *)
LEMMA OwnerTail ==
    ASSUME OwnerInv, UNCHANGED <<slot, spawned, helper, thr, up>>,
           NEW r \in Runs, Tailing(r), Tailing(r)',
           \A s \in Runs : s # r => tail'[s] = tail[s]
    PROVE  OwnerInv'
<1>1. \A s \in Runs : Tailing(s)' <=> Tailing(s)
  BY DEF Tailing
<1>2. SlotOwned'
  BY <1>1 DEF OwnerInv, SlotOwned, Busy
<1>3. /\ tail[r] # NoTail
      /\ \A t \in Threads : thr[t] # "stamp"
  BY DEF OwnerInv, SlotOwned, Busy, Tailing, NoTail
<1>4. FreshRuns'
  BY <1>3 DEF OwnerInv, FreshRuns
<1>5. up
  BY <1>3 DEF OwnerInv, Quiet
<1> QED BY <1>2, <1>4, <1>5 DEF OwnerInv

(* spawn_elevated_burn: reserve, spawn and stamp pass the slot on. *)
LEMMA OwnerBegin ==
    ASSUME TypeInv, OwnerInv, NEW t \in Threads, BeginBurn(t)
    PROVE  OwnerInv'
<1> USE DEF TypeInv, TypeOK, dbVars, registryVars, fileVars, helperVars, appVars
<1>0. up
  BY DEF OwnerInv, Quiet, BeginBurn, InsertActive, Reserve, ReserveRefused, ClearSentinel,
         Spawn, SpawnFails, Stamp
<1>1. CASE InsertActive(t) \/ ReserveRefused(t)
  BY <1>0, <1>1, OwnerFrame DEF InsertActive, ReserveRefused, FailJob, Busy
<1>2. CASE ClearSentinel(t)
  BY <1>0, <1>2, OwnerFrame DEF ClearSentinel, Busy
<1>3. CASE Reserve(t)
  <2>1. /\ \A u \in Threads : ~Busy(u) /\ \A r \in Runs : ~Tailing(r)
        /\ slot' /\ thr'[t] = "clear"
        /\ \A u \in Threads : u # t => thr'[u] = thr[u]
        /\ UNCHANGED <<spawned, helper, tail, up>>
    BY <1>3 DEF Reserve, OwnerInv, SlotOwned
  <2>2. SlotOwned'
    BY <2>1 DEF SlotOwned, Busy, Tailing
  <2>3. \A u \in Threads : thr'[u] # "stamp"
    BY <2>1 DEF Busy
  <2>4. FreshRuns'
    BY <2>1, <2>3 DEF OwnerInv, FreshRuns
  <2> QED BY <1>0, <2>1, <2>2, <2>4 DEF OwnerInv
<1>4. CASE Spawn(t)
  <2>1. /\ thr[t] = "spawn" /\ spawned' = spawned + 1 /\ spawned' \in Runs
        /\ \A u \in Threads : thr'[u] = IF u = t THEN "stamp" ELSE thr[u]
        /\ \A r \in Runs : helper'[r] = IF r = spawned' THEN "prompt" ELSE helper[r]
        /\ UNCHANGED <<slot, tail, up>>
    BY <1>4, ElevatedBurnAssumption DEF Spawn, Runs
  <2>2. \A u \in Threads : Busy(u)' <=> Busy(u)
    BY <2>1 DEF Busy
  <2>3. SlotOwned'
    BY <2>1, <2>2 DEF OwnerInv, SlotOwned, Tailing
  <2>4. spawned' # 0 /\ tail[spawned'] = NoTail
    BY <2>1 DEF OwnerInv, FreshRuns, Runs
  <2>5. \A r \in Runs : r > spawned' => helper'[r] = "unborn" /\ tail'[r] = NoTail
    BY <2>1 DEF OwnerInv, FreshRuns, Runs
  <2>6. FreshRuns'
    BY <2>1, <2>4, <2>5 DEF FreshRuns
  <2> QED BY <1>0, <2>1, <2>3, <2>6 DEF OwnerInv
<1>5. CASE SpawnFails(t)
  <2>1. /\ Busy(t)
        /\ \A u \in Threads : thr'[u] = IF u = t THEN "idle" ELSE thr[u]
        /\ UNCHANGED <<spawned, helper, tail, up>>
    BY <1>5 DEF SpawnFails, Busy
  <2>2. /\ \A u \in Threads : ~Busy(u)' /\ thr'[u] # "stamp"
        /\ \A r \in Runs : ~Tailing(r)
    BY <2>1 DEF OwnerInv, SlotOwned, Busy
  <2>3. SlotOwned' /\ FreshRuns'
    BY <2>1, <2>2 DEF OwnerInv, SlotOwned, FreshRuns, Tailing
  <2> QED BY <1>0, <2>1, <2>3 DEF OwnerInv
<1>6. CASE Stamp(t)
  <2> DEFINE first == [tail[spawned] EXCEPT !.pc = "start"]
  <2>1. thr[t] = "stamp" /\ Busy(t) /\ spawned \in Runs
    BY <1>6 DEF Stamp, OwnerInv, FreshRuns, Runs, Busy
  <2>2. tail'[spawned] = first /\ \A s \in Runs : s # spawned => tail'[s] = tail[s]
    BY <1>6, <2>1 DEF Stamp
  <2>3. /\ \A u \in Threads : thr'[u] = IF u = t THEN "idle" ELSE thr[u]
        /\ UNCHANGED <<slot, spawned, helper, up>>
    BY <1>6 DEF Stamp
  <2>4. /\ \A u \in Threads : ~Busy(u)' /\ thr'[u] # "stamp"
        /\ slot /\ \A r \in Runs : ~Tailing(r)
    BY <2>1, <2>3 DEF OwnerInv, SlotOwned, Busy
  <2>5. \A r \in Runs : Tailing(r)' => r = spawned
    BY <2>2, <2>4 DEF Tailing
  <2>6. SlotOwned'
    BY <2>3, <2>4, <2>5 DEF SlotOwned
  <2>7. FreshRuns'
    BY <2>2, <2>3, <2>4 DEF OwnerInv, FreshRuns, Runs
  <2> QED BY <1>0, <2>3, <2>6, <2>7 DEF OwnerInv
<1> QED BY <1>1, <1>2, <1>3, <1>4, <1>5, <1>6 DEF BeginBurn

(* The program counters a tail thread's step leaves and reaches. *)
LEMMA TailMoves ==
    ASSUME TypeInv, NEW r \in Runs, TailThread(r)
    PROVE  /\ Tailing(r)
           /\ tail'[r].pc # "none"
           /\ TailRelease(r) => tail'[r].pc = "done"
           /\ ~TailRelease(r) => tail'[r].pc # "done"
           /\ \A s \in Runs : s # r => tail'[s] = tail[s]
           /\ UNCHANGED <<spawned, helper, thr, up>>
           /\ TailRelease(r) \/ UNCHANGED slot
<1> USE DEF TypeInv, TypeOK, fileVars, registryVars, helperVars
<1>0. tail[r] \in TailState
  OBVIOUS
<1>r. TailRelease(r) => tail[r].pc = "release"
  BY DEF TailRelease
<1>1. CASE TailStart(r)
  BY <1>0, <1>r, <1>1 DEF TailStart, TailVars, Tailing, TailState
<1>2. CASE TailLine(r)
  BY <1>0, <1>r, <1>2 DEF TailLine, TailVars, Tailing, TailState, Reading
<1>3. CASE TailShow(r)
  BY <1>0, <1>r, <1>3 DEF TailShow, TailVars, Tailing, TailState
<1>4. CASE TailEof(r)
  BY <1>0, <1>r, <1>4 DEF TailEof, TailVars, Tailing, TailState, Reading
<1>5. CASE TailSleep(r)
  BY <1>0, <1>r, <1>5 DEF TailSleep, TailVars, Tailing, TailState, Checking
<1>6. CASE TailLost(r)
  BY <1>0, <1>r, <1>6 DEF TailLost, TailVars, Tailing, TailState, Checking
<1>7. CASE TailShowLost(r)
  BY <1>0, <1>r, <1>7 DEF TailShowLost, TailVars, Tailing, TailState
<1>8. CASE TailTimeout(r)
  BY <1>0, <1>r, <1>8 DEF TailTimeout, TailVars, Tailing, TailState, Checking
<1>9. CASE TailUnflag(r)
  BY <1>0, <1>r, <1>9 DEF TailUnflag, TailVars, Tailing, TailState
<1>10. CASE TailRelease(r)
  BY <1>0, <1>10 DEF TailRelease, TailVars, Tailing, TailState
<1> QED
  BY <1>1, <1>2, <1>3, <1>4, <1>5, <1>6, <1>7, <1>8, <1>9, <1>10 DEF TailThread

(* The slot has one owner, whatever dies and however long it takes. *)
THEOREM OwnerInvariant == Spec => []OwnerInv
<1>1. Init => OwnerInv
  BY DEF Init, OwnerInv, SlotOwned, FreshRuns, Busy, Tailing, NoTail
<1>2. TypeInv /\ OwnerInv /\ [Next]_vars => OwnerInv'
  <2> SUFFICES ASSUME TypeInv, OwnerInv, [Next]_vars PROVE OwnerInv'
    OBVIOUS
  <2> USE DEF dbVars, registryVars, fileVars, helperVars, appVars
  <2>t. helper \in [Runs -> HelperPC] /\ thr \in [Threads -> ThreadPC] /\ log \in Seq(Line)
    BY DEF TypeInv, TypeOK
  <2>1. CASE Window
    <3>1. /\ up /\ UNCHANGED <<slot, spawned, helper, tail, up>>
          /\ \A t \in Threads : thr'[t] = thr[t] \/
                (thr[t] = "idle" /\ thr'[t] \in {"insert", "announce"})
      BY <2>t, <2>1 DEF Window, StartRefused, StartLocal, StartCloud, CancelWrite, Requeue,
          ClearFdaError, CanStart, Command
    <3>2. /\ \A t \in Threads : Busy(t)' <=> Busy(t)
          /\ \A t \in Threads : thr'[t] = "stamp" <=> thr[t] = "stamp"
      BY <3>1 DEF Busy
    <3> QED BY <3>1, <3>2, OwnerFrame
  <2>2. CASE \E t \in Mats : Materialize(t)
    <3>1. /\ UNCHANGED <<slot, spawned, helper, tail, up>>
          /\ \E t \in Threads : thr[t] # "idle"
          /\ \A t \in Threads : thr'[t] = thr[t] \/
                (thr[t] \in {"announce", "enter", "download"} /\
                    thr'[t] \in {"enter", "download", "insert", "idle"})
      BY <2>t, <2>2 DEF Materialize, MatAnnounce, MatEnter, MatDone, MatCancelled, MatFails, FailJob,
          Threads
    <3>2. /\ \A t \in Threads : Busy(t)' <=> Busy(t)
          /\ \A t \in Threads : thr'[t] = "stamp" <=> thr[t] = "stamp"
      BY <3>1 DEF Busy
    <3>3. up
      BY <3>1 DEF OwnerInv, Quiet
    <3> QED BY <3>1, <3>2, <3>3, OwnerFrame
  <2>3. CASE \E t \in Threads : BeginBurn(t)
    BY <2>3, OwnerBegin
  <2>4. CASE \E r \in Runs : HelperRun(r) \/ WatchSentinel(r) \/ HelperKilled(r)
    <3>1. /\ UNCHANGED <<slot, spawned, thr, tail, up>>
          /\ \A r \in Runs : helper[r] = "unborn" => helper'[r] = "unborn"
      BY <2>t, <2>4 DEF HelperRun, AuthDenied, Authorised, OpenTarget, SetupFails, NoticeCancel,
          IoFails, WriteDone, SkipVerify, VerifyDone, HelperExits, Report, WatchSentinel,
          HelperKilled, Writing
    <3>2. \A t \in Threads : Busy(t)' <=> Busy(t)
      BY <3>1 DEF Busy
    <3> QED BY <3>1, <3>2, OwnerFrame
  <2>5. CASE \E r \in Runs : TailThread(r)
    <3> PICK r \in Runs : TailThread(r)
      BY <2>5
    <3>1. CASE tail'[r].pc # "done" /\ UNCHANGED slot
      BY <3>1, TailMoves, OwnerTail DEF Tailing
    <3>2. CASE TailRelease(r)
      <4>1. /\ Tailing(r) /\ tail'[r].pc = "done"
            /\ \A s \in Runs : s # r => tail'[s] = tail[s]
            /\ UNCHANGED <<spawned, helper, thr, up>>
        BY <3>2, TailMoves
      <4>2. /\ \A t \in Threads : ~Busy(t) /\ thr[t] # "stamp"
            /\ \A s \in Runs : ~Tailing(s)'
            /\ tail[r] # NoTail /\ up
        BY <4>1 DEF OwnerInv, SlotOwned, Busy, Tailing, Quiet, NoTail
      <4>3. SlotOwned'
        BY <4>1, <4>2 DEF SlotOwned, Busy
      <4>4. FreshRuns'
        BY <4>1, <4>2 DEF OwnerInv, FreshRuns
      <4> QED BY <4>1, <4>2, <4>3, <4>4 DEF OwnerInv
    <3> QED BY <3>1, <3>2, TailMoves
  <2>6. CASE \E r \in Runs : TailProgress(r)
    <3>1. UNCHANGED <<slot, spawned, helper, thr, tail, up>>
      BY <2>6 DEF TailProgress
    <3>2. \A t \in Threads : Busy(t)' <=> Busy(t)
      BY <3>1 DEF Busy
    <3> QED BY <3>1, <3>2, OwnerFrame
  <2>7. CASE AppDies
    <3>1. /\ ~slot' /\ ~up' /\ UNCHANGED <<spawned, helper>>
          /\ \A t \in Threads : thr'[t] = "idle"
          /\ \A r \in Runs : tail'[r] = NoTail
      BY <2>7 DEF AppDies
    <3>2. SlotOwned' /\ FreshRuns'
      BY <3>1 DEF OwnerInv, SlotOwned, FreshRuns, Busy, Tailing, NoTail
    <3> QED BY <3>1, <3>2 DEF OwnerInv, Quiet
  <2>8. CASE AppStarts
    <3>1. Quiet /\ up' /\ UNCHANGED <<spawned, helper, thr>>
      BY <2>8 DEF AppStarts, OwnerInv
    <3>2. CASE Reattachable
      <4>0. row.pid \in Runs /\ helper[row.pid] # "unborn"
        BY <3>2 DEF Reattachable, TypeInv, TypeOK, Row, OsascriptLive, Writing
      <4>p. slot' /\ tail' = [tail EXCEPT ![row.pid].pc = "restart"]
        BY <2>8, <3>2 DEF AppStarts
      <4>q. \A s \in Runs : s # row.pid => tail'[s] = NoTail
        BY <3>1, <4>0, <4>p DEF Quiet, TypeInv, TypeOK
      <4>1. /\ row.pid \in Runs /\ helper[row.pid] # "unborn" /\ slot'
            /\ \A s \in Runs : s # row.pid => tail'[s] = NoTail
        BY <4>0, <4>p, <4>q
      <4>2. \A t \in Threads : ~Busy(t)' /\ thr'[t] # "stamp"
        BY <3>1 DEF Quiet, Busy
      <4>3. SlotOwned'
        BY <4>1, <4>2 DEF SlotOwned, Tailing, NoTail
      <4>4. FreshRuns'
        BY <3>1, <4>1, <4>2 DEF OwnerInv, FreshRuns
      <4> QED BY <3>1, <4>3, <4>4 DEF OwnerInv
    <3>3. CASE ~Reattachable
      <4>1. UNCHANGED <<slot, spawned, helper, thr, tail>>
        BY <2>8, <3>1, <3>3 DEF AppStarts
      <4> QED BY <3>1, <4>1 DEF OwnerInv, SlotOwned, FreshRuns, Busy, Tailing
    <3> QED BY <3>2, <3>3
  <2>9. CASE UNCHANGED vars
    BY <2>9 DEF vars, OwnerInv, SlotOwned, FreshRuns, Quiet, Busy, Tailing
  <2> QED
    BY <2>1, <2>2, <2>3, <2>4, <2>5, <2>6, <2>7, <2>8, <2>9 DEF Next
<1> QED
  BY <1>1, <1>2, TypeInvariant, PTL DEF Spec

-----------------------------------------------------------------------------
(* Lateness.  Only a death of the app makes good for a tail thread that gave *)
(* up: what Steady and Followed exclude stays excluded.                      *)

LateInv ==
    \A r \in Runs : tail[r].verdict = "late" => tail[r].pc \in {"unflag", "release", "done"}

(* A tail thread's own step: it gives up, or its verdict is late no more     *)
(* than it was before.                                                       *)
LEMMA TailLate ==
    ASSUME TypeInv, LateInv, NEW r \in Runs, TailThread(r)
    PROVE  /\ tail'[r].verdict = "late" => tail'[r].pc \in {"unflag", "release", "done"}
           /\ tail[r].verdict = "late" => tail'[r].verdict = "late"
           /\ TailTimeout(r) => tail'[r].verdict = "late"
<1> USE DEF TypeInv, TypeOK, TailVars
<1>0. /\ tail[r] \in TailState
      /\ tail[r].verdict = "late" => tail[r].pc \in {"unflag", "release", "done"}
  BY DEF LateInv
<1>t. TailTimeout(r) => tail'[r].verdict = "late" /\ tail'[r].pc = "unflag"
  BY <1>0 DEF TailTimeout, TailState
<1>s. CASE TailStart(r)
  <2>1. tail'[r].verdict = tail[r].verdict /\ tail[r].verdict # "late"
    BY <1>0, <1>s DEF TailStart, TailState
  <2> QED BY <1>t, <2>1
<1>1. CASE TailSleep(r)
  BY <1>0, <1>t, <1>1 DEF TailSleep, TailState, Checking
<1>2. CASE TailLine(r)
  <2>1. ShowLine(log[tail[r].pos + 1]) # "late"
    BY ShownType DEF Shown
  <2> QED BY <1>0, <1>t, <1>2, <2>1 DEF TailLine, TailState, Reading
<1>3. CASE TailShow(r) \/ TailEof(r)
  BY <1>0, <1>t, <1>3 DEF TailShow, TailEof, TailState, Reading
<1>4. CASE TailLost(r) \/ TailShowLost(r)
  BY <1>0, <1>t, <1>4 DEF TailLost, TailShowLost, TailState, Checking
<1>5. CASE TailTimeout(r)
  BY <1>0, <1>t, <1>5 DEF TailState
<1>6. CASE TailUnflag(r) \/ TailRelease(r)
  BY <1>0, <1>t, <1>6 DEF TailUnflag, TailRelease, TailState
<1> QED
  BY <1>s, <1>1, <1>2, <1>3, <1>4, <1>5, <1>6 DEF TailThread

(* Who moves the tail threads, apart from themselves. *)
LEMMA TailOthers ==
    ASSUME TypeInv, OwnerInv, [Next]_vars,
           ~ \E r \in Runs : TailThread(r)
    PROVE  \/ UNCHANGED tail
           \/ AppDies /\ \A r \in Runs : tail'[r] = NoTail
           \/ \E r \in Runs : /\ tail[r] = NoTail /\ tail'[r].verdict = "none"
                              /\ \A s \in Runs : s # r => tail'[s] = tail[s]
<1> USE DEF TypeInv, TypeOK, dbVars, registryVars, fileVars, helperVars, appVars
<1>1. CASE \E t \in Threads : Stamp(t)
  BY <1>1 DEF Stamp, OwnerInv, FreshRuns, NoTail, Runs
<1>2. CASE AppStarts
  <2>1. CASE Reattachable
    <3>1. row.pid \in Runs /\ tail' = [tail EXCEPT ![row.pid].pc = "restart"]
      BY <1>2, <2>1 DEF AppStarts, Reattachable, Row
    <3>2. tail[row.pid] = NoTail
      BY <1>2, <3>1 DEF AppStarts, OwnerInv, Quiet
    <3> QED BY <3>1, <3>2 DEF NoTail
  <2> QED BY <1>2, <2>1 DEF AppStarts
<1>3. CASE AppDies
  BY <1>3 DEF AppDies
<1>4. CASE Window \/ (\E t \in Mats : Materialize(t))
  BY <1>4 DEF Window, StartRefused, StartLocal, StartCloud, CancelWrite, Requeue, ClearFdaError,
      Materialize, MatAnnounce, MatEnter, MatDone, MatCancelled, MatFails
<1>5. CASE \E t \in Threads : BeginBurn(t) /\ ~Stamp(t)
  BY <1>5 DEF BeginBurn, InsertActive, Reserve, ReserveRefused, ClearSentinel, Spawn, SpawnFails
<1>6. CASE \E r \in Runs : HelperRun(r) \/ WatchSentinel(r) \/ HelperKilled(r) \/ TailProgress(r)
  BY <1>6 DEF HelperRun, AuthDenied, Authorised, OpenTarget, SetupFails, NoticeCancel, IoFails,
      WriteDone, SkipVerify, VerifyDone, HelperExits, Report, WatchSentinel, HelperKilled,
      TailProgress
<1> QED
  BY <1>1, <1>2, <1>3, <1>4, <1>5, <1>6 DEF Next, vars

(* A tail thread that gave up reads no more. *)
THEOREM LateInvariant == Spec => []LateInv
<1>1. Init => LateInv
  BY DEF Init, LateInv, NoTail
<1>2. TypeInv /\ OwnerInv /\ LateInv /\ [Next]_vars => LateInv'
  <2> SUFFICES ASSUME TypeInv, OwnerInv, LateInv, [Next]_vars PROVE LateInv'
    OBVIOUS
  <2>1. CASE \E r \in Runs : TailThread(r)
    BY <2>1, TailLate, TailMoves DEF LateInv
  <2>2. CASE ~ \E r \in Runs : TailThread(r)
    BY <2>2, TailOthers DEF LateInv, NoTail
  <2> QED BY <2>1, <2>2
<1> QED
  BY <1>1, <1>2, TypeInvariant, OwnerInvariant, PTL DEF Spec

(* Followed and Steady hold before a step if they hold after it. *)
LEMMA FollowedBefore ==
    ASSUME TypeInv, OwnerInv, LateInv, [Next]_vars, Followed'
    PROVE  Followed \/ AppDies
<1>1. CASE \E r \in Runs : TailThread(r)
  BY <1>1, TailLate, TailMoves DEF Followed
<1>2. CASE ~ \E r \in Runs : TailThread(r)
  BY <1>2, TailOthers DEF Followed, NoTail
<1> QED BY <1>1, <1>2

(* No step makes an app steady that was not, and a death is not steady. *)
LEMMA SteadyBefore ==
    ASSUME TypeInv, OwnerInv, LateInv, [Next]_vars, Steady'
    PROVE  Steady /\ ~AppDies
<1>1. ~AppDies
  BY DEF AppDies, Steady, TypeInv, TypeOK
<1>2. Followed
  BY <1>1, FollowedBefore DEF Steady
<1>3. crashes = 0
  <2>1. UNCHANGED crashes
    BY <1>1 DEF Next, vars, appVars, Window, StartRefused, StartLocal, StartCloud, CancelWrite,
        Requeue, ClearFdaError, Materialize, MatAnnounce, MatEnter, MatDone, MatCancelled, MatFails,
        BeginBurn, InsertActive, Reserve, ReserveRefused, ClearSentinel, Spawn, SpawnFails, Stamp,
        HelperRun, AuthDenied, Authorised, OpenTarget, SetupFails, NoticeCancel, IoFails,
        WriteDone, SkipVerify, VerifyDone, HelperExits, Report, WatchSentinel, HelperKilled,
        TailThread, TailStart, TailLine, TailShow, TailEof, TailSleep, TailLost, TailShowLost,
        TailTimeout, TailUnflag, TailRelease, TailProgress, AppStarts
  <2> QED BY <2>1 DEF Steady
<1> QED BY <1>1, <1>2, <1>3 DEF Steady

-----------------------------------------------------------------------------
(* One writer.  SessionInv is kept by every step that keeps Steady, that is *)
(* by all but a death of the app and a tail thread that gives up: the five  *)
(* lemmas say so of the steps                                               *)
(* that write nothing it speaks of, of those that move a thread outside the *)
(* reserved part of spawn_elevated_burn, of the helper's and of the tail's. *)

Moved == <<slot, spawned, helper, log, thr, tail, up>>

(* A step that touches none of what the ownership of the slot is about. *)
LEMMA FrameKeeps == ASSUME SessionInv, UNCHANGED Moved PROVE SessionInv'
BY DEF SessionInv, SlotOwned, RunOwned, FreshRuns, LinesOwned, Moved, Busy, Tailing, Working, Writing

(* A thread moves, but neither into nor out of the reserved part. *)
LEMMA ThreadKeeps ==
    ASSUME SessionInv, UNCHANGED <<slot, spawned, helper, log, tail, up>>,
           \A t \in Threads : thr'[t] \in {"clear", "spawn", "stamp"} <=>
                                thr[t] \in {"clear", "spawn", "stamp"},
           \A t \in Threads : thr'[t] = "stamp" <=> thr[t] = "stamp"
    PROVE  SessionInv'
<1>1. SlotOwned'
  BY DEF SessionInv, SlotOwned, Tailing, Busy
<1>2. RunOwned' /\ LinesOwned'
  BY DEF SessionInv, RunOwned, FreshRuns, LinesOwned, Working, Writing
<1> QED BY <1>1, <1>2 DEF SessionInv

(* The lines of the progress file were written by runs. *)
LEMMA LineRuns ==
    ASSUME log \in Seq(Line) PROVE \A i \in 1..Len(log) : log[i].run \in Runs
<1>1. \A i \in 1..Len(log) : log[i] \in Line
  OBVIOUS
<1> QED BY <1>1 DEF Line

(* A helper moves on without starting work or writing a line. *)
LEMMA HelperKeeps ==
    ASSUME SessionInv, UNCHANGED <<slot, spawned, log, thr, tail, up>>,
           log \in Seq(Line),
           \A r \in Runs : Working(r)' => Working(r),
           \A r \in Runs : helper[r] = "unborn" => helper'[r] = "unborn",
           \A r \in Runs : helper[r] \in {"reported", "exited"} =>
                            helper'[r] \in {"reported", "exited"}
    PROVE  SessionInv'
<1>1. SlotOwned'
  BY DEF SessionInv, SlotOwned, Tailing, Busy
<1>2. RunOwned'
  BY DEF SessionInv, RunOwned, FreshRuns
<1>3. LinesOwned'
  <2>1. \A i \in 1..Len(log) : log[i].run \in Runs
    BY LineRuns
  <2> QED BY <2>1 DEF SessionInv, LinesOwned
<1> QED BY <1>1, <1>2, <1>3 DEF SessionInv

(* A run that works has a follower, and nobody else follows a file then.     *)
LEMMA Follower ==
    ASSUME SessionInv, NEW r \in Runs, Working(r), NEW s \in Runs, Tailing(s)
    PROVE  s = r
<1>1. CASE tail[r].pc \in {"start", "read", "check"}
  BY <1>1 DEF SessionInv, SlotOwned, Tailing
<1>2. CASE \E t \in Threads : thr[t] = "stamp"
  BY <1>2 DEF SessionInv, SlotOwned, Busy
<1> QED BY <1>1, <1>2 DEF SessionInv, RunOwned, FreshRuns

(* A helper's terminal line is one more line its follower has not read. *)
LEMMA ReportKeeps ==
    ASSUME TypeInv, SessionInv, NEW r \in Runs, Writing(r), NEW kind, Report(r, kind)
    PROVE  SessionInv'
<1> USE DEF TypeInv, TypeOK
<1>0. /\ UNCHANGED <<slot, spawned, thr, tail, up>>
      /\ \A s \in Runs : helper'[s] = IF s = r THEN "reported" ELSE helper[s]
      /\ Working(r) /\ helper[r] # "unborn"
  BY DEF Report, registryVars, helperVars, appVars, Working, Writing
<1>1. SlotOwned'
  BY <1>0 DEF SessionInv, SlotOwned, Tailing, Busy
<1>2. RunOwned'
  <2>1. \A s \in Runs : Working(s)' => Working(s)
    BY <1>0 DEF Working, Writing
  <2>2. \A s \in Runs : helper[s] = "unborn" => helper'[s] = "unborn"
    BY <1>0
  <2> QED BY <1>0, <2>1, <2>2 DEF SessionInv, RunOwned, FreshRuns
<1>3. LinesOwned'
  <2>1. /\ Len(log') = Len(log) + 1
        /\ \A i \in 1..Len(log) : log'[i] = log[i] /\ log[i].run \in Runs
        /\ log'[Len(log) + 1].run = r
    BY LineRuns DEF Report
  <2>2. ASSUME NEW i \in 1..Len(log')
        PROVE  helper'[log'[i].run] \in {"reported", "exited"}
    BY <1>0, <2>1 DEF SessionInv, LinesOwned
  <2>3. ASSUME NEW s \in Runs, tail[s].pc \in {"read", "check", "show"},
               NEW i \in 1..Len(log'), i > tail[s].pos
        PROVE  log'[i].run = s
    <3>1. CASE i \in 1..Len(log)
      BY <2>1, <2>3, <3>1 DEF SessionInv, LinesOwned
    <3>2. CASE i = Len(log) + 1
      BY <1>0, <2>1, <2>3, <3>2, Follower DEF Tailing
    <3> QED BY <2>1, <3>1, <3>2
  <2> QED BY <1>0, <2>2, <2>3 DEF LinesOwned
<1> QED BY <1>0, <1>1, <1>2, <1>3 DEF SessionInv

(* A tail thread that follows its own run, or a run that is over, moves on. *)
LEMMA TailKeeps ==
    ASSUME TypeInv, SessionInv, UNCHANGED <<slot, spawned, helper, log, thr, up>>,
           NEW r \in Runs, NEW t \in TailState, TailVars(r, t), Tailing(r),
           t.pc \notin {"none", "done", "restart", "reread", "reshow", "recheck"},
           \/ ~Working(r)
           \/ t.pc \in {"start", "read", "check"} /\ t.verdict = "none",
           t.pc \in {"read", "check", "show"} =>
                \A i \in 1..Len(log) : i > t.pos => log[i].run = r
    PROVE  SessionInv'
<1> USE DEF TypeInv, TypeOK
<1>0. tail'[r] = t /\ \A s \in Runs : s # r => tail'[s] = tail[s]
  BY TailUpdate
<1>1. \A s \in Runs : Tailing(s)' <=> Tailing(s)
  BY <1>0 DEF Tailing
<1>2. SlotOwned'
  BY <1>1 DEF SessionInv, SlotOwned, Busy
<1>3. tail[r] # NoTail
  BY DEF Tailing, NoTail
<1>4. RunOwned'
  <2>1. \A s \in Runs : s > spawned => helper[s] = "unborn" /\ tail'[s] = NoTail
    BY <1>0, <1>3 DEF SessionInv, RunOwned, FreshRuns
  <2>2. \A u \in Threads : thr[u] # "stamp"
    BY DEF SessionInv, SlotOwned, Busy
  <2>3. \A s \in Runs : Working(s) =>
            tail'[s].pc \in {"start", "read", "check"} /\ tail'[s].verdict = "none"
    BY <1>0, <2>2 DEF SessionInv, RunOwned, FreshRuns
  <2>4. \A s \in Runs : tail'[s].pc \notin {"restart", "reread", "reshow", "recheck"}
    BY <1>0 DEF SessionInv, RunOwned, FreshRuns
  <2> QED BY <2>1, <2>2, <2>3, <2>4 DEF RunOwned, FreshRuns, Working, Writing
<1>5. LinesOwned'
  BY <1>0 DEF SessionInv, LinesOwned
<1> QED BY <1>2, <1>4, <1>5 DEF SessionInv

(* The reserved part of begin_burn: one thread at a time is in it, and it    *)
(* hands the slot over to the tail thread of the run it spawned.            *)
LEMMA BeginKeeps ==
    ASSUME TypeInv, SessionInv, NEW t \in Threads, BeginBurn(t)
    PROVE  SessionInv'
<1> USE DEF TypeInv, TypeOK, dbVars, registryVars, fileVars, helperVars, appVars
<1>1. CASE InsertActive(t) \/ ReserveRefused(t)
  BY <1>1, ThreadKeeps DEF InsertActive, ReserveRefused, FailJob, Busy
<1>2. CASE ClearSentinel(t)
  BY <1>2, ThreadKeeps DEF ClearSentinel, Busy
<1>3. CASE Reserve(t)
  <2>1. /\ \A u \in Threads : ~Busy(u) /\ \A r \in Runs : ~Tailing(r)
        /\ slot' /\ thr'[t] = "clear"
        /\ \A u \in Threads : u # t => thr'[u] = thr[u]
        /\ UNCHANGED <<spawned, helper, log, tail, up>>
    BY <1>3 DEF Reserve, SessionInv, SlotOwned
  <2>2. SlotOwned'
    BY <2>1 DEF SlotOwned, Busy, Tailing
  <2>3. \A u \in Threads : thr[u] # "stamp" /\ thr'[u] # "stamp"
    BY <2>1 DEF Busy
  <2>4. RunOwned' /\ LinesOwned'
    BY <2>1, <2>3 DEF SessionInv, RunOwned, FreshRuns, LinesOwned, Working, Writing
  <2> QED BY <2>1, <2>2, <2>4 DEF SessionInv
<1>4. CASE Spawn(t)
  <2>1. /\ thr[t] = "spawn" /\ spawned' = spawned + 1 /\ spawned' \in Runs
        /\ \A u \in Threads : thr'[u] = IF u = t THEN "stamp" ELSE thr[u]
        /\ \A r \in Runs : helper'[r] = IF r = spawned' THEN "prompt" ELSE helper[r]
        /\ UNCHANGED <<slot, log, tail, up>>
    BY <1>4, ElevatedBurnAssumption DEF Spawn, Runs
  <2>2. /\ \A u \in Threads : Busy(u)' <=> Busy(u)
        /\ \A u \in Threads : thr[u] # "stamp"
        /\ \A r \in Runs : ~Tailing(r)
    BY <2>1 DEF SessionInv, SlotOwned, Busy
  <2>3. SlotOwned'
    BY <2>1, <2>2 DEF SessionInv, SlotOwned, Tailing
  <2>4. \A r \in Runs : ~Working(r)
    BY <2>2 DEF SessionInv, RunOwned, FreshRuns, Tailing
  <2>5. /\ spawned' > spawned
        /\ helper[spawned'] = "unborn" /\ tail[spawned'] = NoTail
    BY <2>1 DEF SessionInv, RunOwned, FreshRuns, Runs
  <2>6. RunOwned'
    <3>1. \A r \in Runs : r > spawned' => helper'[r] = "unborn" /\ tail'[r] = NoTail
      BY <2>1 DEF SessionInv, RunOwned, FreshRuns, Runs
    <3>2. \A r \in Runs : Working(r)' => r = spawned'
      BY <2>1, <2>4 DEF Working, Writing
    <3>3. spawned' # 0 /\ tail'[spawned'] = NoTail
      BY <2>1, <2>5
    <3>4. thr'[t] = "stamp"
      BY <2>1
    <3>5. \A r \in Runs : tail'[r].pc \notin {"restart", "reread", "reshow", "recheck"}
      BY <2>1 DEF SessionInv, RunOwned, FreshRuns
    <3> QED BY <3>1, <3>2, <3>3, <3>4, <3>5 DEF RunOwned, FreshRuns
  <2>7. LinesOwned'
    BY <2>1, <2>5, LineRuns DEF SessionInv, LinesOwned
  <2> QED BY <2>1, <2>3, <2>6, <2>7 DEF SessionInv
<1>5. CASE SpawnFails(t)
  <2>1. /\ Busy(t) /\ thr[t] # "stamp"
        /\ \A u \in Threads : thr'[u] = IF u = t THEN "idle" ELSE thr[u]
        /\ UNCHANGED <<spawned, helper, log, tail, up>>
    BY <1>5 DEF SpawnFails, Busy
  <2>2. /\ \A u \in Threads : ~Busy(u)' /\ thr[u] # "stamp" /\ thr'[u] # "stamp"
        /\ \A r \in Runs : ~Tailing(r)
    BY <2>1 DEF SessionInv, SlotOwned, Busy
  <2>3. SlotOwned'
    BY <2>1, <2>2 DEF SlotOwned, Tailing
  <2>4. RunOwned' /\ LinesOwned'
    BY <2>1, <2>2 DEF SessionInv, RunOwned, FreshRuns, LinesOwned, Working, Writing
  <2> QED BY <2>1, <2>3, <2>4 DEF SessionInv
<1>6. CASE Stamp(t)
  <2> DEFINE first == [tail[spawned] EXCEPT !.pc = "start"]
  <2>1. /\ thr[t] = "stamp" /\ Busy(t) /\ spawned \in Runs
        /\ tail[spawned] = NoTail
    BY <1>6 DEF Stamp, SessionInv, RunOwned, FreshRuns, Runs, Busy
  <2>2. first.pc = "start" /\ first.verdict = "none" /\ first \in TailState
    BY <2>1 DEF NoTail, TailState, TailPC
  <2>3. tail'[spawned] = first /\ \A s \in Runs : s # spawned => tail'[s] = tail[s]
    BY <1>6, <2>1 DEF Stamp
  <2>4. /\ \A u \in Threads : thr'[u] = IF u = t THEN "idle" ELSE thr[u]
        /\ UNCHANGED <<slot, spawned, helper, log, up>>
    BY <1>6 DEF Stamp
  <2>5. /\ \A u \in Threads : ~Busy(u)' /\ thr'[u] # "stamp"
        /\ \A r \in Runs : ~Tailing(r) /\ slot
    BY <2>1, <2>4 DEF SessionInv, SlotOwned, Busy
  <2> HIDE DEF first
  <2>6. \A r \in Runs : Tailing(r)' <=> r = spawned
    BY <2>2, <2>3, <2>5 DEF Tailing
  <2>7. SlotOwned'
    BY <2>4, <2>5, <2>6 DEF SlotOwned
  <2>8. RunOwned'
    <3>1. \A r \in Runs : r > spawned => helper'[r] = "unborn" /\ tail'[r] = NoTail
      BY <2>3, <2>4 DEF SessionInv, RunOwned, FreshRuns, Runs
    <3>2. \A r \in Runs : Working(r) => r = spawned
      BY <2>5 DEF SessionInv, RunOwned, FreshRuns, Tailing
    <3>3. \A r \in Runs : tail'[r].pc \notin {"restart", "reread", "reshow", "recheck"}
      BY <2>2, <2>3 DEF SessionInv, RunOwned, FreshRuns
    <3>4. \A r \in Runs : Working(r)' => Working(r)
      BY <2>4 DEF Working, Writing
    <3> QED BY <2>2, <2>3, <2>4, <2>5, <3>1, <3>2, <3>3, <3>4 DEF RunOwned, FreshRuns
  <2>9. LinesOwned'
    BY <2>2, <2>3, <2>4 DEF SessionInv, LinesOwned
  <2> QED BY <2>4, <2>7, <2>8, <2>9 DEF SessionInv
<1> QED BY <1>1, <1>2, <1>3, <1>4, <1>5, <1>6 DEF BeginBurn

(* The tail thread gives the slot back only after its run is over.          *)
LEMMA FollowKeeps ==
    ASSUME TypeInv, SessionInv, NEW r \in Runs, TailThread(r), ~TailTimeout(r)
    PROVE  SessionInv'
<1> USE DEF TypeInv, TypeOK, dbVars, registryVars, fileVars, helperVars, appVars
<1>0. /\ tail[r].pc \notin {"restart", "reread", "reshow", "recheck"}
      /\ Working(r) => \/ tail[r].pc = "none"
                       \/ tail[r].pc \in {"start", "read", "check"} /\ tail[r].verdict = "none"
      /\ tail[r] \in TailState
  <2>1. /\ Working(r) =>
             \/ tail[r].pc \in {"start", "read", "check"} /\ tail[r].verdict = "none"
             \/ r = spawned /\ \E t \in Threads : thr[t] = "stamp"
        /\ (\E t \in Threads : thr[t] = "stamp") => tail[spawned] = NoTail
    BY DEF SessionInv, RunOwned, FreshRuns
  <2>2. Working(r) => \/ tail[r].pc = "none"
                      \/ tail[r].pc \in {"start", "read", "check"} /\ tail[r].verdict = "none"
    BY <2>1 DEF NoTail
  <2>3. tail[r] \in TailState
    OBVIOUS
  <2>4. tail[r].pc \notin {"restart", "reread", "reshow", "recheck"}
    BY DEF SessionInv, RunOwned, FreshRuns
  <2> QED BY <2>2, <2>3, <2>4
<1>1. ASSUME NEW pc \in TailPC \ {"none", "done", "start", "restart", "reread", "reshow", "recheck"},
             TailVars(r, [tail[r] EXCEPT !.pc = pc]),
             UNCHANGED <<slot, spawned, helper, log, thr, up>>,
             Tailing(r),
             ~Working(r) \/ pc \in {"read", "check"},
             pc \in {"read", "check", "show"} => tail[r].pc \in {"read", "check", "show"}
      PROVE  SessionInv'
  <2> DEFINE t == [tail[r] EXCEPT !.pc = pc]
  <2>1. /\ t \in TailState /\ t.pc = pc
        /\ t.pos = tail[r].pos /\ t.verdict = tail[r].verdict
    BY <1>0 DEF TailState
  <2>2. TailVars(r, t)
    BY <1>1
  <2>3. tail[r].pc # "none"
    BY <1>1 DEF Tailing
  <2> HIDE DEF t
  <2>4. pc \in {"read", "check", "show"} =>
            \A i \in 1..Len(log) : i > t.pos => log[i].run = r
    BY <1>1, <2>1 DEF SessionInv, LinesOwned
  <2> QED BY <1>0, <1>1, <2>1, <2>2, <2>3, <2>4, TailKeeps
<1>2. CASE TailStart(r)
  <2> DEFINE t == [tail[r] EXCEPT !.pc = "read", !.pos = Len(log)]
  <2>1. tail[r].pc = "start" /\ Tailing(r)
    BY <1>0, <1>2 DEF TailStart, Tailing
  <2>2. Len(log) \in Nat /\ "read" \in TailPC
    BY DEF TailPC
  <2>3. /\ t \in TailState /\ t.pc = "read" /\ t.pos = Len(log)
        /\ t.verdict = tail[r].verdict
    BY <1>0, <2>2 DEF TailState
  <2>4. TailVars(r, t)
    BY <1>2, <2>1 DEF TailStart
  <2> HIDE DEF t
  <2>5. \A i \in 1..Len(log) : ~(i > t.pos)
    BY <2>2, <2>3
  <2> QED BY <1>0, <1>2, <2>1, <2>3, <2>4, <2>5, TailKeeps DEF TailStart
<1>3. CASE TailLine(r)
  <2> DEFINE line == log[tail[r].pos + 1]
             shown == ShowLine(line)
             pos == tail[r].pos + 1
             t == [tail[r] EXCEPT !.pc = "show", !.pos = pos, !.verdict = shown]
  <2>1. tail[r].pc = "read" /\ Tailing(r)
    BY <1>0, <1>3 DEF TailLine, Reading, Tailing
  <2>2. tail[r].pos \in Nat /\ pos \in 1..Len(log) /\ pos > tail[r].pos
    BY <1>0, <1>3 DEF TailLine, TailState
  <2>3. ~Working(r)
    BY <2>1, <2>2 DEF SessionInv, LinesOwned, Working, Writing
  <2>4. TailVars(r, t)
    BY <1>3, <2>1 DEF TailLine
  <2>5. "show" \in TailPC /\ shown \in Shown /\ pos \in Nat
    BY <2>2, ShownType DEF TailPC
  <2> HIDE DEF shown, pos
  <2>6. t \in TailState /\ t.pc = "show" /\ t.pos = pos
    BY <1>0, <2>5 DEF TailState
  <2> HIDE DEF t
  <2>7. \A i \in 1..Len(log) : i > t.pos => log[i].run = r
    BY <2>1, <2>2, <2>6 DEF SessionInv, LinesOwned
  <2> QED BY <1>3, <2>1, <2>3, <2>4, <2>6, <2>7, TailKeeps DEF TailLine
<1>4. CASE TailShow(r)
  <2>1. tail[r].pc = "show" /\ Tailing(r) /\ ~Working(r)
    BY <1>0, <1>4 DEF TailShow, Tailing
  <2>2. TailVars(r, [tail[r] EXCEPT !.pc = "read"])
    BY <1>4, <2>1 DEF TailShow
  <2> QED BY <1>1, <1>4, <2>1, <2>2 DEF TailShow, TailPC
<1>5. CASE TailEof(r)
  <2>1. tail[r].pc = "read" /\ Tailing(r)
    BY <1>0, <1>5 DEF TailEof, Reading, Tailing
  <2>2. CASE tail[r].verdict # "none"
    <3>1. ~Working(r) /\ TailVars(r, [tail[r] EXCEPT !.pc = "unflag"])
      BY <1>0, <1>5, <2>1, <2>2 DEF TailEof
    <3> QED BY <1>1, <1>5, <2>1, <3>1 DEF TailEof, TailPC
  <2>3. CASE tail[r].verdict = "none"
    <3>1. TailVars(r, [tail[r] EXCEPT !.pc = "check"])
      BY <1>5, <2>1, <2>3 DEF TailEof
    <3> QED BY <1>1, <1>5, <2>1, <3>1 DEF TailEof, TailPC
  <2> QED BY <2>2, <2>3
<1>6. CASE TailSleep(r)
  <2>1. tail[r].pc = "check" /\ Tailing(r)
    BY <1>0, <1>6 DEF TailSleep, Checking, Tailing
  <2>2. TailVars(r, [tail[r] EXCEPT !.pc = "read"])
    BY <1>6, <2>1 DEF TailSleep
  <2> QED BY <1>1, <1>6, <2>1, <2>2 DEF TailSleep, TailPC
<1>7. CASE TailLost(r)
  <2>1. tail[r].pc = "check" /\ Tailing(r) /\ ~Working(r)
    BY <1>0, <1>7 DEF TailLost, Checking, Tailing, Working, OsascriptLive
  <2> QED BY <1>1, <1>7, <2>1 DEF TailLost, TailPC
<1>8. CASE TailShowLost(r)
  <2>1. Tailing(r) /\ ~Working(r)
    BY <1>0, <1>8 DEF TailShowLost, Tailing
  <2> QED BY <1>1, <1>8, <2>1 DEF TailShowLost, TailPC
<1>10. CASE TailUnflag(r)
  <2>1. Tailing(r) /\ ~Working(r)
    BY <1>0, <1>10 DEF TailUnflag, Tailing
  <2> QED BY <1>1, <1>10, <2>1 DEF TailUnflag, TailPC
<1>11. CASE TailRelease(r)
  <2> DEFINE t == [tail[r] EXCEPT !.pc = "done"]
  <2>1. Tailing(r) /\ ~Working(r)
    BY <1>0, <1>11 DEF TailRelease, Tailing
  <2>2. "done" \in TailPC
    BY DEF TailPC
  <2>3. t \in TailState /\ t.pc = "done" /\ TailVars(r, t)
    BY <1>0, <1>11, <2>2 DEF TailRelease, TailState
  <2>4. tail'[r] = t /\ \A s \in Runs : s # r => tail'[s] = tail[s]
    BY <2>3, TailUpdate
  <2> HIDE DEF t
  <2>5. /\ \A u \in Threads : ~Busy(u) /\ thr[u] # "stamp"
        /\ \A s \in Runs : ~Tailing(s)'
    BY <2>1, <2>3, <2>4 DEF SessionInv, SlotOwned, Busy, Tailing
  <2>6. UNCHANGED <<spawned, helper, log, thr, up>>
    BY <1>11 DEF TailRelease
  <2>7. SlotOwned'
    BY <2>5, <2>6 DEF SlotOwned, Busy
  <2>8. RunOwned'
    <3>1. tail[r] # NoTail
      BY <2>1 DEF Tailing, NoTail
    <3>2. \A s \in Runs : s > spawned => helper[s] = "unborn" /\ tail'[s] = NoTail
      BY <2>4, <3>1 DEF SessionInv, RunOwned, FreshRuns
    <3>3. \A s \in Runs : Working(s) =>
              tail'[s].pc \in {"start", "read", "check"} /\ tail'[s].verdict = "none"
      BY <2>1, <2>4, <2>5 DEF SessionInv, RunOwned, FreshRuns
    <3>4. \A s \in Runs : tail'[s].pc \notin {"restart", "reread", "reshow", "recheck"}
      BY <2>3, <2>4 DEF SessionInv, RunOwned, FreshRuns
    <3> QED BY <2>5, <2>6, <3>2, <3>3, <3>4 DEF RunOwned, FreshRuns, Working, Writing
  <2>9. LinesOwned'
    BY <2>3, <2>4, <2>6 DEF SessionInv, LinesOwned
  <2> QED BY <2>6, <2>7, <2>8, <2>9 DEF SessionInv
<1> QED
  BY <1>2, <1>3, <1>4, <1>5, <1>6, <1>7, <1>8, <1>10, <1>11 DEF TailThread

(* As long as the app stays up and no tail thread has given up: every step   *)
(* keeps the ownership of the slot.                                         *)
THEOREM SessionInvariant == Spec => [](Steady => SessionInv)
<1>1. Init => SessionInv
  BY DEF Init, SessionInv, SlotOwned, RunOwned, FreshRuns, LinesOwned, Busy, Tailing, Working,
         Writing, NoTail
<1>2. /\ TypeInv /\ OwnerInv /\ LateInv
      /\ (Steady => SessionInv) /\ [Next]_vars
      => (Steady => SessionInv)'
  <2> SUFFICES ASSUME TypeInv, OwnerInv, LateInv, Steady => SessionInv, [Next]_vars, Steady'
               PROVE  SessionInv'
    OBVIOUS
  <2>s. SessionInv /\ ~AppDies
    BY SteadyBefore
  <2> USE DEF dbVars, registryVars, fileVars, helperVars, appVars
  <2>t. helper \in [Runs -> HelperPC] /\ thr \in [Threads -> ThreadPC] /\ log \in Seq(Line)
    BY DEF TypeInv, TypeOK
  <2>1. CASE Window
    <3>1. CASE StartRefused \/ CancelWrite \/ Requeue \/ ClearFdaError
      BY <2>s, <3>1, FrameKeeps DEF StartRefused, CancelWrite, Requeue, ClearFdaError, Moved
    <3>2. CASE StartLocal
      <4>1. UNCHANGED <<slot, spawned, helper, log, tail, up>>
        BY <3>2 DEF StartLocal
      <4>2. thr[Main] = "idle" /\ thr' = [thr EXCEPT ![Main] = "insert"]
        BY <3>2 DEF StartLocal, CanStart, Command
      <4>3. \A t \in Threads : thr'[t] = thr[t] \/ (thr[t] = "idle" /\ thr'[t] = "insert")
        BY <2>t, <4>2
      <4>4. \A t \in Threads : thr'[t] \in {"clear", "spawn", "stamp"} <=>
                                    thr[t] \in {"clear", "spawn", "stamp"}
        BY <4>3
      <4>5. \A t \in Threads : thr'[t] = "stamp" <=> thr[t] = "stamp"
        BY <4>3
      <4> QED BY <2>s, <4>1, <4>4, <4>5, ThreadKeeps
    <3>3. CASE StartCloud
      <4>1. UNCHANGED <<slot, spawned, helper, log, tail, up>>
        BY <3>3 DEF StartCloud
      <4>2. PICK m \in Mats : thr[m] = "idle" /\ thr' = [thr EXCEPT ![m] = "announce"]
        BY <3>3 DEF StartCloud
      <4>3. \A t \in Threads : thr'[t] = thr[t] \/ (thr[t] = "idle" /\ thr'[t] = "announce")
        BY <2>t, <4>2
      <4>4. \A t \in Threads : thr'[t] \in {"clear", "spawn", "stamp"} <=>
                                    thr[t] \in {"clear", "spawn", "stamp"}
        BY <4>3
      <4>5. \A t \in Threads : thr'[t] = "stamp" <=> thr[t] = "stamp"
        BY <4>3
      <4> QED BY <2>s, <4>1, <4>4, <4>5, ThreadKeeps
    <3> QED BY <2>1, <3>1, <3>2, <3>3 DEF Window
  <2>2. CASE \E t \in Mats : Materialize(t)
    <3>1. UNCHANGED <<slot, spawned, helper, log, tail, up>>
      BY <2>2 DEF Materialize, MatAnnounce, MatEnter, MatDone, MatCancelled, MatFails, FailJob
    <3>2. PICK m \in Mats : \E pc \in {"enter", "download", "insert", "idle"} :
              thr[m] \in {"announce", "enter", "download"} /\ thr' = [thr EXCEPT ![m] = pc]
      BY <2>2 DEF Materialize, MatAnnounce, MatEnter, MatDone, MatCancelled, MatFails
    <3>3. \A t \in Threads : thr'[t] = thr[t] \/
              (thr[t] \in {"announce", "enter", "download"} /\
                    thr'[t] \in {"enter", "download", "insert", "idle"})
      BY <2>t, <3>2
    <3>4. \A t \in Threads : thr'[t] \in {"clear", "spawn", "stamp"} <=>
                                    thr[t] \in {"clear", "spawn", "stamp"}
      BY <3>3
    <3>5. \A t \in Threads : thr'[t] = "stamp" <=> thr[t] = "stamp"
      BY <3>3
    <3> QED BY <2>s, <3>1, <3>4, <3>5, ThreadKeeps
  <2>3. CASE \E t \in Threads : BeginBurn(t)
    BY <2>s, <2>3, BeginKeeps
  <2>4. CASE \E r \in Runs : HelperRun(r) \/ WatchSentinel(r) \/ HelperKilled(r)
    <3> PICK r \in Runs : HelperRun(r) \/ WatchSentinel(r) \/ HelperKilled(r)
      BY <2>4
    <3>1. CASE WatchSentinel(r)
      BY <2>s, <3>1, FrameKeeps DEF WatchSentinel, Moved
    <3>2. CASE SetupFails(r) \/ NoticeCancel(r) \/ IoFails(r) \/ SkipVerify(r) \/ VerifyDone(r)
      BY <2>s, <3>2, ReportKeeps DEF SetupFails, NoticeCancel, IoFails, SkipVerify, VerifyDone, Writing
    <3>3. CASE AuthDenied(r) \/ Authorised(r) \/ OpenTarget(r) \/ WriteDone(r)
               \/ HelperExits(r) \/ HelperKilled(r)
      <4>1. /\ UNCHANGED <<slot, spawned, log, thr, tail, up>>
            /\ \A s \in Runs : s # r => helper'[s] = helper[s]
            /\ \/ helper[r] \in {"prompt", "setup", "writing", "verifying"}
                  /\ helper'[r] \in {"setup", "writing", "verifying", "exited"}
               \/ helper[r] = "reported" /\ helper'[r] = "exited"
        BY <2>t, <3>3 DEF AuthDenied, Authorised, OpenTarget, WriteDone, HelperExits,
            HelperKilled, Writing
      <4>2. \A s \in Runs : Working(s)' => Working(s)
        BY <4>1 DEF Working, Writing
      <4>3. \A s \in Runs : helper[s] = "unborn" => helper'[s] = "unborn"
        BY <4>1
      <4>4. \A s \in Runs : helper[s] \in {"reported", "exited"} =>
                             helper'[s] \in {"reported", "exited"}
        BY <4>1
      <4> QED BY <2>s, <2>t, <4>1, <4>2, <4>3, <4>4, HelperKeeps
    <3> QED BY <3>1, <3>2, <3>3 DEF HelperRun
  <2>5. CASE \E r \in Runs : TailThread(r)
    <3> PICK r \in Runs : TailThread(r)
      BY <2>5
    <3>1. ~TailTimeout(r)
      BY TailLate DEF Steady, Followed
    <3> QED BY <2>s, <3>1, FollowKeeps
  <2>6. CASE \E r \in Runs : TailProgress(r)
    BY <2>s, <2>6, FrameKeeps DEF TailProgress, Moved
  <2>7. CASE AppDies \/ AppStarts
    BY <2>s, <2>7 DEF AppStarts, SessionInv
  <2>8. CASE UNCHANGED vars
    BY <2>s, <2>8, FrameKeeps DEF vars, Moved
  <2> QED
    BY <2>1, <2>2, <2>3, <2>4, <2>5, <2>6, <2>7, <2>8 DEF Next
<1> QED
  BY <1>1, <1>2, TypeInvariant, OwnerInvariant, LateInvariant, PTL DEF Spec

(* However many runs, downloads and clicks there are, two helpers of one job *)
(* never work on the device together while the app stays up and follows them. *)
THEOREM OnlyOneWriter == Spec => []OneWriter
<1>1. (Steady => SessionInv) => OneWriter
  <2> SUFFICES ASSUME SessionInv, NEW r \in Runs, NEW s \in Runs, Writing(r), Writing(s)
               PROVE  r = s
    BY DEF OneWriter
  <2>1. Working(r) /\ Working(s)
    BY DEF Working
  <2>2. CASE \E t \in Threads : thr[t] = "stamp"
    BY <2>1, <2>2 DEF SessionInv, RunOwned, FreshRuns, SlotOwned, Busy, Tailing
  <2>3. CASE ~ \E t \in Threads : thr[t] = "stamp"
    BY <2>1, <2>3 DEF SessionInv, RunOwned, FreshRuns, SlotOwned, Tailing
  <2> QED BY <2>2, <2>3
<1> QED
  BY <1>1, SessionInvariant, PTL

-----------------------------------------------------------------------------
(* Running rows are attended.                                              *)

(* Recording an outcome ends the run of the row; re-arming it starts none.  *)
LEMMA RecordersEnd ==
    ASSUME NEW r \in Row
    PROVE  /\ \A code \in Codes : Failed(r, code).state # "running"
           /\ \A line \in Line : RecordLine(r, line).state # "running"
           /\ ResetToQueued(r).state = "running" => r.state = "running"
BY DEF Row, Codes, Line, Failed, Completed, RecordLine, ResetToQueued, Open

(* A step that starts no run of the row, takes no slot or download away and *)
(* has no tail thread pass judgement keeps AttendInv.                       *)
LEMMA AttendFrame ==
    ASSUME AttendInv, up' => up,
           row'.state = "running" => row.state = "running",
           slot => slot', Downloading => Downloading',
           \A r \in Runs : Judged(r)' => Judged(r)
    PROVE  AttendInv'
BY DEF AttendInv

(* So does one that ends the run of the row. *)
LEMMA AttendEnded ==
    ASSUME row'.state # "running" PROVE AttendInv'
BY DEF AttendInv

(* begin_burn: a thread leaves the download behind only with the slot, or    *)
(* with the outcome recorded.                                               *)
LEMMA AttendBegin ==
    ASSUME TypeInv, OwnerInv, AttendInv, NEW t \in Threads, BeginBurn(t)
    PROVE  AttendInv'
<1> USE DEF TypeInv, TypeOK, dbVars, registryVars, fileVars, helperVars, appVars
<1>0. Busy(t) => slot /\ \A r \in Runs : ~Tailing(r)
  BY DEF OwnerInv, SlotOwned
<1>1. CASE InsertActive(t)
  <2>1. /\ UNCHANGED <<row, slot, tail, up>>
        /\ \A u \in Threads : thr'[u] = IF u = t THEN "reserve" ELSE thr[u]
    BY <1>1 DEF InsertActive
  <2>2. Downloading => Downloading'
    BY <2>1 DEF Downloading, Arriving, Threads
  <2>3. \A r \in Runs : Judged(r)' => Judged(r)
    BY <2>1 DEF Judged, Tailing
  <2> QED BY <2>1, <2>2, <2>3, AttendFrame
<1>2. CASE Reserve(t)
  <2>1. slot' /\ \A r \in Runs : ~Tailing(r)'
    BY <1>2 DEF Reserve, OwnerInv, SlotOwned, Tailing
  <2> QED BY <2>1 DEF AttendInv, Judged
<1>3. CASE ReserveRefused(t)
  <2>1. CASE t = Main
    <3>1. /\ UNCHANGED <<row, slot, tail, up>>
          /\ \A u \in Threads : u # Main => thr'[u] = thr[u]
      BY <1>3, <2>1 DEF ReserveRefused
    <3>2. Downloading => Downloading'
      BY <3>1, ElevatedBurnAssumption DEF Downloading, Arriving, Threads, Mats, Main
    <3>3. \A r \in Runs : Judged(r)' => Judged(r)
      BY <3>1 DEF Judged, Tailing
    <3> QED BY <3>1, <3>2, <3>3, AttendFrame
  <2>2. CASE t # Main
    BY <1>3, <2>2, RecordersEnd, AttendEnded DEF ReserveRefused, FailJob, Codes
  <2> QED BY <2>1, <2>2
<1>4. CASE ClearSentinel(t) \/ Spawn(t)
  <2>1. slot' /\ \A r \in Runs : ~Tailing(r)'
    BY <1>0, <1>4 DEF ClearSentinel, Spawn, Busy, Tailing
  <2> QED BY <2>1 DEF AttendInv, Judged
<1>5. CASE SpawnFails(t)
  BY <1>5, RecordersEnd, AttendEnded DEF SpawnFails, Codes
<1>6. CASE Stamp(t)
  <2>1. /\ Busy(t) /\ spawned \in Runs /\ tail[spawned] = NoTail
        /\ tail' = [tail EXCEPT ![spawned].pc = "start"]
        /\ UNCHANGED slot
    BY <1>6 DEF Stamp, OwnerInv, FreshRuns, Runs, Busy
  <2>2. \A r \in Runs : ~Judged(r)'
    BY <1>0, <2>1 DEF Judged, Tailing, NoTail
  <2> QED BY <1>0, <2>1, <2>2 DEF AttendInv
<1> QED BY <1>1, <1>2, <1>3, <1>4, <1>5, <1>6 DEF BeginBurn

(* The tail thread gives the slot back, or makes up its mind, only after it *)
(* has recorded an outcome.                                                 *)
LEMMA AttendTail ==
    ASSUME TypeInv, OwnerInv, AttendInv, NEW r \in Runs, TailThread(r), ~TailTimeout(r)
    PROVE  AttendInv'
<1> USE DEF TypeInv, TypeOK, dbVars, registryVars, fileVars, helperVars, appVars
<1>0. /\ tail[r] \in TailState /\ slot
      /\ \A s \in Runs : s # r => ~Judged(s)'
      /\ UNCHANGED <<thr, up>>
  BY TailMoves DEF OwnerInv, SlotOwned, Judged, Tailing
<1>d. Downloading => Downloading'
  BY <1>0 DEF Downloading, Arriving
<1>1. CASE TailLine(r)
  <2>1. log[tail[r].pos + 1] \in Line
    BY <1>0, <1>1 DEF TailLine, TailState
  <2> QED BY <1>1, <2>1, RecordersEnd, AttendEnded DEF TailLine
<1>2. CASE TailLost(r)
  <2>1. LossCode(r) \in Codes
    BY DEF LossCode, Codes
  <2> QED BY <1>2, <2>1, RecordersEnd, AttendEnded DEF TailLost
<1>3. CASE TailRelease(r)
  <2>1. Judged(r) /\ UNCHANGED row /\ ~Judged(r)'
    BY <1>0, <1>3, TailMoves DEF TailRelease, Judged, Tailing
  <2> QED BY <1>0, <1>d, <2>1 DEF AttendInv
<1>4. ASSUME UNCHANGED row, UNCHANGED slot, Judged(r)' => Judged(r)
      PROVE  AttendInv'
  BY <1>0, <1>d, <1>4, AttendFrame
<1>5. CASE TailStart(r)
  BY <1>0, <1>4, <1>5 DEF TailStart, TailVars, Judged, Tailing, TailState
<1>6. CASE TailShow(r)
  BY <1>0, <1>4, <1>6 DEF TailShow, TailVars, Judged, Tailing, TailState
<1>7. CASE TailEof(r)
  BY <1>0, <1>4, <1>7 DEF TailEof, TailVars, Judged, Tailing, TailState, Reading
<1>8. CASE TailSleep(r)
  BY <1>0, <1>4, <1>8 DEF TailSleep, TailVars, Judged, Tailing, TailState, Checking
<1>9. CASE TailShowLost(r)
  BY <1>0, <1>4, <1>9 DEF TailShowLost, TailVars, Judged, Tailing, TailState
<1>11. CASE TailUnflag(r)
  BY <1>0, <1>4, <1>11 DEF TailUnflag, TailVars, Judged, Tailing, TailState
<1> QED
  BY <1>1, <1>2, <1>3, <1>5, <1>6, <1>7, <1>8, <1>9, <1>11 DEF TailThread

(* A tail thread that does not give up settles the row before it gives the   *)
(* slot back, whatever dies in between.                                     *)
THEOREM AttendInvariant == Spec => [](Followed => AttendInv)
<1>1. Init => AttendInv
  BY DEF Init, AttendInv, Judged, Tailing, NoTail
<1>2. /\ TypeInv /\ OwnerInv /\ LateInv
      /\ (Followed => AttendInv) /\ [Next]_vars
      => (Followed => AttendInv)'
  <2> SUFFICES ASSUME TypeInv, OwnerInv, LateInv, Followed => AttendInv, [Next]_vars,
                      Followed'
               PROVE  AttendInv'
    OBVIOUS
  <2> USE DEF dbVars, registryVars, fileVars, helperVars, appVars
  <2>7. CASE AppDies
    BY <2>7 DEF AppDies, AttendInv, Judged, Tailing, NoTail
  <2> SUFFICES ASSUME ~AppDies, AttendInv PROVE AttendInv'
    BY <2>7, FollowedBefore
  <2>t. thr \in [Threads -> ThreadPC] /\ row \in Row
    BY DEF TypeInv, TypeOK
  <2>0. ASSUME UNCHANGED tail PROVE \A r \in Runs : Judged(r)' => Judged(r)
    BY <2>0 DEF Judged, Tailing
  <2>1. CASE Window
    <3>1. CASE StartRefused \/ CancelWrite \/ Requeue \/ ClearFdaError
      <4>1. UNCHANGED <<slot, thr, tail, up>>
        BY <3>1 DEF StartRefused, CancelWrite, Requeue, ClearFdaError
      <4>2. row'.state = "running" => row.state = "running"
        BY <2>t, <3>1, RecordersEnd DEF StartRefused, CancelWrite, Requeue, ClearFdaError, Codes
      <4>3. Downloading => Downloading'
        BY <4>1 DEF Downloading, Arriving
      <4> QED BY <2>0, <4>1, <4>2, <4>3, AttendFrame
    <3>2. CASE StartLocal
      <4>1. /\ UNCHANGED <<row, slot, tail, up>>
            /\ thr' = [thr EXCEPT ![Main] = "insert"] /\ thr[Main] = "idle"
        BY <3>2 DEF StartLocal, CanStart, Command
      <4>2. Downloading => Downloading'
        BY <2>t, <4>1 DEF Downloading, Arriving, Threads
      <4> QED BY <2>0, <4>1, <4>2, AttendFrame
    <3>3. CASE StartCloud
      <4>1. Downloading' /\ UNCHANGED <<tail, up>>
        BY <2>t, <3>3 DEF StartCloud, Downloading, Arriving, Threads
      <4> QED BY <4>1 DEF AttendInv
    <3> QED BY <2>1, <3>1, <3>2, <3>3 DEF Window
  <2>2. CASE \E t \in Mats : Materialize(t)
    <3> PICK t \in Mats : Materialize(t)
      BY <2>2
    <3>1. CASE MatAnnounce(t) \/ MatEnter(t) \/ MatDone(t)
      <4>1. Downloading' /\ UNCHANGED <<tail, up>>
        BY <2>t, <3>1 DEF MatAnnounce, MatEnter, MatDone, Downloading, Arriving, Threads
      <4> QED BY <4>1 DEF AttendInv
    <3>2. CASE MatCancelled(t) \/ MatFails(t)
      BY <2>t, <3>2, RecordersEnd, AttendEnded DEF MatCancelled, MatFails, FailJob, Codes
    <3> QED BY <3>1, <3>2 DEF Materialize
  <2>3. CASE \E t \in Threads : BeginBurn(t)
    BY <2>3, AttendBegin
  <2>4. CASE \E r \in Runs : HelperRun(r) \/ WatchSentinel(r) \/ HelperKilled(r)
    <3>1. UNCHANGED <<row, slot, thr, tail, up>>
      BY <2>4 DEF HelperRun, AuthDenied, Authorised, OpenTarget, SetupFails, NoticeCancel,
          IoFails, WriteDone, SkipVerify, VerifyDone, HelperExits, Report, WatchSentinel,
          HelperKilled
    <3>2. Downloading => Downloading'
      BY <3>1 DEF Downloading, Arriving
    <3> QED BY <2>0, <3>1, <3>2, AttendFrame
  <2>5. CASE \E r \in Runs : TailThread(r)
    <3> PICK r \in Runs : TailThread(r)
      BY <2>5
    <3>1. ~TailTimeout(r)
      BY TailLate DEF Followed
    <3> QED BY <3>1, AttendTail
  <2>6. CASE (\E r \in Runs : TailProgress(r)) \/ UNCHANGED vars
    <3>1. UNCHANGED <<row, slot, thr, tail, up>>
      BY <2>6 DEF TailProgress, vars
    <3>2. Downloading => Downloading'
      BY <3>1 DEF Downloading, Arriving
    <3> QED BY <2>0, <3>1, <3>2, AttendFrame
  <2>8. CASE AppStarts
    <3>1. CASE Reattachable
      <4>1. slot' /\ row.pid \in Runs /\ tail' = [tail EXCEPT ![row.pid].pc = "restart"]
        BY <2>t, <2>8, <3>1 DEF AppStarts, Reattachable, Row
      <4>2. \A r \in Runs : ~Judged(r)'
        BY <2>8, <4>1 DEF AppStarts, OwnerInv, Quiet, NoTail, Judged, Tailing, TypeInv, TypeOK
      <4> QED BY <4>1, <4>2 DEF AttendInv
    <3>2. CASE ~Reattachable
      BY <2>t, <2>8, <3>2, RecordersEnd, AttendEnded DEF AppStarts, Codes
    <3> QED BY <3>1, <3>2
  <2> QED
    BY <2>1, <2>2, <2>3, <2>4, <2>5, <2>6, <2>8 DEF Next
<1> QED
  BY <1>1, <1>2, TypeInvariant, OwnerInvariant, LateInvariant, PTL DEF Spec

(* Whatever dies, a running row of an app that is up is in the hands of a    *)
(* download, or of the slot's owner, unless a tail thread gave up.          *)
THEOREM Attended == Spec => []RunningIsAttended
<1>1. (Followed => AttendInv) => RunningIsAttended
  BY DEF AttendInv, RunningIsAttended, InHand, Downloading, Arriving, Threads
<1> QED
  BY <1>1, AttendInvariant, PTL

-----------------------------------------------------------------------------
(* Verdicts.  The progress file only grows; what is booked as a success is  *)
(* in it.                                                                   *)

(* The lines that are there stay. *)
LEMMA LogGrows ==
    ASSUME TypeInv, [Next]_vars
    PROVE  /\ Len(log) \in Nat /\ Len(log') \in Nat /\ Len(log) <= Len(log')
           /\ \A i \in 1..Len(log) : log'[i] = log[i]
<1>0. log \in Seq(Line) /\ Len(log) \in Nat
  BY DEF TypeInv, TypeOK
<1>1. CASE UNCHANGED log
  BY <1>0, <1>1
<1>2. CASE \E r \in Runs, kind \in {"match", "mismatch", "EIO", "ENEEDS_FDA", "ECANCELLED"} :
              Report(r, kind)
  BY <1>0, <1>2 DEF Report, Line
<1>3. ASSUME ~UNCHANGED log PROVE \E r \in Runs : HelperRun(r)
  BY <1>3 DEF Next, vars, fileVars, Window, StartRefused, StartLocal, StartCloud, CancelWrite,
      Requeue, ClearFdaError, Materialize, MatAnnounce, MatEnter, MatDone, MatCancelled, MatFails,
      BeginBurn, InsertActive, Reserve, ReserveRefused, ClearSentinel, Spawn, SpawnFails, Stamp,
      WatchSentinel, HelperKilled, TailThread, TailStart, TailLine, TailShow, TailEof,
      TailSleep, TailLost, TailShowLost, TailTimeout, TailUnflag, TailRelease, TailProgress,
      AppDies, AppStarts
<1>4. ASSUME NEW r \in Runs, HelperRun(r), ~UNCHANGED log
      PROVE  \E kind \in {"match", "mismatch", "EIO", "ENEEDS_FDA", "ECANCELLED"} : Report(r, kind)
  BY <1>4 DEF HelperRun, AuthDenied, Authorised, OpenTarget, SetupFails, NoticeCancel, IoFails,
      WriteDone, SkipVerify, VerifyDone, HelperExits, fileVars
<1> QED BY <1>1, <1>2, <1>3, <1>4

(* Only a tail thread that reads a match makes a row a success. *)
LEMMA SuccessStep ==
    ASSUME TypeInv, [Next]_vars, row'.state = "success", row.state # "success"
    PROVE  \E r \in Runs :
               /\ TailLine(r) /\ row.state = "running"
               /\ tail[r].pos + 1 \in 1..Len(log)
               /\ log[tail[r].pos + 1].kind = "match"
               /\ row'.pid = row.pid
<1> USE DEF TypeInv, TypeOK
<1>0. ASSUME NEW code PROVE Failed(row, code).state # "success" \/ row.state = "success"
  BY DEF Failed, Open, Row, Terminal
<1>1. ASSUME NEW r \in Runs, TailLine(r)
      PROVE  /\ TailLine(r) /\ row.state = "running"
             /\ tail[r].pos + 1 \in 1..Len(log)
             /\ log[tail[r].pos + 1].kind = "match"
             /\ row'.pid = row.pid
  <2>1. tail[r].pos \in Nat /\ tail[r].pos + 1 \in 1..Len(log)
    BY <1>1 DEF TailLine, TailState
  <2> DEFINE line == log[tail[r].pos + 1]
  <2>2. row' = RecordLine(row, line)
    BY <1>1 DEF TailLine
  <2> HIDE DEF line
  <2>3. CASE line.kind \in {"match", "mismatch"}
    BY <1>1, <2>1, <2>2, <2>3 DEF RecordLine, Completed, Row, line
  <2>4. CASE line.kind \notin {"match", "mismatch"}
    BY <1>0, <2>2, <2>4 DEF RecordLine
  <2> QED BY <2>3, <2>4
<1>w. /\ ResetToQueued(row).state # "success" \/ row.state = "success"
      /\ \A pid : Started(row, pid).state # "success" \/ row.state = "success"
  BY DEF ResetToQueued, Started, Row
<1>2. CASE Window
  BY <1>0, <1>w, <1>2 DEF Window, StartRefused, StartLocal, StartCloud, CancelWrite, Requeue,
      ClearFdaError, dbVars
<1>3. CASE \E t \in Mats : Materialize(t)
  BY <1>0, <1>3 DEF Materialize, MatAnnounce, MatEnter, MatDone, MatCancelled, MatFails, FailJob, dbVars
<1>4. CASE \E t \in Threads : BeginBurn(t)
  BY <1>0, <1>w, <1>4 DEF BeginBurn, InsertActive, Reserve, ReserveRefused, ClearSentinel, Spawn,
      SpawnFails, Stamp, FailJob, dbVars
<1>5. CASE \E r \in Runs : HelperRun(r) \/ WatchSentinel(r) \/ HelperKilled(r)
  BY <1>5 DEF HelperRun, AuthDenied, Authorised, OpenTarget, SetupFails, NoticeCancel, IoFails,
      WriteDone, SkipVerify, VerifyDone, HelperExits, Report, WatchSentinel, HelperKilled, dbVars
<1>6. CASE \E r \in Runs : (TailThread(r) /\ ~TailLine(r)) \/ TailProgress(r)
  BY <1>0, <1>6 DEF TailThread, TailStart, TailShow, TailEof, TailSleep, TailLost, TailShowLost,
      TailTimeout, TailUnflag, TailRelease, TailProgress, dbVars
<1>7. CASE AppDies \/ AppStarts
  BY <1>0, <1>7 DEF AppDies, AppStarts, dbVars
<1>8. CASE UNCHANGED vars
  BY <1>8 DEF vars, dbVars
<1> QED
  BY <1>1, <1>2, <1>3, <1>4, <1>5, <1>6, <1>7, <1>8 DEF Next

(* A success was reported by a helper, through any number of runs, downloads *)
(* and deaths of the app.                                                   *)
THEOREM SuccessReported == Spec => []SuccessWasReported
<1>1. Init => SuccessWasReported
  BY DEF Init, SuccessWasReported, Matched
<1>2. TypeInv /\ SuccessWasReported /\ [Next]_vars => SuccessWasReported'
  <2> SUFFICES ASSUME TypeInv, SuccessWasReported, [Next]_vars, row'.state = "success"
               PROVE  \E i \in 1..Len(log') : log'[i].kind = "match"
    BY DEF SuccessWasReported, Matched
  <2>1. \E i \in 1..Len(log) : log[i].kind = "match"
    BY SuccessStep DEF SuccessWasReported, Matched
  <2> QED BY <2>1, LogGrows
<1> QED
  BY <1>1, <1>2, TypeInvariant, PTL DEF Spec

(* A helper that wrote its terminal line does no more than exit. *)
LinesInv ==
    /\ OneVerdict
    /\ \A i \in 1..Len(log) : log[i].run \in Runs /\ helper[log[i].run] \in {"reported", "exited"}

(* A helper that reported stays one that reported. *)
LEMMA HelpersEnd ==
    ASSUME TypeInv, OwnerInv, [Next]_vars, NEW r \in Runs, helper[r] \in {"reported", "exited"}
    PROVE  helper'[r] \in {"reported", "exited"}
<1> USE DEF TypeInv, TypeOK
<1>1. CASE UNCHANGED helper
  BY <1>1
<1>2. CASE \E t \in Threads : Spawn(t)
  BY <1>2 DEF Spawn, OwnerInv, FreshRuns, Runs
<1>3. CASE \E s \in Runs : HelperRun(s) \/ HelperKilled(s)
  BY <1>3 DEF HelperRun, AuthDenied, Authorised, OpenTarget, SetupFails, NoticeCancel, IoFails,
      WriteDone, SkipVerify, VerifyDone, HelperExits, Report, HelperKilled, Writing
<1>4. ASSUME ~UNCHANGED helper
      PROVE  \/ \E t \in Threads : Spawn(t)
             \/ \E s \in Runs : HelperRun(s) \/ HelperKilled(s)
  BY <1>4 DEF Next, vars, helperVars, Window, StartRefused, StartLocal, StartCloud, CancelWrite,
      Requeue, ClearFdaError, Materialize, MatAnnounce, MatEnter, MatDone, MatCancelled, MatFails,
      BeginBurn, InsertActive, Reserve, ReserveRefused, ClearSentinel, SpawnFails, Stamp,
      WatchSentinel, TailThread, TailStart, TailLine, TailShow, TailEof, TailSleep, TailLost,
      TailShowLost, TailTimeout, TailUnflag, TailRelease, TailProgress, AppDies, AppStarts
<1> QED BY <1>1, <1>2, <1>3, <1>4

(* A line is added by a helper that works, and ends its work. *)
LEMMA LineStep ==
    ASSUME TypeInv, [Next]_vars, ~UNCHANGED log
    PROVE  \E r \in Runs : /\ Writing(r) /\ helper'[r] = "reported"
                          /\ Len(log') = Len(log) + 1 /\ log'[Len(log) + 1].run = r
<1> USE DEF TypeInv, TypeOK
<1>1. ASSUME NEW r \in Runs, NEW kind, Report(r, kind), Writing(r)
      PROVE  /\ Writing(r) /\ helper'[r] = "reported"
             /\ Len(log') = Len(log) + 1 /\ log'[Len(log) + 1].run = r
  BY <1>1 DEF Report
<1>2. \E r \in Runs : HelperRun(r)
  BY DEF Next, vars, fileVars, Window, StartRefused, StartLocal, StartCloud, CancelWrite,
      Requeue, ClearFdaError, Materialize, MatAnnounce, MatEnter, MatDone, MatCancelled, MatFails,
      BeginBurn, InsertActive, Reserve, ReserveRefused, ClearSentinel, Spawn, SpawnFails, Stamp,
      WatchSentinel, HelperKilled, TailThread, TailStart, TailLine, TailShow, TailEof,
      TailSleep, TailLost, TailShowLost, TailTimeout, TailUnflag, TailRelease, TailProgress,
      AppDies, AppStarts
<1>3. ASSUME NEW r \in Runs, HelperRun(r) PROVE Writing(r) /\ \E kind : Report(r, kind)
  BY <1>3 DEF HelperRun, AuthDenied, Authorised, OpenTarget, SetupFails, NoticeCancel, IoFails,
      WriteDone, SkipVerify, VerifyDone, HelperExits, fileVars, Writing
<1> QED BY <1>1, <1>2, <1>3

(* However a helper ends, it leaves at most one verdict. *)
THEOREM OneVerdictEach == Spec => []OneVerdict
<1>1. Init => LinesInv
  BY DEF Init, LinesInv, OneVerdict
<1>2. TypeInv /\ OwnerInv /\ LinesInv /\ [Next]_vars => LinesInv'
  <2> SUFFICES ASSUME TypeInv, OwnerInv, LinesInv, [Next]_vars PROVE LinesInv'
    OBVIOUS
  <2>1. \A i \in 1..Len(log) : /\ log[i].run \in Runs
                               /\ helper[log[i].run] \in {"reported", "exited"}
                               /\ helper'[log[i].run] \in {"reported", "exited"}
    BY HelpersEnd DEF LinesInv
  <2>2. CASE UNCHANGED log
    BY <2>1, <2>2 DEF LinesInv, OneVerdict
  <2>3. CASE ~UNCHANGED log
    <3>1. PICK r \in Runs : /\ Writing(r) /\ helper'[r] = "reported"
                           /\ Len(log') = Len(log) + 1 /\ log'[Len(log) + 1].run = r
      BY <2>3, LineStep
    <3>2. Len(log) \in Nat /\ \A i \in 1..Len(log) : log'[i] = log[i] /\ log[i].run # r
      BY <2>1, <3>1, LogGrows DEF Writing
    <3>3. ASSUME NEW i \in 1..Len(log'), NEW j \in 1..Len(log'), log'[i].run = log'[j].run
          PROVE  i = j
      <4>1. CASE i \in 1..Len(log) /\ j \in 1..Len(log)
        BY <3>2, <3>3, <4>1 DEF LinesInv, OneVerdict
      <4>2. CASE i = Len(log) + 1 \/ j = Len(log) + 1
        BY <3>1, <3>2, <3>3, <4>2
      <4> QED BY <3>1, <3>2, <4>1, <4>2
    <3>4. \A i \in 1..Len(log') : /\ log'[i].run \in Runs
                                  /\ helper'[log'[i].run] \in {"reported", "exited"}
      BY <2>1, <3>1, <3>2
    <3> QED BY <3>3, <3>4 DEF LinesInv, OneVerdict
  <2> QED BY <2>2, <2>3
<1>3. LinesInv => OneVerdict
  BY DEF LinesInv
<1> QED
  BY <1>1, <1>2, <1>3, TypeInvariant, OwnerInvariant, PTL DEF Spec

(* The row of a local image that is running is in the hands of the tail      *)
(* thread of the very run whose pid it carries.                             *)
EarnInv ==
    /\ row.state = "running" => row.pid \in Runs /\ Tailing(row.pid)
    /\ row.state = "success" =>
            \E i \in 1..Len(log) : log[i] = [run |-> row.pid, kind |-> "match"]

(* Without downloads a row starts to run only with the run it is stamped with. *)
LEMMA RunningStep ==
    ASSUME MaxMats = 0, TypeInv, OwnerInv, [Next]_vars, row'.state = "running", ~AppDies
    PROVE  \/ row.state = "running" /\ row'.pid = row.pid
           \/ row'.pid \in Runs /\ tail'[row'.pid].pc \notin {"none", "done"}
<1> USE DEF TypeInv, TypeOK
<1>m. Mats = {}
  BY DEF Mats
<1>0. /\ \A code \in Codes : Failed(row, code).state # "running"
      /\ \A line \in Line : RecordLine(row, line).state # "running"
      /\ ResetToQueued(row).state = "running" => ResetToQueued(row) = row
  BY RecordersEnd DEF ResetToQueued
<1>1. CASE UNCHANGED row
  BY <1>1
<1>2. CASE \E t \in Threads : Stamp(t)
  <2>1. spawned \in Runs /\ row'.pid \in {row.pid, spawned}
    BY <1>2 DEF Stamp, OwnerInv, FreshRuns, Runs, Started, Row
  <2>2. row' = row \/ row'.pid = spawned
    BY <1>2, <2>1 DEF Stamp, Started, Row, Runs
  <2>3. tail' = [tail EXCEPT ![spawned].pc = "start"]
    BY <1>2 DEF Stamp
  <2>4. tail'[spawned].pc = "start"
    <3>1. tail[spawned] \in TailState
      BY <2>1
    <3> QED BY <2>1, <2>3, <3>1 DEF TailState
  <2> QED BY <2>1, <2>2, <2>4
<1>3. CASE Window
  BY <1>0, <1>3, <1>m DEF Window, StartRefused, StartLocal, StartCloud, CancelWrite, Requeue,
      ClearFdaError, Codes, dbVars
<1>4. CASE \E t \in Threads : BeginBurn(t) /\ ~Stamp(t)
  BY <1>0, <1>4 DEF BeginBurn, InsertActive, Reserve, ReserveRefused, ClearSentinel, Spawn,
      SpawnFails, FailJob, Codes, dbVars
<1>5. CASE \E r \in Runs : HelperRun(r) \/ WatchSentinel(r) \/ HelperKilled(r)
  BY <1>5 DEF HelperRun, AuthDenied, Authorised, OpenTarget, SetupFails, NoticeCancel, IoFails,
      WriteDone, SkipVerify, VerifyDone, HelperExits, Report, WatchSentinel, HelperKilled, dbVars
<1>6. CASE \E r \in Runs : (TailThread(r) /\ ~TailLine(r)) \/ TailProgress(r)
  <2>1. \A r \in Runs : LossCode(r) \in Codes
    BY DEF LossCode, Codes
  <2> QED
    BY <1>0, <1>6, <2>1 DEF TailThread, TailStart, TailShow, TailEof, TailSleep, TailLost,
        TailShowLost, TailTimeout, TailUnflag, TailRelease, TailProgress, dbVars
<1>7. CASE \E r \in Runs : TailLine(r)
  <2> PICK r \in Runs : TailLine(r)
    BY <1>7
  <2>1. log[tail[r].pos + 1] \in Line
    BY DEF TailLine, TailState
  <2> QED BY <1>0, <2>1 DEF TailLine
<1>8. CASE AppStarts
  BY <1>0, <1>8 DEF AppStarts, Codes
<1> QED
  BY <1>1, <1>2, <1>3, <1>4, <1>5, <1>6, <1>7, <1>8, <1>m DEF Next, vars, dbVars

(* For a local image, while the app stays up and follows its helpers, one    *)
(* run's verdict is never booked for another.                               *)
THEOREM SuccessEarned == ASSUME MaxMats = 0 PROVE Spec => []SuccessIsEarned
<1>1. Init => EarnInv
  BY DEF Init, EarnInv
<1>2. /\ TypeInv /\ OwnerInv /\ LateInv /\ (Steady => SessionInv) /\ (Followed => AttendInv)
      /\ (Steady => EarnInv) /\ [Next]_vars
      => (Steady => EarnInv)'
  <2> SUFFICES ASSUME TypeInv, OwnerInv, LateInv, Steady => SessionInv, Followed => AttendInv,
                      Steady => EarnInv, [Next]_vars, Steady'
               PROVE  EarnInv'
    OBVIOUS
  <2>s. SessionInv /\ AttendInv /\ EarnInv /\ ~AppDies
    BY SteadyBefore DEF Steady
  <2>1. ASSUME row'.state = "running"
        PROVE  row'.pid \in Runs /\ tail'[row'.pid].pc \notin {"none", "done"}
    <3> SUFFICES ASSUME row.state = "running", row'.pid = row.pid, row.pid \in Runs,
                        Tailing(row.pid)
                 PROVE  tail'[row.pid].pc \notin {"none", "done"}
      BY <2>s, <2>1, RunningStep DEF EarnInv
    <3>1. ~Judged(row.pid)
      <4>1. ~Downloading
        BY DEF Downloading, Arriving, Mats
      <4> QED BY <2>s, <4>1 DEF AttendInv
    <3>2. CASE \E r \in Runs : TailThread(r)
      BY <3>1, <3>2, TailMoves DEF Tailing, Judged, TailRelease
    <3>3. CASE ~ \E r \in Runs : TailThread(r)
      BY <2>s, <3>3, TailOthers DEF Tailing, NoTail
    <3> QED BY <3>2, <3>3
  <2>2. ASSUME row'.state = "success"
        PROVE  \E i \in 1..Len(log') : log'[i] = [run |-> row'.pid, kind |-> "match"]
    <3> SUFFICES \E i \in 1..Len(log) : log[i] = [run |-> row'.pid, kind |-> "match"]
      BY LogGrows
    <3>1. CASE row.state = "success"
      <4>1. row' = row
        BY <3>1, StepKeeps DEF Keeps, Terminal
      <4> QED BY <2>s, <3>1, <4>1 DEF EarnInv
    <3>2. CASE row.state # "success"
      <4>1. PICK r \in Runs :
                /\ TailLine(r) /\ row.state = "running"
                /\ tail[r].pos + 1 \in 1..Len(log)
                /\ log[tail[r].pos + 1].kind = "match"
                /\ row'.pid = row.pid
        BY <2>2, <3>2, SuccessStep
      <4>2. Tailing(r) /\ tail[r].pc = "read"
        BY <2>s, <4>1 DEF TailLine, Reading, Tailing, SessionInv, RunOwned
      <4>3. row.pid = r
        BY <2>s, <4>1, <4>2 DEF EarnInv, OwnerInv, SlotOwned
      <4>4. log[tail[r].pos + 1].run = r /\ log[tail[r].pos + 1] \in Line
        BY <2>s, <4>1, <4>2 DEF SessionInv, LinesOwned, TypeInv, TypeOK, TailState
      <4>5. log[tail[r].pos + 1] = [run |-> r, kind |-> "match"]
        BY <4>1, <4>4 DEF Line
      <4> QED BY <4>1, <4>3, <4>5
    <3> QED BY <3>1, <3>2
  <2> QED BY <2>1, <2>2 DEF EarnInv, Tailing
<1>3. (Steady => EarnInv) => SuccessIsEarned
  BY DEF EarnInv, SuccessIsEarned
<1> QED
  BY <1>1, <1>2, <1>3, TypeInvariant, OwnerInvariant, LateInvariant, SessionInvariant,
     AttendInvariant, PTL DEF Spec

(* A click on Cancel comes when no start is on its way, and is withdrawn     *)
(* only by a thread that has no working run.                                *)
CancelInv ==
    /\ \A r \in Runs : asked /\ Working(r) => sentinel \/ flag[r]
    /\ thr[Main] # "idle" => ~asked

(* Every step of a local job keeps a click on Cancel visible. *)
LEMMA CancelStep ==
    ASSUME MaxMats = 0, TypeInv, OwnerInv, SessionInv, CancelInv, [Next]_vars, ~AppDies
    PROVE  CancelInv'
<1> USE DEF TypeInv, TypeOK, dbVars, registryVars, fileVars, helperVars, appVars
<1>m. Mats = {} /\ Threads = {Main}
  BY DEF Mats, Threads
<1>1. CASE Window
  <2>1. UNCHANGED helper /\ UNCHANGED flag /\ thr[Main] = "idle"
    BY <1>1, <1>m DEF Window, StartRefused, StartLocal, StartCloud, CancelWrite, Requeue,
        ClearFdaError, CanStart, Command
  <2>2. CASE StartRefused \/ StartLocal
    <3>1. asked' = FALSE
      BY <2>2 DEF StartRefused, StartLocal
    <3> QED BY <3>1 DEF CancelInv
  <2>3. CASE CancelWrite
    <3>1. sentinel' = TRUE /\ thr'[Main] = "idle"
      BY <2>1, <2>3 DEF CancelWrite
    <3> QED BY <3>1 DEF CancelInv
  <2>4. CASE Requeue \/ ClearFdaError
    BY <2>4 DEF Requeue, ClearFdaError, CancelInv, Working, Writing
  <2> QED BY <1>1, <1>m, <2>2, <2>3, <2>4 DEF Window, StartCloud
<1>2. CASE \E t \in Threads : BeginBurn(t)
  <2> PICK t \in Threads : BeginBurn(t)
    BY <1>2
  <2>1. thr[Main] # "idle" /\ ~asked /\ UNCHANGED asked
    BY <1>m DEF BeginBurn, InsertActive, Reserve, ReserveRefused, ClearSentinel, Spawn, SpawnFails,
        Stamp, CancelInv
  <2> QED BY <2>1 DEF CancelInv
<1>3. CASE \E r \in Runs : HelperRun(r) \/ WatchSentinel(r) \/ HelperKilled(r)
  <2>1. /\ UNCHANGED <<sentinel, asked, thr>>
        /\ \A r \in Runs : flag[r] => flag'[r]
        /\ \A r \in Runs : Working(r)' => Working(r)
    BY <1>3 DEF HelperRun, AuthDenied, Authorised, OpenTarget, SetupFails, NoticeCancel, IoFails,
        WriteDone, SkipVerify, VerifyDone, HelperExits, Report, WatchSentinel, HelperKilled,
        Working, Writing
  <2> QED BY <2>1 DEF CancelInv
<1>4. CASE \E r \in Runs : TailUnflag(r)
  <2> PICK r \in Runs : TailUnflag(r)
    BY <1>4
  <2>1. Tailing(r) /\ tail[r].pc = "unflag"
    BY DEF TailUnflag, Tailing
  <2>2. \A s \in Runs : ~Working(s)
    <3> SUFFICES ASSUME NEW s \in Runs, Working(s) PROVE FALSE
      OBVIOUS
    <3>1. r = s
      BY <2>1, Follower
    <3>2. tail[s].pc \notin {"start", "read", "check"}
      BY <2>1, <3>1
    <3>3. PICK t \in Threads : thr[t] = "stamp"
      BY <3>2 DEF SessionInv, RunOwned
    <3> QED BY <2>1, <3>3 DEF SessionInv, SlotOwned, Busy
  <2> QED BY <2>2 DEF TailUnflag, CancelInv, Working, Writing
<1>5. CASE \E r \in Runs : (TailThread(r) /\ ~TailUnflag(r)) \/ TailProgress(r)
  <2>1. UNCHANGED <<sentinel, asked, thr, helper, flag>>
    BY <1>5 DEF TailThread, TailStart, TailLine, TailShow, TailEof, TailSleep, TailLost,
        TailShowLost, TailTimeout, TailRelease, TailProgress
  <2> QED BY <2>1 DEF CancelInv, Working, Writing
<1>6. CASE AppStarts
  BY <1>6 DEF AppStarts, SessionInv
<1>7. CASE UNCHANGED vars
  BY <1>7 DEF vars, CancelInv, Working, Writing
<1> QED
  BY <1>1, <1>2, <1>3, <1>4, <1>5, <1>6, <1>7, <1>m DEF Next

(* For a local image, while the app stays up and follows its helpers: a      *)
(* click on Cancel reaches the helper at work.                              *)
THEOREM CancelStays == ASSUME MaxMats = 0 PROVE Spec => []CancelStaysVisible
<1>1. Init => CancelInv
  BY DEF Init, CancelInv, Threads
<1>2. /\ TypeInv /\ OwnerInv /\ LateInv /\ (Steady => SessionInv)
      /\ (Steady => CancelInv) /\ [Next]_vars
      => (Steady => CancelInv)'
  BY SteadyBefore, CancelStep
<1>3. (Steady => CancelInv) => CancelStaysVisible
  BY DEF CancelInv, CancelStaysVisible, Working
<1> QED
  BY <1>1, <1>2, <1>3, TypeInvariant, OwnerInvariant, LateInvariant, SessionInvariant, PTL DEF Spec

-----------------------------------------------------------------------------
(* The refinement of BurnJob: a burn behind a helper keeps what the queue is *)
(* promised of a job.                                                       *)

(* What each recorder of db/mod.rs may make of the state of a row.          *)
LEMMA RecorderMoves ==
    ASSUME NEW r \in Row
    PROVE  /\ \A code \in Codes : \/ Failed(r, code).state = r.state
                                  \/ Open(r) /\ Failed(r, code).state \in {"error", "cancelled"}
           /\ \A line \in Line : \/ RecordLine(r, line).state = r.state
                                 \/ Open(r) /\ RecordLine(r, line).state \in {"error", "cancelled"}
                                 \/ /\ r.state = "running" /\ line.kind = "match"
                                    /\ RecordLine(r, line).state = "success"
           /\ \A pid \in {0} \cup Runs : \/ Started(r, pid).state = r.state
                                         \/ r.state = "queued" /\ Started(r, pid).state = "running"
           /\ \/ ResetToQueued(r).state = r.state
              \/ r.state \in {"error", "cancelled"} /\ ResetToQueued(r).state = "queued"
BY DEF Row, Codes, Line, Failed, Completed, RecordLine, Started, ResetToQueued, Open

(* How a step of the running app may move the row: it starts to run in       *)
(* somebody's hands, it is settled, or a click puts it back in the queue.   *)
RowMove ==
    \/ row'.state = row.state
    \/ row.state = "queued" /\ row'.state = "running" /\ InHand'
    \/ Open(row) /\ row'.state \in {"error", "cancelled"}
    \/ row.state = "running" /\ row'.state = "success" /\ Matched
    \/ row.state \in {"error", "cancelled"} /\ row'.state = "queued" /\ InHand' = InHand

(* Every step but a start of the app moves the row so. *)
LEMMA RowMoves ==
    ASSUME TypeInv, OwnerInv, [Next]_vars, ~AppStarts
    PROVE  RowMove
<1> USE RecorderMoves DEF TypeInv, TypeOK
<1>0. ASSUME UNCHANGED row PROVE RowMove
  BY <1>0 DEF RowMove
<1>1. ASSUME NEW code \in Codes, row' = Failed(row, code) PROVE RowMove
  BY <1>1 DEF RowMove
<1>2. CASE Window
  <2>1. CASE StartRefused
    BY <1>1, <2>1 DEF StartRefused, Codes
  <2>2. CASE StartCloud
    <3>1. InHand'
      BY <2>2 DEF StartCloud, InHand, Arriving, Threads
    <3> QED BY <2>2, <3>1 DEF StartCloud, RowMove
  <2>3. CASE Requeue
    <3>1. InHand' = InHand
      BY <2>3 DEF Requeue, InHand, Arriving, registryVars
    <3> QED BY <2>3, <3>1 DEF Requeue, RowMove
  <2>4. CASE StartLocal \/ CancelWrite \/ ClearFdaError
    BY <1>0, <2>4 DEF StartLocal, CancelWrite, ClearFdaError, dbVars
  <2> QED BY <1>2, <2>1, <2>2, <2>3, <2>4 DEF Window
<1>3. CASE \E t \in Mats : Materialize(t)
  BY <1>0, <1>1, <1>3 DEF Materialize, MatAnnounce, MatEnter, MatDone, MatCancelled, MatFails, FailJob,
      Codes, dbVars
<1>4. CASE \E t \in Threads : BeginBurn(t)
  <2> PICK t \in Threads : BeginBurn(t)
    BY <1>4
  <2>1. CASE Stamp(t)
    <3>1. slot /\ slot' = slot /\ spawned \in Runs
      BY <2>1 DEF Stamp, OwnerInv, SlotOwned, FreshRuns, Busy, Runs, registryVars
    <3>2. InHand'
      BY <3>1 DEF InHand, Arriving
    <3> QED BY <2>1, <3>1, <3>2 DEF Stamp, RowMove
  <2>2. CASE ~Stamp(t)
    BY <1>0, <1>1, <2>2 DEF BeginBurn, InsertActive, Reserve, ReserveRefused, ClearSentinel,
        Spawn, SpawnFails, FailJob, Codes, dbVars
  <2> QED BY <2>1, <2>2
<1>5. CASE \E r \in Runs : HelperRun(r) \/ WatchSentinel(r) \/ HelperKilled(r)
  BY <1>0, <1>5 DEF HelperRun, AuthDenied, Authorised, OpenTarget, SetupFails, NoticeCancel,
      IoFails, WriteDone, SkipVerify, VerifyDone, HelperExits, Report, WatchSentinel,
      HelperKilled, dbVars
<1>6. CASE \E r \in Runs : TailThread(r) \/ TailProgress(r)
  <2> PICK r \in Runs : TailThread(r) \/ TailProgress(r)
    BY <1>6
  <2>1. CASE TailLine(r)
    <3>1. tail[r].pos + 1 \in 1..Len(log) /\ log[tail[r].pos + 1] \in Line
      BY <2>1 DEF TailLine, TailState
    <3>2. row' = RecordLine(row, log[tail[r].pos + 1])
      BY <2>1 DEF TailLine
    <3>3. log[tail[r].pos + 1].kind = "match" => Matched
      BY <3>1 DEF Matched
    <3> QED BY <3>1, <3>2, <3>3 DEF RowMove
  <2>2. CASE TailLost(r)
    <3>1. LossCode(r) \in Codes
      BY DEF LossCode, Codes
    <3> QED BY <1>1, <2>2, <3>1 DEF TailLost
  <2>3. CASE ~TailLine(r) /\ ~TailLost(r)
    BY <1>0, <2>3 DEF TailThread, TailStart, TailShow, TailEof, TailSleep, TailShowLost,
        TailTimeout, TailUnflag, TailRelease, TailProgress, dbVars
  <2> QED BY <2>1, <2>2, <2>3
<1>7. CASE AppDies
  BY <1>0, <1>7 DEF AppDies, dbVars
<1>8. CASE UNCHANGED vars
  BY <1>0, <1>8 DEF vars, dbVars
<1> QED
  BY <1>2, <1>3, <1>4, <1>5, <1>6, <1>7, <1>8 DEF Next

(* What a job in hand, a running row and a follower consist of.             *)
Held == <<row, slot, thr, tail, up>>

(* A helper that writes a line moves nothing of the app. *)
LEMMA LogMoves ==
    ASSUME [Next]_vars, ~UNCHANGED log
    PROVE  UNCHANGED Held
<1>1. \E r \in Runs : HelperRun(r)
  BY DEF Next, vars, fileVars, Window, StartRefused, StartLocal, StartCloud, CancelWrite,
      Requeue, ClearFdaError, Materialize, MatAnnounce, MatEnter, MatDone, MatCancelled, MatFails,
      BeginBurn, InsertActive, Reserve, ReserveRefused, ClearSentinel, Spawn, SpawnFails, Stamp,
      WatchSentinel, HelperKilled, TailThread, TailStart, TailLine, TailShow, TailEof,
      TailSleep, TailLost, TailShowLost, TailTimeout, TailUnflag, TailRelease, TailProgress,
      AppDies, AppStarts
<1> QED
  BY <1>1 DEF HelperRun, AuthDenied, Authorised, OpenTarget, SetupFails, NoticeCancel, IoFails,
      WriteDone, SkipVerify, VerifyDone, HelperExits, Report, Held, dbVars, registryVars,
      appVars

(* While the app is down, only helpers move. *)
LEMMA DownMoves ==
    ASSUME OwnerInv, [Next]_vars, ~up, ~AppStarts
    PROVE  UNCHANGED Held
<1>q. Quiet
  BY DEF OwnerInv
<1>1. CASE \E r \in Runs : HelperRun(r) \/ WatchSentinel(r) \/ HelperKilled(r)
  BY <1>1 DEF HelperRun, AuthDenied, Authorised, OpenTarget, SetupFails, NoticeCancel, IoFails,
      WriteDone, SkipVerify, VerifyDone, HelperExits, Report, WatchSentinel, HelperKilled,
      Held, dbVars, registryVars, appVars
<1>2. CASE \E r \in Runs : TailThread(r) \/ TailProgress(r)
  <2>1. \A r \in Runs : tail[r].pc = "none"
    BY <1>q DEF Quiet, NoTail
  <2>2. CASE \E r \in Runs : TailThread(r)
    BY <2>1, <2>2 DEF TailThread, TailStart, TailLine, TailShow, TailEof, TailSleep, TailLost,
        TailShowLost, TailTimeout, TailUnflag, TailRelease, Reading, Checking
  <2>3. CASE \E r \in Runs : TailProgress(r)
    BY <2>1, <2>3 DEF TailProgress, Reading
  <2> QED BY <1>2, <2>2, <2>3
<1>3. CASE Window
  BY <1>3 DEF Window, StartRefused, StartLocal, StartCloud, CancelWrite, Requeue, ClearFdaError,
      CanStart, Command
<1>4. CASE \E t \in Mats : Materialize(t)
  BY <1>4, <1>q DEF Materialize, MatAnnounce, MatEnter, MatDone, MatCancelled, MatFails, Quiet, Threads
<1>5. CASE \E t \in Threads : BeginBurn(t)
  BY <1>5, <1>q DEF BeginBurn, InsertActive, Reserve, ReserveRefused, ClearSentinel, Spawn,
      SpawnFails, Stamp, Quiet
<1>6. CASE AppDies
  BY <1>6 DEF AppDies
<1>7. CASE UNCHANGED vars
  BY <1>7 DEF vars, dbVars, registryVars, appVars, Held
<1> QED
  BY <1>1, <1>2, <1>3, <1>4, <1>5, <1>6, <1>7 DEF Next

(* A step changes whether the helpers are followed when a tail thread gives  *)
(* up, and when the app dies.                                               *)
LEMMA FollowedKept ==
    ASSUME TypeInv, OwnerInv, LateInv, [Next]_vars, ~AppDies,
           ~ \E r \in Runs : TailTimeout(r)
    PROVE  Followed' <=> Followed
<1>1. ASSUME Followed PROVE Followed'
  <2>1. CASE \E r \in Runs : TailThread(r)
    <3> PICK r \in Runs : TailThread(r)
      BY <2>1
    <3>1. tail'[r].verdict # "late"
      <4>0. tail[r] \in TailState /\ tail[r].verdict # "late"
        BY <1>1 DEF TypeInv, TypeOK, Followed
      <4>1. CASE TailLine(r)
        <5>1. ShowLine(log[tail[r].pos + 1]) # "late"
          BY ShownType DEF Shown
        <5> QED BY <4>0, <4>1, <5>1 DEF TailLine, TailVars, TailState, TypeInv, TypeOK
      <4>2. CASE TailStart(r)
        BY <4>0, <4>2 DEF TailStart, TailVars, TailState, TypeInv, TypeOK
      <4>3. CASE TailShow(r) \/ TailEof(r) \/ TailSleep(r)
        BY <4>0, <4>3 DEF TailShow, TailEof, TailSleep, TailVars, TailState, TypeInv, TypeOK
      <4>4. CASE TailLost(r) \/ TailShowLost(r) \/ TailUnflag(r) \/ TailRelease(r)
        BY <4>0, <4>4 DEF TailLost, TailShowLost, TailUnflag, TailRelease, TailVars, TailState,
            TypeInv, TypeOK
      <4> QED BY <4>1, <4>2, <4>3, <4>4 DEF TailThread
    <3> QED BY <1>1, <3>1, TailMoves DEF Followed
  <2>2. CASE ~ \E r \in Runs : TailThread(r)
    BY <1>1, <2>2, TailOthers DEF Followed, NoTail
  <2> QED BY <2>1, <2>2
<1> QED BY <1>1, FollowedBefore

(* Every step is one that BurnJob allows, or leaves it as it is. *)
LEMMA JobStep ==
    ASSUME TypeInv, OwnerInv, LateInv, RunningIsAttended, RunningIsAttended', [Next]_vars,
           row' \in Row, up' \in BOOLEAN, OwnerInv'
    PROVE  [Job!Next]_(Job!vars)
<1> USE DEF Job!Next, Job!vars
<1>t. up \in BOOLEAN /\ row \in Row
  BY DEF TypeInv, TypeOK
<1>b. /\ InHand \in BOOLEAN /\ Matched \in BOOLEAN /\ Followed \in BOOLEAN
      /\ InHand' \in BOOLEAN /\ Matched' \in BOOLEAN /\ Followed' \in BOOLEAN
  BY DEF InHand, Arriving, Matched, Followed
<1>1. CASE AppDies
  <2>1. up /\ ~up' /\ UNCHANGED <<row, log>>
    BY <1>1 DEF AppDies, dbVars, fileVars
  <2>2. ~InHand' /\ Followed'
    BY <1>1 DEF AppDies, InHand, Arriving, Followed, NoTail
  <2>3. Matched' <=> Matched
    BY <2>1 DEF Matched
  <2>4. Job!Die
    BY <1>t, <1>b, <2>1, <2>2, <2>3 DEF Job!Die
  <2> QED BY <2>4
<1>2. CASE AppStarts
  <2>1. ~up /\ up' /\ Quiet /\ UNCHANGED <<log, thr>>
    BY <1>2 DEF AppStarts, OwnerInv, fileVars
  <2>2. (Matched' <=> Matched) /\ (Followed' <=> Followed)
    <3>1. ~ \E r \in Runs : TailThread(r)
      BY <2>1, TailMoves DEF Quiet, Tailing, NoTail
    <3>2. UNCHANGED log /\ (Followed' <=> Followed)
      BY <2>1, FollowedKept DEF AppDies, Quiet, NoTail, TailTimeout, Checking
    <3> QED BY <3>2 DEF Matched
  <2>3. CASE Reattachable
    <3>1. row' = row /\ row.state = "running" /\ slot'
      BY <1>2, <2>3 DEF AppStarts, Reattachable
    <3>2. InHand'
      BY <3>1 DEF InHand, Arriving
    <3>3. Job!Return
      BY <1>t, <1>b, <2>1, <2>2, <3>1, <3>2 DEF Job!Return
    <3> QED BY <3>3
  <2>4. CASE ~Reattachable
    <3>1. row' = (IF row.state = "running" THEN Failed(row, "EORPHAN") ELSE row)
          /\ UNCHANGED <<slot, thr>>
      BY <1>2, <2>1, <2>4 DEF AppStarts, registryVars
    <3>2. ~InHand'
      BY <2>1, <3>1 DEF InHand, Arriving, Quiet
    <3>3. row'.state = IF row.state = "running" THEN "error" ELSE row.state
      BY <1>t, <1>b, <3>1 DEF Failed, Open, Row
    <3>4. Job!Return
      BY <1>t, <1>b, <2>1, <2>2, <3>2, <3>3 DEF Job!Return
    <3> QED BY <3>4
  <2> QED BY <2>3, <2>4
<1>3. CASE UNCHANGED Held
  <2>1. /\ row'.state = row.state /\ up' = up
        /\ (InHand' <=> InHand) /\ (Followed' <=> Followed)
    BY <1>3 DEF Held, InHand, Arriving, Followed
  <2>2. Matched => Matched'
    BY LogGrows DEF Matched
  <2>3. Job!Match \/ UNCHANGED Job!vars
    BY <1>b, <2>1, <2>2 DEF Job!Match
  <2> QED BY <2>3
<1>4. CASE ~AppDies /\ ~AppStarts /\ ~UNCHANGED Held
  <2>1. UNCHANGED log /\ up
    BY <1>4, LogMoves, DownMoves
  <2>2. up' = up
    BY <1>4 DEF Next, vars, appVars, Window, StartRefused, StartLocal, StartCloud, CancelWrite,
        Requeue, ClearFdaError, Materialize, MatAnnounce, MatEnter, MatDone, MatCancelled, MatFails,
        BeginBurn, InsertActive, Reserve, ReserveRefused, ClearSentinel, Spawn, SpawnFails, Stamp,
        HelperRun, AuthDenied, Authorised, OpenTarget, SetupFails, NoticeCancel, IoFails,
        WriteDone, SkipVerify, VerifyDone, HelperExits, Report, WatchSentinel, HelperKilled,
        TailThread, TailStart, TailLine, TailShow, TailEof, TailSleep, TailLost, TailShowLost,
        TailTimeout, TailUnflag, TailRelease, TailProgress
  <2>3. Matched' <=> Matched
    BY <2>1 DEF Matched
  <2>4. CASE \E r \in Runs : TailTimeout(r)
    <3> PICK r \in Runs : TailTimeout(r)
      BY <2>4
    <3>1. UNCHANGED <<row, slot, thr>> /\ tail'[r].verdict = "late"
      BY TailLate DEF TailTimeout, TailThread, dbVars, registryVars
    <3>2. (InHand' <=> InHand) /\ ~Followed'
      BY <3>1 DEF InHand, Arriving, Followed
    <3>3. Job!GiveUp
      BY <1>t, <1>b, <2>1, <2>2, <2>3, <3>1, <3>2 DEF Job!GiveUp
    <3> QED BY <3>3
  <2>5. CASE ~ \E r \in Runs : TailTimeout(r)
    <3>1. Followed' <=> Followed
      BY <1>4, <2>5, FollowedKept
    <3>2. RowMove
      BY <1>4, RowMoves
    <3>3. CASE row'.state = row.state
      <4>1. CASE InHand'
        <5>1. Job!Take
          BY <1>t, <1>b, <2>1, <2>2, <2>3, <3>1, <3>3, <4>1 DEF Job!Take
        <5> QED BY <5>1
      <4>2. CASE ~InHand'
        <5>1. row.state # "running" \/ ~Followed
          BY <2>1, <2>2, <3>1, <3>3, <4>2 DEF RunningIsAttended
        <5>2. Job!LetGo
          BY <1>t, <1>b, <2>1, <2>2, <2>3, <3>1, <3>3, <4>2, <5>1 DEF Job!LetGo
        <5> QED BY <5>2
      <4> QED BY <4>1, <4>2
    <3>4. CASE row.state = "queued" /\ row'.state = "running" /\ InHand'
      <4>1. Job!Start
        BY <1>t, <1>b, <2>1, <2>2, <2>3, <3>1, <3>4 DEF Job!Start
      <4> QED BY <4>1
    <3>5. CASE Open(row) /\ row'.state \in {"error", "cancelled"}
      <4>1. Job!Fail
        BY <1>t, <1>b, <2>1, <2>2, <2>3, <3>1, <3>5 DEF Job!Fail, Job!Open, Open, InHand, Arriving
      <4> QED BY <4>1
    <3>6. CASE row.state = "running" /\ row'.state = "success" /\ Matched
      <4>1. Job!Succeed
        BY <1>t, <1>b, <2>1, <2>2, <2>3, <3>1, <3>6 DEF Job!Succeed, InHand, Arriving
      <4> QED BY <4>1
    <3>7. CASE row.state \in {"error", "cancelled"} /\ row'.state = "queued" /\ InHand' = InHand
      <4>1. Job!Retry
        BY <1>t, <1>b, <2>1, <2>2, <2>3, <3>1, <3>7 DEF Job!Retry
      <4> QED BY <4>1
    <3> QED BY <3>2, <3>3, <3>4, <3>5, <3>6, <3>7 DEF RowMove
  <2> QED BY <2>4, <2>5
<1> QED BY <1>1, <1>2, <1>3, <1>4

(* For any number of runs and downloads, through deaths of the app and tail  *)
(* threads that give up: what the queue is promised of a job is kept.       *)
THEOREM JobKept == Spec => KeepsJob
<1>1. Init => Job!Init
  BY DEF Init, Job!Init, InHand, Arriving, Matched, Followed, NoTail
<1>2. /\ TypeInv /\ OwnerInv /\ LateInv /\ RunningIsAttended
      /\ TypeInv' /\ OwnerInv' /\ RunningIsAttended' /\ [Next]_vars
      => [Job!Next]_(Job!vars)
  <2>1. TypeInv' => row' \in Row /\ up' \in BOOLEAN
    BY DEF TypeInv, TypeOK
  <2> QED BY <2>1, JobStep
<1> QED
  BY <1>1, <1>2, TypeInvariant, OwnerInvariant, LateInvariant, Attended, PTL
     DEF Spec, KeepsJob, Job!Spec
=============================================================================
