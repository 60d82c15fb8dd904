---------------------------- MODULE AppQuitProofs ----------------------------
(***************************************************************************)
(* Proofs about AppQuit, for any jobs, burn threads and exits of the app.  *)
(***************************************************************************)
EXTENDS AppQuit, WellFoundedInduction, TLAPS

RowStates == {"queued", "running"} \cup Settled
RunState == [job : Jobs \cup {NoJob}, pc : Steps, flag : BOOLEAN, code : Outcomes]
Busy(r) == run[r].pc \in Working

(* The types a step keeps; a thread at work works on a job. *)
TypeInv ==
    /\ row \in [Jobs -> RowStates]
    /\ registry \in [Jobs -> Runs \cup {None}]
    /\ run \in [Runs -> RunState]
    /\ active \subseteq Jobs /\ dl \subseteq Jobs /\ asked \subseteq Runs
    /\ \A r \in Runs : Busy(r) => run[r].job \in Jobs

(* A job has one thread at most, a burn or a download, the registry knows   *)
(* the flag of the burn at work, and an app that is down has no threads.    *)
OneThread ==
    /\ \A r, s \in Runs : Busy(r) /\ Busy(s) /\ run[r].job = run[s].job => r = s
    /\ \A r \in Runs : Busy(r) => run[r].job \notin dl /\ registry[run[r].job] = r
    /\ ~Up => dl = {} /\ \A r \in Runs : ~Busy(r)

(* A thread that was asked to stop has started, and its flag stays up. *)
AskedInv == \A r \in asked : run[r].flag /\ run[r].pc # "none"

(* Between the end of the wait and the exit no burn can start. *)
QuietInv ==
    /\ QuietExit
    /\ quit = "cleared" => active = {}

IInv == TypeInv /\ OneThread /\ InFlightIsTracked /\ AskedInv /\ RunningIsAttended /\ QuietInv

-----------------------------------------------------------------------------
(* The recorders give a row a state it may have, and a verdict ends the     *)
(* running state.                                                           *)
LEMMA RecordersEnd ==
    \A s \in RowStates :
        /\ Started(s) \in RowStates
        /\ \A code : Recorded(s, code) \in RowStates /\ Recorded(s, code) # "running"
BY DEF RowStates, Settled, Started, Recorded

(* The next thread is one that has not started. *)
LEMMA NextIsFresh ==
    ASSUME MaxRuns \in Nat, Fresh # {}
    PROVE  Next1 \in Runs /\ run[Next1].pc = "none"
<1>1. Fresh \subseteq Nat
  BY DEF Fresh, Runs
<1>2. PICK r \in Fresh : \A s \in Fresh : ~(<<s, r>> \in OpToRel(<, Nat))
  BY <1>1, WFMin, NatLessThanWellFounded
<1>3. \A s \in Fresh : ~(s < r)
  BY <1>1, <1>2 DEF OpToRel
<1>4. \A s \in Fresh : r <= s
  BY <1>1, <1>3
<1>5. Next1 \in Fresh
  BY <1>4 DEF Next1
<1>6. QED
  BY <1>5 DEF Fresh

(* A step of one burn thread that changes neither its job nor its flag.     *)
Moves(r, p) ==
    /\ run' \in [Runs -> RunState]
    /\ run'[r].pc = p /\ run'[r].job = run[r].job /\ run'[r].flag = run[r].flag
    /\ \A s \in Runs : s # r => run'[s] = run[s]

(* A step from one place to the next is such a step... *)
LEMMA ToMoves ==
    ASSUME TypeInv, NEW r \in Runs, NEW from, NEW p \in Steps, To(r, from, p)
    PROVE  Moves(r, p)
<1>1. run \in [Runs -> RunState] /\ run' = [run EXCEPT ![r].pc = p]
  BY DEF TypeInv, To
<1>2. QED
  BY <1>1 DEF Moves, RunState

(* ...and so is the end of the work. *)
LEMMA EndMoves ==
    ASSUME TypeInv, NEW r \in Runs, NEW from, NEW code \in Outcomes, EndsWith(r, from, code)
    PROVE  Moves(r, "finished")
<1>1. /\ run \in [Runs -> RunState] /\ "finished" \in Steps
      /\ run' = [run EXCEPT ![r].pc = "finished", ![r].code = code]
  BY DEF TypeInv, EndsWith, Steps, Working, BeforeRecord
<1>2. QED
  BY <1>1 DEF Moves, RunState

(* ...and its last one, with which its outcome is gone.                     *)
LEMMA OverMoves ==
    ASSUME TypeInv, NEW r \in Runs,
           run' = [run EXCEPT ![r].pc = "done", ![r].code = "none"]
    PROVE  Moves(r, "done")
<1>1. run \in [Runs -> RunState] /\ "done" \in Steps /\ "none" \in Outcomes
  BY DEF TypeInv, Steps, Outcomes
<1>2. QED
  BY <1>1 DEF Moves, RunState

(* What holds after every such step of a thread that is at work.            *)
LEMMA MovesKeep ==
    ASSUME TypeInv, OneThread, AskedInv, NEW r \in Runs, NEW p \in Steps \ {"none"},
           Moves(r, p), Busy(r), UNCHANGED <<registry, asked, dl, down>>
    PROVE  /\ run' \in [Runs -> RunState] /\ (\A s \in Runs : Busy(s)' => run'[s].job \in Jobs)
           /\ OneThread' /\ AskedInv'
<1>1. \A s \in Runs : Busy(s)' => Busy(s) /\ run'[s].job = run[s].job
  BY DEF Busy, Moves
<1>2. run' \in [Runs -> RunState] /\ \A s \in Runs : Busy(s)' => run'[s].job \in Jobs
  BY <1>1 DEF Moves, TypeInv
<1>3. OneThread'
  BY <1>1 DEF OneThread, Up
<1>4. AskedInv'
  BY DEF AskedInv, Moves, TypeInv
<1>5. QED
  BY <1>2, <1>3, <1>4

-----------------------------------------------------------------------------
(* A burn begins for a job that has no thread.                              *)
LEMMA BeginKeeps ==
    ASSUME MaxRuns \in Nat, IInv, NEW j \in Jobs, BeginBurn(j), Up,
           \A r \in Runs : Busy(r) => run[r].job # j,
           dl' = dl \ {j}, quit # "cleared", UNCHANGED <<rowVars, asked, quitVars>>
    PROVE  IInv'
<1>1. PICK r \in Runs : /\ run[r].pc = "none" /\ registry' = [registry EXCEPT ![j] = r]
                        /\ run' = [run EXCEPT ![r] = [job |-> j, pc |-> "starting",
                                                      flag |-> FALSE, code |-> "none"]]
                        /\ active' = active \cup {j}
  <2>1. Fresh # {}
    BY DEF BeginBurn
  <2>2. QED
    BY <2>1, NextIsFresh DEF BeginBurn, Register
<1>2. /\ run' \in [Runs -> RunState] /\ registry' \in [Jobs -> Runs \cup {None}]
      /\ run'[r].pc = "starting" /\ run'[r].job = j /\ registry'[j] = r
      /\ \A s \in Runs : s # r => run'[s] = run[s]
      /\ \A k \in Jobs : k # j => registry'[k] = registry[k]
  <2>1. [job |-> j, pc |-> "starting", flag |-> FALSE, code |-> "none"] \in RunState
    BY DEF RunState, Steps, Working, BeforeRecord, Outcomes
  <2>2. QED
    BY <1>1, <2>1 DEF IInv, TypeInv
<1>3. /\ row' = row /\ quit' = quit /\ down' = down
  BY DEF rowVars, quitVars
<1>4. \A s \in Runs : Busy(s)' => s = r \/ (Busy(s) /\ run'[s] = run[s] /\ run[s].job # j)
  BY <1>2 DEF Busy
<1>5. TypeInv'
  BY <1>1, <1>2, <1>3, <1>4 DEF IInv, TypeInv
<1>6. OneThread'
  BY <1>2, <1>3, <1>4 DEF IInv, TypeInv, OneThread, Up
<1>7. InFlightIsTracked'
  <2>1. ASSUME NEW s \in Runs, run'[s].pc \in BeforeRecord PROVE run'[s].job \in active'
    BY <1>1, <1>2, <2>1 DEF IInv, InFlightIsTracked
  <2>2. dl' \subseteq active'
    BY <1>1 DEF IInv, InFlightIsTracked
  <2>3. QED
    BY <2>1, <2>2 DEF InFlightIsTracked
<1>8. AskedInv'
  <2>1. r \notin asked
    BY <1>1 DEF IInv, AskedInv
  <2>2. QED
    BY <1>2, <2>1 DEF IInv, AskedInv, TypeInv
<1>9. RunningIsAttended'
  <2>1. ASSUME NEW k \in Jobs, row[k] = "running"
        PROVE  k \in dl' \/ \E s \in Runs : run'[s].job = k /\ run'[s].pc \in BeforeRecord
    <3>1. CASE k = j
      BY <1>2, <3>1 DEF BeforeRecord
    <3>2. CASE k # j
      <4>1. k \in dl \/ \E s \in Runs : run[s].job = k /\ run[s].pc \in BeforeRecord
        BY <2>1 DEF IInv, RunningIsAttended, InHand
      <4>2. QED
        BY <1>1, <1>2, <3>2, <4>1 DEF BeforeRecord
    <3>3. QED
      BY <3>1, <3>2
  <2>2. QED
    BY <1>3, <2>1 DEF RunningIsAttended, InHand
<1>10. QuietInv'
  BY <1>3 DEF IInv, QuietInv, QuietExit, Up
<1>11. QED
  BY <1>5, <1>6, <1>7, <1>8, <1>9, <1>10 DEF IInv

(* Flags go up and stay up; nothing else about the threads changes.         *)
LEMMA FlagsKeep ==
    ASSUME IInv, NEW rs, run' = Flagged(rs), Up,
           asked' \subseteq asked \cup rs, asked' \subseteq Runs,
           \A r \in asked' : run[r].pc # "none",
           quit' # "cleared" \/ active = {},
           UNCHANGED <<rowVars, active, registry, dl, down>>
    PROVE  IInv'
<1>1. /\ run' \in [Runs -> RunState]
      /\ \A r \in Runs : /\ run'[r].pc = run[r].pc /\ run'[r].job = run[r].job
                         /\ run[r].flag \/ r \in rs => run'[r].flag
  <2>1. run \in [Runs -> RunState]
    BY DEF IInv, TypeInv
  <2>2. \A r \in Runs : [run[r] EXCEPT !.flag = TRUE] \in RunState
    BY <2>1 DEF RunState
  <2>3. \A r \in Runs :
            run'[r] = IF r \in rs THEN [run[r] EXCEPT !.flag = TRUE] ELSE run[r]
    BY DEF Flagged
  <2>4. run' \in [Runs -> RunState]
    BY <2>1, <2>2 DEF Flagged
  <2>5. \A r \in Runs : /\ [run[r] EXCEPT !.flag = TRUE].pc = run[r].pc
                       /\ [run[r] EXCEPT !.flag = TRUE].job = run[r].job
                       /\ [run[r] EXCEPT !.flag = TRUE].flag
    BY <2>1 DEF RunState
  <2>6. QED
    BY <2>3, <2>4, <2>5
<1>2. row' = row
  BY DEF rowVars
<1>3. TypeInv'
  BY <1>1, <1>2 DEF IInv, TypeInv, Busy
<1>4. OneThread' /\ InFlightIsTracked' /\ RunningIsAttended'
  BY <1>1, <1>2 DEF IInv, OneThread, InFlightIsTracked, RunningIsAttended, InHand, Busy, Up
<1>5. AskedInv'
  BY <1>1 DEF IInv, AskedInv, TypeInv
<1>6. QuietInv'
  BY <1>2 DEF IInv, QuietInv, QuietExit, Up
<1>7. QED
  BY <1>3, <1>4, <1>5, <1>6 DEF IInv

(* The app goes down: only a quiet exit must leave no job running.          *)
LEMMA DownKeeps ==
    ASSUME IInv, NEW how, GoDown(how), Up, how # "up", how \in {"closed", "cleared"} => active = {}
    PROVE  IInv'
<1>1. /\ run' \in [Runs -> RunState]
      /\ \A r \in Runs : /\ ~Busy(r)' /\ run'[r].flag = run[r].flag
                         /\ run'[r].pc = "none" => run[r].pc = "none"
  <2>1. run \in [Runs -> RunState] /\ "done" \in Steps /\ "done" \notin Working
    BY DEF IInv, TypeInv, Steps, Working, BeforeRecord
  <2>2. \A r \in Runs : [run[r] EXCEPT !.pc = "done", !.code = "none"] \in RunState
    BY <2>1 DEF RunState, Outcomes
  <2>3. \A r \in Runs :
            run'[r] = IF run[r].pc \in Working
                      THEN [run[r] EXCEPT !.pc = "done", !.code = "none"] ELSE run[r]
    BY DEF GoDown
  <2>4. \A r \in Runs : /\ [run[r] EXCEPT !.pc = "done", !.code = "none"].pc = "done"
                       /\ [run[r] EXCEPT !.pc = "done", !.code = "none"].flag = run[r].flag
    BY <2>1 DEF RunState
  <2>5. run' \in [Runs -> RunState]
    BY <2>1, <2>2 DEF GoDown
  <2>6. QED
    BY <2>1, <2>3, <2>4, <2>5 DEF Busy
<1>2. /\ active' = {} /\ dl' = {} /\ down' = how /\ row' = row /\ asked' = asked
      /\ quit' = "no" /\ registry' = [k \in Jobs |-> None]
  BY DEF GoDown, rowVars
<1>3. TypeInv' /\ OneThread'
  BY <1>1, <1>2 DEF IInv, TypeInv, OneThread
<1>4. InFlightIsTracked'
  BY <1>1, <1>2 DEF InFlightIsTracked, Busy, Working
<1>5. AskedInv'
  BY <1>1, <1>2 DEF IInv, AskedInv, TypeInv
<1>6. RunningIsAttended'
  BY <1>2 DEF RunningIsAttended, InHand, Up
<1>7. QuietInv'
  <2>1. active = {} => \A k \in Jobs : row[k] # "running"
    BY DEF IInv, RunningIsAttended, InHand, InFlightIsTracked
  <2>2. QED
    BY <1>2, <2>1 DEF QuietInv, QuietExit
<1>8. QED
  BY <1>3, <1>4, <1>5, <1>6, <1>7 DEF IInv

(* A burn thread moves on. The job may leave ActiveBurns only with a row    *)
(* that is settled.                                                         *)
LEMMA ThreadKeeps ==
    ASSUME IInv, Up, NEW r \in Runs, NEW p \in Steps \ {"none"}, Moves(r, p), Busy(r),
           UNCHANGED <<registry, asked, dl, quitVars>>,
           row' \in [Jobs -> RowStates], \A k \in Jobs : k # run[r].job => row'[k] = row[k],
           p \in BeforeRecord \/ row'[run[r].job] # "running",
           active' = active \/ (p \notin BeforeRecord /\ active' = active \ {run[r].job}),
           p \in BeforeRecord => run[r].pc \in BeforeRecord
    PROVE  IInv'
<1>1. down' = down /\ quit' = quit
  BY DEF quitVars
<1>2. /\ run' \in [Runs -> RunState] /\ (\A s \in Runs : Busy(s)' => run'[s].job \in Jobs)
      /\ OneThread' /\ AskedInv'
  BY <1>1, MovesKeep DEF IInv
<1>3. TypeInv'
  BY <1>2 DEF IInv, TypeInv
<1>4. \A s \in Runs : run'[s].pc \in BeforeRecord =>
          run[s].pc \in BeforeRecord /\ run'[s].job = run[s].job
  BY DEF Moves
<1>5. InFlightIsTracked'
  <2>1. CASE active' = active
    BY <1>4, <2>1 DEF IInv, InFlightIsTracked
  <2>2. CASE p \notin BeforeRecord /\ active' = active \ {run[r].job}
    <3>1. ASSUME NEW s \in Runs, run'[s].pc \in BeforeRecord PROVE run'[s].job \in active'
      <4>1. s # r /\ run[s].pc \in BeforeRecord /\ run'[s].job = run[s].job
        BY <1>4, <2>2, <3>1 DEF Moves
      <4>2. run[s].job # run[r].job
        BY <4>1 DEF IInv, OneThread, Busy, Working
      <4>3. QED
        BY <2>2, <4>1, <4>2 DEF IInv, InFlightIsTracked
    <3>2. dl \subseteq active \ {run[r].job}
      BY DEF IInv, OneThread, InFlightIsTracked
    <3>3. QED
      BY <2>2, <3>1, <3>2 DEF InFlightIsTracked
  <2>3. QED
    BY <2>1, <2>2
<1>6. RunningIsAttended'
  <2>1. ASSUME NEW k \in Jobs, row'[k] = "running"
        PROVE  k \in dl \/ \E s \in Runs : run'[s].job = k /\ run'[s].pc \in BeforeRecord
    <3>1. CASE k = run[r].job
      BY <2>1, <3>1 DEF Moves
    <3>2. CASE k # run[r].job
      <4>1. k \in dl \/ \E s \in Runs : run[s].job = k /\ run[s].pc \in BeforeRecord
        BY <2>1, <3>2 DEF IInv, RunningIsAttended, InHand
      <4>2. QED
        BY <3>2, <4>1 DEF Moves
    <3>3. QED
      BY <3>1, <3>2
  <2>2. QED
    BY <2>1 DEF RunningIsAttended, InHand
<1>7. QuietInv'
  BY <1>1 DEF IInv, QuietInv, QuietExit, Up
<1>8. QED
  BY <1>2, <1>3, <1>5, <1>6, <1>7 DEF IInv

(* A thread past its record works for a job whose row is settled.           *)
LEMMA SettledBehind ==
    ASSUME IInv, Up, NEW r \in Runs, Busy(r), run[r].pc \notin BeforeRecord
    PROVE  row[run[r].job] # "running"
<1>1. run[r].job \in Jobs /\ run[r].job \notin dl
  BY DEF IInv, TypeInv, OneThread
<1>2. \A s \in Runs : run[s].pc \in BeforeRecord => run[s].job # run[r].job
  BY DEF IInv, OneThread, Busy, Working
<1>3. QED
  BY <1>1, <1>2 DEF IInv, RunningIsAttended, InHand

(* A burn thread: it settles its row before it leaves the registry. *)
LEMMA BurnKeeps == ASSUME IInv, NEW r \in Runs, Burn(r) PROVE IInv'
<1>0. /\ row \in [Jobs -> RowStates] /\ TypeInv
      /\ Busy(r) => run[r].job \in Jobs
  BY DEF IInv, TypeInv
<1> DEFINE j == run[r].job
<1>1. CASE ThreadStarts(r)
  <2>1. /\ To(r, "starting", "opening") /\ row' = [row EXCEPT ![j] = Started(row[j])]
        /\ UNCHANGED <<registry, asked, dl, quitVars, active>>
    BY <1>1 DEF ThreadStarts, regVars, dlVars
  <2>2. Up /\ Busy(r) /\ Moves(r, "opening")
    BY <1>0, <2>1, ToMoves DEF To, Busy, Working, BeforeRecord, Steps
  <2>3. Started(row[j]) \in RowStates
    BY <1>0, <2>2, RecordersEnd
  <2>4. QED
    BY <1>0, <2>1, <2>2, <2>3, ThreadKeeps DEF To, BeforeRecord, Steps, Working
<1>2. CASE Opens(r) \/ Loops(r) \/ Sweeps(r)
  <2>1. UNCHANGED <<row, registry, asked, dl, quitVars, active>>
    BY <1>2 DEF Opens, Loops, Sweeps, rowVars, regVars, dlVars
  <2>2. \/ \E from, p \in BeforeRecord : To(r, from, p)
        \/ \E from \in BeforeRecord, code \in Outcomes : EndsWith(r, from, code)
    <3>1. CASE Opens(r)
      BY <3>1 DEF Opens, BeforeRecord, Outcomes
    <3>2. CASE Loops(r)
      BY <3>2 DEF Loops, BeforeRecord, Outcomes
    <3>3. CASE Sweeps(r)
      BY <3>3 DEF Sweeps, BeforeRecord
    <3>4. QED
      BY <1>2, <3>1, <3>2, <3>3
  <2>3. PICK p \in BeforeRecord : Up /\ run[r].pc \in BeforeRecord /\ Moves(r, p)
    BY <1>0, <2>2, ToMoves, EndMoves DEF To, EndsWith, BeforeRecord, Steps, Working
  <2>4. Busy(r) /\ p \in Steps \ {"none"}
    BY <2>3 DEF Busy, BeforeRecord, Steps, Working
  <2>5. QED
    BY <1>0, <2>1, <2>3, <2>4, ThreadKeeps
<1>3. CASE Progress(r)
  <2>1. UNCHANGED <<row, registry, run, asked, dl, active, down, quit>>
    BY <1>3 DEF Progress, regVars, dlVars, quitVars
  <2>2. QED
    BY <2>1 DEF IInv, TypeInv, OneThread, InFlightIsTracked, AskedInv, RunningIsAttended, InHand,
       QuietInv, QuietExit, Busy, Up
<1>4. CASE Records(r)
  <2>1. /\ To(r, "swept", "recorded") /\ row' = [row EXCEPT ![j] = Recorded(row[j], run[r].code)]
        /\ UNCHANGED <<registry, asked, dl, quitVars, active>>
    BY <1>4 DEF Records, regVars, dlVars
  <2>2. Up /\ Busy(r) /\ Moves(r, "recorded") /\ run[r].job \in Jobs
    BY <1>0, <2>1, ToMoves DEF To, Busy, Working, BeforeRecord, Steps
  <2>3. Recorded(row[j], run[r].code) \in RowStates /\ Recorded(row[j], run[r].code) # "running"
    BY <1>0, <2>2, RecordersEnd
  <2>4. QED
    BY <1>0, <2>1, <2>2, <2>3, ThreadKeeps DEF To, BeforeRecord, Steps, Working
<1>5. CASE Deregisters(r) \/ Emits(r)
  <2>1. /\ UNCHANGED <<row, registry, asked, dl, quitVars>>
        /\ \/ To(r, "recorded", "deregistered") /\ active' = active \ {run[r].job}
           \/ /\ Up /\ run[r].pc = "deregistered" /\ active' = active
              /\ run' = [run EXCEPT ![r].pc = "done", ![r].code = "none"]
    BY <1>5 DEF Deregisters, Emits, rowVars, regVars, dlVars
  <2>2. PICK p \in {"deregistered", "done"} : Moves(r, p)
    BY <1>0, <2>1, ToMoves, OverMoves DEF Steps, Working, BeforeRecord
  <2>3. Up /\ Busy(r) /\ run[r].pc \notin BeforeRecord
    BY <2>1 DEF To, Busy, Working, BeforeRecord
  <2>4. p \in Steps \ {"none"} /\ p \notin BeforeRecord
    BY <2>2 DEF Steps, Working, BeforeRecord
  <2>5. row[run[r].job] # "running"
    BY <2>3, SettledBehind
  <2>6. QED
    BY <1>0, <2>1, <2>2, <2>3, <2>4, <2>5, ThreadKeeps
<1>6. QED
  BY <1>1, <1>2, <1>3, <1>4, <1>5 DEF Burn

-----------------------------------------------------------------------------
(* The window, the download threads and the way out.                        *)
LEMMA WindowKeeps == ASSUME MaxRuns \in Nat, IInv, NEW j \in Jobs,
                            StartLocal(j) \/ StartCloud(j) \/ Requeue(j) \/ Cancel(j)
                     PROVE  IInv'
<1>0. /\ Up /\ quit = "no" /\ row \in [Jobs -> RowStates]
      /\ \A r \in Runs : Busy(r) /\ Idle(j) => run[r].job # j
  BY DEF StartLocal, StartCloud, Requeue, Cancel, Idle, Command, IInv, TypeInv, RunsOf, Busy
<1>1. CASE StartLocal(j)
  <2>1. /\ BeginBurn(j) /\ Idle(j) /\ dl' = dl /\ j \notin dl
        /\ UNCHANGED <<rowVars, asked, quitVars>>
    BY <1>1 DEF StartLocal, dlVars, Idle
  <2>2. QED
    BY <1>0, <2>1, BeginKeeps
<1>2. CASE StartCloud(j)
  <2>1. /\ Idle(j) /\ j \notin dl /\ dl' = dl \cup {j} /\ active' = active \cup {j}
        /\ row' = [row EXCEPT ![j] = Started(row[j])]
        /\ UNCHANGED <<registry, run, asked, down, quit>>
    BY <1>2 DEF StartCloud, quitVars, Idle
  <2>2. row' \in [Jobs -> RowStates] /\ \A k \in Jobs : k # j => row'[k] = row[k]
    BY <1>0, <2>1, RecordersEnd
  <2>3. TypeInv' /\ OneThread' /\ InFlightIsTracked' /\ AskedInv' /\ QuietInv'
    BY <1>0, <2>1, <2>2 DEF IInv, TypeInv, OneThread, InFlightIsTracked, AskedInv, QuietInv,
       QuietExit, Busy, Up
  <2>4. RunningIsAttended'
    BY <2>1, <2>2 DEF IInv, RunningIsAttended, InHand, Up
  <2>5. QED
    BY <2>3, <2>4 DEF IInv
<1>3. CASE Requeue(j)
  <2>1. /\ row' = [row EXCEPT ![j] = IF row[j] \in {"error", "cancelled"} THEN "queued" ELSE row[j]]
        /\ UNCHANGED <<registry, run, asked, dl, active, down, quit>>
    BY <1>3 DEF Requeue, regVars, dlVars, quitVars
  <2>2. row' \in [Jobs -> RowStates]
    BY <1>0, <2>1 DEF RowStates
  <2>3. \A k \in Jobs : row'[k] = "running" => row[k] = "running"
    BY <1>0, <2>1
  <2>4. QED
    BY <1>0, <2>1, <2>2, <2>3 DEF IInv, TypeInv, OneThread, InFlightIsTracked, AskedInv,
       RunningIsAttended, InHand, QuietInv, QuietExit, Busy, Up
<1>4. CASE Cancel(j)
  <2>1. /\ run' = Flagged({registry[j]}) /\ asked' = asked \cup RunsOf(j)
        /\ UNCHANGED <<rowVars, active, registry, dl, down, quit>>
    BY <1>4 DEF Cancel, dlVars, quitVars
  <2>2. \A r \in RunsOf(j) : r \in Runs /\ r = registry[j] /\ run[r].pc # "none"
    BY DEF RunsOf, IInv, OneThread, Busy, Working, BeforeRecord
  <2>3. /\ asked' \subseteq asked \cup {registry[j]} /\ asked' \subseteq Runs
        /\ \A r \in asked' : run[r].pc # "none"
    BY <2>1, <2>2 DEF IInv, TypeInv, AskedInv
  <2>4. QED
    BY <1>0, <2>1, <2>3, FlagsKeep
<1>5. QED
  BY <1>1, <1>2, <1>3, <1>4

(* A download: it ends in the row, or hands its job to a burn thread. *)
LEMMA DownloadKeeps == ASSUME MaxRuns \in Nat, IInv, NEW j \in Jobs,
                              \/ DownloadCancelled(j) \/ DownloadFails(j)
                              \/ DownloadChecked(j) \/ DownloadDone(j)
                       PROVE  IInv'
<1>0. /\ Up /\ j \in dl /\ row \in [Jobs -> RowStates]
      /\ j \in active /\ \A r \in Runs : Busy(r) => run[r].job # j
  BY DEF DownloadCancelled, DownloadFails, DownloadChecked, DownloadDone, IInv, TypeInv, OneThread,
     InFlightIsTracked
<1>1. CASE DownloadDone(j)
  <2>1. BeginBurn(j) /\ dl' = dl \ {j} /\ UNCHANGED <<rowVars, asked, quitVars>>
    BY <1>1 DEF DownloadDone
  <2>2. quit # "cleared"
    BY <1>0 DEF IInv, QuietInv
  <2>3. QED
    BY <1>0, <2>1, <2>2, BeginKeeps
<1>2. CASE DownloadCancelled(j) \/ DownloadFails(j)
  <2>1. PICK code : /\ row' = [row EXCEPT ![j] = Recorded(row[j], code)]
                    /\ active' = active \ {j} /\ dl' = dl \ {j}
                    /\ UNCHANGED <<registry, run, asked, down, quit>>
    BY <1>2 DEF DownloadCancelled, DownloadFails, FailJob, quitVars
  <2>2. /\ row' \in [Jobs -> RowStates] /\ row'[j] # "running"
        /\ \A k \in Jobs : k # j => row'[k] = row[k]
    BY <1>0, <2>1, RecordersEnd
  <2>3. TypeInv' /\ OneThread' /\ AskedInv'
    BY <1>0, <2>1, <2>2 DEF IInv, TypeInv, OneThread, AskedInv, Busy, Up
  <2>4. InFlightIsTracked'
    BY <1>0, <2>1 DEF IInv, InFlightIsTracked, Busy, Working
  <2>5. RunningIsAttended'
    BY <1>0, <2>1, <2>2 DEF IInv, RunningIsAttended, InHand, Up
  <2>6. QuietInv'
    BY <1>0, <2>1 DEF IInv, QuietInv, QuietExit, Up
  <2>7. QED
    BY <2>3, <2>4, <2>5, <2>6 DEF IInv
<1>3. CASE DownloadChecked(j)
  <2>1. UNCHANGED <<row, active, registry, run, asked, dl, down, quit>>
    BY <1>3 DEF DownloadChecked, rowVars, regVars, quitVars
  <2>2. QED
    BY <2>1 DEF IInv, TypeInv, OneThread, AskedInv, InFlightIsTracked, RunningIsAttended,
       QuietInv, QuietExit, InHand, Busy, Up
<1>4. QED
  BY <1>1, <1>2, <1>3

(* A step of the close dialog that touches no thread. *)
LEMMA QuitFrame ==
    ASSUME IInv, Up, UNCHANGED <<rowVars, active, registry, run, asked, dlVars, down>>,
           quit' = "cleared" => active = {}
    PROVE  IInv'
BY DEF IInv, TypeInv, OneThread, InFlightIsTracked, AskedInv, RunningIsAttended, InHand, QuietInv,
   QuietExit, Busy, Up, rowVars, dlVars

(* The quit, the kill and the next launch, which settles what was running.  *)
LEMMA QuitKeeps ==
    ASSUME IInv, CloseWindow \/ KeepBurning \/ AbortAndQuit \/ Quit \/ Killed \/ Launch
    PROVE  IInv'
<1>1. CASE CloseWindow
  <2>1. CASE active = {}
    BY <1>1, <2>1, DownKeeps DEF CloseWindow, Command
  <2>2. CASE active # {}
    BY <1>1, <2>2, QuitFrame DEF CloseWindow, Command, regVars
  <2>3. QED
    BY <2>1, <2>2
<1>2. CASE KeepBurning \/ AbortAndQuit \/ TakeSnapshot \/ WriteSentinels \/ Cleared \/ GraceOver
  BY <1>2, QuitFrame DEF KeepBurning, AbortAndQuit, TakeSnapshot, WriteSentinels, Cleared,
     GraceOver, QuitTo
<1>3. CASE RaiseFlags
  <2>1. /\ run' = Flagged({registry[j] : j \in snap}) /\ Up /\ quit' = "flagged"
        /\ UNCHANGED <<rowVars, active, registry, asked, dl, down>>
    BY <1>3 DEF RaiseFlags, QuitTo, dlVars
  <2>2. asked' \subseteq Runs /\ \A r \in asked' : run[r].pc # "none"
    BY <2>1 DEF IInv, TypeInv, AskedInv
  <2>3. QED
    BY <2>1, <2>2, FlagsKeep
<1>4. CASE Exit
  <2>1. Up /\ GoDown(quit) /\ quit \in {"cleared", "gave up"}
    BY <1>4 DEF Exit
  <2>2. quit \in {"closed", "cleared"} => active = {}
    BY <2>1 DEF IInv, QuietInv
  <2>3. QED
    BY <2>1, <2>2, DownKeeps
<1>5. CASE Killed
  BY <1>5, DownKeeps DEF Killed
<1>6. CASE Launch
  <2>1. /\ ~Up /\ Up' /\ row' = [j \in Jobs |-> Reattach(row[j])]
        /\ UNCHANGED <<registry, run, asked, dl, active, quit>>
    BY <1>6 DEF Launch, Up, regVars, dlVars
  <2>2. \A j \in Jobs : Reattach(row[j]) \in RowStates /\ Reattach(row[j]) # "running"
    BY DEF IInv, TypeInv, RowStates, Settled, Reattach
  <2>3. row' \in [Jobs -> RowStates] /\ \A j \in Jobs : row'[j] # "running"
    BY <2>1, <2>2
  <2>4. QED
    BY <2>1, <2>3 DEF IInv, TypeInv, OneThread, InFlightIsTracked, AskedInv, RunningIsAttended, InHand,
       QuietInv, QuietExit, Busy, Up
<1>7. QED
  BY <1>1, <1>2, <1>3, <1>4, <1>5, <1>6 DEF Quit

-----------------------------------------------------------------------------
(* The invariant of registries, rows, threads and the quit. *)
THEOREM BurnInvariant == ASSUME MaxRuns \in Nat PROVE Spec => []IInv
<1>1. Init => IInv
  <2> SUFFICES ASSUME Init PROVE IInv
    OBVIOUS
  <2>1. /\ \A r \in Runs : run[r].pc = "none" /\ ~Busy(r)
        /\ row = [j \in Jobs |-> "queued"] /\ run \in [Runs -> RunState]
        /\ active = {} /\ dl = {} /\ asked = {} /\ Up
        /\ registry \in [Jobs -> Runs \cup {None}]
    BY DEF Init, Up, Busy, Working, BeforeRecord, RunState, Steps, Outcomes
  <2>2. QED
    BY <2>1 DEF IInv, TypeInv, OneThread, InFlightIsTracked, AskedInv, RunningIsAttended, InHand, QuietInv,
       QuietExit, Busy, Up, RowStates, Working
<1>2. IInv /\ [Next]_vars => IInv'
  <2> SUFFICES ASSUME IInv, [Next]_vars PROVE IInv'
    OBVIOUS
  <2>1. CASE Window
    BY <2>1, WindowKeeps, QuitKeeps DEF Window
  <2>2. CASE Download
    BY <2>2, DownloadKeeps DEF Download
  <2>3. CASE \E r \in Runs : Burn(r)
    BY <2>3, BurnKeeps
  <2>4. CASE Quit \/ Killed \/ Launch
    BY <2>4, QuitKeeps
  <2>5. CASE UNCHANGED vars
    BY <2>5 DEF vars, rowVars, regVars, dlVars, quitVars, IInv, TypeInv, OneThread,
       InFlightIsTracked, AskedInv, RunningIsAttended, InHand, QuietInv, QuietExit, Busy, Up
  <2>6. QED
    BY <2>1, <2>2, <2>3, <2>4, <2>5 DEF Next
<1>3. QED
  BY <1>1, <1>2, PTL DEF Spec

(* What the close guard and abort_and_quit look at is every burn and        *)
(* download whose row is not settled; a quit that saw none left no row       *)
(* running; a cancel reaches the thread at work; and a running row has a     *)
(* thread, whatever number of jobs, burns, cancels, retries and exits.       *)
THEOREM BurnsAreInHand ==
    ASSUME MaxRuns \in Nat
    PROVE  Spec => [](InFlightIsTracked /\ QuietExit /\ CancelReachesBurn /\ RunningIsAttended)
<1>1. IInv => InFlightIsTracked /\ QuietExit /\ CancelReachesBurn /\ RunningIsAttended
  BY DEF IInv, QuietInv, AskedInv, CancelReachesBurn
<1>2. QED
  BY <1>1, BurnInvariant, PTL

-----------------------------------------------------------------------------
(* The refinement of BurnJob: each job that the app burns keeps what the     *)
(* queue is promised of a job.                                              *)

Open == {"queued", "running"}

(* A thread that has found its image on the device, and not told yet. *)
Tells(r, k) ==
    /\ run[r].job = k /\ run[r].code = "match"
    /\ run[r].pc \in {"finished", "swept", "recorded", "deregistered"}

(* How a step of the running app may move the row of a job: it starts to run *)
(* in somebody's hands, it is settled, or a click puts it back in the queue. *)
RowMove(k) ==
    \/ row'[k] = row[k]
    \/ row[k] = "queued" /\ row'[k] = "running" /\ InHand(k)'
    \/ row[k] \in Open /\ row'[k] \in {"error", "cancelled"}
    \/ row[k] = "running" /\ row'[k] = "success" /\ Matched(k)
    \/ row[k] \in {"error", "cancelled"} /\ row'[k] = "queued" /\ (InHand(k)' <=> InHand(k))

(* Such a step is one that BurnJob allows: a running row is in hand after it. *)
LEMMA MoveAllowed ==
    ASSUME NEW k \in Jobs, Up, Up', RunningIsAttended', RowMove(k),
           Matched(k)' <=> Matched(k)
    PROVE  Job(k)!Next
<1>b. /\ InHand(k) \in BOOLEAN /\ Matched(k) \in BOOLEAN /\ Up \in BOOLEAN
      /\ InHand(k)' \in BOOLEAN /\ Matched(k)' \in BOOLEAN /\ Up' \in BOOLEAN
  BY DEF InHand, Matched, Up
<1>1. CASE row'[k] = row[k]
  <2>1. CASE InHand(k)'
    <3>1. Job(k)!Take
      BY <1>b, <1>1, <2>1 DEF Job!Take
    <3> QED BY <3>1 DEF Job!Next
  <2>2. CASE ~InHand(k)'
    <3>1. row[k] # "running"
      BY <1>1, <2>2 DEF RunningIsAttended
    <3>2. Job(k)!LetGo
      BY <1>b, <1>1, <2>2, <3>1 DEF Job!LetGo
    <3> QED BY <3>2 DEF Job!Next
  <2> QED BY <2>1, <2>2
<1>2. CASE row[k] = "queued" /\ row'[k] = "running" /\ InHand(k)'
  <2>1. Job(k)!Start
    BY <1>b, <1>2 DEF Job!Start
  <2> QED BY <2>1 DEF Job!Next
<1>3. CASE row[k] \in Open /\ row'[k] \in {"error", "cancelled"}
  <2>1. Job(k)!Fail
    BY <1>b, <1>3 DEF Job!Fail, Job!Open, Open
  <2> QED BY <2>1 DEF Job!Next
<1>4. CASE row[k] = "running" /\ row'[k] = "success" /\ Matched(k)
  <2>1. Job(k)!Succeed
    BY <1>b, <1>4 DEF Job!Succeed
  <2> QED BY <2>1 DEF Job!Next
<1>5. CASE row[k] \in {"error", "cancelled"} /\ row'[k] = "queued" /\ (InHand(k)' <=> InHand(k))
  <2>1. Job(k)!Retry
    BY <1>b, <1>5 DEF Job!Retry
  <2> QED BY <2>1 DEF Job!Next
<1> QED BY <1>1, <1>2, <1>3, <1>4, <1>5 DEF RowMove

(* What each recorder of db/mod.rs may make of the state of a row. *)
LEMMA RecorderMoves ==
    \A s \in RowStates :
        /\ Started(s) = s \/ (s = "queued" /\ Started(s) = "running")
        /\ \A code : \/ Recorded(s, code) = s
                     \/ s \in Open /\ Recorded(s, code) \in {"error", "cancelled"}
                     \/ s = "running" /\ code = "match" /\ Recorded(s, code) = "success"
BY DEF RowStates, Settled, Open, Started, Recorded

(* Who may tell of a match is looked up in the threads. *)
LEMMA MatchedKept ==
    ASSUME NEW k, \A r \in Runs : Tells(r, k)' <=> Tells(r, k)
    PROVE  Matched(k)' <=> Matched(k)
<1>1. (Matched(k) <=> \E r \in Runs : Tells(r, k)) /\ (Matched(k)' <=> \E r \in Runs : Tells(r, k)')
  BY DEF Matched, Tells
<1> QED BY <1>1

(* The start of a burn leaves what others have found, and has its job in hand. *)
LEMMA BeginMoves ==
    ASSUME MaxRuns \in Nat, TypeInv, NEW j \in Jobs, BeginBurn(j)
    PROVE  /\ \A k : Matched(k)' <=> Matched(k)
           /\ InHand(j)'
<1>1. PICK n \in Runs : /\ run[n].pc = "none"
                        /\ run' = [run EXCEPT ![n] = [job |-> j, pc |-> "starting",
                                                      flag |-> FALSE, code |-> "none"]]
  BY NextIsFresh DEF BeginBurn
<1>2. run \in [Runs -> RunState]
  BY DEF TypeInv
<1>3. \A k : \A r \in Runs : Tells(r, k)' <=> Tells(r, k)
  BY <1>1, <1>2 DEF Tells
<1>4. InHand(j)'
  BY <1>1, <1>2 DEF InHand, BeforeRecord
<1> QED BY <1>3, <1>4, MatchedKept

(* A step of a thread that is not the end of its work finds nothing new.     *)
LEMMA ToTells ==
    ASSUME TypeInv, NEW r \in Runs, NEW from, NEW p, To(r, from, p),
           p \in {"finished", "swept", "recorded", "deregistered"} <=>
               from \in {"finished", "swept", "recorded", "deregistered"}
    PROVE  \A k : Matched(k)' <=> Matched(k)
<1>1. run \in [Runs -> RunState] /\ run' = [run EXCEPT ![r].pc = p] /\ run[r].pc = from
  BY DEF TypeInv, To
<1>2. \A s \in Runs : /\ run'[s].job = run[s].job /\ run'[s].code = run[s].code
                     /\ run'[s].pc = IF s = r THEN p ELSE run[s].pc
  BY <1>1 DEF RunState
<1>3. \A k : \A s \in Runs : Tells(s, k)' <=> Tells(s, k)
  BY <1>1, <1>2 DEF Tells
<1> QED BY <1>3, MatchedKept

(* Nor does a flag. *)
LEMMA FlagTells ==
    ASSUME TypeInv, NEW rs, run' = Flagged(rs)
    PROVE  \A k : Matched(k)' <=> Matched(k)
<1>1. run \in [Runs -> RunState]
  BY DEF TypeInv
<1>2. \A s \in Runs : /\ run'[s].job = run[s].job /\ run'[s].code = run[s].code
                     /\ run'[s].pc = run[s].pc
  BY <1>1 DEF Flagged, RunState
<1>3. \A k : \A s \in Runs : Tells(s, k)' <=> Tells(s, k)
  BY <1>2 DEF Tells
<1> QED BY <1>3, MatchedKept

(* The window and the downloads move the row as they may. *)
LEMMA WindowMoves ==
    ASSUME MaxRuns \in Nat, TypeInv, NEW j \in Jobs, NEW k \in Jobs,
           \/ StartLocal(j) \/ StartCloud(j) \/ Requeue(j) \/ Cancel(j)
           \/ DownloadCancelled(j) \/ DownloadFails(j)
           \/ DownloadChecked(j) \/ DownloadDone(j)
    PROVE  /\ Up /\ Up' /\ RowMove(k) /\ (Matched(k)' <=> Matched(k))
<1>0. row \in [Jobs -> RowStates] /\ row[k] \in RowStates
  BY DEF TypeInv
<1>u. Up /\ Up'
  BY DEF StartLocal, StartCloud, Requeue, Cancel, DownloadCancelled, DownloadFails,
     DownloadChecked, DownloadDone, Idle, Command, Up, quitVars
<1>1. CASE StartLocal(j) \/ DownloadDone(j)
  <2>1. BeginBurn(j) /\ row' = row
    BY <1>1 DEF StartLocal, DownloadDone, rowVars
  <2> QED BY <1>u, <2>1, BeginMoves DEF RowMove
<1>2. CASE StartCloud(j)
  <2>1. run' = run /\ row' = [row EXCEPT ![j] = Started(row[j])] /\ dl' = dl \cup {j}
    BY <1>2 DEF StartCloud
  <2>2. InHand(j)' /\ (Matched(k)' <=> Matched(k))
    BY <2>1 DEF InHand, Matched
  <2>3. RowMove(k)
    <3>1. CASE k = j
      <4>1. row'[j] = Started(row[j])
        BY <1>0, <2>1
      <4> QED BY <1>0, <2>2, <3>1, <4>1, RecorderMoves DEF RowMove
    <3>2. CASE k # j
      BY <1>0, <2>1, <3>2 DEF RowMove
    <3> QED BY <3>1, <3>2
  <2> QED BY <1>u, <2>2, <2>3
<1>3. CASE Requeue(j)
  <2>1. /\ run' = run /\ dl' = dl
        /\ row' = [row EXCEPT ![j] = IF row[j] \in {"error", "cancelled"} THEN "queued" ELSE row[j]]
    BY <1>3 DEF Requeue, dlVars
  <2>2. (InHand(k)' <=> InHand(k)) /\ (Matched(k)' <=> Matched(k))
    BY <2>1 DEF InHand, Matched
  <2>3. row'[k] = row[k] \/ (row[k] \in {"error", "cancelled"} /\ row'[k] = "queued")
    BY <1>0, <2>1
  <2> QED BY <1>u, <2>2, <2>3 DEF RowMove
<1>4. CASE Cancel(j)
  <2>1. run' = Flagged({registry[j]}) /\ row' = row
    BY <1>4 DEF Cancel, rowVars
  <2> QED BY <1>u, <2>1, FlagTells DEF RowMove
<1>5. CASE DownloadCancelled(j) \/ DownloadFails(j)
  <2>1. PICK code \in {"ECANCELLED", "error"} :
            row' = [row EXCEPT ![j] = Recorded(row[j], code)] /\ run' = run
    BY <1>5 DEF DownloadCancelled, DownloadFails, FailJob
  <2>2. Matched(k)' <=> Matched(k)
    BY <2>1 DEF Matched
  <2>3. RowMove(k)
    <3>1. CASE k = j
      <4>1. row'[j] = Recorded(row[j], code)
        BY <1>0, <2>1
      <4> QED BY <1>0, <2>1, <3>1, <4>1, RecorderMoves DEF RowMove
    <3>2. CASE k # j
      BY <1>0, <2>1, <3>2 DEF RowMove
    <3> QED BY <3>1, <3>2
  <2> QED BY <1>u, <2>2, <2>3
<1>6. CASE DownloadChecked(j)
  BY <1>u, <1>6 DEF DownloadChecked, rowVars, RowMove, Matched
<1> QED BY <1>1, <1>2, <1>3, <1>4, <1>5, <1>6

(* A burn thread moves the row as it may, finds the image on the device, or  *)
(* forgets that it has when it has told.                                    *)
LEMMA BurnMoves ==
    ASSUME TypeInv, NEW r \in Runs, Burn(r), NEW k \in Jobs, Busy(r) => run[r].job \in Jobs,
           RunningIsAttended'
    PROVE  [Job(k)!Next]_(Job(k)!vars)
<1>0. /\ row \in [Jobs -> RowStates] /\ row[k] \in RowStates
      /\ run \in [Runs -> RunState]
  BY DEF TypeInv
<1>u. Up /\ Up'
  BY DEF Burn, ThreadStarts, Opens, Progress, Loops, Sweeps, Records, Deregisters, Emits, To,
     EndsWith, Up, quitVars
<1> DEFINE j == run[r].job
<1>1. CASE ThreadStarts(r)
  <2>1. To(r, "starting", "opening") /\ row' = [row EXCEPT ![j] = Started(row[j])]
    BY <1>1 DEF ThreadStarts
  <2>2. Matched(k)' <=> Matched(k)
    BY <2>1, ToTells
  <2>3. RowMove(k)
    <3>1. CASE k = j
      <4>1. row'[k] = Started(row[k])
        BY <1>0, <2>1, <3>1
      <4>2. InHand(k)'
        <5>1. run'[r].job = k /\ run'[r].pc = "opening"
          BY <1>0, <2>1, <3>1 DEF To, RunState
        <5> QED BY <5>1 DEF InHand, BeforeRecord
      <4> QED BY <1>0, <4>1, <4>2, RecorderMoves DEF RowMove
    <3>2. CASE k # j
      BY <1>0, <2>1, <3>2 DEF RowMove
    <3> QED BY <3>1, <3>2
  <2> QED BY <1>u, <2>2, <2>3, MoveAllowed
<1>2. CASE Records(r)
  <2>1. /\ To(r, "swept", "recorded")
        /\ row' = [row EXCEPT ![j] = Recorded(row[j], run[r].code)]
    BY <1>2 DEF Records
  <2>2. Matched(k)' <=> Matched(k)
    BY <2>1, ToTells
  <2>3. RowMove(k)
    <3>1. CASE k = j
      <4>1. row'[k] = Recorded(row[k], run[r].code)
        BY <1>0, <2>1, <3>1
      <4>2. run[r].code = "match" => Matched(k)
        BY <2>1, <3>1 DEF Matched, To
      <4> QED BY <1>0, <4>1, <4>2, RecorderMoves DEF RowMove
    <3>2. CASE k # j
      BY <1>0, <2>1, <3>2 DEF RowMove
    <3> QED BY <3>1, <3>2
  <2> QED BY <1>u, <2>2, <2>3, MoveAllowed
<1>3. CASE Sweeps(r) \/ Deregisters(r)
  <2>1. (To(r, "finished", "swept") \/ To(r, "recorded", "deregistered")) /\ row' = row
    BY <1>3 DEF Sweeps, Deregisters, rowVars
  <2>2. Matched(k)' <=> Matched(k)
    BY <2>1, ToTells
  <2>3. RowMove(k)
    BY <2>1 DEF RowMove
  <2> QED BY <1>u, <2>2, <2>3, MoveAllowed
<1>4. CASE Progress(r)
  <2>1. row' = row /\ run' = run
    BY <1>4 DEF Progress
  <2>2. RowMove(k) /\ (Matched(k)' <=> Matched(k))
    BY <2>1 DEF RowMove, Matched
  <2> QED BY <1>u, <2>2, MoveAllowed
<1>5. CASE Opens(r) \/ Loops(r)
  <2>1. /\ row' = row /\ dl' = dl
        /\ \/ \E from, p \in {"opening", "writing", "reopening", "verifying"} : To(r, from, p)
           \/ \E from, code :
                  from \in {"opening", "writing", "reopening", "verifying"} /\ EndsWith(r, from, code)
    BY <1>5 DEF Opens, Loops, rowVars, dlVars
  <2>2. CASE \E from, p \in {"opening", "writing", "reopening", "verifying"} : To(r, from, p)
    <3>1. Matched(k)' <=> Matched(k)
      BY <2>2, ToTells
    <3>2. RowMove(k)
      BY <2>1 DEF RowMove
    <3> QED BY <1>u, <3>1, <3>2, MoveAllowed
  <2>3. CASE \E from, code :
                from \in {"opening", "writing", "reopening", "verifying"} /\ EndsWith(r, from, code)
    <3>0. PICK from, code :
              from \in {"opening", "writing", "reopening", "verifying"} /\ EndsWith(r, from, code)
      BY <2>3
    <3>1. /\ from \in {"opening", "writing", "reopening", "verifying"} /\ run[r].pc = from
          /\ run' = [run EXCEPT ![r].pc = "finished", ![r].code = code]
      BY <3>0 DEF EndsWith
    <3>2. /\ \A s \in Runs : s # r => run'[s] = run[s]
          /\ run'[r].job = run[r].job /\ run'[r].pc = "finished"
      BY <1>0, <3>1 DEF RunState
    <3>3. InHand(k)' <=> InHand(k)
      BY <2>1, <3>1, <3>2 DEF InHand, BeforeRecord
    <3>4. Matched(k) => Matched(k)'
      BY <3>1, <3>2 DEF Matched
    <3>5. /\ InHand(k) \in BOOLEAN /\ Matched(k) \in BOOLEAN /\ Up \in BOOLEAN
          /\ InHand(k)' \in BOOLEAN /\ Matched(k)' \in BOOLEAN /\ Up' \in BOOLEAN
      BY DEF InHand, Matched, Up
    <3>6. Job(k)!Match \/ UNCHANGED Job(k)!vars
      BY <1>u, <2>1, <3>3, <3>4, <3>5 DEF Job!Match, Job!vars
    <3> QED BY <3>6 DEF Job!Next
  <2> QED BY <2>1, <2>2, <2>3
<1>6. CASE Emits(r)
  <2>1. /\ row' = row /\ dl' = dl /\ run[r].pc = "deregistered"
        /\ run' = [run EXCEPT ![r].pc = "done", ![r].code = "none"]
    BY <1>6 DEF Emits, dlVars
  <2>2. /\ \A s \in Runs : s # r => run'[s] = run[s]
        /\ run'[r].job = run[r].job /\ run'[r].pc = "done"
    BY <1>0, <2>1 DEF RunState
  <2>3. InHand(k)' <=> InHand(k)
    BY <2>1, <2>2 DEF InHand, BeforeRecord
  <2>4. Matched(k)' => Matched(k)
    BY <2>2 DEF Matched
  <2>5. /\ InHand(k) \in BOOLEAN /\ Matched(k) \in BOOLEAN /\ Up \in BOOLEAN
        /\ InHand(k)' \in BOOLEAN /\ Matched(k)' \in BOOLEAN /\ Up' \in BOOLEAN
    BY DEF InHand, Matched, Up
  <2>6. Job(k)!Forget \/ UNCHANGED Job(k)!vars
    BY <1>u, <2>1, <2>3, <2>4, <2>5 DEF Job!Forget, Job!vars
  <2> QED BY <2>6 DEF Job!Next
<1> QED BY <1>1, <1>2, <1>3, <1>4, <1>5, <1>6 DEF Burn

(* However the app goes down: the row stays, and nobody has the job. *)
LEMMA DownMoves ==
    ASSUME TypeInv, NEW how \in {"closed", "cleared", "gave up", "killed"}, GoDown(how), Up,
           NEW k \in Jobs
    PROVE  Job(k)!Next
<1>1. run \in [Runs -> RunState] /\ row' = row /\ dl' = {} /\ ~Up'
  BY DEF GoDown, TypeInv, rowVars, Up
<1>2. \A r \in Runs : run'[r].pc \notin Working
  <2>1. "done" \notin Working
    BY DEF Working, BeforeRecord
  <2>2. \A r \in Runs :
            run'[r] = IF run[r].pc \in Working
                      THEN [run[r] EXCEPT !.pc = "done", !.code = "none"] ELSE run[r]
    BY DEF GoDown
  <2>3. \A r \in Runs : [run[r] EXCEPT !.pc = "done", !.code = "none"].pc = "done"
    BY <1>1 DEF RunState
  <2> QED BY <2>1, <2>2, <2>3
<1>3. ~InHand(k)' /\ ~Matched(k)'
  BY <1>1, <1>2 DEF InHand, Matched, Working, BeforeRecord
<1>4. /\ InHand(k)' \in BOOLEAN /\ Matched(k)' \in BOOLEAN /\ Up' \in BOOLEAN
  BY DEF InHand, Matched, Up
<1>5. Job(k)!Die
  BY <1>1, <1>3, <1>4 DEF Job!Die
<1> QED BY <1>5 DEF Job!Next

(* The close dialog moves no row; the next launch settles what was running.  *)
LEMMA QuitMoves ==
    ASSUME IInv, RunningIsAttended', NEW k \in Jobs,
           CloseWindow \/ KeepBurning \/ AbortAndQuit \/ Quit \/ Killed \/ Launch
    PROVE  [Job(k)!Next]_(Job(k)!vars)
<1>0. TypeInv
  BY DEF IInv
<1>1. CASE CloseWindow /\ active = {}
  BY <1>0, <1>1, DownMoves DEF CloseWindow, Command
<1>2. CASE Exit \/ Killed
  BY <1>0, <1>2, DownMoves DEF Exit, Killed
<1>3. CASE RaiseFlags
  <2>1. Up /\ Up' /\ row' = row /\ run' = Flagged({registry[j] : j \in snap})
    BY <1>3 DEF RaiseFlags, QuitTo, rowVars, Up
  <2>2. RowMove(k) /\ (Matched(k)' <=> Matched(k))
    BY <1>0, <2>1, FlagTells DEF RowMove
  <2> QED BY <2>1, <2>2, MoveAllowed
<1>4. CASE \/ CloseWindow /\ active # {}
           \/ KeepBurning \/ AbortAndQuit \/ TakeSnapshot \/ WriteSentinels \/ Cleared \/ GraceOver
  <2>1. Up /\ Up' /\ row' = row /\ run' = run
    BY <1>4 DEF CloseWindow, Command, KeepBurning, AbortAndQuit, TakeSnapshot, WriteSentinels,
       Cleared, GraceOver, QuitTo, rowVars, Up
  <2>2. RowMove(k) /\ (Matched(k)' <=> Matched(k))
    BY <2>1 DEF RowMove, Matched
  <2> QED BY <2>1, <2>2, MoveAllowed
<1>5. CASE Launch
  <2>1. ~Up /\ Up' /\ row' = [j \in Jobs |-> Reattach(row[j])] /\ run' = run /\ dl' = dl
    BY <1>5 DEF Launch, Up, dlVars
  <2>2. ~InHand(k)'
    BY <2>1 DEF IInv, OneThread, InHand, Busy, Working
  <2>3. Matched(k)' <=> Matched(k)
    BY <2>1 DEF Matched
  <2>4. /\ InHand(k)' \in BOOLEAN /\ Matched(k)' \in BOOLEAN /\ Matched(k) \in BOOLEAN
        /\ Up' \in BOOLEAN /\ row'[k] = IF row[k] = "running" THEN "error" ELSE row[k]
    BY <2>1 DEF InHand, Matched, Up, Reattach
  <2>5. Job(k)!Return
    BY <2>1, <2>2, <2>3, <2>4 DEF Job!Return
  <2> QED BY <2>5 DEF Job!Next
<1> QED BY <1>1, <1>2, <1>3, <1>4, <1>5 DEF Quit

(* Every step is, for every job, one that BurnJob allows, or leaves it as it *)
(* is.                                                                      *)
LEMMA JobsStep ==
    ASSUME MaxRuns \in Nat, IInv, RunningIsAttended', [Next]_vars, NEW k \in Jobs
    PROVE  [Job(k)!Next]_(Job(k)!vars)
<1>0. TypeInv
  BY DEF IInv
<1>1. CASE \E j \in Jobs :
          \/ StartLocal(j) \/ StartCloud(j) \/ Requeue(j) \/ Cancel(j)
          \/ DownloadCancelled(j) \/ DownloadFails(j)
          \/ DownloadChecked(j) \/ DownloadDone(j)
  BY <1>0, <1>1, WindowMoves, MoveAllowed
<1>2. CASE \E r \in Runs : Burn(r)
  BY <1>0, <1>2, BurnMoves DEF TypeInv
<1>3. CASE CloseWindow \/ KeepBurning \/ AbortAndQuit \/ Quit \/ Killed \/ Launch
  BY <1>3, QuitMoves
<1>4. CASE UNCHANGED vars
  BY <1>4 DEF vars, rowVars, dlVars, quitVars, Job!vars, InHand, Matched, Up
<1> QED BY <1>1, <1>2, <1>3, <1>4 DEF Next, Window, Download

(* For any jobs, burns, cancels, retries and exits of the app: what the      *)
(* queue is promised of a job is kept of each.                              *)
THEOREM JobsKept == ASSUME MaxRuns \in Nat PROVE Spec => KeepsJobs
<1>1. Init => \A j \in Jobs : Job(j)!Init
  BY DEF Init, Job!Init, InHand, Matched, Up, BeforeRecord
<1>2. IInv /\ IInv' /\ [Next]_vars => [\A j \in Jobs : [Job(j)!Next]_(Job(j)!vars)]_vars
  BY JobsStep DEF IInv
<1> QED
  BY <1>1, <1>2, BurnInvariant, PTL DEF Spec, KeepsJobs
=============================================================================
