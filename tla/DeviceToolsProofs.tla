-------------------------- MODULE DeviceToolsProofs --------------------------
(***************************************************************************)
(* Proofs about DeviceTools: what a capture shown as a success or as       *)
(* cancelled means, what a claim that is held means, and what a hung list  *)
(* may offer, for any device, any set of disks and any number of passes    *)
(* and helpers.                                                            *)
(***************************************************************************)
EXTENDS DeviceTools, SequenceTheorems, TLAPS

(* Every step is a step of the disks and of the capture, or leaves their    *)
(* variables alone.                                                         *)
LEMMA OperationSteps ==
    ASSUME [Next]_vars
    PROVE  [Disks!Next]_deviceVars /\ [Captured!Next]_captureVars
BY DEF Next, RunsDisks, RunsCapture, RunsWrite, vars, deviceVars, captureVars

-----------------------------------------------------------------------------
(* The capture.                                                             *)

(* What is counted is counted in chunks of the device. *)
CountInv == done \in 0..DevChunks /\ total \in Nat /\ flagAt \in Nat

(* The file holds what was read, and where the copy stands says how much    *)
(* that is: it goes to the flush, and to Ok, with all that was wanted.      *)
CopyInv ==
    /\ out = done
    /\ total # 0 => done <= total
    /\ row = "configuring" => copy = "none" /\ line = "absent"
    /\ copy \in {"none", "prompt", "open"} => done = 0
    /\ copy = "read" => total = 0 \/ done < total
    /\ copy = "flush" \/ result = "ok" => done = Captured!Wanted
    /\ result # "none" => copy \in {"ended", "swept", "reported", "gone"}

(* A line is the result of the helper, and a success shown is a result with *)
(* its count.                                                               *)
VerdictInv ==
    /\ result \in {"none", "ok"} \cup Captured!Errors
    /\ copy \in {"ended", "swept", "reported"} => result # "none"
    /\ line \in {"absent", "empty", "ok"} \cup Captured!Errors
    /\ line \notin {"absent", "empty"} => line = result
    /\ row = "success" => result = "ok" /\ shown = done

(* A flag was asked for; up before the last chunk, it stops the copy at the *)
(* next look at it.                                                         *)
CancelInv ==
    /\ sentinel \/ flag \/ result = "ECANCELLED" \/ row = "ECANCELLED" => asked
    /\ ~flag => flagAt = Captured!Never
    /\ copy \in {"read", "flush"} \/ result = "ok" => flagAt >= done

CaptureInv == CountInv /\ CopyInv /\ VerdictInv /\ CancelInv

(* Before the click nothing was read, asked for or reported. *)
LEMMA CaptureStarts ==
    ASSUME Captured!CaptureAssumption, Captured!Init
    PROVE  CaptureInv
BY DEF Captured!CaptureAssumption, Captured!Init, CaptureInv, CountInv, CopyInv,
   VerdictInv, CancelInv, Captured!Never, Captured!Errors

(* A click in the window starts the capture once, or asks for its end. *)
LEMMA WindowKeepsCapture ==
    ASSUME Captured!CaptureAssumption, CaptureInv, Captured!Window
    PROVE  CaptureInv'
<1> USE DEF Captured!CaptureAssumption, CaptureInv, CountInv, CopyInv, VerdictInv,
       CancelInv, Captured!Never, Captured!Errors, Captured!Wanted, Captured!Smaller,
       Captured!windowVars, Captured!copyVars, Captured!cancelVars, Captured!tailVars
<1>1. CASE Captured!StartInApp
  BY <1>1 DEF Captured!StartInApp
<1>2. CASE Captured!StartRefused
  BY <1>2 DEF Captured!StartRefused
<1>3. CASE Captured!StartHelper
  BY <1>3 DEF Captured!StartHelper
<1>4. CASE Captured!Cancel
  BY <1>4 DEF Captured!Cancel
<1>5. QED
  BY <1>1, <1>2, <1>3, <1>4 DEF Captured!Window

(* The thread or the helper that copies, and the end of either. *)
LEMMA CopyKeepsCapture ==
    ASSUME Captured!CaptureAssumption, CaptureInv, Captured!Thread \/ Captured!HelperDies
    PROVE  CaptureInv'
<1> USE DEF Captured!CaptureAssumption, CaptureInv, CountInv, CopyInv, VerdictInv,
       CancelInv, Captured!Never, Captured!Errors, Captured!Wanted, Captured!Smaller,
       Captured!windowVars, Captured!copyVars, Captured!cancelVars, Captured!tailVars,
       Captured!Copying, Captured!EndWith
<1>1. CASE Captured!Authenticate
  BY <1>1 DEF Captured!Authenticate
<1>2. CASE Captured!OpenSource
  BY <1>2 DEF Captured!OpenSource
<1>3. CASE Captured!Poll
  BY <1>3 DEF Captured!Poll
<1>4. CASE Captured!ReadChunk
  BY <1>4 DEF Captured!ReadChunk
<1>5. CASE Captured!Flush
  BY <1>5 DEF Captured!Flush
<1>6. CASE Captured!SweepInApp
  BY <1>6 DEF Captured!SweepInApp
<1>7. CASE Captured!ShowInApp
  BY <1>7 DEF Captured!ShowInApp, Captured!Shows
<1>8. CASE Captured!Report
  BY <1>8 DEF Captured!Report
<1>9. CASE Captured!HelperExits
  BY <1>9 DEF Captured!HelperExits
<1>10. CASE Captured!HelperDies
  BY <1>10 DEF Captured!HelperDies
<1>11. QED
  BY <1>1, <1>2, <1>3, <1>4, <1>5, <1>6, <1>7, <1>8, <1>9, <1>10 DEF Captured!Thread

(* The watcher of the cancel file and the thread that follows a helper. *)
LEMMA FollowersKeepCapture ==
    ASSUME Captured!CaptureAssumption, CaptureInv, Captured!WatchSentinel \/ Captured!Tail
    PROVE  CaptureInv'
<1> USE DEF Captured!CaptureAssumption, CaptureInv, CountInv, CopyInv, VerdictInv,
       CancelInv, Captured!Never, Captured!Errors, Captured!Wanted, Captured!Smaller,
       Captured!windowVars, Captured!copyVars, Captured!cancelVars, Captured!tailVars,
       Captured!Copying, Captured!Following
<1>1. CASE Captured!WatchSentinel
  BY <1>1 DEF Captured!WatchSentinel
<1>2. CASE Captured!TailTimeout \/ Captured!TailOpens \/ Captured!TailOpenFails
  BY <1>2 DEF Captured!TailTimeout, Captured!TailOpens, Captured!TailOpenFails
<1>3. CASE Captured!TailLine
  BY <1>3 DEF Captured!TailLine, Captured!HasLine, Captured!Shows
<1>4. CASE Captured!TailReaps
  BY <1>4 DEF Captured!TailReaps
<1>5. CASE Captured!TailEof \/ Captured!TailSleeps
  BY <1>5 DEF Captured!TailEof, Captured!TailSleeps
<1>6. CASE Captured!TailLost \/ Captured!TailReadFails
  BY <1>6 DEF Captured!TailLost, Captured!TailReadFails
<1>7. QED
  BY <1>1, <1>2, <1>3, <1>4, <1>5, <1>6 DEF Captured!Tail

(* The invariant of the capture, whatever other operation runs instead. *)
THEOREM CaptureInvariant == Spec => []CaptureInv
<1>1. Captured!CaptureAssumption
  BY DeviceToolsAssumption
<1>2. Init => CaptureInv
  BY <1>1, CaptureStarts DEF Init
<1>3. CaptureInv /\ [Next]_vars => CaptureInv'
  <2> SUFFICES ASSUME CaptureInv, [Next]_vars PROVE CaptureInv'
    OBVIOUS
  <2>1. CASE Captured!Next
    BY <1>1, <2>1, WindowKeepsCapture, CopyKeepsCapture, FollowersKeepCapture
       DEF Captured!Next
  <2>2. CASE UNCHANGED captureVars
    BY <2>2 DEF captureVars, CaptureInv, CountInv, CopyInv, VerdictInv, CancelInv,
       Captured!Wanted, Captured!Never
  <2>3. QED
    BY <2>1, <2>2, OperationSteps
<1>4. QED
  BY <1>2, <1>3, PTL DEF Spec

(* A capture shown as a success left the whole image behind, for devices    *)
(* and requests of any size, on both paths.                                 *)
THEOREM CapturesAreWhole == Spec => []SuccessIsWhole
<1>1. CaptureInv => SuccessIsWhole
  BY DEF CaptureInv, CopyInv, VerdictInv, SuccessIsWhole, Captured!SuccessIsWhole
<1>2. QED
  BY <1>1, CaptureInvariant, PTL

(* A capture whose flag went up before the last chunk is not a success, and *)
(* none ends as cancelled unasked.                                          *)
THEOREM CancelsAreHonoured == Spec => []CancelIsHonoured
<1>1. CaptureInv => CancelIsHonoured
  BY DEF CaptureInv, CopyInv, VerdictInv, CancelInv, CancelIsHonoured, Captured!CancelIsHonoured
<1>2. QED
  BY <1>1, CaptureInvariant, PTL

-----------------------------------------------------------------------------
(* The claims.                                                              *)

ClaimRec ==
    [pc : Disks!Stages,
     worker : {"none", "spawned", "registered", "asked", "started", "loop", "stopped"},
     inbox : Seq({"no disk", "initialized"}),
     unmount : {"none", "asked", "done", "refused"},
     reply : {"none", "done", "refused"}]

(* The unmount is asked for by a session that already objects to mounts,    *)
(* its answer is passed on by the run loop, and a claim is held on it by a  *)
(* session that still objects: so nothing was mounted since.                *)
ClaimSafe(c) ==
    /\ c.worker \in {"none", "spawned", "registered"} => c.unmount = "none"
    /\ c.unmount = "done" /\ Disks!Objects(c) => ~mounted
    /\ c.reply = "done" => c.unmount = "done"
    /\ c.reply # "none" => c.worker \in {"loop", "stopped"}
    /\ c.worker = "stopped" => c.pc \in {"joining", "failed", "dropped"}
    /\ c.pc = "held" => c.reply = "done"

ClaimsInv ==
    /\ claim \in [Helpers -> ClaimRec]
    /\ \A h \in Helpers : ClaimSafe(claim[h])

(* A step that only gives one claim a safe value keeps all of them safe. *)
LEMMA ClaimStep ==
    ASSUME ClaimsInv, NEW h \in Helpers, NEW c \in ClaimRec, ClaimSafe(c), Disks!ClaimTo(h, c)
    PROVE  ClaimsInv'
BY DEF ClaimsInv, Disks!ClaimTo, Disks!world, ClaimSafe, Disks!Objects

(* A helper that is gone claims nothing. *)
LEMMA NoClaimIsSafe == Disks!NoClaim \in ClaimRec /\ ClaimSafe(Disks!NoClaim)
BY EmptySeq DEF Disks!NoClaim, ClaimRec, Disks!Stages, ClaimSafe, Disks!Objects

(* The worker thread: callback first, then the unmount, then its answer.    *)
LEMMA WorkerKeepsClaims ==
    ASSUME ClaimsInv, NEW h \in Helpers, Disks!Worker(h)
    PROVE  ClaimsInv'
<1> DEFINE c == claim[h]
<1>1. c \in ClaimRec /\ ClaimSafe(c)
  BY DEF ClaimsInv
<1> USE <1>1 DEF ClaimRec, ClaimSafe, Disks!Objects
<1>2. CASE Disks!Register(h)
  <2>1. c.worker = "spawned" /\ Disks!ClaimTo(h, [c EXCEPT !.worker = "registered"])
    BY <1>2 DEF Disks!Register
  <2>2. /\ [c EXCEPT !.worker = "registered"] \in ClaimRec
        /\ ClaimSafe([c EXCEPT !.worker = "registered"])
    BY <2>1
  <2>3. QED
    BY <2>1, <2>2, ClaimStep
<1>3. CASE Disks!AskUnmount(h)
  <2> DEFINE Asked == [c EXCEPT !.worker = "asked", !.unmount = "asked"]
             NoDisk == [c EXCEPT !.worker = "asked", !.inbox = Append(@, "no disk")]
  <2>1. c.worker = "registered" /\ (Disks!ClaimTo(h, Asked) \/ Disks!ClaimTo(h, NoDisk))
    BY <1>3 DEF Disks!AskUnmount
  <2>2. Append(c.inbox, "no disk") \in Seq({"no disk", "initialized"})
    BY AppendProperties
  <2>3. Asked \in ClaimRec /\ ClaimSafe(Asked)
    BY <2>1
  <2>4. NoDisk \in ClaimRec /\ ClaimSafe(NoDisk)
    BY <2>1, <2>2
  <2> HIDE DEF Asked, NoDisk, ClaimRec, ClaimSafe, Disks!Objects
  <2>5. QED
    BY <2>1, <2>3, <2>4, ClaimStep
<1>4. CASE Disks!SendInitialized(h)
  <2> DEFINE n == [c EXCEPT !.worker = "started", !.inbox = Append(@, "initialized")]
  <2>1. c.worker = "asked" /\ Disks!ClaimTo(h, n)
    BY <1>4 DEF Disks!SendInitialized
  <2>2. Append(c.inbox, "initialized") \in Seq({"no disk", "initialized"})
    BY AppendProperties
  <2>3. n \in ClaimRec /\ ClaimSafe(n)
    BY <2>1, <2>2
  <2> HIDE DEF n, ClaimRec, ClaimSafe, Disks!Objects
  <2>4. QED
    BY <2>1, <2>3, ClaimStep
<1>5. CASE Disks!RunLoop(h)
  <2> DEFINE n == [c EXCEPT !.worker = "loop"]
  <2>1. c.worker = "started" /\ Disks!ClaimTo(h, n)
    BY <1>5 DEF Disks!RunLoop
  <2>2. n \in ClaimRec /\ ClaimSafe(n)
    BY <2>1
  <2> HIDE DEF n, ClaimRec, ClaimSafe, Disks!Objects
  <2>3. QED
    BY <2>1, <2>2, ClaimStep
<1>6. CASE Disks!UnmountDone(h)
  <2> DEFINE n == [c EXCEPT !.reply = c.unmount]
  <2>1. /\ c.worker = "loop" /\ c.unmount \in {"done", "refused"} /\ c.reply = "none"
        /\ Disks!ClaimTo(h, n)
    BY <1>6 DEF Disks!UnmountDone
  <2>2. n \in ClaimRec /\ ClaimSafe(n)
    BY <2>1
  <2> HIDE DEF n, ClaimRec, ClaimSafe, Disks!Objects
  <2>3. QED
    BY <2>1, <2>2, ClaimStep
<1>7. QED
  BY <1>2, <1>3, <1>4, <1>5, <1>6 DEF Disks!Worker

(* The thread that called for_dev: it holds the claim on a good answer only. *)
LEMMA CallerKeepsClaims ==
    ASSUME ClaimsInv, NEW h \in Helpers,
           Disks!Caller(h) \/ Disks!StartHelper(h) \/ Disks!DropClaim(h)
    PROVE  ClaimsInv'
<1> DEFINE c == claim[h]
<1>1. c \in ClaimRec /\ ClaimSafe(c)
  BY DEF ClaimsInv
<1> USE <1>1 DEF ClaimRec, ClaimSafe, Disks!Objects, Disks!Stages
<1>2. CASE Disks!RecvEvent(h)
  <2> DEFINE n == [c EXCEPT !.inbox = Tail(@),
                            !.pc = IF Head(c.inbox) = "initialized"
                                   THEN "unmounting" ELSE "failed"]
  <2>1. c.pc = "init" /\ c.inbox # <<>> /\ Disks!ClaimTo(h, n)
    BY <1>2 DEF Disks!RecvEvent
  <2>2. Tail(c.inbox) \in Seq({"no disk", "initialized"})
    BY <2>1, HeadTailProperties
  <2>3. n \in ClaimRec /\ ClaimSafe(n)
    BY <2>1, <2>2
  <2> HIDE DEF n, ClaimRec, ClaimSafe, Disks!Objects
  <2>4. QED
    BY <2>1, <2>3, ClaimStep
<1>3. CASE Disks!RecvUnmount(h)
  <2> DEFINE Held == [c EXCEPT !.pc = "held"]
             Refused == [c EXCEPT !.pc = "joining", !.worker = "stopped"]
  <2>1. /\ c.pc = "unmounting"
        /\ \/ c.reply = "done" /\ Disks!ClaimTo(h, Held)
           \/ Disks!ClaimTo(h, Refused)
    BY <1>3 DEF Disks!RecvUnmount
  <2>2. Refused \in ClaimRec /\ ClaimSafe(Refused)
    BY <2>1
  <2>3. c.reply = "done" => Held \in ClaimRec /\ ClaimSafe(Held)
    BY <2>1
  <2> HIDE DEF Held, Refused, ClaimRec, ClaimSafe, Disks!Objects
  <2>4. QED
    BY <2>1, <2>2, <2>3, ClaimStep
<1>4. CASE Disks!RecvTimeout(h) \/ Disks!Joined(h)
  <2> DEFINE n == [c EXCEPT !.pc = "failed"]
  <2>1. Disks!ClaimTo(h, n)
    BY <1>4 DEF Disks!RecvTimeout, Disks!Joined
  <2>2. n \in ClaimRec /\ ClaimSafe(n)
    OBVIOUS
  <2> HIDE DEF n, ClaimRec, ClaimSafe, Disks!Objects
  <2>3. QED
    BY <2>1, <2>2, ClaimStep
<1>5. CASE Disks!StartHelper(h)
  <2> DEFINE n == [Disks!NoClaim EXCEPT !.pc = "init", !.worker = "spawned"]
  <2>1. Disks!ClaimTo(h, n)
    BY <1>5 DEF Disks!StartHelper
  <2>2. n \in ClaimRec /\ ClaimSafe(n)
    BY NoClaimIsSafe DEF Disks!NoClaim
  <2> HIDE DEF n, ClaimRec, ClaimSafe, Disks!Objects
  <2>3. QED
    BY <2>1, <2>2, ClaimStep
<1>6. CASE Disks!DropClaim(h)
  <2> DEFINE n == [c EXCEPT !.pc = "dropped", !.worker = "stopped"]
  <2>1. c.pc = "held" /\ Disks!ClaimTo(h, n)
    BY <1>6 DEF Disks!DropClaim
  <2>2. n \in ClaimRec /\ ClaimSafe(n)
    BY <2>1
  <2> HIDE DEF n, ClaimRec, ClaimSafe, Disks!Objects
  <2>3. QED
    BY <2>1, <2>2, ClaimStep
<1>7. QED
  BY <1>2, <1>3, <1>4, <1>5, <1>6 DEF Disks!Caller

(* The daemon's answer; helpers that end or are killed; and the machine,    *)
(* whose mount is what the sessions object to.                              *)
LEMMA MachineKeepsClaims ==
    ASSUME ClaimsInv,
           \/ Disks!Machine \/ Disks!FindOrphans \/ Disks!KillOrphans
           \/ \E h \in Helpers : Disks!DaemonUnmounts(h) \/ Disks!HelperEnds(h)
    PROVE  ClaimsInv'
<1>1. CASE Disks!Mount
  <2>1. claim' = claim /\ \A h \in Helpers : ~Disks!Objects(claim[h])
    BY <1>1 DEF Disks!Mount
  <2>2. QED
    BY <2>1 DEF ClaimsInv, ClaimSafe, Disks!Objects
<1>2. ASSUME NEW d \in Devices, Disks!Unplug(d) \/ Disks!Plug(d) \/ Disks!Eject(d)
      PROVE  ClaimsInv'
  <2>1. claim' = claim /\ (mounted' = (mounted /\ d # Target) \/ mounted' = mounted)
    BY <1>2 DEF Disks!Unplug, Disks!Plug, Disks!Eject
  <2>2. mounted' => mounted
    BY <2>1
  <2>3. QED
    BY <2>1, <2>2 DEF ClaimsInv, ClaimSafe, Disks!Objects
<1>3. CASE Disks!FindOrphans
  BY <1>3 DEF Disks!FindOrphans, Disks!world, ClaimsInv, ClaimSafe, Disks!Objects
<1>4. CASE Disks!KillOrphans
  <2>1. /\ claim' = [h \in Helpers |-> IF h \in orphans THEN Disks!NoClaim ELSE claim[h]]
        /\ mounted' = mounted
    BY <1>4 DEF Disks!KillOrphans, Disks!world
  <2>2. QED
    BY <2>1, NoClaimIsSafe DEF ClaimsInv, ClaimSafe, Disks!Objects
<1>5. ASSUME NEW h \in Helpers, Disks!DaemonUnmounts(h)
      PROVE  ClaimsInv'
  <2>1. PICK u \in {"done", "refused"} :
            /\ claim' = [claim EXCEPT ![h].unmount = u]
            /\ IF u = "done" THEN mounted' = FALSE ELSE mounted' = mounted
    BY <1>5 DEF Disks!DaemonUnmounts
  <2>2. claim[h].unmount = "asked"
    BY <1>5 DEF Disks!DaemonUnmounts
  <2>3. mounted' => mounted
    BY <2>1
  <2>4. QED
    BY <2>1, <2>2, <2>3 DEF ClaimsInv, ClaimSafe, ClaimRec, Disks!Objects
<1>6. ASSUME NEW h \in Helpers, Disks!HelperEnds(h)
      PROVE  ClaimsInv'
  <2>1. claim' = [claim EXCEPT ![h] = Disks!NoClaim] /\ mounted' = mounted
    BY <1>6 DEF Disks!HelperEnds, Disks!world
  <2>2. QED
    BY <2>1, NoClaimIsSafe DEF ClaimsInv, ClaimSafe, Disks!Objects
<1>7. QED
  BY <1>1, <1>2, <1>3, <1>4, <1>5, <1>6 DEF Disks!Machine

(* A pass of the enumeration touches no claim. *)
LEMMA PassesLeaveClaims ==
    ASSUME Disks!Enumerates
    PROVE  claim' = claim /\ mounted' = mounted
BY DEF Disks!Enumerates, Disks!StartPass, Disks!PassThread, Disks!ChildEnds, Disks!Spawn,
   Disks!Collect, Disks!Kill, Disks!Merge, Disks!Emit, Disks!PassTo, Disks!world

(* The target has no mounted volume while a helper holds its claim, for any *)
(* number of helpers that start, give up or are killed, whatever the daemon *)
(* answers and when.                                                        *)
THEOREM ClaimsHold == Spec => []HeldMeansUnmounted
<1>1. Init => ClaimsInv
  BY NoClaimIsSafe DEF Init, Disks!Init, ClaimsInv, ClaimSafe, Disks!Objects
<1>2. ClaimsInv /\ [Next]_vars => ClaimsInv'
  <2> SUFFICES ASSUME ClaimsInv, [Next]_vars PROVE ClaimsInv'
    OBVIOUS
  <2>1. CASE Disks!Claims
    BY <2>1, WorkerKeepsClaims, CallerKeepsClaims, MachineKeepsClaims DEF Disks!Claims
  <2>2. CASE Disks!Machine \/ Disks!FindOrphans \/ Disks!KillOrphans
    BY <2>2, MachineKeepsClaims
  <2>3. CASE Disks!Enumerates \/ UNCHANGED deviceVars
    <3>1. claim' = claim /\ mounted' = mounted
      BY <2>3, PassesLeaveClaims DEF deviceVars
    <3>2. QED
      BY <3>1 DEF ClaimsInv, ClaimSafe, Disks!Objects
  <2>4. QED
    BY <2>1, <2>2, <2>3, OperationSteps DEF Disks!Next
<1>3. ClaimsInv => HeldMeansUnmounted
  BY DEF ClaimsInv, ClaimSafe, Disks!Objects, HeldMeansUnmounted, Disks!HeldMeansUnmounted
<1>4. QED
  BY <1>1, <1>2, <1>3, PTL DEF Spec

-----------------------------------------------------------------------------
(* The enumeration.                                                         *)

Some == Devices \cup {None}
PassRec ==
    [pc : {"idle", "list", "info", "emit"},
     child : {"none", "running", "report", "nothing"},
     asked : Some, left : SUBSET Some, disks : SUBSET Some, wedged : SUBSET Some,
     total : BOOLEAN, known : SUBSET Some]

(* What a pass returns is merged into the cache before it is returned, and  *)
(* the cache keeps what it has: so a pass that begins later, and finds the  *)
(* list hung, finds in the cache what was known when it began.              *)
PassSafe(r) ==
    /\ r.pc \in {"idle", "list"} => r.disks = {}
    /\ r.pc = "emit" => r.disks \subseteq cache
    /\ r.known \subseteq cache
    /\ r.total => r.pc = "emit" /\ r.wedged \cap Internal \cap r.known = {}

PassesInv ==
    /\ present \subseteq Devices /\ cache \subseteq Some /\ seen \subseteq cache
    /\ pass \in [Passes -> PassRec]
    /\ \A p \in Passes : PassSafe(pass[p])

(* A step that only gives one pass a safe value keeps all of them safe. *)
LEMMA PassStep ==
    ASSUME PassesInv, NEW p \in Passes, NEW r \in PassRec, PassSafe(r), Disks!PassTo(p, r)
    PROVE  PassesInv'
BY DEF PassesInv, Disks!PassTo, Disks!world, PassSafe

(* A pass that does not run has returned nothing yet. *)
LEMMA NoPassIsSafe == Disks!NoPass \in PassRec /\ PassSafe(Disks!NoPass)
BY DEF Disks!NoPass, PassRec, PassSafe, Some

(* The children of a pass, started and ended. *)
LEMMA ChildrenKeepPasses ==
    ASSUME PassesInv, NEW p \in Passes,
           Disks!StartPass(p) \/ Disks!Spawn(p) \/ Disks!ChildEnds(p)
    PROVE  PassesInv'
<1> DEFINE r == pass[p]
<1>1. r \in PassRec /\ PassSafe(r) /\ seen \subseteq cache /\ cache \subseteq Some
      /\ present \subseteq Some
  BY DEF PassesInv, Some
<1> USE <1>1 DEF PassRec, PassSafe
<1>2. CASE Disks!StartPass(p)
  <2> DEFINE n == [Disks!NoPass EXCEPT !.pc = "list", !.known = seen]
  <2>1. Disks!PassTo(p, n)
    BY <1>2 DEF Disks!StartPass
  <2>2. n \in PassRec /\ PassSafe(n)
    BY NoPassIsSafe DEF Disks!NoPass
  <2>3. QED
    BY <2>1, <2>2, PassStep
<1>3. CASE Disks!Spawn(p)
  <2>1. PICK ch \in {"running", "nothing"}, d \in Some :
            \/ Disks!PassTo(p, [r EXCEPT !.child = ch])
            \/ d \in r.left /\ Disks!PassTo(p, [r EXCEPT !.child = ch, !.asked = d])
    BY <1>3 DEF Disks!Spawn, Some
  <2>2. /\ [r EXCEPT !.child = ch] \in PassRec /\ PassSafe([r EXCEPT !.child = ch])
        /\ [r EXCEPT !.child = ch, !.asked = d] \in PassRec
        /\ PassSafe([r EXCEPT !.child = ch, !.asked = d])
    BY <2>1
  <2>3. QED
    BY <2>1, <2>2, PassStep
<1>4. CASE Disks!ChildEnds(p)
  <2> DEFINE Listed == [r EXCEPT !.child = "report", !.left = present]
             Told == [r EXCEPT !.child = "report"]
             Silent == [r EXCEPT !.child = "nothing"]
  <2>1. Disks!PassTo(p, Listed) \/ Disks!PassTo(p, Told) \/ Disks!PassTo(p, Silent)
    BY <1>4 DEF Disks!ChildEnds
  <2>2. /\ Listed \in PassRec /\ PassSafe(Listed)
        /\ Told \in PassRec /\ PassSafe(Told)
        /\ Silent \in PassRec /\ PassSafe(Silent)
    OBVIOUS
  <2>3. QED
    BY <2>1, <2>2, PassStep
<1>5. QED
  BY <1>2, <1>3, <1>4

(* The thread of the pass: what it collects, kills, merges and returns. *)
LEMMA ThreadKeepsPasses ==
    ASSUME PassesInv, NEW p \in Passes, Disks!PassThread(p)
    PROVE  PassesInv'
<1> DEFINE r == pass[p]
           o == Disks!CallOver(r)
<1>1. r \in PassRec /\ PassSafe(r) /\ seen \subseteq cache /\ cache \subseteq Some
      /\ present \subseteq Some
  BY DEF PassesInv, Some
<1>2. /\ o \in PassRec /\ PassSafe(o) /\ o.pc = r.pc /\ o.disks = r.disks
      /\ o.total = r.total /\ o.known = r.known /\ o.wedged = r.wedged
  BY <1>1 DEF Disks!CallOver, PassRec, PassSafe, Some
<1>3. CASE Disks!Spawn(p)
  BY <1>3, ChildrenKeepPasses
<1>4. CASE Disks!Collect(p)
  <2> DEFINE AfterList == [o EXCEPT !.pc = IF r.child = "report" THEN "info" ELSE "emit"]
             AfterInfo == [o EXCEPT !.disks = IF r.child = "report" THEN @ \cup {r.asked} ELSE @]
  <2>1. \/ r.pc = "list" /\ Disks!PassTo(p, AfterList)
        \/ r.pc = "info" /\ Disks!PassTo(p, AfterInfo)
    BY <1>4 DEF Disks!Collect
  <2>2. r.pc = "list" => AfterList \in PassRec /\ PassSafe(AfterList)
    BY <1>1, <1>2 DEF PassRec, PassSafe
  <2>3. r.pc = "info" => AfterInfo \in PassRec /\ PassSafe(AfterInfo)
    BY <1>1, <1>2 DEF PassRec, PassSafe
  <2>4. QED
    BY <2>1, <2>2, <2>3, PassStep
<1>5. CASE Disks!Kill(p)
  <2> DEFINE Hung == [o EXCEPT !.pc = "emit", !.total = TRUE, !.left = {},
                               !.wedged = Disks!Candidates]
             Wedged == [o EXCEPT !.wedged = @ \cup {r.asked}]
  <2>1. \/ r.pc = "list" /\ Disks!PassTo(p, Hung)
        \/ r.pc = "info" /\ Disks!PassTo(p, Wedged)
    BY <1>5 DEF Disks!Kill
  <2>2. Disks!Candidates \subseteq Some /\ Disks!Candidates \cap Internal \cap cache = {}
    BY <1>1 DEF Disks!Candidates
  <2>3. r.pc = "list" => Hung \in PassRec /\ PassSafe(Hung)
    BY <1>1, <1>2, <2>2 DEF PassRec, PassSafe
  <2>4. r.pc = "info" => Wedged \in PassRec /\ PassSafe(Wedged)
    BY <1>1, <1>2 DEF PassRec, PassSafe
  <2>5. QED
    BY <2>1, <2>3, <2>4, PassStep
<1>6. CASE Disks!Merge(p)
  <2>1. /\ cache' = cache \cup r.disks /\ seen' = seen /\ present' = present
        /\ pass' = [pass EXCEPT ![p].pc = "emit"] /\ r.pc = "info"
    BY <1>6 DEF Disks!Merge, Disks!world
  <2>2. \A q \in Passes \ {p} : pass'[q] = pass[q]
    BY <2>1 DEF PassesInv
  <2>3. pass'[p] = [r EXCEPT !.pc = "emit"] /\ pass'[p] \in PassRec
    BY <1>1, <2>1 DEF PassesInv, PassRec
  <2>4. PassSafe(pass[p])'
    BY <1>1, <2>1, <2>3 DEF PassRec, PassSafe
  <2>5. QED
    BY <1>1, <2>1, <2>2, <2>3, <2>4 DEF PassesInv, PassSafe, PassRec
<1>7. CASE Disks!Emit(p)
  <2>1. /\ seen' = seen \cup r.disks /\ r.pc = "emit" /\ cache' = cache /\ present' = present
        /\ pass' = [pass EXCEPT ![p] = Disks!NoPass]
    BY <1>7 DEF Disks!Emit, Disks!world
  <2>2. QED
    BY <1>1, <2>1, NoPassIsSafe DEF PassesInv, PassSafe
<1>8. QED
  BY <1>3, <1>4, <1>5, <1>6, <1>7 DEF Disks!PassThread

(* What comes and goes is a disk; everything else is no business of a pass. *)
LEMMA OthersKeepPasses ==
    ASSUME PassesInv,
           Disks!Claims \/ Disks!Machine \/ Disks!FindOrphans \/ Disks!KillOrphans
    PROVE  PassesInv'
<1>1. UNCHANGED <<cache, seen, pass>>
  BY DEF Disks!Claims, Disks!Machine, Disks!FindOrphans, Disks!KillOrphans,
     Disks!enumerated, Disks!Mount, Disks!Unplug, Disks!Plug, Disks!Eject,
     Disks!StartHelper, Disks!Worker, Disks!Register, Disks!AskUnmount,
     Disks!SendInitialized, Disks!RunLoop, Disks!UnmountDone, Disks!DaemonUnmounts,
     Disks!Caller, Disks!RecvEvent, Disks!RecvUnmount, Disks!RecvTimeout, Disks!Joined,
     Disks!DropClaim, Disks!HelperEnds, Disks!ClaimTo
<1>2. present' \subseteq Devices
  BY DEF PassesInv, Disks!Claims, Disks!Machine, Disks!FindOrphans, Disks!KillOrphans,
     Disks!world, Disks!Mount, Disks!Unplug, Disks!Plug, Disks!Eject,
     Disks!StartHelper, Disks!Worker, Disks!Register, Disks!AskUnmount,
     Disks!SendInitialized, Disks!RunLoop, Disks!UnmountDone, Disks!DaemonUnmounts,
     Disks!Caller, Disks!RecvEvent, Disks!RecvUnmount, Disks!RecvTimeout, Disks!Joined,
     Disks!DropClaim, Disks!HelperEnds, Disks!ClaimTo
<1>3. QED
  BY <1>1, <1>2 DEF PassesInv, PassSafe

(* A hung list offers no internal disk that was known when the pass began,  *)
(* for any disks and any number of passes that overlap.                     *)
THEOREM BootDriveSafe == Spec => []BootDriveIsSafe
<1>1. Init => PassesInv
  BY NoPassIsSafe DEF Init, Disks!Init, PassesInv, PassSafe
<1>2. PassesInv /\ [Next]_vars => PassesInv'
  <2> SUFFICES ASSUME PassesInv, [Next]_vars PROVE PassesInv'
    OBVIOUS
  <2>1. CASE Disks!Enumerates
    BY <2>1, ChildrenKeepPasses, ThreadKeepsPasses DEF Disks!Enumerates
  <2>2. CASE Disks!Claims \/ Disks!Machine \/ Disks!FindOrphans \/ Disks!KillOrphans
    BY <2>2, OthersKeepPasses
  <2>3. CASE UNCHANGED deviceVars
    BY <2>3 DEF deviceVars, PassesInv, PassSafe
  <2>4. QED
    BY <2>1, <2>2, <2>3, OperationSteps DEF Disks!Next
<1>3. PassesInv => BootDriveIsSafe
  BY DEF PassesInv, PassSafe, BootDriveIsSafe, Disks!BootDriveIsSafe
<1>4. QED
  BY <1>1, <1>2, <1>3, PTL DEF Spec
=============================================================================
