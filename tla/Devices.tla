------------------------------ MODULE Devices ------------------------------
(***************************************************************************)
(* The disks beside a burn: how they are listed, claimed and ejected.      *)
(*                                                                         *)
(* A pass of the enumeration (disks.rs enumerate_macos) runs diskutil once *)
(* for the list and once for each disk in it, every time as a child that   *)
(* is killed after eight seconds (proc.rs output_with_timeout).  The       *)
(* window starts passes from the disk picker and from the recovery wizard  *)
(* and they may overlap; they share the cache of disks seen.  A root       *)
(* helper claims its disk through DiskArbitration (disk_arb.rs DiskClaim): *)
(* a worker thread registers a callback that refuses mounts, asks for the  *)
(* unmount, and answers the daemon from its run loop.                      *)
(*                                                                         *)
(* A child may take any time, or never end; the daemon may never answer.   *)
(* The daemon asks every registered session before it mounts and waits for *)
(* a session whose run loop does not run yet.                              *)
(***************************************************************************)
EXTENDS Naturals, Sequences

CONSTANTS Devices,     \* whole disks that may be plugged in
          Internal,    \* those diskutil reports as internal, always present
          Target,      \* the disk the helpers claim
          Passes,      \* calls of list_disks and recheck_disks_healthy
          Helpers,     \* root helper processes
          Casts,       \* bound: which of them run in one behaviour
          None

DevicesAssumption ==
    /\ Internal \subseteq Devices
    /\ Target \in Devices \ Internal
    /\ Casts \subseteq SUBSET (Passes \cup Helpers)

VARIABLES present,     \* disks that have a /dev node
          mounted,     \* does the target have a mounted volume?
          cache,       \* disks in LAST_GOOD_DISKS
          seen,        \* ghost: disks some finished pass has returned
          pass,        \* the passes of the enumeration
          claim,       \* the claim of each helper process
          orphans,     \* helpers the window was told are left over
          cast         \* the passes and helpers of this behaviour

vars == <<cast, present, mounted, cache, seen, pass, claim, orphans>>

world      == <<cast, present, mounted>>
enumerated == <<cache, seen, pass>>

(* A pass.  "list" and "info" are the two tools, "emit" what follows the   *)
(* last disk; child is the process it waits for and asked the disk that    *)
(* process is about; known, what was seen when the pass began.  The time   *)
(* of a call may be up at any moment, so its clock needs no variable.      *)
NoPass == [pc |-> "idle", child |-> "none", asked |-> None,
           left |-> {}, disks |-> {}, wedged |-> {},
           total |-> FALSE, known |-> {}]

(* A helper: its caller of for_dev, the worker thread, the events the      *)
(* worker sent, the state of its DADiskUnmount, and the callback's reply.  *)
NoClaim == [pc |-> "gone", worker |-> "none", inbox |-> <<>>,
            unmount |-> "none", reply |-> "none"]

Init ==
    /\ cast \in Casts
    /\ present \in {P \in SUBSET Devices : Internal \subseteq P}
    /\ mounted \in {m \in BOOLEAN : m => Target \in present}
    /\ cache = {}
    /\ seen = {}
    /\ pass = [p \in Passes |-> NoPass]
    /\ claim = [h \in Helpers |-> NoClaim]
    /\ orphans = {}

---------------------------------------------------------------------------
(* The machine.                                                            *)

(* A session objects to mounts from its registration until its run loop    *)
(* ends or its process is gone.                                            *)
Objects(c) == c.worker \in {"registered", "asked", "started", "loop"}

Unplug(d) ==
    /\ d \in present \ Internal
    /\ present' = present \ {d}
    /\ mounted' = (mounted /\ d # Target)
    /\ UNCHANGED <<cast, enumerated, claim, orphans>>

Plug(d) ==
    /\ d \notin present
    /\ present' = present \cup {d}
    /\ UNCHANGED <<cast, mounted, enumerated, claim, orphans>>

(* The system mounts what is on the target unless a session objects        *)
(* (mount_approval_cb).                                                    *)
Mount ==
    /\ Target \in present
    /\ \A h \in Helpers : ~Objects(claim[h])
    /\ mounted' = TRUE
    /\ UNCHANGED <<cast, present, enumerated, claim, orphans>>

---------------------------------------------------------------------------
(* A child of a pass, and the thread that waits for it.                    *)

PassTo(p, r) ==
    /\ pass' = [pass EXCEPT ![p] = r]
    /\ UNCHANGED <<world, cache, seen, claim, orphans>>

(* The child ends: with a report, or without one: a bad status, no such    *)
(* disk, or output caught behind a grandchild that holds the pipe.         *)
ChildEnds(p) ==
    LET r == pass[p] IN
    /\ r.child = "running"
    /\ \/ /\ r.pc = "list"
          /\ PassTo(p, [r EXCEPT !.child = "report", !.left = present])
       \/ /\ r.pc = "info"
          /\ r.asked \in present
          /\ PassTo(p, [r EXCEPT !.child = "report"])
       \/ PassTo(p, [r EXCEPT !.child = "nothing"])

(* The call is over: the child was waited for, or killed and waited for.   *)
CallOver(r) ==
    [r EXCEPT !.child = "none", !.asked = None, !.left = @ \ {r.asked}]

---------------------------------------------------------------------------
(* A pass.                                                                 *)

StartPass(p) ==
    /\ p \in cast
    /\ pass[p].pc = "idle"
    /\ PassTo(p, [NoPass EXCEPT !.pc = "list", !.known = seen])

(* Spawn a tool for the list, or for one disk of it; a spawn that fails    *)
(* shows no more than a tool that fails.                                   *)
Spawn(p) ==
    LET r == pass[p] IN
    /\ r.child = "none"
    /\ \E c \in {"running", "nothing"} :
           \/ /\ r.pc = "list"
              /\ PassTo(p, [r EXCEPT !.child = c])
           \/ /\ r.pc = "info"
              /\ \E d \in r.left :
                     PassTo(p, [r EXCEPT !.child = c, !.asked = d])

Collect(p) ==
    LET r == pass[p] IN
    /\ r.child \in {"report", "nothing"}
    /\ \/ /\ r.pc = "list"
          /\ PassTo(p, [CallOver(r) EXCEPT
                           !.pc = IF r.child = "report" THEN "info" ELSE "emit"])
       \/ /\ r.pc = "info"
          /\ PassTo(p, [CallOver(r) EXCEPT
                           !.disks = IF r.child = "report"
                                     THEN @ \cup {r.asked} ELSE @])

(* Candidates when the list itself hung: every /dev node but those the     *)
(* cache knows to be internal.                                             *)
Candidates == {d \in present : ~(d \in cache /\ d \in Internal)}

(* Bug: wait for the tool as long as it takes.                             *)
KillNever(p) == FALSE /\ UNCHANGED vars

(* The time is up at a try_wait that found the child running: it is killed *)
(* and reaped, also when it ended in between.  A hung list is a total      *)
(* failure, a hung disk is wedged.                                         *)
Kill(p) ==
    LET r == pass[p] IN
    /\ r.child # "none"
    /\ \/ /\ r.pc = "list"
          /\ PassTo(p, [CallOver(r) EXCEPT
                           !.pc = "emit", !.total = TRUE, !.left = {},
                           !.wedged = Candidates])
       \/ /\ r.pc = "info"
          /\ PassTo(p, [CallOver(r) EXCEPT !.wedged = @ \cup {r.asked}])

(* Bug: the cache holds the disks of the last pass only.                   *)
MergeFresh(p) ==
    LET r == pass[p] IN
    /\ r.pc = "info"
    /\ r.child = "none"
    /\ r.left = {}
    /\ cache' = IF r.disks = {} THEN cache ELSE r.disks
    /\ pass' = [pass EXCEPT ![p].pc = "emit"]
    /\ UNCHANGED <<world, seen, claim, orphans>>

(* update_last_good keeps what this pass did not see.                      *)
Merge(p) ==
    LET r == pass[p] IN
    /\ r.pc = "info"
    /\ r.child = "none"
    /\ r.left = {}
    /\ cache' = cache \cup r.disks
    /\ pass' = [pass EXCEPT ![p].pc = "emit"]
    /\ UNCHANGED <<world, seen, claim, orphans>>

(* The command returns its disks, or the verdict on them, and with wedged  *)
(* ones or a hung list the window's wizard is told of r.wedged.            *)
Emit(p) ==
    LET r == pass[p] IN
    /\ r.pc = "emit"
    /\ seen' = seen \cup r.disks
    /\ pass' = [pass EXCEPT ![p] = NoPass]
    /\ UNCHANGED <<world, cache, claim, orphans>>

PassThread(p) == Spawn(p) \/ Collect(p) \/ Kill(p) \/ Merge(p) \/ Emit(p)

---------------------------------------------------------------------------
(* The claim: the worker thread.                                           *)

ClaimTo(h, c) ==
    /\ claim' = [claim EXCEPT ![h] = c]
    /\ UNCHANGED <<world, enumerated, orphans>>

(* Bug: the unmount is asked for before the callback is registered.        *)
RegisterLast(h) ==
    LET c == claim[h] IN
    \/ /\ c.worker = "spawned"
       /\ ClaimTo(h, [c EXCEPT !.worker = "late", !.unmount = "asked"])
    \/ /\ c.worker = "late"
       /\ ClaimTo(h, [c EXCEPT !.worker = "asked"])

Register(h) ==
    LET c == claim[h] IN
    /\ c.worker = "spawned"
    /\ ClaimTo(h, [c EXCEPT !.worker = "registered"])

(* DADiskCreateFromBSDName: a disk to unmount, or NULL and two events.     *)
AskUnmount(h) ==
    LET c == claim[h] IN
    /\ c.worker = "registered"
    /\ \/ ClaimTo(h, [c EXCEPT !.worker = "asked", !.unmount = "asked"])
       \/ ClaimTo(h, [c EXCEPT !.worker = "asked",
                               !.inbox = Append(@, "no disk")])

SendInitialized(h) ==
    LET c == claim[h] IN
    /\ c.worker = "asked"
    /\ ClaimTo(h, [c EXCEPT !.worker = "started",
                            !.inbox = Append(@, "initialized")])

RunLoop(h) ==
    LET c == claim[h] IN
    /\ c.worker = "started"
    /\ ClaimTo(h, [c EXCEPT !.worker = "loop"])

(* The daemon unmounts, or refuses (DADissenter).                          *)
DaemonUnmounts(h) ==
    LET c == claim[h] IN
    /\ c.unmount = "asked"
    /\ \/ /\ mounted' = FALSE
          /\ claim' = [claim EXCEPT ![h].unmount = "done"]
       \/ /\ claim' = [claim EXCEPT ![h].unmount = "refused"]
          /\ UNCHANGED mounted
    /\ UNCHANGED <<cast, present, enumerated, orphans>>

(* unmount_done_cb, called by the run loop, sends the first result only.   *)
UnmountDone(h) ==
    LET c == claim[h] IN
    /\ c.worker = "loop"
    /\ c.unmount \in {"done", "refused"}
    /\ c.reply = "none"
    /\ ClaimTo(h, [c EXCEPT !.reply = c.unmount])

---------------------------------------------------------------------------
(* The claim: the helper's main thread in for_dev, and after it.           *)

StartHelper(h) ==
    /\ h \in cast
    /\ claim[h].pc = "gone"
    /\ ClaimTo(h, [NoClaim EXCEPT !.pc = "init", !.worker = "spawned"])

(* The first event within five seconds: without a disk, give up.           *)
RecvEvent(h) ==
    LET c == claim[h] IN
    /\ c.pc = "init"
    /\ c.inbox # <<>>
    /\ ClaimTo(h, [c EXCEPT !.inbox = Tail(@),
                            !.pc = IF Head(c.inbox) = "initialized"
                                   THEN "unmounting" ELSE "failed"])

RecvUnmount(h) ==
    LET c == claim[h] IN
    /\ c.pc = "unmounting"
    /\ \/ /\ c.reply = "done"
          /\ ClaimTo(h, [c EXCEPT !.pc = "held"])
       \/ /\ c.reply = "refused"
          /\ ClaimTo(h, [c EXCEPT !.pc = "joining", !.worker = "stopped"])

RecvTimeout(h) ==
    LET c == claim[h] IN
    /\ c.pc \in {"init", "unmounting"}
    /\ ClaimTo(h, [c EXCEPT !.pc = "failed"])

Joined(h) ==
    LET c == claim[h] IN
    /\ c.pc = "joining"
    /\ ClaimTo(h, [c EXCEPT !.pc = "failed"])

(* Drop stops the run loop and does not join.                              *)
DropClaim(h) ==
    LET c == claim[h] IN
    /\ c.pc = "held"
    /\ ClaimTo(h, [c EXCEPT !.pc = "dropped", !.worker = "stopped"])

(* The process ends, or dies; its session goes with it.                    *)
HelperEnds(h) ==
    /\ claim[h].pc # "gone"
    /\ claim' = [claim EXCEPT ![h] = NoClaim]
    /\ orphans' = orphans \ {h}
    /\ UNCHANGED <<world, enumerated>>

Caller(h) == RecvEvent(h) \/ RecvUnmount(h) \/ RecvTimeout(h) \/ Joined(h)

Worker(h) == \/ Register(h) \/ AskUnmount(h) \/ SendInitialized(h)
             \/ RunLoop(h) \/ UnmountDone(h)

---------------------------------------------------------------------------
(* The window: leftover helpers, and eject.                                *)

Alive == {h \in Helpers : claim[h].pc # "gone"}

(* ps lists the helpers, or fails or hangs and there are none.             *)
FindOrphans ==
    /\ \E found \in {Alive, {}} : orphans' = found
    /\ UNCHANGED <<world, enumerated, claim>>

(* kill -9 as administrator, if the operator agrees; the window then asks  *)
(* again.  A helper killed releases its claim.                             *)
KillOrphans ==
    /\ orphans # {}
    /\ claim' = [h \in Helpers |-> IF h \in orphans THEN NoClaim ELSE claim[h]]
    /\ orphans' = {}
    /\ UNCHANGED <<world, enumerated>>

(* eject_disk: unmounts and releases the disk, or fails.                   *)
Eject(d) ==
    /\ d \in present \ Internal
    /\ present' = present \ {d}
    /\ mounted' = (mounted /\ d # Target)
    /\ UNCHANGED <<cast, enumerated, claim, orphans>>

---------------------------------------------------------------------------
Enumerates == \E p \in Passes :
    StartPass(p) \/ PassThread(p) \/ ChildEnds(p)

Claims == \E h \in Helpers :
    \/ StartHelper(h) \/ Worker(h) \/ DaemonUnmounts(h) \/ Caller(h)
    \/ DropClaim(h) \/ HelperEnds(h)

Machine == Mount \/ \E d \in Devices : Unplug(d) \/ Plug(d) \/ Eject(d)

Next == Enumerates \/ Claims \/ Machine \/ FindOrphans \/ KillOrphans

Spec == Init /\ [][Next]_vars

(* Threads run, and so do their clocks.  Nothing is asked of the tools, of *)
(* the daemon or of the operator.                                          *)
FairSpec ==
    /\ Spec
    /\ \A p \in Passes : WF_vars(PassThread(p))
    /\ \A h \in Helpers : WF_vars(Caller(h)) /\ WF_vars(Worker(h))

---------------------------------------------------------------------------
Stages == {"init", "unmounting", "joining", "held", "failed", "dropped", "gone"}

TypeOK ==
    /\ present \subseteq Devices
    /\ mounted \in BOOLEAN
    /\ cache \subseteq Devices
    /\ seen \subseteq Devices
    /\ orphans \subseteq Helpers
    /\ claim \in [Helpers ->
           [pc : Stages,
            worker : {"none", "spawned", "registered", "asked", "started",
                      "loop", "stopped"},
            inbox : Seq({"no disk", "initialized"}),
            unmount : {"none", "asked", "done", "refused"},
            reply : {"none", "done", "refused"}]]
    /\ pass \in [Passes ->
           [pc : {"idle", "list", "info", "emit"},
            child : {"none", "running", "report", "nothing"},
            asked : Devices \cup {None},
            left : SUBSET Devices, disks : SUBSET Devices,
            wedged : SUBSET Devices, total : BOOLEAN, known : SUBSET Devices]]

(* The target has no mounted volume while any helper holds its claim: the  *)
(* callback is registered before the unmount is asked for, so nothing gets *)
(* between the two, whatever other helpers start, give up or are killed.   *)
HeldMeansUnmounted == \A h \in Helpers : claim[h].pc = "held" => ~mounted

(* When the list hangs, a pass that began after some pass had returned the *)
(* internal disk does not offer it as a candidate to unplug, whatever      *)
(* passes ran, failed or overlapped since.                                 *)
BootDriveIsSafe ==
    \A p \in Passes :
        pass[p].total => pass[p].wedged \cap Internal \cap pass[p].known = {}

(* No call hangs with the machine: no pass of the enumeration runs for     *)
(* ever and no attempt to claim a disk stays undecided, though tools and   *)
(* daemon never answer.                                                    *)
CallsReturn ==
    /\ \A p \in Passes : []<>(pass[p].pc = "idle")
    /\ \A h \in Helpers : []<>(claim[h].pc \notin {"init", "unmounting", "joining"})
=============================================================================
