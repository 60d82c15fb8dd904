----------------------------- MODULE DeviceTools -----------------------------
(***************************************************************************)
(* The operations of Disk Cutter on devices: the listing, the claims and   *)
(* the ejection of disks, the capture of a device to an image, and the     *)
(* write loop over two writers: `pipelined`, the default, with a pool of   *)
(* two, so that one buffer is left to send when the worker dies with the   *)
(* other; and `parallel` with a configured depth of one, raised to its two *)
(* workers.  They share no state; one of them runs per behaviour and the   *)
(* others stay as they start.                                              *)
(***************************************************************************)
EXTENDS Integers, Sequences, FiniteSets

CONSTANTS
    Devices, Internal, Target, Passes, Helpers, Casts, None, \* Devices
    DevChunks, Totals                                        \* Capture

VARIABLES
    tool,    \* the operation that runs
    cast, present, mounted, cache, seen, pass, claim, orphans,
    row, shown, path, total, copy, result, done, out, flag, watching, sentinel,
    asked, flagAt, line, tail, skipped,
    pc, outcome, cancel, offset, work, txOpen, free, freeOpen, wpc, wjob,
    errors, written

deviceVars == <<cast, present, mounted, cache, seen, pass, claim, orphans>>
captureVars == <<row, shown, path, total, copy, result, done, out, flag, watching,
                 sentinel, asked, flagAt, line, tail, skipped>>
writerVars == <<pc, outcome, cancel, offset, work, txOpen, free, freeOpen, wpc,
                wjob, errors, written>>
vars == <<tool, deviceVars, captureVars, writerVars>>

Disks == INSTANCE Devices
Captured == INSTANCE Capture
Pipelined == INSTANCE BufferedWriter
    WITH Impl <- "pipelined", WorkerThreads <- 0, QueueDepth <- 2, SourceChunks <- 4
Parallel == INSTANCE BufferedWriter
    WITH Impl <- "parallel", WorkerThreads <- 2, QueueDepth <- 1, SourceChunks <- 4

ASSUME DeviceToolsAssumption ==
    Disks!DevicesAssumption /\ Captured!CaptureAssumption

Init ==
    /\ tool \in {"disks", "capture", "pipelined", "parallel"}
    /\ Disks!Init /\ Captured!Init
    /\ IF tool = "parallel" THEN Parallel!Init ELSE Pipelined!Init
    /\ tool # "capture" => total = 0
    /\ tool # "disks" => present = Internal /\ ~mounted

RunsDisks ==
    tool = "disks" /\ Disks!Next /\ UNCHANGED <<tool, captureVars, writerVars>>

RunsCapture ==
    tool = "capture" /\ Captured!Next /\ UNCHANGED <<tool, deviceVars, writerVars>>

RunsWrite ==
    /\ \/ tool = "pipelined" /\ Pipelined!Next
       \/ tool = "parallel" /\ Parallel!Next
    /\ UNCHANGED <<tool, deviceVars, captureVars>>

Next == RunsDisks \/ RunsCapture \/ RunsWrite

Spec == Init /\ [][Next]_vars

(* What the modules assume: threads and the helper are scheduled, and so    *)
(* are the clocks; tools, daemon, operator and password prompt may stay     *)
(* silent for ever.                                                         *)
FairSpec ==
    /\ Spec
    /\ \A p \in Passes : WF_deviceVars(tool = "disks" /\ Disks!PassThread(p))
    /\ \A h \in Helpers :
        /\ WF_deviceVars(tool = "disks" /\ Disks!Caller(h))
        /\ WF_deviceVars(tool = "disks" /\ Disks!Worker(h))
    /\ WF_captureVars(tool = "capture" /\ Captured!Thread /\ copy # "prompt")
    /\ WF_captureVars(tool = "capture" /\ Captured!Tail)
    /\ WF_writerVars(tool = "pipelined" /\ Pipelined!Producer)
    /\ WF_writerVars(tool = "pipelined" /\ Pipelined!Worker(1))
    /\ WF_writerVars(tool = "parallel" /\ Parallel!Producer)
    /\ \A w \in Parallel!Workers : WF_writerVars(tool = "parallel" /\ Parallel!Worker(w))

-----------------------------------------------------------------------------
(* The target has no mounted volume while any helper holds its claim.       *)
HeldMeansUnmounted == Disks!HeldMeansUnmounted

(* When the list hangs, a disk once seen as internal is not offered as a    *)
(* candidate to unplug.                                                     *)
BootDriveIsSafe == Disks!BootDriveIsSafe

WriteEnded ==
    CASE tool = "pipelined" -> pc = "done" /\ Pipelined!AllGone
      [] tool = "parallel" -> pc = "done" /\ Parallel!AllGone
      [] OTHER -> TRUE

(* Every pass of the enumeration and every attempt to claim a disk returns, *)
(* and so does a write whose workers may die, each with a buffer.           *)
CallsReturn == Disks!CallsReturn /\ <>[]WriteEnded

(* A capture shown as a success left the whole image behind: all the device *)
(* holds up to the size asked for, in the file and in the count shown.      *)
SuccessIsWhole == Captured!SuccessIsWhole

(* A capture whose flag went up before the last chunk was read is not a     *)
(* success (a click less than a poll of the watcher earlier may come late), *)
(* and none ends as cancelled that nobody cancelled.                        *)
CancelIsHonoured == Captured!CancelIsHonoured

(* A capture that reads ends, however the helper behaves.                   *)
CaptureEnds == Captured!CaptureEnds
=============================================================================
