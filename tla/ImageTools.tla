------------------------------ MODULE ImageTools ------------------------------
(***************************************************************************)
(* The operations of Disk Cutter on images that share no state with each   *)
(* other: how an image is downloaded and scanned, what the program says of *)
(* it, its burn by threads of the app, the verification of a burn, a       *)
(* backup, and snapshots of a device with their restore.  One of them runs *)
(* per behaviour, as run_cli of src-tauri/src/cli.rs picks one per         *)
(* invocation and the window starts one with each command; the others stay *)
(* as they start.                                                          *)
(***************************************************************************)
EXTENDS Integers, Sequences, FiniteSets

CONSTANTS
    Urls, Foreign, Nameless, Unsized, Plain, MaxGets, \* ImageIntake
    BodyBlocks, MaxScans, AtOnce, AtWork, MaxClock, Null,
    MaxDepth,                                         \* ImageProbe
    Jobs, NoJob, CloudJobs, MaxRuns, MaxExits,        \* AppQuit
    Values, ImageLength, Chunk, Group, MaxMismatches, \* Verify
    Sectors, MaxSource, ChunkSectors,                 \* Backup
    Blocks, DeviceSizes, SnapshotBlocks, MaxSnapshots \* Snapshot

VARIABLES
    tool,    \* the operation that runs
    files, clock, get, registry, alone, arrived, scan, cache, strip,
    image, report, listed, burned,
    row, ui, active, flags, sentinel, run, asked, dl, warm, quit, snap, down, exits,
    written, readback, pass, checked, hashed, list, verdict,
    source, allocated, sourceBytes, options, bytesRead, file, held, cursor,
    truncate, digest, outcome, swallowed,
    device, recovery, step, raw, back, answer, taken, before

intakeVars == <<files, clock, get, registry, alone, arrived, scan, cache, strip>>
probeVars == <<image, report, listed, burned>>
burnVars == <<row, ui, active, flags, sentinel, run, asked, dl, warm,
              quit, snap, down, exits>>
verifyVars == <<written, readback, pass, checked, hashed, list, verdict>>
backupVars == <<source, allocated, sourceBytes, options, bytesRead, file, held,
                cursor, truncate, digest, outcome, swallowed>>
snapshotVars == <<device, recovery, step, raw, back, answer, taken, before>>
vars == <<tool, intakeVars, probeVars, burnVars, verifyVars, backupVars, snapshotVars>>

Intake == INSTANCE ImageIntake WITH Blocks <- BodyBlocks
Probed == INSTANCE ImageProbe
InApp == INSTANCE AppQuit WITH registry <- flags
Verified == INSTANCE Verify
BackedUp == INSTANCE Backup
Snapshots == INSTANCE Snapshot

ASSUME ImageToolsAssumption ==
    /\ Intake!IntakeAssumption /\ Probed!ProbeAssumption
    /\ InApp!AppQuitAssumption /\ Verified!VerifyAssumption
    /\ BackedUp!BackupAssumption /\ Snapshots!SnapshotAssumption

(* What an operation that is not the one picked stays at. *)
NoProbe ==
    Probed!Start([ext |-> "img", wrap |-> <<>>, disk |-> Probed!NoDisk, broken |-> 0])
NoVerify == Verified!Start(<<>>, [p \in Verified!Passes |-> <<>>])
NoBackup ==
    BackedUp!Start(<<>>, <<>>, 0, [qcow2 |-> FALSE, sparse |-> FALSE, compressed |-> FALSE])
NoSnapshot == Snapshots!Start(<<>>)

(* The arguments of the command line, or a command of the window, pick one. *)
Init ==
    /\ tool \in {"intake", "inspect", "burn", "verify", "backup", "snapshot"}
    /\ Intake!Init /\ InApp!Init
    /\ IF tool = "inspect" THEN Probed!Init ELSE NoProbe
    /\ IF tool = "verify" THEN Verified!Init ELSE NoVerify
    /\ IF tool = "backup" THEN BackedUp!Init ELSE NoBackup
    /\ IF tool = "snapshot" THEN Snapshots!Init ELSE NoSnapshot

RunsIntake ==
    /\ tool = "intake" /\ Intake!Next
    /\ UNCHANGED <<tool, probeVars, burnVars, verifyVars, backupVars, snapshotVars>>

RunsInspect ==
    /\ tool = "inspect" /\ Probed!Next
    /\ UNCHANGED <<tool, intakeVars, burnVars, verifyVars, backupVars, snapshotVars>>

RunsBurns ==
    /\ tool = "burn" /\ InApp!Next
    /\ UNCHANGED <<tool, intakeVars, probeVars, verifyVars, backupVars, snapshotVars>>

RunsVerify ==
    /\ tool = "verify" /\ Verified!Next
    /\ UNCHANGED <<tool, intakeVars, probeVars, burnVars, backupVars, snapshotVars>>

RunsBackup ==
    /\ tool = "backup" /\ BackedUp!Next
    /\ UNCHANGED <<tool, intakeVars, probeVars, burnVars, verifyVars, snapshotVars>>

RunsSnapshot ==
    /\ tool = "snapshot" /\ Snapshots!Next
    /\ UNCHANGED <<tool, intakeVars, probeVars, burnVars, verifyVars, backupVars>>

Next ==
    \/ RunsIntake \/ RunsInspect \/ RunsBurns
    \/ RunsVerify \/ RunsBackup \/ RunsSnapshot

Spec == Init /\ [][Next]_vars

-----------------------------------------------------------------------------
(* A download that reports success left every block of its body under its   *)
(* name, unless its length was not announced or it had not the name alone.  *)
CompleteIsWhole == Intake!CompleteIsWhole

(* A scan row that is complete and fresh says what is in the file now.      *)
FreshIsCurrent == Intake!FreshIsCurrent

(* No progress strip outlives its scan.                                     *)
StripsEnd == Intake!StripsEnd

(* What the window and the command line say of an image is said of the disk *)
(* the burn will write.                                                     *)
ReportIsOfTheBurn == Probed!ReportIsOfTheBurn

(* A burn or a download that has not settled its row is in ActiveBurns, the *)
(* only thing the close guard and abort_and_quit look at.                   *)
InFlightIsTracked == InApp!InFlightIsTracked

(* A window that closed without a dialog, and a quit that reported the      *)
(* burns cleared, left no job running in the database.                      *)
QuietExit == InApp!QuietExit

(* A click on Cancel raises the flag of the burn thread that is at work.    *)
CancelReachesBurn == InApp!CancelReachesBurn

(* While the app runs, a row in state running has a thread that will settle *)
(* it, in whatever step the app died before.                                *)
RunningIsAttended == InApp!RunningIsAttended

(* A job that a thread of the app burns is kept as the queue promises.      *)
KeepsJobs == InApp!KeepsJobs

(* A match is given only to a device that returned the image to a pass, and *)
(* the mismatches listed are where the image and the device differ, all of  *)
(* them as long as the list has room.                                       *)
VerdictIsEarned == Verified!VerdictIsEarned

(* A backup that ends well left a copy of the source and its digest.        *)
CopyIsFaithful == BackedUp!CopyIsFaithful

(* A restore gives the device a snapshot back or leaves it alone.           *)
RestoreIsSafe == Snapshots!RestoreIsSafe
=============================================================================
