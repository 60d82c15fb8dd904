-------------------------- MODULE ImageToolsProofs --------------------------
(***************************************************************************)
(* Proofs about ImageTools: each operation that has the program to itself  *)
(* behaves as its own module says.  Downloads, scans, burns and backups    *)
(* take the theorems of their modules along; those about restores, verify  *)
(* passes and readers are proved here.                                     *)
(***************************************************************************)
EXTENDS ImageTools, SequenceTheorems, WellFoundedInduction, TLAPS

IntakeProved == INSTANCE ImageIntakeProofs WITH Blocks <- BodyBlocks
BurnsProved == INSTANCE AppQuitProofs WITH registry <- flags
CopiesProved == INSTANCE BackupProofs

(* The modules the theorems are of are the ones ImageTools is composed of:  *)
(* how images come in...                                                    *)
LEMMA SameIntake ==
    /\ Intake!Init <=> IntakeProved!Init
    /\ Intake!Next <=> IntakeProved!Next
    /\ FreshIsCurrent <=> IntakeProved!FreshIsCurrent
    /\ StripsEnd <=> IntakeProved!StripsEnd
<1>1. Intake!Init <=> IntakeProved!Init
  BY DEF Intake!Init, IntakeProved!Init, Intake!Paths, IntakeProved!Paths, Intake!DeriveFilename,
     IntakeProved!DeriveFilename, Intake!NoGet, IntakeProved!NoGet, Intake!NoFile,
     IntakeProved!NoFile, Intake!NoRow, IntakeProved!NoRow, Intake!Idle,
     IntakeProved!Idle, Intake!Scans, IntakeProved!Scans, Intake!Downloads,
     IntakeProved!Downloads
<1>2. Intake!Next <=> IntakeProved!Next
  <2>1. Intake!Tick <=> IntakeProved!Tick
    BY DEF Intake!Tick, IntakeProved!Tick, Intake!fetchVars, IntakeProved!fetchVars,
       Intake!scanVars, IntakeProved!scanVars
  <2>2. ASSUME NEW d PROVE Intake!Fetch(d) <=> IntakeProved!Fetch(d)
    <3>1. Intake!Request(d) <=> IntakeProved!Request(d)
      BY DEF Intake!Request, IntakeProved!Request, Intake!GetTo, IntakeProved!GetTo,
         Intake!Dest, IntakeProved!Dest, Intake!DeriveFilename, IntakeProved!DeriveFilename,
         Intake!HasFile, IntakeProved!HasFile, Intake!Downloads, IntakeProved!Downloads,
         Intake!scanVars, IntakeProved!scanVars
    <3>2. Intake!WriteBlock(d) <=> IntakeProved!WriteBlock(d)
      BY DEF Intake!WriteBlock, IntakeProved!WriteBlock, Intake!Put, IntakeProved!Put,
         Intake!Dest, IntakeProved!Dest, Intake!DeriveFilename, IntakeProved!DeriveFilename
    <3>3. Intake!Body(d) <=> IntakeProved!Body(d)
      BY <3>2 DEF Intake!Body, IntakeProved!Body, Intake!GetTo, IntakeProved!GetTo, Intake!scanVars,
         IntakeProved!scanVars
    <3>4. Intake!Flush(d) <=> IntakeProved!Flush(d)
      BY DEF Intake!Flush, IntakeProved!Flush, Intake!GetTo, IntakeProved!GetTo,
         Intake!scanVars, IntakeProved!scanVars
    <3>5. Intake!Leave(d) <=> IntakeProved!Leave(d)
      BY DEF Intake!Leave, IntakeProved!Leave, Intake!Dest, IntakeProved!Dest,
         Intake!DeriveFilename, IntakeProved!DeriveFilename, Intake!NoGet,
         IntakeProved!NoGet, Intake!scanVars, IntakeProved!scanVars
    <3>6. QED
      BY <3>1, <3>3, <3>4, <3>5 DEF Intake!Fetch, IntakeProved!Fetch
  <2>3. ASSUME NEW s PROVE Intake!Scan(s) <=> IntakeProved!Scan(s)
    <3>1. Intake!Lookup(s) <=> IntakeProved!Lookup(s)
      BY DEF Intake!Lookup, IntakeProved!Lookup, Intake!ScanTo, IntakeProved!ScanTo,
         Intake!Fresh, IntakeProved!Fresh, Intake!File, IntakeProved!File, Intake!Scanning,
         IntakeProved!Scanning, Intake!fetchVars, IntakeProved!fetchVars
    <3>2. /\ Intake!Stat(s) <=> IntakeProved!Stat(s)
          /\ Intake!BeginRow(s) <=> IntakeProved!BeginRow(s)
      BY DEF Intake!Stat, IntakeProved!Stat, Intake!BeginRow, IntakeProved!BeginRow,
         Intake!ScanTo, IntakeProved!ScanTo, Intake!File, IntakeProved!File, Intake!NoRow,
         IntakeProved!NoRow, Intake!Scanning, IntakeProved!Scanning, Intake!fetchVars,
         IntakeProved!fetchVars
    <3>3. /\ Intake!ReadPrefix(s) <=> IntakeProved!ReadPrefix(s)
          /\ Intake!Walk(s) <=> IntakeProved!Walk(s)
      BY DEF Intake!ReadPrefix, IntakeProved!ReadPrefix, Intake!Walk, IntakeProved!Walk,
         Intake!TableOf, IntakeProved!TableOf, Intake!Labelled, IntakeProved!Labelled,
         Intake!ScanTo, IntakeProved!ScanTo, Intake!File, IntakeProved!File,
         Intake!Scanning, IntakeProved!Scanning, Intake!fetchVars, IntakeProved!fetchVars
    <3>4. /\ Intake!PatchPrefix(s) <=> IntakeProved!PatchPrefix(s)
          /\ Intake!FinishPlain(s) <=> IntakeProved!FinishPlain(s)
          /\ Intake!Finish(s) <=> IntakeProved!Finish(s)
      BY DEF Intake!PatchPrefix, IntakeProved!PatchPrefix, Intake!FinishPlain,
         IntakeProved!FinishPlain, Intake!Finish, IntakeProved!Finish, Intake!Patch,
         IntakeProved!Patch, Intake!Patched, IntakeProved!Patched, Intake!ScanTo,
         IntakeProved!ScanTo, Intake!Scanning, IntakeProved!Scanning, Intake!fetchVars,
         IntakeProved!fetchVars
    <3>5. Intake!EmitComplete(s) <=> IntakeProved!EmitComplete(s)
      BY DEF Intake!EmitComplete, IntakeProved!EmitComplete, Intake!Idle, IntakeProved!Idle,
         Intake!fetchVars, IntakeProved!fetchVars
    <3>6. QED
      BY <3>1, <3>2, <3>3, <3>4, <3>5 DEF Intake!Scan, IntakeProved!Scan
  <2>4. Intake!Room <=> IntakeProved!Room
    BY DEF Intake!Room, IntakeProved!Room, Intake!Loading, IntakeProved!Loading,
       Intake!Working, IntakeProved!Working, Intake!Downloads, IntakeProved!Downloads,
       Intake!Scans, IntakeProved!Scans, Intake!Cardinality, IntakeProved!Cardinality
  <2>5. ASSUME NEW s, NEW p PROVE Intake!Begin(s, p) <=> IntakeProved!Begin(s, p)
    BY <2>4 DEF Intake!Begin, IntakeProved!Begin, Intake!Working, IntakeProved!Working,
       Intake!Scans, IntakeProved!Scans, Intake!Cardinality, IntakeProved!Cardinality
  <2>6. Intake!Window <=> IntakeProved!Window
    <3>1. ASSUME NEW d
          PROVE  /\ Intake!CancelDownload(d) <=> IntakeProved!CancelDownload(d)
                 /\ \A u : Intake!StartDownload(d, u) <=> IntakeProved!StartDownload(d, u)
      BY <2>4 DEF Intake!CancelDownload, IntakeProved!CancelDownload, Intake!StartDownload,
         IntakeProved!StartDownload, Intake!Valid, IntakeProved!Valid, Intake!Downloads,
         IntakeProved!Downloads, Intake!scanVars, IntakeProved!scanVars
    <3>2. ASSUME NEW s, NEW p
          PROVE  /\ Intake!AddArrived(s, p) <=> IntakeProved!AddArrived(s, p)
                 /\ Intake!AddExisting(s, p) <=> IntakeProved!AddExisting(s, p)
                 /\ Intake!Refresh(s, p) <=> IntakeProved!Refresh(s, p)
      BY <2>5 DEF Intake!AddArrived, IntakeProved!AddArrived, Intake!AddExisting,
         IntakeProved!AddExisting, Intake!Refresh, IntakeProved!Refresh, Intake!NoRow,
         IntakeProved!NoRow, Intake!fetchVars, IntakeProved!fetchVars
    <3>3. QED
      BY <3>1, <3>2 DEF Intake!Window, IntakeProved!Window, Intake!Downloads, IntakeProved!Downloads,
         Intake!Scans, IntakeProved!Scans, Intake!Paths, IntakeProved!Paths,
         Intake!DeriveFilename, IntakeProved!DeriveFilename
  <2>7. QED
    BY <2>1, <2>2, <2>3, <2>6 DEF Intake!Next, IntakeProved!Next, Intake!Downloads, IntakeProved!Downloads,
       Intake!Scans, IntakeProved!Scans
<1>3. FreshIsCurrent <=> IntakeProved!FreshIsCurrent
  BY DEF FreshIsCurrent, Intake!FreshIsCurrent, IntakeProved!FreshIsCurrent,
     Intake!Paths, IntakeProved!Paths, Intake!DeriveFilename,
     IntakeProved!DeriveFilename, Intake!Fresh, IntakeProved!Fresh, Intake!FullTable,
     IntakeProved!FullTable, Intake!TableOf, IntakeProved!TableOf, Intake!Labelled,
     IntakeProved!Labelled
<1>4. StripsEnd <=> IntakeProved!StripsEnd
  BY DEF StripsEnd, Intake!StripsEnd, IntakeProved!StripsEnd,
     Intake!Working, IntakeProved!Working, Intake!Scans, IntakeProved!Scans
<1>5. QED
  BY <1>1, <1>2, <1>3, <1>4

(* The same of the burns by threads of the app... *)
LEMMA SameBurns == InApp!Next <=> BurnsProved!Next
BY DEF InApp!Next, BurnsProved!Next, InApp!Window, BurnsProved!Window,
       InApp!Download, BurnsProved!Download, InApp!Burn, BurnsProved!Burn,
       InApp!Quit, BurnsProved!Quit, InApp!Killed, BurnsProved!Killed, InApp!Launch,
       BurnsProved!Launch, InApp!StartLocal, BurnsProved!StartLocal,
       InApp!StartCloud, BurnsProved!StartCloud, InApp!Requeue, BurnsProved!Requeue,
       InApp!Cancel, BurnsProved!Cancel, InApp!CloseWindow, BurnsProved!CloseWindow,
       InApp!KeepBurning, BurnsProved!KeepBurning, InApp!AbortAndQuit,
       BurnsProved!AbortAndQuit, InApp!DownloadCancelled,
       BurnsProved!DownloadCancelled, InApp!DownloadFails,
       BurnsProved!DownloadFails, InApp!DownloadChecked,
       BurnsProved!DownloadChecked, InApp!DownloadDone, BurnsProved!DownloadDone,
       InApp!ThreadStarts, BurnsProved!ThreadStarts, InApp!Opens, BurnsProved!Opens,
       InApp!Progress, BurnsProved!Progress, InApp!Loops, BurnsProved!Loops,
       InApp!Sweeps, BurnsProved!Sweeps, InApp!Records, BurnsProved!Records,
       InApp!Deregisters, BurnsProved!Deregisters, InApp!Emits, BurnsProved!Emits,
       InApp!TakeSnapshot, BurnsProved!TakeSnapshot, InApp!RaiseFlags,
       BurnsProved!RaiseFlags, InApp!WriteSentinels, BurnsProved!WriteSentinels,
       InApp!Cleared, BurnsProved!Cleared, InApp!GraceOver, BurnsProved!GraceOver,
       InApp!Exit, BurnsProved!Exit, InApp!GoDown, BurnsProved!GoDown, InApp!QuitTo,
       BurnsProved!QuitTo, InApp!Reattach, BurnsProved!Reattach, InApp!FailJob,
       BurnsProved!FailJob, InApp!Recorded, BurnsProved!Recorded, InApp!Started,
       BurnsProved!Started, InApp!To, BurnsProved!To, InApp!EndsWith,
       BurnsProved!EndsWith, InApp!Flagged, BurnsProved!Flagged, InApp!RunsOf,
       BurnsProved!RunsOf, InApp!Idle, BurnsProved!Idle, InApp!Command,
       BurnsProved!Command, InApp!Up, BurnsProved!Up, InApp!BeginBurn,
       BurnsProved!BeginBurn, InApp!Register, BurnsProved!Register, InApp!Next1,
       BurnsProved!Next1, InApp!Fresh, BurnsProved!Fresh, InApp!Runs,
       BurnsProved!Runs, InApp!None, BurnsProved!None, InApp!Working,
       BurnsProved!Working, InApp!BeforeRecord, BurnsProved!BeforeRecord,
       InApp!rowVars, BurnsProved!rowVars, InApp!regVars, BurnsProved!regVars,
       InApp!dlVars, BurnsProved!dlVars, InApp!quitVars, BurnsProved!quitVars

(* ...and of the backup. *)
LEMMA SameBackups ==
    /\ BackedUp!Next <=> CopiesProved!Next
    /\ BackedUp!Init <=> CopiesProved!Init
    /\ NoBackup <=> CopiesProved!Start(<<>>, <<>>, 0,
                        [qcow2 |-> FALSE, sparse |-> FALSE, compressed |-> FALSE])
    /\ CopyIsFaithful <=> CopiesProved!CopyIsFaithful
<1>1. BackedUp!Next <=> CopiesProved!Next
  <2>1. BackedUp!CopyChunk <=> CopiesProved!CopyChunk
    BY DEF BackedUp!CopyChunk, CopiesProved!CopyChunk, BackedUp!Copy, CopiesProved!Copy,
       BackedUp!WriteSparse, CopiesProved!WriteSparse, BackedUp!WriteHeld,
       CopiesProved!WriteHeld, BackedUp!Zeros, CopiesProved!Zeros, BackedUp!Overwritten,
       CopiesProved!Overwritten, BackedUp!Sparse, CopiesProved!Sparse, BackedUp!Least,
       CopiesProved!Least, BackedUp!sourceVars, CopiesProved!sourceVars
  <2>2. BackedUp!CopyExtent <=> CopiesProved!CopyExtent
    BY DEF BackedUp!CopyExtent, CopiesProved!CopyExtent, BackedUp!Copy, CopiesProved!Copy,
       BackedUp!WriteSparse, CopiesProved!WriteSparse, BackedUp!WriteHeld,
       CopiesProved!WriteHeld, BackedUp!Zeros, CopiesProved!Zeros, BackedUp!Overwritten,
       CopiesProved!Overwritten, BackedUp!Sparse, CopiesProved!Sparse, BackedUp!Least,
       CopiesProved!Least, BackedUp!ExtentEnd, CopiesProved!ExtentEnd,
       BackedUp!sourceVars, CopiesProved!sourceVars
  <2>3. BackedUp!DropSparse <=> CopiesProved!DropSparse
    BY DEF BackedUp!DropSparse, CopiesProved!DropSparse, BackedUp!SetLen, CopiesProved!SetLen,
       BackedUp!Overwritten, CopiesProved!Overwritten
  <2>4. BackedUp!Finish <=> CopiesProved!Finish
    BY <2>3 DEF BackedUp!Finish, CopiesProved!Finish, BackedUp!AllRead, CopiesProved!AllRead,
       BackedUp!Sparse, CopiesProved!Sparse, BackedUp!Least, CopiesProved!Least,
       BackedUp!sourceVars, CopiesProved!sourceVars
  <2>5. BackedUp!Fails <=> CopiesProved!Fails
    BY <2>3 DEF BackedUp!Fails, CopiesProved!Fails, BackedUp!Sparse, CopiesProved!Sparse,
       BackedUp!sourceVars, CopiesProved!sourceVars
  <2>6. QED
    BY <2>1, <2>2, <2>4, <2>5 DEF BackedUp!Next, CopiesProved!Next
<1>2. BackedUp!Init <=> CopiesProved!Init
  BY DEF BackedUp!Init, CopiesProved!Init, BackedUp!Start, CopiesProved!Start
<1>3. NoBackup <=> CopiesProved!Start(<<>>, <<>>, 0,
                      [qcow2 |-> FALSE, sparse |-> FALSE, compressed |-> FALSE])
  BY DEF NoBackup, BackedUp!Start, CopiesProved!Start
<1>4. CopyIsFaithful <=> CopiesProved!CopyIsFaithful
  BY DEF CopyIsFaithful, BackedUp!CopyIsFaithful, CopiesProved!CopyIsFaithful,
     BackedUp!Least, CopiesProved!Least
<1>5. QED
  BY <1>1, <1>2, <1>3, <1>4

(* Every step is a step of each operation, or leaves its variables alone.   *)
LEMMA OperationSteps ==
    ASSUME [Next]_vars
    PROVE  /\ [Intake!Next]_intakeVars /\ [Snapshots!Next]_snapshotVars
           /\ [InApp!Next]_burnVars /\ [BackedUp!Next]_backupVars
           /\ [Probed!Next]_probeVars /\ [Verified!Next]_verifyVars
BY DEF Next, RunsIntake, RunsInspect, RunsBurns, RunsVerify, RunsBackup, RunsSnapshot,
   vars, intakeVars, snapshotVars, burnVars, backupVars, probeVars, verifyVars

-----------------------------------------------------------------------------
(* Images come in as ImageIntake says. *)
LEMMA IntakeRuns ==
    /\ IntakeProved!IntakeAssumption
    /\ Init => IntakeProved!Init
    /\ [Next]_vars => [IntakeProved!Next]_IntakeProved!vars
<1>1. IntakeProved!IntakeAssumption
  BY ImageToolsAssumption DEF Intake!IntakeAssumption, IntakeProved!IntakeAssumption
<1>2. UNCHANGED intakeVars => UNCHANGED IntakeProved!vars
  BY DEF intakeVars, IntakeProved!vars, IntakeProved!fetchVars, IntakeProved!scanVars
<1>3. QED
  BY <1>1, <1>2, SameIntake, OperationSteps DEF Init

(* A download that reports success left every block of its body under its   *)
(* name, for any number of downloads and whoever cancels them.              *)
THEOREM CompleteWhole == Spec => CompleteIsWhole
<1>1. [\A d \in alone :
          get[d].pc = "flush" /\ get'[d].end = "ok" /\ get[d].url \notin Unsized
          => files[IntakeProved!Dest(d)].data = [i \in 1..BodyBlocks |-> get[d].url]]_IntakeProved!vars
      => [\A d \in alone :
             get[d].pc = "flush" /\ get'[d].end = "ok" /\ get[d].url \notin Unsized
             => files[Intake!Dest(d)].data = [i \in 1..BodyBlocks |-> get[d].url]]_Intake!vars
  BY DEF Intake!Dest, IntakeProved!Dest, Intake!DeriveFilename, IntakeProved!DeriveFilename,
     Intake!vars, IntakeProved!vars, Intake!fetchVars, IntakeProved!fetchVars,
     Intake!scanVars, IntakeProved!scanVars
<1>2. IntakeProved!CompleteIsWhole => CompleteIsWhole
  BY <1>1, PTL DEF CompleteIsWhole, Intake!CompleteIsWhole, IntakeProved!CompleteIsWhole
<1>3. QED
  BY <1>2, IntakeRuns, IntakeProved!CompleteWhole, PTL DEF Spec, IntakeProved!Spec

(* No progress strip outlives its scan, however many scans there are.       *)
THEOREM StripsDoEnd == Spec => []StripsEnd
BY IntakeRuns, SameIntake, IntakeProved!StripsDoEnd, PTL DEF Spec, IntakeProved!Spec

(* What the cache answers instead of a scan is what is in the file, as long *)
(* as one scan is at work at a time.                                        *)
THEOREM CacheIsCurrent == ASSUME AtOnce = 1 PROVE Spec => []FreshIsCurrent
BY IntakeRuns, SameIntake, IntakeProved!CacheIsCurrentOneScan, PTL DEF Spec, IntakeProved!Spec

-----------------------------------------------------------------------------
(* Snapshots: what is held in memory and what the recovery file says, after *)
(* a crash at any step and whatever became of the file.                     *)

BlockRow == Seq(Blocks)
Header == [blocks : Nat, sha256 : BlockRow]
RecoveryFile == [exists : BOOLEAN, magic : BOOLEAN, header : SUBSET Header, raw : BlockRow]

(* The types a step keeps. *)
SnapshotTypes ==
    /\ device \in BlockRow /\ raw \in BlockRow /\ before \in BlockRow
    /\ back \in Nat
    /\ taken \in SUBSET BlockRow
    /\ recovery \in RecoveryFile

(* A file has at most one header, and its digest is of blocks once captured. *)
HeaderInv ==
    /\ \A g, h \in recovery.header : g = h
    /\ \A h \in recovery.header : h.sha256 \in taken

(* What an operation holds in memory was captured once. *)
MemoryInv ==
    step \in {"magic", "header", "raw", "write back"} => raw \in taken

(* d begins with the first n blocks of s and goes on as e does. *)
Patched(d, s, n, e) ==
    /\ n <= Len(s) /\ n <= Len(d)
    /\ \A i \in 1..n : d[i] = s[i]
    /\ \A i \in (n + 1)..Len(d) : d[i] = e[i]

(* What a restore has made of the device so far, and in the end. *)
DeviceInv ==
    /\ answer = "refused" => device = before
    /\ step = "write back" => answer = "none" /\ Patched(device, raw, back, before)
    /\ answer = "restored" => \E s \in taken : Patched(device, s, Len(s), before)

SnapshotInv == SnapshotTypes /\ HeaderInv /\ MemoryInv /\ DeviceInv

-----------------------------------------------------------------------------
(* Every device is a row of blocks. *)
LEMMA DeviceIsRow ==
    ASSUME Snapshots!SnapshotAssumption PROVE Snapshots!Devices \subseteq BlockRow
BY SeqDef DEF Snapshots!SnapshotAssumption, Snapshots!Devices, BlockRow

(* So is what is read from the beginning of a row. *)
LEMMA BeginningIsRow ==
    ASSUME NEW s \in BlockRow, NEW n \in 0..Len(s)
    PROVE  SubSeq(s, 1, n) \in BlockRow
<1>1. \A i \in 1..n : s[i] \in Blocks
  BY ElementOfSeq DEF BlockRow
<1>2. QED
  BY <1>1, SubSeqProperties DEF BlockRow

(* A row that agrees with the beginning of another is that beginning. *)
LEMMA PrefixIs ==
    ASSUME NEW d \in BlockRow, NEW s \in BlockRow, Len(s) <= Len(d),
           \A i \in 1..Len(s) : d[i] = s[i]
    PROVE  Snapshots!Prefix(d, Len(s)) = s
<1>1. Len(s) \in Nat /\ Len(d) \in Nat
  BY LenProperties DEF BlockRow
<1>2. \A i \in 1..Len(s) : d[i] \in Blocks
  BY <1>1, ElementOfSeq DEF BlockRow
<1>3. /\ SubSeq(d, 1, Len(s)) \in BlockRow
      /\ Len(SubSeq(d, 1, Len(s))) = Len(s)
      /\ \A i \in 1..Len(s) : SubSeq(d, 1, Len(s))[i] = d[i]
  BY <1>1, <1>2, SubSeqProperties DEF BlockRow
<1>4. QED
  BY <1>3, SeqEqual DEF BlockRow, Snapshots!Prefix

(* A device nothing was written to is as it was. *)
LEMMA NothingPatched ==
    ASSUME NEW d \in BlockRow, NEW s \in BlockRow
    PROVE  Patched(d, s, 0, d)
<1>1. Len(d) \in Nat /\ Len(s) \in Nat
  BY LenProperties DEF BlockRow
<1>2. QED
  BY <1>1 DEF Patched

(* One more block of s. *)
LEMMA OneMorePatched ==
    ASSUME NEW c, NEW d, NEW s, NEW e, NEW n \in Nat, Patched(d, s, n, e),
           Len(d) \in Nat, Len(s) \in Nat,
           n + 1 \in 1..Len(s), n + 1 \in 1..Len(d), Len(c) = Len(d),
           \A i \in 1..Len(d) : c[i] = IF i = n + 1 THEN s[n + 1] ELSE d[i]
    PROVE  Patched(c, s, n + 1, e)
<1>1. n + 1 <= Len(s) /\ n + 1 <= Len(c)
  OBVIOUS
<1>2. ASSUME NEW i \in 1..(n + 1) PROVE c[i] = s[i]
  <2>1. i \in 1..Len(d) /\ (i = n + 1 \/ i \in 1..n)
    OBVIOUS
  <2>2. QED
    BY <2>1 DEF Patched
<1>3. ASSUME NEW i \in (n + 1 + 1)..Len(c) PROVE c[i] = e[i]
  <2>1. i \in 1..Len(d) /\ i # n + 1 /\ i \in (n + 1)..Len(d)
    OBVIOUS
  <2>2. QED
    BY <2>1 DEF Patched
<1>4. QED
  BY <1>1, <1>2, <1>3 DEF Patched

(* The invariant says what RestoreIsSafe says. *)
LEMMA SnapshotInvIsSafe == SnapshotInv => Snapshots!RestoreIsSafe
<1> SUFFICES ASSUME SnapshotInv PROVE Snapshots!RestoreIsSafe
  OBVIOUS
<1>1. answer = "refused" => device = before
  BY DEF SnapshotInv, DeviceInv
<1>2. ASSUME answer = "restored"
      PROVE  \E s \in taken :
                /\ Len(s) <= Len(device) /\ Snapshots!Prefix(device, Len(s)) = s
                /\ \A i \in (Len(s) + 1)..Len(device) : device[i] = before[i]
  <2>1. PICK s \in taken : Patched(device, s, Len(s), before)
    BY <1>2 DEF SnapshotInv, DeviceInv
  <2>2. s \in BlockRow /\ device \in BlockRow
    BY DEF SnapshotInv, SnapshotTypes
  <2>3. Snapshots!Prefix(device, Len(s)) = s
    BY <2>1, <2>2, PrefixIs DEF Patched
  <2>4. QED
    BY <2>1, <2>3 DEF Patched
<1>3. step = "write back" => raw \in taken
  BY DEF SnapshotInv, MemoryInv
<1>4. QED
  BY <1>1, <1>2, <1>3 DEF Snapshots!RestoreIsSafe

-----------------------------------------------------------------------------
(* A device that nothing was captured of, and no recovery file. *)
LEMMA SnapshotStarts == ASSUME NEW d \in BlockRow, Snapshots!Start(d) PROVE SnapshotInv
<1>2. <<>> \in BlockRow
  BY EmptySeq DEF BlockRow
<1>3. QED
  BY <1>2 DEF Snapshots!Start, SnapshotInv, SnapshotTypes, HeaderInv, MemoryInv,
     DeviceInv, Snapshots!NoFile, Snapshots!NoHeader,
     RecoveryFile

(* One block is written, on the device and from memory. *)
LEMMA OneBlock ==
    SnapshotTypes /\ Snapshots!WriteBack =>
           /\ back + 1 \in 1..Len(raw) /\ back + 1 \in 1..Len(device)
           /\ back' = back + 1
           /\ device' \in BlockRow /\ Len(device') = Len(device)
           /\ \A i \in 1..Len(device) :
                 device'[i] = IF i = back + 1 THEN raw[back + 1] ELSE device[i]
<1> SUFFICES ASSUME SnapshotTypes, Snapshots!WriteBack
             PROVE  /\ back + 1 \in 1..Len(raw) /\ back + 1 \in 1..Len(device)
                    /\ back' = back + 1
                    /\ device' \in BlockRow /\ Len(device') = Len(device)
                    /\ \A i \in 1..Len(device) :
                          device'[i] = IF i = back + 1 THEN raw[back + 1] ELSE device[i]
  OBVIOUS
<1>1. /\ device \in BlockRow /\ raw \in BlockRow /\ back \in Nat
      /\ Len(device) \in Nat /\ Len(raw) \in Nat
  BY LenProperties DEF SnapshotTypes, BlockRow
<1>2. back < Snapshots!Least(Len(raw), Len(device)) /\ back' = back + 1
  BY DEF Snapshots!WriteBack
<1>3. back < Len(raw) /\ back < Len(device)
  BY <1>1, <1>2 DEF Snapshots!Least
<1>4. back + 1 \in 1..Len(raw) /\ back + 1 \in 1..Len(device)
  BY <1>1, <1>3
<1>5. raw[back + 1] \in Blocks
  BY <1>1, <1>4, ElementOfSeq DEF BlockRow
<1>6. device' = [device EXCEPT ![back + 1] = raw[back + 1]]
  BY DEF Snapshots!WriteBack
<1>7. QED
  BY <1>1, <1>2, <1>4, <1>5, <1>6, ExceptSeq DEF BlockRow

(* The types are kept. *)
LEMMA SnapshotTypeStep ==
    ASSUME Snapshots!SnapshotAssumption, SnapshotTypes, HeaderInv, [Snapshots!Next]_Snapshots!vars
    PROVE  SnapshotTypes'
<1> USE DEF SnapshotTypes
<1>0. /\ SnapshotBlocks \in Nat /\ Len(device) \in Nat /\ Len(raw) \in Nat
      /\ Len(recovery.raw) \in Nat /\ recovery.raw \in BlockRow /\ <<>> \in BlockRow
  BY LenProperties, EmptySeq DEF Snapshots!SnapshotAssumption, BlockRow, RecoveryFile
<1>1. CASE Snapshots!ReadTarget
  <2>1. Snapshots!Least(SnapshotBlocks, Len(device)) \in 0..Len(device)
    BY <1>0 DEF Snapshots!Least
  <2>2. raw' \in BlockRow
    BY <1>1, <2>1, BeginningIsRow DEF Snapshots!ReadTarget
  <2>3. recovery' \in RecoveryFile
    BY <1>0, <1>1 DEF Snapshots!ReadTarget, RecoveryFile, Snapshots!EmptyFile,
       Snapshots!NoFile, Snapshots!NoHeader
  <2>4. QED
    BY <1>1, <2>2, <2>3 DEF Snapshots!ReadTarget
<1>2. CASE Snapshots!WriteMagic
  BY <1>2 DEF Snapshots!WriteMagic, RecoveryFile
<1>3. CASE Snapshots!WriteHeader
  <2>1. [blocks |-> Len(raw), sha256 |-> raw] \in Header
    BY <1>0 DEF Header
  <2>2. QED
    BY <1>3, <2>1 DEF Snapshots!WriteHeader, RecoveryFile
<1>4. CASE Snapshots!WriteRaw
  <2>1. PICK n \in 0..Len(raw) : recovery' = [recovery EXCEPT !.raw = SubSeq(raw, 1, n)]
    BY <1>4 DEF Snapshots!WriteRaw
  <2>2. SubSeq(raw, 1, n) \in BlockRow
    BY BeginningIsRow
  <2>3. QED
    BY <1>4, <2>1, <2>2 DEF Snapshots!WriteRaw, RecoveryFile
<1>5. CASE Snapshots!RestoreRefuses
  BY <1>5 DEF Snapshots!RestoreRefuses
<1>6. CASE Snapshots!RestoreBegins
  <2>1. PICK h \in recovery.header : raw' = SubSeq(recovery.raw, 1, h.blocks)
    BY <1>6 DEF Snapshots!RestoreBegins
  <2>2. h \in Header /\ Len(recovery.raw) >= h.blocks
    BY <1>6 DEF Snapshots!RestoreBegins, Snapshots!Accepts, HeaderInv, RecoveryFile
  <2>3. h.blocks \in 0..Len(recovery.raw)
    BY <1>0, <2>2 DEF Header
  <2>4. raw' \in BlockRow
    BY <1>0, <2>1, <2>3, BeginningIsRow
  <2>5. QED
    BY <1>6, <2>4 DEF Snapshots!RestoreBegins
<1>7. CASE Snapshots!WriteBack
  <2>1. device' \in BlockRow /\ back' = back + 1
    BY <1>7, OneBlock
  <2>2. raw' = raw /\ before' = before /\ taken' = taken /\ recovery' = recovery
    BY <1>7 DEF Snapshots!WriteBack
  <2>3. QED
    BY <2>1, <2>2
<1>8. CASE Snapshots!RestoreEnds \/ Snapshots!OperationFails \/ UNCHANGED Snapshots!vars
  BY <1>8 DEF Snapshots!RestoreEnds, Snapshots!OperationFails, Snapshots!vars
<1>9. CASE Snapshots!Overwrite
  BY <1>9, DeviceIsRow DEF Snapshots!Overwrite
<1>10. CASE Snapshots!Rot
  <2>1. CASE \E f \in {[recovery EXCEPT !.magic = FALSE], [recovery EXCEPT !.header = Snapshots!NoHeader]} :
               recovery' = f
    BY <1>10, <2>1 DEF Snapshots!Rot, RecoveryFile, Snapshots!NoHeader
  <2>2. CASE \E h \in recovery.header, n \in 0..SnapshotBlocks :
               recovery' = [recovery EXCEPT !.header = {[h EXCEPT !.blocks = n]}]
    <3>1. PICK h \in recovery.header, n \in 0..SnapshotBlocks :
             recovery' = [recovery EXCEPT !.header = {[h EXCEPT !.blocks = n]}]
      BY <2>2
    <3>2. [h EXCEPT !.blocks = n] \in Header
      BY <1>0 DEF RecoveryFile, Header
    <3>3. QED
      BY <1>10, <3>1, <3>2 DEF Snapshots!Rot, RecoveryFile
  <2>3. CASE \E i \in DOMAIN recovery.raw, b \in Blocks :
               recovery' = [recovery EXCEPT !.raw[i] = b]
    <3>1. PICK i \in DOMAIN recovery.raw, b \in Blocks :
             recovery' = [recovery EXCEPT !.raw[i] = b]
      BY <2>3
    <3>2. [recovery.raw EXCEPT ![i] = b] \in BlockRow
      BY <1>0, ExceptSeq, LenProperties DEF BlockRow
    <3>3. QED
      BY <1>10, <3>1, <3>2 DEF Snapshots!Rot, RecoveryFile
  <2>4. CASE \E n \in 0..Len(recovery.raw) :
               recovery' = [recovery EXCEPT !.raw = SubSeq(recovery.raw, 1, n)]
    BY <1>0, <1>10, <2>4, BeginningIsRow DEF Snapshots!Rot, RecoveryFile
  <2>5. QED
    BY <1>10, <2>1, <2>2, <2>3, <2>4 DEF Snapshots!Rot
<1>11. QED
  BY <1>1, <1>2, <1>3, <1>4, <1>5, <1>6, <1>7, <1>8, <1>9, <1>10 DEF Snapshots!Next

(* The rest of the invariant is kept, one part after the other. *)
LEMMA SnapshotHeaderStep ==
    ASSUME SnapshotInv, [Snapshots!Next]_Snapshots!vars
    PROVE  HeaderInv'
<1> USE DEF SnapshotInv, HeaderInv
<1>0. recovery \in RecoveryFile
  BY DEF SnapshotTypes
<1>1. CASE Snapshots!ReadTarget
  BY <1>1 DEF Snapshots!ReadTarget, Snapshots!EmptyFile, Snapshots!NoFile,
     Snapshots!NoHeader
<1>2. CASE Snapshots!WriteHeader
  BY <1>0, <1>2 DEF Snapshots!WriteHeader, MemoryInv, RecoveryFile
<1>3. CASE Snapshots!WriteMagic \/ Snapshots!WriteRaw
  BY <1>0, <1>3 DEF Snapshots!WriteMagic, Snapshots!WriteRaw, RecoveryFile
<1>4. CASE Snapshots!RestoreRefuses \/ Snapshots!RestoreBegins \/ Snapshots!WriteBack
        \/ Snapshots!RestoreEnds
           \/ Snapshots!OperationFails \/ Snapshots!Overwrite \/ UNCHANGED Snapshots!vars
  BY <1>4 DEF Snapshots!RestoreRefuses, Snapshots!RestoreBegins, Snapshots!WriteBack,
     Snapshots!RestoreEnds, Snapshots!OperationFails,
     Snapshots!Overwrite, Snapshots!vars
<1>5. CASE Snapshots!Rot
  <2>1. taken' = taken
    BY <1>5 DEF Snapshots!Rot
  <2>2. CASE recovery'.header = Snapshots!NoHeader \/ recovery'.header = recovery.header
    BY <2>1, <2>2 DEF Snapshots!NoHeader
  <2>3. CASE \E h \in recovery.header, n \in 0..SnapshotBlocks :
               recovery' = [recovery EXCEPT !.header = {[h EXCEPT !.blocks = n]}]
    <3>1. PICK h \in recovery.header, n \in 0..SnapshotBlocks :
             recovery' = [recovery EXCEPT !.header = {[h EXCEPT !.blocks = n]}]
      BY <2>3
    <3>2. h \in Header
      BY <1>0 DEF RecoveryFile
    <3>3. [h EXCEPT !.blocks = n].sha256 = h.sha256
      BY <3>2 DEF Header
    <3>4. recovery'.header = {[h EXCEPT !.blocks = n]}
      BY <1>0, <3>1 DEF RecoveryFile
    <3>5. QED
      BY <2>1, <3>3, <3>4
  <2>4. QED
    BY <1>0, <1>5, <2>2, <2>3 DEF Snapshots!Rot, RecoveryFile
<1>6. QED
  BY <1>1, <1>2, <1>3, <1>4, <1>5 DEF Snapshots!Next

(* What a restore takes into memory is what the digest in the header is of. *)
LEMMA SnapshotMemoryStep ==
    ASSUME SnapshotInv, [Snapshots!Next]_Snapshots!vars
    PROVE  MemoryInv'
<1> USE DEF SnapshotInv, MemoryInv
<1>1. CASE Snapshots!ReadTarget
  BY <1>1 DEF Snapshots!ReadTarget
<1>2. CASE Snapshots!RestoreBegins
  <2>1. PICK h \in recovery.header : raw' = SubSeq(recovery.raw, 1, h.blocks)
    BY <1>2 DEF Snapshots!RestoreBegins
  <2>2. raw' = h.sha256
    BY <1>2, <2>1 DEF Snapshots!RestoreBegins, Snapshots!Accepts, HeaderInv
  <2>3. QED
    BY <1>2, <2>2 DEF Snapshots!RestoreBegins, HeaderInv
<1>3. CASE Snapshots!WriteMagic \/ Snapshots!WriteHeader
  <2>1. step \in {"magic", "header"} /\ raw' = raw /\ taken' = taken
    BY <1>3 DEF Snapshots!WriteMagic, Snapshots!WriteHeader
  <2>2. QED
    BY <2>1
<1>4. CASE Snapshots!WriteRaw \/ Snapshots!RestoreEnds \/ Snapshots!OperationFails
  BY <1>4 DEF Snapshots!WriteRaw, Snapshots!RestoreEnds, Snapshots!OperationFails
<1>5. CASE Snapshots!RestoreRefuses \/ Snapshots!Overwrite
  BY <1>5 DEF Snapshots!RestoreRefuses, Snapshots!Overwrite
<1>6. CASE Snapshots!WriteBack
  BY <1>6 DEF Snapshots!WriteBack
<1>7. CASE Snapshots!Rot
  BY <1>7 DEF Snapshots!Rot
<1>8. CASE UNCHANGED Snapshots!vars
  BY <1>8 DEF Snapshots!vars
<1>9. QED
  BY <1>1, <1>2, <1>3, <1>4, <1>5, <1>6, <1>7, <1>8 DEF Snapshots!Next

(* The device is what it was but for the blocks written back. *)
LEMMA SnapshotDeviceStep ==
    ASSUME SnapshotInv, SnapshotTypes', [Snapshots!Next]_Snapshots!vars
    PROVE  DeviceInv'
<1> USE DEF SnapshotInv, DeviceInv
<1>0. /\ device \in BlockRow /\ raw \in BlockRow /\ before \in BlockRow /\ back \in Nat
      /\ Len(device) \in Nat /\ Len(raw) \in Nat
  BY LenProperties DEF SnapshotTypes, BlockRow
<1>1. CASE Snapshots!ReadTarget \/ Snapshots!WriteMagic \/ Snapshots!WriteHeader
        \/ Snapshots!WriteRaw
  BY <1>1 DEF Snapshots!ReadTarget, Snapshots!WriteMagic, Snapshots!WriteHeader,
     Snapshots!WriteRaw
<1>2. CASE Snapshots!RestoreRefuses
  BY <1>2 DEF Snapshots!RestoreRefuses
<1>3. CASE Snapshots!RestoreBegins
  <2>1. raw' \in BlockRow
    BY DEF SnapshotTypes
  <2>2. /\ device' = device /\ before' = device /\ back' = 0
        /\ step' = "write back" /\ answer' = "none"
    BY <1>3 DEF Snapshots!RestoreBegins
  <2>3. Patched(device, raw', 0, device)
    BY <1>0, <2>1, NothingPatched
  <2>4. QED
    BY <2>2, <2>3
<1>4. CASE Snapshots!WriteBack
  <2>1. /\ answer = "none" /\ Patched(device, raw, back, before)
        /\ answer' = answer /\ step' = step /\ step = "write back"
        /\ raw' = raw /\ before' = before
    BY <1>4 DEF Snapshots!WriteBack
  <2>2. /\ back + 1 \in 1..Len(raw) /\ back + 1 \in 1..Len(device)
        /\ back' = back + 1 /\ Len(device') = Len(device)
        /\ \A i \in 1..Len(device) :
              device'[i] = IF i = back + 1 THEN raw[back + 1] ELSE device[i]
    BY <1>4, OneBlock
  <2>3. Patched(device', raw, back + 1, before)
    BY <1>0, <2>1, <2>2, OneMorePatched
  <2>4. QED
    BY <2>1, <2>2, <2>3
<1>5. CASE Snapshots!RestoreEnds
  <2>1. Patched(device, raw, Len(raw), before) /\ raw \in taken
    BY <1>5 DEF Snapshots!RestoreEnds, MemoryInv
  <2>2. QED
    BY <1>5, <2>1 DEF Snapshots!RestoreEnds
<1>6. CASE Snapshots!OperationFails \/ Snapshots!Overwrite \/ Snapshots!Rot
  BY <1>6 DEF Snapshots!OperationFails, Snapshots!Overwrite, Snapshots!Rot
<1>7. CASE UNCHANGED Snapshots!vars
  BY <1>7 DEF Snapshots!vars
<1>8. QED
  BY <1>1, <1>2, <1>3, <1>4, <1>5, <1>6, <1>7 DEF Snapshots!Next

(* A restore that the command line starts gives a device the blocks back    *)
(* that were captured once and leaves the rest, or refuses and leaves it    *)
(* alone (restore_target), for any devices, through crashes at any step and *)
(* any damage to the recovery file that the digest can tell.                *)
THEOREM RestoresAreSafe == Spec => []RestoreIsSafe
<1>1. Init => SnapshotInv
  <2>1. Snapshots!Devices \subseteq BlockRow
    BY ImageToolsAssumption, DeviceIsRow
  <2>2. <<>> \in BlockRow
    BY EmptySeq DEF BlockRow
  <2>3. Init => \E d \in BlockRow : Snapshots!Start(d)
    BY <2>1, <2>2 DEF Init, NoSnapshot, Snapshots!Init
  <2>4. QED
    BY <2>3, SnapshotStarts
<1>2. SnapshotInv /\ [Next]_vars => SnapshotInv'
  <2>1. [Next]_vars => [Snapshots!Next]_Snapshots!vars
    BY OperationSteps DEF snapshotVars, Snapshots!vars
  <2>2. QED
    BY <2>1, ImageToolsAssumption, SnapshotTypeStep, SnapshotHeaderStep, SnapshotMemoryStep,
       SnapshotDeviceStep DEF SnapshotInv
<1>3. SnapshotInv => RestoreIsSafe
  BY SnapshotInvIsSafe DEF RestoreIsSafe
<1>4. QED
  BY <1>1, <1>2, <1>3, PTL DEF Spec

-----------------------------------------------------------------------------
(* The burns of the app are those of AppQuit, and stutter otherwise.        *)
LEMMA BurnSpec == Spec => BurnsProved!Spec
<1>1. Init => BurnsProved!Init
  BY DEF Init, InApp!Init, BurnsProved!Init, InApp!Runs, BurnsProved!Runs, InApp!None,
     BurnsProved!None
<1>2. [Next]_vars => [BurnsProved!Next]_BurnsProved!vars
  <2>1. UNCHANGED burnVars => UNCHANGED BurnsProved!vars
    BY DEF burnVars, BurnsProved!vars, BurnsProved!rowVars, BurnsProved!regVars,
       BurnsProved!dlVars, BurnsProved!quitVars
  <2>2. QED
    BY <2>1, OperationSteps, SameBurns
<1>3. QED
  BY <1>1, <1>2, PTL DEF Spec, BurnsProved!Spec

(* The four properties of burns by threads of the app, for any number of    *)
(* jobs, burns and exits.                                                   *)
LEMMA BurnsAreInHand ==
    Spec => [](InFlightIsTracked /\ QuietExit /\ CancelReachesBurn /\ RunningIsAttended)
<1>1. MaxRuns \in Nat
  BY ImageToolsAssumption DEF InApp!AppQuitAssumption
<1>4. /\ BurnsProved!InFlightIsTracked => InFlightIsTracked
      /\ BurnsProved!QuietExit => QuietExit
      /\ BurnsProved!CancelReachesBurn => CancelReachesBurn
      /\ BurnsProved!RunningIsAttended => RunningIsAttended
  BY DEF InFlightIsTracked, InApp!InFlightIsTracked, BurnsProved!InFlightIsTracked,
     QuietExit, InApp!QuietExit, BurnsProved!QuietExit,
     CancelReachesBurn, InApp!CancelReachesBurn, BurnsProved!CancelReachesBurn,
     RunningIsAttended, InApp!RunningIsAttended, BurnsProved!RunningIsAttended,
     InApp!InHand, BurnsProved!InHand, InApp!Runs, BurnsProved!Runs, InApp!Up, BurnsProved!Up,
     InApp!BeforeRecord, BurnsProved!BeforeRecord
<1>5. QED
  BY <1>1, <1>4, BurnSpec, BurnsProved!BurnsAreInHand, PTL

(* Every burn and download whose row is not settled is in ActiveBurns.      *)
THEOREM InFlightTracked == Spec => []InFlightIsTracked
BY BurnsAreInHand, PTL

(* No exit without a dialog, and none that reported the burns cleared,      *)
(* leaves a job running in the database.                                    *)
THEOREM ExitIsQuiet == Spec => []QuietExit
BY BurnsAreInHand, PTL

(* A click on Cancel raises the flag of the thread that is at work, the     *)
(* second burn of a retried job included.                                   *)
THEOREM CancelReaches == Spec => []CancelReachesBurn
BY BurnsAreInHand, PTL

(* While the app runs, a running row has a thread that will settle it.      *)
THEOREM RunningAttended == Spec => []RunningIsAttended
BY BurnsAreInHand, PTL

(* The promise of BurnJob is the same one in both instances of AppQuit.     *)
LEMMA SameJobs ==
    /\ \A j \in Jobs : InApp!Job(j)!Init <=> BurnsProved!Job(j)!Init
    /\ \A j \in Jobs : [InApp!Job(j)!Next]_(InApp!Job(j)!vars)
                        <=> [BurnsProved!Job(j)!Next]_(BurnsProved!Job(j)!vars)
    /\ InApp!vars = BurnsProved!vars /\ InApp!vars' = BurnsProved!vars'
<1>1. ASSUME NEW j \in Jobs
      PROVE  /\ InApp!Up = BurnsProved!Up
             /\ InApp!InHand(j) = BurnsProved!InHand(j)
             /\ InApp!Matched(j) = BurnsProved!Matched(j)
             /\ InApp!Up' = BurnsProved!Up'
             /\ InApp!InHand(j)' = BurnsProved!InHand(j)'
             /\ InApp!Matched(j)' = BurnsProved!Matched(j)'
  BY DEF InApp!Up, BurnsProved!Up, InApp!InHand, BurnsProved!InHand, InApp!Matched,
         BurnsProved!Matched, InApp!Runs, BurnsProved!Runs, InApp!BeforeRecord,
         BurnsProved!BeforeRecord
<1>2. \A j \in Jobs : InApp!Job(j)!Init <=> BurnsProved!Job(j)!Init
  BY <1>1 DEF InApp!Job!Init, BurnsProved!Job!Init
<1>3. \A j \in Jobs : InApp!Job(j)!vars = BurnsProved!Job(j)!vars
                      /\ InApp!Job(j)!vars' = BurnsProved!Job(j)!vars'
  BY <1>1 DEF InApp!Job!vars, BurnsProved!Job!vars
<1>4. ASSUME NEW j \in Jobs PROVE InApp!Job(j)!Next <=> BurnsProved!Job(j)!Next
  <2>0. /\ InApp!Up = BurnsProved!Up /\ InApp!Up' = BurnsProved!Up'
        /\ InApp!InHand(j) = BurnsProved!InHand(j) /\ InApp!InHand(j)' = BurnsProved!InHand(j)'
        /\ InApp!Matched(j) = BurnsProved!Matched(j)
        /\ InApp!Matched(j)' = BurnsProved!Matched(j)'
    BY <1>1
  <2>1. InApp!Job(j)!Take <=> BurnsProved!Job(j)!Take
    BY <2>0 DEF InApp!Job!Take, BurnsProved!Job!Take
  <2>2. InApp!Job(j)!Start <=> BurnsProved!Job(j)!Start
    BY <2>0 DEF InApp!Job!Start, BurnsProved!Job!Start
  <2>3. InApp!Job(j)!Match <=> BurnsProved!Job(j)!Match
    BY <2>0 DEF InApp!Job!Match, BurnsProved!Job!Match
  <2>4. InApp!Job(j)!Succeed <=> BurnsProved!Job(j)!Succeed
    BY <2>0 DEF InApp!Job!Succeed, BurnsProved!Job!Succeed
  <2>5. InApp!Job(j)!Fail <=> BurnsProved!Job(j)!Fail
    BY <2>0 DEF InApp!Job!Fail, BurnsProved!Job!Fail, InApp!Job!Open, BurnsProved!Job!Open
  <2>6. InApp!Job(j)!Retry <=> BurnsProved!Job(j)!Retry
    BY <2>0 DEF InApp!Job!Retry, BurnsProved!Job!Retry
  <2>7. InApp!Job(j)!LetGo <=> BurnsProved!Job(j)!LetGo
    BY <2>0 DEF InApp!Job!LetGo, BurnsProved!Job!LetGo
  <2>8. InApp!Job(j)!GiveUp <=> BurnsProved!Job(j)!GiveUp
    BY <2>0 DEF InApp!Job!GiveUp, BurnsProved!Job!GiveUp
  <2>9. InApp!Job(j)!Forget <=> BurnsProved!Job(j)!Forget
    BY <2>0 DEF InApp!Job!Forget, BurnsProved!Job!Forget
  <2>10. InApp!Job(j)!Die <=> BurnsProved!Job(j)!Die
    BY <2>0 DEF InApp!Job!Die, BurnsProved!Job!Die
  <2>11. InApp!Job(j)!Return <=> BurnsProved!Job(j)!Return
    BY <2>0 DEF InApp!Job!Return, BurnsProved!Job!Return
  <2>12. QED
    BY <2>1, <2>2, <2>3, <2>4, <2>5, <2>6, <2>7, <2>8, <2>9, <2>10, <2>11 DEF InApp!Job!Next,
       BurnsProved!Job!Next
<1>5. InApp!vars = BurnsProved!vars /\ InApp!vars' = BurnsProved!vars'
  BY DEF InApp!vars, BurnsProved!vars, InApp!rowVars, BurnsProved!rowVars, InApp!regVars,
     BurnsProved!regVars, InApp!dlVars, BurnsProved!dlVars, InApp!quitVars,
     BurnsProved!quitVars
<1>6. QED
  BY <1>2, <1>3, <1>4, <1>5

(* Whatever else the app does: each job that it burns keeps what the queue   *)
(* is promised of a job.                                                    *)
THEOREM JobsKept == Spec => KeepsJobs
<1>1. MaxRuns \in Nat
  BY ImageToolsAssumption DEF InApp!AppQuitAssumption
<1>2. Spec => BurnsProved!Spec
  BY BurnSpec
<1>3. BurnsProved!Spec => BurnsProved!KeepsJobs
  BY <1>1, BurnsProved!JobsKept
<1>4. /\ (\A j \in Jobs : BurnsProved!Job(j)!Init) => \A j \in Jobs : InApp!Job(j)!Init
      /\ [\A j \in Jobs : [BurnsProved!Job(j)!Next]_(BurnsProved!Job(j)!vars)]_BurnsProved!vars
         => [\A j \in Jobs : [InApp!Job(j)!Next]_(InApp!Job(j)!vars)]_InApp!vars
  BY SameJobs
<1>5. QED
  BY <1>2, <1>3, <1>4, PTL DEF KeepsJobs, InApp!KeepsJobs, BurnsProved!KeepsJobs

-----------------------------------------------------------------------------
(* A backup that ends well left a copy of the source and its digest, for    *)
(* sources of any size and with any extents, and for either writer.         *)
THEOREM CopiesAreFaithful == Spec => []CopyIsFaithful
<1>1. CopiesProved!BackupAssumption
  BY ImageToolsAssumption DEF BackedUp!BackupAssumption, CopiesProved!BackupAssumption
<1>2. Init => CopiesProved!IInv
  <2> SUFFICES ASSUME Init PROVE CopiesProved!IInv
    OBVIOUS
  <2>1. CASE tool = "backup"
    <3>1. CopiesProved!Init
      BY <2>1, SameBackups DEF Init
    <3>2. QED
      BY <1>1, <3>1, CopiesProved!InitIs
  <2>2. CASE tool # "backup"
    <3> DEFINE o == [qcow2 |-> FALSE, sparse |-> FALSE, compressed |-> FALSE]
    <3>1. CopiesProved!Start(<<>>, <<>>, 0, o)
      BY <2>2, SameBackups DEF Init
    <3>2. <<>> \in [1..0 -> Sectors] /\ ~o.qcow2 /\ 0 \in Nat
      OBVIOUS
    <3>3. QED
      BY <3>1, <3>2, CopiesProved!StartIs
  <2>3. QED
    BY <2>1, <2>2
<1>3. [Next]_vars => [CopiesProved!Next]_CopiesProved!vars
  <2>1. UNCHANGED backupVars => UNCHANGED CopiesProved!vars
    BY DEF backupVars, CopiesProved!vars, CopiesProved!sourceVars
  <2>2. QED
    BY <2>1, OperationSteps, SameBackups
<1>4. CopiesProved!CopyIsFaithful => CopyIsFaithful
  BY SameBackups
<1>5. QED
  BY <1>1, <1>2, <1>3, <1>4, CopiesProved!FaithfulFrom, PTL DEF Spec

-----------------------------------------------------------------------------
(* Verification.  The recursive function of ScanMismatches is shown to      *)
(* exist before anything is said of it: were there none, the least distance *)
(* from the end for which it is not known would have a smaller one.         *)

(* A set of numbers with a member has a least one. *)
LEMMA LeastNumber ==
    ASSUME NEW S \in SUBSET Nat, S # {}
    PROVE  \E n \in S : \A m \in Nat : m < n => m \notin S
<1>1. PICK n \in S : \A m \in S : ~(<<m, n>> \in OpToRel(<, Nat))
  BY WFMin, NatLessThanWellFounded
<1>2. \A m \in S : ~(m < n)
  BY <1>1 DEF OpToRel
<1>3. QED
  BY <1>2

(* A mismatch as the list holds it. *)
Entry == [at : Nat, size : Nat \ {0}]

(* The entries s are about the bytes R of which those in W are wrong: each  *)
(* starts at a wrong byte and no byte is in two of them.                    *)
Sound(s, R, W) ==
    /\ s \in Seq(Entry)
    /\ \A k \in 1..Len(s) : s[k].at \in W /\ Verified!Spans(s[k]) \subseteq R
    /\ \A j, k \in 1..Len(s) : j # k => Verified!Spans(s[j]) \cap Verified!Spans(s[k]) = {}

(* And no byte of R that is wrong is left out. *)
Covers(s, R, W) == \A i \in R \cap W : \E k \in 1..Len(s) : i \in Verified!Spans(s[k])

(* Bytes of which none is wrong need no entry. *)
LEMMA NothingWrong ==
    ASSUME NEW R, NEW W, R \cap W = {}
    PROVE  Sound(<<>>, R, W) /\ Covers(<<>>, R, W)
<1>1. <<>> \in Seq(Entry) /\ Len(<<>>) = 0
  BY EmptySeq
<1>2. QED
  BY <1>1 DEF Sound, Covers

(* One entry is the evidence of the bytes it spans. *)
LEMMA OneEntry ==
    ASSUME NEW e \in Entry, NEW W, e.at \in W
    PROVE  Sound(<<e>>, Verified!Spans(e), W) /\ Covers(<<e>>, Verified!Spans(e), W)
<1>1. <<e>> \in Seq(Entry) /\ Len(<<e>>) = 1 /\ <<e>>[1] = e
  OBVIOUS
<1>2. 1..Len(<<e>>) = {1}
  BY <1>1
<1> DEFINE s == <<e>>
<1> HIDE DEF s
<1>3. QED
  BY <1>1, <1>2 DEF Sound, Covers, s

(* Bytes that are right can be added. *)
LEMMA WiderEvidence ==
    ASSUME NEW s, NEW R, NEW Q, NEW W, R \subseteq Q, (Q \ R) \cap W = {},
           Sound(s, R, W), Covers(s, R, W)
    PROVE  Sound(s, Q, W) /\ Covers(s, Q, W)
BY DEF Sound, Covers

(* Entries about other bytes can be put behind. *)
LEMMA MoreEvidence ==
    ASSUME NEW s, NEW t, NEW R, NEW Q, NEW W, R \cap Q = {},
           Sound(s, R, W), Sound(t, Q, W)
    PROVE  /\ Sound(s \o t, R \cup Q, W)
           /\ Covers(s, R, W) /\ Covers(t, Q, W) => Covers(s \o t, R \cup Q, W)
           /\ Len(s) <= Len(s \o t)
<1> DEFINE u == s \o t
           m == Len(s)
           n == Len(t)
<1>1. /\ u \in Seq(Entry) /\ Len(u) = m + n /\ m \in Nat /\ n \in Nat
      /\ \A i \in 1..(m + n) : u[i] = IF i <= m THEN s[i] ELSE t[i - m]
  BY ConcatProperties, LenProperties DEF Sound
<1>2. \A i \in 1..m : i \in 1..(m + n) /\ u[i] = s[i]
  BY <1>1
<1>3. \A i \in 1..n : m + i \in 1..(m + n) /\ u[m + i] = t[i]
  <2> SUFFICES ASSUME NEW i \in 1..n PROVE m + i \in 1..(m + n) /\ u[m + i] = t[i]
    OBVIOUS
  <2>1. m + i \in 1..(m + n) /\ ~(m + i <= m) /\ (m + i) - m = i
    BY <1>1
  <2> HIDE DEF m, n, u
  <2>2. QED
    BY <1>1, <2>1
<1>4. \A k \in 1..(m + n) : k \in 1..m \/ \E i \in 1..n : k = m + i
  <2> SUFFICES ASSUME NEW k \in 1..(m + n), k \notin 1..m PROVE \E i \in 1..n : k = m + i
    OBVIOUS
  <2>1. k - m \in 1..n /\ k = m + (k - m)
    BY <1>1
  <2>2. QED
    BY <2>1
<1>5. \A k \in 1..m : s[k].at \in W /\ Verified!Spans(s[k]) \subseteq R
  BY DEF Sound
<1>6. \A k \in 1..n : t[k].at \in W /\ Verified!Spans(t[k]) \subseteq Q
  BY DEF Sound
<1>7. /\ \A j, k \in 1..m : j # k => Verified!Spans(s[j]) \cap Verified!Spans(s[k]) = {}
      /\ \A j, k \in 1..n : j # k => Verified!Spans(t[j]) \cap Verified!Spans(t[k]) = {}
  BY DEF Sound
<1> HIDE DEF m, n, u
<1>8. \A k \in 1..Len(u) : u[k].at \in W /\ Verified!Spans(u[k]) \subseteq R \cup Q
  BY <1>1, <1>2, <1>3, <1>4, <1>5, <1>6
<1>9. ASSUME NEW j \in 1..Len(u), NEW k \in 1..Len(u), j # k
      PROVE  Verified!Spans(u[j]) \cap Verified!Spans(u[k]) = {}
  <2>1. CASE j \in 1..m /\ k \in 1..m
    BY <1>2, <1>7, <1>9, <2>1
  <2>2. ASSUME NEW i \in 1..n, j = m + i, NEW h \in 1..n, k = m + h
        PROVE  Verified!Spans(u[j]) \cap Verified!Spans(u[k]) = {}
    BY <1>3, <1>7, <1>9, <2>2
  <2>3. ASSUME j \in 1..m, NEW h \in 1..n, k = m + h
        PROVE  Verified!Spans(u[j]) \cap Verified!Spans(u[k]) = {}
    BY <1>2, <1>3, <1>5, <1>6, <2>3
  <2>4. ASSUME k \in 1..m, NEW h \in 1..n, j = m + h
        PROVE  Verified!Spans(u[j]) \cap Verified!Spans(u[k]) = {}
    BY <1>2, <1>3, <1>5, <1>6, <2>4
  <2>5. QED
    BY <1>1, <1>4, <1>9, <2>1, <2>2, <2>3, <2>4
<1>10. Sound(u, R \cup Q, W)
  BY <1>1, <1>8, <1>9 DEF Sound
<1>11. ASSUME Covers(s, R, W), Covers(t, Q, W), NEW i \in (R \cup Q) \cap W
       PROVE  \E k \in 1..Len(u) : i \in Verified!Spans(u[k])
  <2>1. CASE i \in R
    <3>1. PICK k \in 1..m : i \in Verified!Spans(s[k])
      BY <1>11, <2>1 DEF Covers, m
    <3>2. QED
      BY <1>1, <1>2, <3>1
  <2>2. CASE i \in Q
    <3>1. PICK k \in 1..n : i \in Verified!Spans(t[k])
      BY <1>11, <2>2 DEF Covers, n
    <3>2. QED
      BY <1>1, <1>3, <3>1
  <2>3. QED
    BY <1>11, <2>1, <2>2
<1>12. Len(s) <= Len(u)
  BY <1>1 DEF m
<1>13. QED
  BY <1>10, <1>11, <1>12 DEF Covers, u

(* push_mismatch only loses entries when the list is full. *)
LEMMA CappedEvidence ==
    ASSUME Verified!VerifyAssumption, NEW s, NEW R, NEW W, Sound(s, R, W)
    PROVE  /\ Sound(Verified!Capped(s), R, W) /\ Len(Verified!Capped(s)) <= MaxMismatches
           /\ Len(Verified!Capped(s)) < MaxMismatches => Verified!Capped(s) = s
           /\ Len(Verified!Capped(s)) = 0 => Len(s) = 0
<1> DEFINE n == Verified!Smaller(Len(s), MaxMismatches)
<1>1. /\ s \in Seq(Entry) /\ Len(s) \in Nat /\ MaxMismatches \in Nat \ {0}
  BY LenProperties DEF Sound, Verified!VerifyAssumption
<1>2. n \in 0..Len(s) /\ n <= MaxMismatches /\ (n < MaxMismatches => n = Len(s))
      /\ (n = 0 => Len(s) = 0)
  BY <1>1 DEF Verified!Smaller
<1>3. \A i \in 1..n : s[i] \in Entry /\ i \in 1..Len(s)
  BY <1>1, <1>2, ElementOfSeq
<1>4. Verified!Capped(s) = SubSeq(s, 1, n)
  BY DEF Verified!Capped
<1> HIDE DEF n
<1>5. /\ Verified!Capped(s) \in Seq(Entry) /\ Len(Verified!Capped(s)) = n
      /\ \A i \in 1..n : Verified!Capped(s)[i] = s[i]
  BY <1>1, <1>2, <1>3, <1>4, SubSeqProperties
<1>6. Sound(Verified!Capped(s), R, W)
  BY <1>3, <1>5 DEF Sound
<1>7. n = Len(s) => Verified!Capped(s) = s
  BY <1>1, <1>4, SubSeqFull
<1>8. QED
  BY <1>2, <1>5, <1>6, <1>7

(* What is entered for the bytes a chunk of the device is short of. *)
LEMMA MissingEvidence ==
    ASSUME NEW src \in Seq(Values), NEW dev \in Seq(Values), Len(dev) <= Len(src),
           NEW base \in Nat, NEW W, (base + Len(dev))..(base + Len(src) - 1) \subseteq W
    PROVE  LET R == (base + Len(dev))..(base + Len(src) - 1)
               s == Verified!Missing(src, dev, base)
           IN  Sound(s, R, W) /\ Covers(s, R, W)
<1> DEFINE m == Len(dev)
           n == Len(src) - m
           e(i) == [at |-> base + m + i - 1, size |-> 1]
           s == Verified!Missing(src, dev, base)
           R == (base + m)..(base + Len(src) - 1)
<1>1. m \in Nat /\ Len(src) \in Nat /\ n \in Nat
  BY LenProperties
<1>2. \A i \in 1..n : e(i) \in Entry /\ e(i).at \in R /\ Verified!Spans(e(i)) = {e(i).at}
        /\ e(i).at = base + m + i - 1
  <2> SUFFICES ASSUME NEW i \in 1..n
               PROVE  /\ e(i) \in Entry /\ e(i).at \in R /\ Verified!Spans(e(i)) = {e(i).at}
                      /\ e(i).at = base + m + i - 1
    OBVIOUS
  <2>1. base + m + i - 1 \in Nat /\ base + m + i - 1 \in R
    BY <1>1
  <2>2. e(i).at = base + m + i - 1 /\ e(i).size = 1 /\ e(i) \in Entry
    BY <2>1 DEF Entry
  <2>3. Verified!Spans(e(i)) = (base + m + i - 1)..(base + m + i - 1)
    BY <1>1, <2>2 DEF Verified!Spans
  <2>4. QED
    BY <2>1, <2>2, <2>3
<1>3. s = [i \in 1..n |-> e(i)]
  BY DEF Verified!Missing
<1> HIDE DEF s, e
<1>4. s \in [1..n -> Entry] /\ \A i \in 1..n : s[i] = e(i)
  BY <1>2, <1>3
<1>5. s \in Seq(Entry) /\ Len(s) = n
  <2>1. s \in Seq(Entry)
    BY <1>1, <1>4, SeqDef
  <2>2. Len(s) \in Nat /\ DOMAIN s = 1..Len(s) /\ DOMAIN s = 1..n
    BY <1>4, <2>1, LenProperties
  <2> HIDE DEF n
  <2>3. QED
    BY <1>1, <2>1, <2>2, IntakeProved!SameInterval
<1>6. ASSUME NEW i \in R PROVE \E k \in 1..Len(s) : i \in Verified!Spans(s[k])
  <2>1. i - base - m + 1 \in 1..n /\ i = base + m + (i - base - m + 1) - 1
    BY <1>1
  <2>2. i \in Verified!Spans(e(i - base - m + 1))
    BY <1>2, <2>1
  <2>3. QED
    BY <1>4, <1>5, <2>1, <2>2
<1>7. Sound(s, R, W)
  <2>1. \A k \in 1..n :
            s[k].at = base + m + k - 1 /\ s[k].at \in R /\ Verified!Spans(s[k]) = {s[k].at}
    BY <1>2, <1>4
  <2>2. \A j, k \in 1..n : j # k => s[j].at # s[k].at
    BY <1>1, <2>1
  <2>3. R \subseteq W
    OBVIOUS
  <2> HIDE DEF R, n
  <2>4. ASSUME NEW j \in 1..n, NEW k \in 1..n, j # k
        PROVE  Verified!Spans(s[j]) \cap Verified!Spans(s[k]) = {}
    <3>1. Verified!Spans(s[j]) = {s[j].at} /\ Verified!Spans(s[k]) = {s[k].at}
      BY <2>1
    <3>2. s[j].at # s[k].at
      BY <2>2, <2>4
    <3>3. QED
      BY <3>1, <3>2
  <2>5. \A k \in 1..n : s[k].at \in W /\ Verified!Spans(s[k]) \subseteq R
    BY <2>1, <2>3
  <2>6. QED
    BY <1>5, <2>4, <2>5 DEF Sound
<1>8. QED
  BY <1>6, <1>7 DEF Covers, s

(* The definition of ScanMismatches: what f finds from a byte on, for every *)
(* byte.                                                                    *)
Groups(src, dev, base, len, f) ==
    f = [i \in 0..len |->
            IF i = len THEN <<>>
            ELSE IF src[i + 1] = dev[i + 1] THEN f[i + 1]
            ELSE LET end == Verified!Smaller(i + Group, len)
                 IN  <<[at |-> base + i, size |-> end - i]>> \o f[end]]

(* ScanMismatches is one of those f, of which there is at least one.        *)
LEMMA ScanIs ==
    ASSUME NEW src, NEW dev, NEW base, NEW len, len = Verified!Smaller(Len(src), Len(dev)),
           NEW g, Groups(src, dev, base, len, g)
    PROVE  \E f : Groups(src, dev, base, len, f) /\ Verified!ScanMismatches(src, dev, base) = f[0]
<1> DEFINE f == CHOOSE h : Groups(src, dev, base, len, h)
<1>1. Groups(src, dev, base, len, f)
  OBVIOUS
<1>2. Verified!ScanMismatches(src, dev, base) = (CHOOSE h : Groups(src, dev, base, len, h))[0]
  BY DEF Verified!ScanMismatches, Groups
<1>3. QED
  BY <1>1, <1>2

(* There is such an f: what is found from one byte on is known once that is *)
(* known for the bytes behind it.                                           *)
LEMMA GroupsExist ==
    ASSUME Verified!VerifyAssumption, NEW src, NEW dev, NEW base, NEW len \in Nat
    PROVE  \E f : Groups(src, dev, base, len, f)
<1> DEFINE Step(i, f) ==
               IF i = len THEN <<>>
               ELSE IF src[i + 1] = dev[i + 1] THEN f[i + 1]
               ELSE <<[at |-> base + i, size |-> Verified!Smaller(i + Group, len) - i]>>
                        \o f[Verified!Smaller(i + Group, len)]
           From(n) == \E f : f = [i \in (len - n)..len |-> Step(i, f)]
           Bad == {n \in 0..len : ~From(n)}
<1>1. ASSUME NEW i \in 0..(len - 1)
      PROVE  i + 1 \in (i + 1)..len /\ Verified!Smaller(i + Group, len) \in (i + 1)..len
  BY DEF Verified!Smaller, Verified!VerifyAssumption
<1>2. From(0)
  <2> DEFINE f == [i \in (len - 0)..len |-> <<>>]
  <2>1. \A i \in (len - 0)..len : Step(i, f) = <<>>
    OBVIOUS
  <2>2. f = [i \in (len - 0)..len |-> Step(i, f)]
    BY <2>1
  <2> HIDE DEF f, Step
  <2>3. QED
    BY <2>2
<1>3. ASSUME NEW n \in 0..(len - 1), From(n) PROVE From(n + 1)
  <2> DEFINE j == len - (n + 1)
  <2>1. PICK f : f = [i \in (len - n)..len |-> Step(i, f)]
    BY <1>3
  <2> DEFINE g == [i \in j..len |-> IF i = j THEN Step(j, f) ELSE f[i]]
  <2>2. j \in 0..(len - 1) /\ j + 1 = len - n
    OBVIOUS
  <2>3. \A i \in (j + 1)..len : g[i] = f[i] /\ f[i] = Step(i, f)
    <3>1. \A i \in (j + 1)..len : i \in j..len /\ i # j
      BY <2>2
    <3> HIDE DEF Step, j
    <3>2. QED
      BY <2>1, <2>2, <3>1
  <2>4. ASSUME NEW i \in j..len PROVE g[i] = Step(i, g)
    <3>1. i = len \/ (i \in 0..(len - 1) /\ (i + 1)..len \subseteq (j + 1)..len)
      BY <2>2
    <3>2. i = len \/ \A k \in (i + 1)..len : g[k] = f[k]
      BY <2>3, <3>1
    <3>3. Step(i, g) = Step(i, f)
      <4>1. CASE i = len
        BY <4>1
      <4>2. CASE i # len
        <5>1. /\ g[i + 1] = f[i + 1]
              /\ g[Verified!Smaller(i + Group, len)] = f[Verified!Smaller(i + Group, len)]
          BY <1>1, <3>1, <3>2, <4>2
        <5> HIDE DEF g
        <5>2. QED
          BY <5>1
      <4>3. QED
        BY <4>1, <4>2
    <3>4. g[i] = Step(i, f)
      <4>1. CASE i = j
        BY <4>1
      <4>2. CASE i # j
        <5>1. i \in (j + 1)..len
          BY <2>2, <4>2
        <5> HIDE DEF g, Step, j
        <5>2. QED
          BY <2>3, <5>1
      <4>3. QED
        BY <4>1, <4>2
    <3> HIDE DEF g, Step
    <3>5. QED
      BY <3>3, <3>4
  <2>5. g = [i \in j..len |-> Step(i, g)]
    <3>1. g = [i \in j..len |-> g[i]]
      OBVIOUS
    <3> HIDE DEF g, Step, j
    <3>2. QED
      BY <2>4, <3>1
  <2> HIDE DEF g, Step
  <2>6. QED
    BY <2>5
<1> HIDE DEF Step, From
<1>4. Bad = {}
  <2> SUFFICES ASSUME Bad # {} PROVE FALSE
    OBVIOUS
  <2>1. PICK n \in Bad : \A m \in Nat : m < n => m \notin Bad
    <3>1. Bad \in SUBSET Nat
      OBVIOUS
    <3> HIDE DEF Bad
    <3>2. QED
      BY <3>1, LeastNumber
  <2>2. n # 0
    BY <1>2, <2>1
  <2>3. /\ n - 1 \in 0..(len - 1) /\ n - 1 \in 0..len /\ n - 1 \in Nat
        /\ n - 1 < n /\ (n - 1) + 1 = n
    BY <2>1, <2>2
  <2>4. From(n - 1)
    BY <2>1, <2>3
  <2>5. QED
    BY <1>3, <2>1, <2>3, <2>4
<1>5. From(len)
  BY <1>4
<1>6. QED
  <2>1. len - len = 0
    OBVIOUS
  <2>2. PICK f : f = [i \in 0..len |-> Step(i, f)]
    BY <1>5, <2>1 DEF From
  <2>3. Groups(src, dev, base, len, f)
    BY <2>2 DEF Groups, Step
  <2>4. QED
    BY <2>3

(* scan_mismatches finds every byte of the chunk that differs, and enters   *)
(* none that does not: by the distance from the end of the chunk.           *)
LEMMA ScanEvidence ==
    ASSUME Verified!VerifyAssumption, NEW src \in Seq(Values), NEW dev \in Seq(Values),
           Len(dev) <= Len(src), NEW base \in Nat, NEW W,
           \A i \in 0..(Len(dev) - 1) : base + i \in W <=> src[i + 1] # dev[i + 1]
    PROVE  LET R == base..(base + Len(dev) - 1)
               s == Verified!ScanMismatches(src, dev, base)
           IN  Sound(s, R, W) /\ Covers(s, R, W)
<1> DEFINE len == Len(dev)
           R(i) == (base + i)..(base + len - 1)
<1>1. len \in Nat /\ Len(src) \in Nat /\ len = Verified!Smaller(Len(src), Len(dev))
  BY LenProperties DEF Verified!Smaller
<1>2. PICK f : Groups(src, dev, base, len, f) /\ Verified!ScanMismatches(src, dev, base) = f[0]
  <2> HIDE DEF len
  <2>1. \E g : Groups(src, dev, base, len, g)
    BY <1>1, GroupsExist
  <2>2. QED
    BY <1>1, <2>1, ScanIs
<1> DEFINE Found(i) == Sound(f[i], R(i), W) /\ Covers(f[i], R(i), W)
<1>3. Found(len)
  <2>1. f[len] = <<>>
    BY <1>1, <1>2 DEF Groups
  <2>2. R(len) \cap W = {}
    BY <1>1
  <2> HIDE DEF R, len
  <2>3. QED
    BY <2>1, <2>2, NothingWrong
<1>4. ASSUME NEW i \in 0..(len - 1)
      PROVE  f[i] = IF src[i + 1] = dev[i + 1] THEN f[i + 1]
                    ELSE LET end == Verified!Smaller(i + Group, len)
                         IN  <<[at |-> base + i, size |-> end - i]>> \o f[end]
  <2>1. i \in 0..len /\ i # len
    BY <1>1
  <2> HIDE DEF len
  <2>2. QED
    BY <1>2, <2>1 DEF Groups
<1>5. ASSUME NEW i \in 0..(len - 1), \A k \in (i + 1)..len : Found(k) PROVE Found(i)
  <2>1. CASE src[i + 1] = dev[i + 1]
    <3>1. f[i] = f[i + 1] /\ Found(i + 1)
      <4>1. f[i] = f[i + 1]
        BY <1>4, <2>1
      <4>2. i + 1 \in (i + 1)..len
        BY <1>1
      <4> HIDE DEF Found
      <4>3. QED
        BY <1>5, <4>1, <4>2
    <3>2. R(i + 1) \subseteq R(i) /\ R(i) \ R(i + 1) \subseteq {base + i} /\ base + i \notin W
      BY <1>1, <2>1
    <3>3. (R(i) \ R(i + 1)) \cap W = {}
      BY <3>2
    <3> HIDE DEF R
    <3>4. QED
      BY <3>1, <3>2, <3>3, WiderEvidence
  <2>2. CASE src[i + 1] # dev[i + 1]
    <3> DEFINE end == Verified!Smaller(i + Group, len)
               e == [at |-> base + i, size |-> end - i]
    <3>1. end \in (i + 1)..len
      BY <1>1 DEF Verified!Smaller, Verified!VerifyAssumption
    <3>2. f[i] = <<e>> \o f[end]
      BY <1>4, <2>2
    <3> HIDE DEF end
    <3>3. e \in Entry /\ e.at = base + i /\ e.size = end - i /\ e.at \in W
      <4>1. base + i \in Nat /\ end - i \in Nat \ {0}
        BY <1>1, <3>1
      <4>2. base + i \in W
        BY <2>2
      <4>3. QED
        BY <4>1, <4>2 DEF Entry
    <3>4. Verified!Spans(e) = (base + i)..(base + end - 1)
      <4>1. base + i + (end - i) - 1 = base + end - 1
        BY <3>1
      <4>2. QED
        BY <3>3, <4>1 DEF Verified!Spans
    <3>5. Verified!Spans(e) \cap R(end) = {} /\ Verified!Spans(e) \cup R(end) = R(i)
      BY <1>1, <3>1, <3>4
    <3>6. Found(end)
      BY <1>5, <3>1
    <3> HIDE DEF e, R
    <3>7. Sound(<<e>>, Verified!Spans(e), W) /\ Covers(<<e>>, Verified!Spans(e), W)
      BY <3>3, OneEntry
    <3>8. Sound(f[i], R(i), W) /\ Covers(f[i], R(i), W)
      <4> DEFINE P == Verified!Spans(e)
                 Q == R(end)
                 a == <<e>>
                 b == f[end]
      <4>1. /\ P \cap Q = {} /\ P \cup Q = R(i) /\ f[i] = a \o b
            /\ Sound(a, P, W) /\ Covers(a, P, W) /\ Sound(b, Q, W) /\ Covers(b, Q, W)
        BY <3>2, <3>5, <3>6, <3>7
      <4> HIDE DEF P, Q, a, b
      <4>2. Sound(a \o b, P \cup Q, W) /\ Covers(a \o b, P \cup Q, W)
        BY <4>1, MoreEvidence
      <4>3. QED
        BY <4>1, <4>2
    <3>9. QED
      BY <3>8
  <2>3. QED
    BY <2>1, <2>2
<1> DEFINE Bad == {n \in 0..len : ~Found(len - n)}
<1>6. Bad = {}
  <2> HIDE DEF Found, len
  <2> SUFFICES ASSUME Bad # {} PROVE FALSE
    OBVIOUS
  <2>1. PICK n \in Bad : \A m \in Nat : m < n => m \notin Bad
    <3>1. Bad \in SUBSET Nat
      BY <1>1
    <3> HIDE DEF Bad
    <3>2. QED
      BY <3>1, LeastNumber
  <2>2. n # 0
    BY <1>1, <1>3, <2>1
  <2>3. len - n \in 0..(len - 1)
    BY <1>1, <2>1, <2>2
  <2>4. ASSUME NEW k \in (len - n + 1)..len PROVE Found(k)
    <3>1. len - k \in 0..len /\ len - k < n /\ len - (len - k) = k
      BY <1>1, <2>1, <2>3
    <3>2. QED
      BY <2>1, <3>1
  <2>5. QED
    BY <1>5, <2>1, <2>3, <2>4
<1>7. Found(0)
  <2> HIDE DEF Found, len
  <2>1. len \in 0..len /\ len - len = 0
    BY <1>1
  <2>2. QED
    BY <1>6, <2>1
<1>8. base + 0 = base
  OBVIOUS
<1>9. QED
  BY <1>2, <1>7, <1>8

-----------------------------------------------------------------------------
(* The bytes of the image the slow pass cannot find on the device. *)
Wrong == {i \in 0..(Len(written) - 1) : Verified!Differs(i)}

(* What the list says of the bytes compared so far. *)
Listed ==
    /\ Sound(list, 0..(checked - 1), Wrong) /\ Len(list) <= MaxMismatches
    /\ Len(list) < MaxMismatches => Covers(list, 0..(checked - 1), Wrong)

(* The types, and that a device never gives back more than was written.     *)
ReadTypes ==
    /\ written \in Seq(Values) /\ checked \in 0..Len(written)
    /\ \A p \in Verified!Passes :
          readback[p] \in Seq(Values) /\ Len(readback[p]) <= Len(written)

(* What each pass has found so far, and what that makes of the verdict.     *)
VerifyInv ==
    /\ ReadTypes
    /\ pass = "fast" =>
         /\ checked <= Len(readback["fast"])
         /\ hashed = SubSeq(readback["fast"], 1, checked)
         /\ list = <<>> /\ verdict = "none"
    /\ pass = "slow" =>
         /\ ~Verified!Whole("fast") /\ Listed /\ verdict = "none"
         /\ hashed = SubSeq(readback["slow"], 1,
                            Verified!Smaller(checked, Len(readback["slow"])))
    /\ verdict = "match" => \E p \in Verified!Passes : Verified!Whole(p)
    /\ verdict = "mismatch" =>
         /\ \A p \in Verified!Passes : ~Verified!Whole(p)
         /\ list # <<>> /\ Listed /\ checked = Len(written)

(* The verdict of the invariant is earned. *)
LEMMA EvidenceIsGiven == VerifyInv => Verified!VerdictIsEarned
<1> SUFFICES ASSUME VerifyInv, verdict = "mismatch"
             PROVE  /\ \A k \in DOMAIN list : Verified!Differs(list[k].at)
                    /\ \A j, k \in DOMAIN list :
                          j # k => Verified!Spans(list[j]) \cap Verified!Spans(list[k]) = {}
                    /\ Len(list) <= MaxMismatches
                    /\ Len(list) < MaxMismatches =>
                         \A i \in 0..(Len(written) - 1) :
                             Verified!Differs(i) =>
                                 \E k \in DOMAIN list : i \in Verified!Spans(list[k])
  BY DEF VerifyInv, Verified!VerdictIsEarned
<1>1. Listed /\ checked = Len(written)
  BY DEF VerifyInv
<1>2. list \in Seq(Entry) /\ DOMAIN list = 1..Len(list)
  BY <1>1, LenProperties DEF Listed, Sound
<1>3. \A k \in DOMAIN list : Verified!Differs(list[k].at)
  BY <1>1, <1>2 DEF Listed, Sound, Wrong
<1>4. \A j, k \in DOMAIN list :
          j # k => Verified!Spans(list[j]) \cap Verified!Spans(list[k]) = {}
  BY <1>1, <1>2 DEF Listed, Sound
<1>5. ASSUME Len(list) < MaxMismatches, NEW i \in 0..(Len(written) - 1), Verified!Differs(i)
      PROVE  \E k \in DOMAIN list : i \in Verified!Spans(list[k])
  BY <1>1, <1>2, <1>5 DEF Listed, Covers, Wrong
<1>6. QED
  BY <1>1, <1>3, <1>4, <1>5 DEF Listed

(* A verification starts with nothing found. *)
LEMMA VerifyStarts ==
    ASSUME NEW w \in Seq(Values), NEW r,
           \A p \in Verified!Passes : r[p] \in Seq(Values) /\ Len(r[p]) <= Len(w),
           Verified!Start(w, r)
    PROVE  VerifyInv
<1>1. Len(w) \in Nat /\ Len(r["fast"]) \in Nat
  BY LenProperties DEF Verified!Passes
<1>2. SubSeq(r["fast"], 1, 0) = <<>>
  BY SubSeqEmpty
<1>3. QED
  BY <1>1, <1>2 DEF Verified!Start, VerifyInv, ReadTypes

(* The types, and what is read from the beginning of a row to its end. *)
LEMMA ReadIs ==
    ASSUME VerifyInv
    PROVE  /\ Len(written) \in Nat /\ checked \in Nat /\ checked <= Len(written)
           /\ \A p \in Verified!Passes :
                 /\ readback[p] \in Seq(Values) /\ Len(readback[p]) \in Nat
                 /\ Len(readback[p]) <= Len(written)
                 /\ SubSeq(readback[p], 1, Len(readback[p])) = readback[p]
BY LenProperties, SubSeqFull DEF VerifyInv, ReadTypes

(* A pass that is cancelled or fails has no verdict. *)
LEMMA InterruptKeeps == ASSUME VerifyInv, Verified!Interrupted PROVE VerifyInv'
BY DEF Verified!Interrupted, Verified!Over, Verified!Fixed, VerifyInv, ReadTypes

(* What the fast pass hashed is the beginning of what the device returned.  *)
LEMMA HashKeeps ==
    ASSUME Verified!VerifyAssumption, VerifyInv, Verified!HashChunk
    PROVE  VerifyInv'
<1> DEFINE r == readback["fast"]
           left == Verified!Smaller(Len(written), Len(r)) - checked
<1>1. /\ pass = "fast" /\ checked \in Nat /\ Len(r) \in Nat /\ Len(written) \in Nat
      /\ r \in Seq(Values) /\ hashed = SubSeq(r, 1, checked) /\ list = <<>> /\ verdict = "none"
  BY ReadIs DEF Verified!HashChunk, Verified!Passes, VerifyInv
<1>2. PICK n \in 1..Verified!Smaller(Chunk, left) :
         /\ hashed' = hashed \o SubSeq(r, checked + 1, checked + n)
         /\ checked' = checked + n
  BY DEF Verified!HashChunk
<1>3. n \in Nat \ {0} /\ checked + n <= Len(r) /\ checked + n <= Len(written)
  BY <1>1, <1>2 DEF Verified!Smaller, Verified!VerifyAssumption
<1>4. hashed' = SubSeq(r, 1, checked + n)
  <2>1. /\ 1 \in 1..(Len(r) + 1) /\ checked \in (1 - 1)..Len(r)
        /\ checked + n \in checked..Len(r)
    BY <1>1, <1>3
  <2>2. SubSeq(r, 1, checked) \o SubSeq(r, checked + 1, checked + n) = SubSeq(r, 1, checked + n)
    BY <1>1, <2>1, ConcatAdjacentSubSeq
  <2>3. QED
    BY <1>1, <1>2, <2>2
<1>5. UNCHANGED <<written, readback, pass, list, verdict>>
  BY DEF Verified!HashChunk, Verified!Fixed
<1>6. ReadTypes'
  BY <1>1, <1>2, <1>3, <1>5 DEF ReadTypes, VerifyInv
<1>7. QED
  BY <1>1, <1>2, <1>3, <1>4, <1>5, <1>6 DEF VerifyInv

(* A digest that fits is that of the whole image; the slow pass starts only *)
(* when it does not.                                                        *)
LEMMA HashEndKeeps ==
    ASSUME Verified!VerifyAssumption, VerifyInv, Verified!HashEnds
    PROVE  VerifyInv'
<1> DEFINE r == readback["fast"]
<1>1. /\ pass = "fast" /\ checked \in Nat /\ Len(r) \in Nat /\ Len(written) \in Nat
      /\ r \in Seq(Values) /\ hashed = SubSeq(r, 1, checked) /\ list = <<>> /\ verdict = "none"
      /\ Len(r) <= Len(written) /\ SubSeq(r, 1, Len(r)) = r /\ readback["slow"] \in Seq(Values)
      /\ Len(readback["slow"]) \in Nat
  BY ReadIs DEF Verified!HashEnds, Verified!Passes, VerifyInv
<1>2. checked = Len(r)
  BY <1>1 DEF Verified!HashEnds, Verified!Smaller
<1>3. hashed = r /\ UNCHANGED <<written, readback, list>>
  BY <1>1, <1>2 DEF Verified!HashEnds, Verified!Fixed
<1>4. CASE hashed = written
  <2>1. verdict' = "match" /\ pass' = "over" /\ UNCHANGED <<checked, hashed>>
    BY <1>4 DEF Verified!HashEnds, Verified!Over
  <2>2. Verified!Whole("fast")'
    BY <1>3, <1>4 DEF Verified!Whole
  <2>3. QED
    BY <1>3, <2>1, <2>2 DEF VerifyInv, ReadTypes, Verified!Passes
<1>5. CASE hashed # written
  <2>1. pass' = "slow" /\ checked' = 0 /\ hashed' = <<>> /\ verdict' = verdict
    BY <1>5 DEF Verified!HashEnds
  <2>2. ~Verified!Whole("fast")'
    BY <1>3, <1>5 DEF Verified!Whole
  <2>3. hashed' = SubSeq(readback["slow"], 1, Verified!Smaller(0, Len(readback["slow"])))
    <3>1. Verified!Smaller(0, Len(readback["slow"])) = 0
      BY <1>1 DEF Verified!Smaller
    <3>2. QED
      BY <2>1, <3>1, SubSeqEmpty
  <2>4. Listed'
    <3>1. list' = <<>> /\ 0..(checked' - 1) = {} /\ Len(<<>>) = 0
      BY <1>1, <1>3, <2>1
    <3> DEFINE R == 0..(checked' - 1)
               W == Wrong'
    <3>2. R \cap W = {} /\ MaxMismatches \in Nat
      BY <3>1 DEF Verified!VerifyAssumption
    <3>3. Sound(<<>>, R, W) /\ Covers(<<>>, R, W)
      <4> HIDE DEF R, W
      <4>1. QED
        BY <3>2, NothingWrong
    <3>4. QED
      BY <3>1, <3>2, <3>3 DEF Listed
  <2>5. QED
    BY <1>1, <1>3, <2>1, <2>2, <2>3, <2>4 DEF VerifyInv, ReadTypes
<1>6. QED
  BY <1>4, <1>5

(* A chunk is compared: its entries are about bytes not compared before. *)
LEMMA CompareKeeps ==
    ASSUME Verified!VerifyAssumption, VerifyInv, Verified!CompareChunk
    PROVE  VerifyInv'
<1> DEFINE n == Len(written)
           rb == readback["slow"]
           L == Len(rb)
           c == checked
           end == Verified!Smaller(c + Chunk, n)
           src == SubSeq(written, c + 1, end)
           dev == SubSeq(rb, c + 1, Verified!Smaller(end, L))
           d == Len(dev)
           M == Verified!Missing(src, dev, c)
           S == Verified!ScanMismatches(src, dev, c)
           W == Wrong
           earlier == 0..(c - 1)
           gone == (c + d)..(end - 1)
           there == c..(c + d - 1)
<1>1. /\ pass = "slow" /\ c < n /\ n \in Nat /\ c \in Nat /\ L \in Nat /\ L <= n
      /\ written \in Seq(Values) /\ rb \in Seq(Values) /\ Chunk \in Nat \ {0}
      /\ hashed = SubSeq(rb, 1, Verified!Smaller(c, L)) /\ Listed
      /\ ~Verified!Whole("fast") /\ verdict = "none"
  BY ReadIs DEF Verified!CompareChunk, Verified!Passes, VerifyInv, ReadTypes,
     Verified!VerifyAssumption
<1>2. /\ list' = Verified!Capped(list \o M \o S) /\ hashed' = hashed \o dev /\ checked' = end
      /\ UNCHANGED <<written, readback, pass, verdict>>
  BY DEF Verified!CompareChunk, Verified!Fixed
<1>3. end \in Nat /\ c < end /\ end <= n
  BY <1>1 DEF Verified!Smaller
<1> HIDE DEF n, rb, L, c, end, src, dev, d
<1>4. /\ src \in Seq(Values) /\ Len(src) = end - c
      /\ \A i \in 1..(end - c) : src[i] = written[c + i]
  <2>1. /\ c + 1 \in Int /\ end \in Int /\ c + 1 <= end /\ end - (c + 1) + 1 = end - c
        /\ \A i \in (c + 1)..end : written[i] \in Values
    <3>1. \A i \in (c + 1)..end : i \in 1..Len(written)
      BY <1>1, <1>3 DEF n
    <3>2. \A i \in (c + 1)..end : written[i] \in Values
      BY <1>1, <3>1, ElementOfSeq
    <3>3. QED
      BY <1>1, <1>3, <3>2
  <2>2. /\ src \in Seq(Values) /\ Len(src) = end - (c + 1) + 1
        /\ \A i \in 1..(end - (c + 1) + 1) : src[i] = written[(c + 1) + i - 1]
    <3>1. src = SubSeq(written, c + 1, end)
      BY DEF src
    <3>2. QED
      BY <2>1, <3>1, SubSeqProperties
  <2>3. \A i \in 1..(end - c) : (c + 1) + i - 1 = c + i
    BY <1>1
  <2>4. QED
    BY <2>1, <2>2, <2>3
<1>5. /\ dev \in Seq(Values) /\ d \in Nat
      /\ d = IF L <= c THEN 0 ELSE Verified!Smaller(end, L) - c
      /\ \A i \in 1..d : dev[i] = rb[c + i]
      /\ hashed \o dev = SubSeq(rb, 1, Verified!Smaller(end, L))
  <2>1. CASE L <= c
    <3>1. Verified!Smaller(end, L) = L /\ Verified!Smaller(c, L) = L /\ L < c + 1
      BY <1>1, <1>3, <2>1 DEF Verified!Smaller
    <3>2. dev = <<>>
      BY <1>1, <1>3, <3>1, SubSeqEmpty DEF dev
    <3>3. dev \in Seq(Values) /\ d = 0
      BY <3>2, EmptySeq DEF d
    <3>4. hashed = rb /\ SubSeq(rb, 1, Verified!Smaller(end, L)) = rb
      BY <1>1, <3>1, SubSeqFull DEF L
    <3>5. rb \o <<>> = rb
      BY <1>1, ConcatEmptySeq
    <3>6. QED
      BY <2>1, <3>2, <3>3, <3>4, <3>5
  <2>2. CASE c < L
    <3> DEFINE e == Verified!Smaller(end, L)
    <3>1. c < e /\ e <= L /\ e \in Nat /\ Verified!Smaller(c, L) = c
      BY <1>1, <1>3, <2>2 DEF Verified!Smaller
    <3> HIDE DEF e
    <3>2. /\ c + 1 \in Int /\ c + 1 <= e /\ e - (c + 1) + 1 = e - c
          /\ 1 \in 1..(Len(rb) + 1) /\ c \in (1 - 1)..Len(rb) /\ e \in c..Len(rb)
          /\ \A i \in (c + 1)..e : rb[i] \in Values
      <4>1. \A i \in (c + 1)..e : i \in 1..Len(rb)
        BY <1>1, <3>1 DEF L
      <4>2. \A i \in (c + 1)..e : rb[i] \in Values
        BY <1>1, <4>1, ElementOfSeq
      <4>3. QED
        BY <1>1, <3>1, <4>2 DEF L
    <3>3. /\ SubSeq(rb, c + 1, e) \in Seq(Values)
          /\ Len(SubSeq(rb, c + 1, e)) = e - (c + 1) + 1
          /\ \A i \in 1..(e - (c + 1) + 1) :
                SubSeq(rb, c + 1, e)[i] = rb[(c + 1) + i - 1]
      <4>1. QED
        BY <3>1, <3>2, SubSeqProperties
    <3>4. \A i \in 1..(e - c) : (c + 1) + i - 1 = c + i
      BY <1>1
    <3>5. SubSeq(rb, 1, c) \o SubSeq(rb, c + 1, e) = SubSeq(rb, 1, e)
      BY <1>1, <3>2, ConcatAdjacentSubSeq
    <3>6. dev = SubSeq(rb, c + 1, e) /\ hashed = SubSeq(rb, 1, c) /\ ~(L <= c)
      BY <1>1, <2>2, <3>1 DEF e, dev
    <3>7. d = e - c /\ e - c \in Nat
      BY <1>1, <3>1, <3>2, <3>3, <3>6 DEF d
    <3>8. QED
      BY <3>2, <3>3, <3>4, <3>5, <3>6, <3>7 DEF e
  <2>3. L <= c \/ c < L
    BY <1>1
  <2>4. QED
    BY <2>1, <2>2, <2>3
<1>6. d <= Len(src)
  BY <1>1, <1>3, <1>4, <1>5 DEF Verified!Smaller
<1>7. (c + d)..(c + Len(src) - 1) = gone /\ gone \subseteq W
  <2>1. c + Len(src) - 1 = end - 1
    BY <1>1, <1>3, <1>4
  <2>2. \A i \in gone : i \in 0..(n - 1) /\ i >= L
    BY <1>1, <1>3, <1>5 DEF Verified!Smaller
  <2>3. QED
    BY <2>1, <2>2 DEF Wrong, Verified!Differs, W, n, L, rb
<1>8. ASSUME NEW i \in 0..(d - 1) PROVE c + i \in W <=> src[i + 1] # dev[i + 1]
  <2>1. /\ i + 1 \in 1..d /\ i + 1 \in 1..(end - c) /\ c + i \in 0..(n - 1) /\ ~(c + i >= L)
        /\ c + (i + 1) = (c + i) + 1
    BY <1>1, <1>3, <1>5 DEF Verified!Smaller
  <2>2. src[i + 1] = written[(c + i) + 1] /\ dev[i + 1] = rb[(c + i) + 1]
    BY <1>4, <1>5, <2>1
  <2>3. QED
    BY <2>1, <2>2 DEF Wrong, Verified!Differs, W, n, L, rb
<1> DEFINE s == list \o M
           t == s \o S
<1> HIDE DEF W, s, t, M, S
<1>9. Sound(M, gone, W) /\ Covers(M, gone, W)
  BY <1>1, <1>4, <1>5, <1>6, <1>7, MissingEvidence DEF d, M
<1>10. Sound(S, there, W) /\ Covers(S, there, W)
  BY <1>1, <1>4, <1>5, <1>6, <1>8, ScanEvidence DEF d, S
<1>11. /\ earlier \cap gone = {} /\ (earlier \cup gone) \cap there = {}
       /\ (earlier \cup gone) \cup there = 0..(end - 1)
  <2>1. c \in Nat /\ d \in Nat /\ end \in Nat /\ c + d <= end
    BY <1>1, <1>3, <1>4, <1>5, <1>6
  <2>2. earlier \cap gone = {} /\ (earlier \cup gone) \cap there = {}
    BY <2>1
  <2>3. (earlier \cup gone) \cup there = 0..(end - 1)
    BY <2>1
  <2>4. QED
    BY <2>2, <2>3
<1>12. Sound(list, earlier, W) /\ (Len(list) < MaxMismatches => Covers(list, earlier, W))
  BY <1>1 DEF Listed, W, c
<1> HIDE DEF earlier, gone, there
<1>13. /\ Sound(s, earlier \cup gone, W) /\ Len(list) <= Len(s)
       /\ Covers(list, earlier, W) => Covers(s, earlier \cup gone, W)
  BY <1>9, <1>11, <1>12, MoreEvidence DEF s
<1>14. /\ Sound(t, 0..(end - 1), W) /\ Len(s) <= Len(t)
       /\ Covers(s, earlier \cup gone, W) => Covers(t, 0..(end - 1), W)
  <2> DEFINE A == earlier \cup gone
  <2>1. Sound(t, A \cup there, W) /\ Len(s) <= Len(t)
        /\ (Covers(s, A, W) => Covers(t, A \cup there, W))
    <3>1. Sound(s, A, W) /\ A \cap there = {}
      BY <1>11, <1>13
    <3> HIDE DEF A
    <3>2. QED
      BY <1>10, <3>1, MoreEvidence DEF t
  <2>2. QED
    BY <1>11, <2>1
<1> DEFINE R == 0..(end - 1)
<1>15. /\ Sound(Verified!Capped(t), R, W) /\ Len(Verified!Capped(t)) <= MaxMismatches
       /\ Len(Verified!Capped(t)) < MaxMismatches => Verified!Capped(t) = t
  <2> HIDE DEF R
  <2>1. QED
    BY <1>14, CappedEvidence DEF R
<1>16. Len(Verified!Capped(t)) < MaxMismatches => Covers(Verified!Capped(t), R, W)
  <2>1. Len(list) \in Nat /\ Len(s) \in Nat /\ Len(t) \in Nat /\ MaxMismatches \in Nat
    BY <1>12, <1>13, <1>14, LenProperties DEF Sound, Verified!VerifyAssumption
  <2> SUFFICES ASSUME Len(Verified!Capped(t)) < MaxMismatches
               PROVE  Covers(Verified!Capped(t), R, W)
    OBVIOUS
  <2>2. Verified!Capped(t) = t
    BY <1>15
  <2>3. Len(list) < MaxMismatches
    BY <1>13, <1>14, <2>1, <2>2
  <2>4. QED
    BY <1>12, <1>13, <1>14, <2>2, <2>3
<1>17. Wrong' = W /\ list' = Verified!Capped(t)
  BY <1>2 DEF Wrong, Verified!Differs, W, s, t, n, rb, c, M, S
<1>18. Listed'
  BY <1>2, <1>15, <1>16, <1>17 DEF Listed
<1>19. /\ hashed' = SubSeq(rb, 1, Verified!Smaller(end, L)) /\ readback' = readback
       /\ pass' = "slow" /\ checked' = end /\ written' = written /\ verdict' = "none"
  BY <1>1, <1>2, <1>5
<1>20. end \in 0..Len(written)
  BY <1>1, <1>3 DEF n
<1>21. ReadTypes' /\ ~Verified!Whole("fast")'
  BY <1>1, <1>19, <1>20 DEF ReadTypes, VerifyInv, Verified!Whole
<1>22. QED
  BY <1>18, <1>19, <1>21 DEF VerifyInv, rb, L

(* The list is empty exactly for a device that gave the image back. *)
LEMMA CompareEndKeeps ==
    ASSUME Verified!VerifyAssumption, VerifyInv, Verified!CompareEnds
    PROVE  VerifyInv'
<1> DEFINE rb == readback["slow"]
<1>1. /\ pass = "slow" /\ checked = Len(written) /\ Len(written) \in Nat
      /\ Len(rb) \in Nat /\ Len(rb) <= Len(written) /\ Listed /\ ~Verified!Whole("fast")
      /\ written \in Seq(Values) /\ rb \in Seq(Values)
      /\ hashed = SubSeq(rb, 1, Verified!Smaller(checked, Len(rb)))
      /\ SubSeq(rb, 1, Len(rb)) = rb
  BY ReadIs DEF Verified!CompareEnds, Verified!Passes, VerifyInv, ReadTypes
<1>2. hashed = rb
  BY <1>1 DEF Verified!Smaller
<1>3. /\ verdict' = IF hashed = written /\ list = <<>> THEN "match" ELSE "mismatch"
      /\ pass' = "over" /\ UNCHANGED <<written, readback, checked, hashed, list>>
  BY DEF Verified!CompareEnds, Verified!Over, Verified!Fixed
<1>4. ReadTypes' /\ Listed'
  BY <1>1, <1>3 DEF ReadTypes, VerifyInv, Listed, Wrong, Verified!Differs
<1>5. CASE hashed = written /\ list = <<>>
  BY <1>2, <1>3, <1>4, <1>5 DEF VerifyInv, Verified!Whole, Verified!Passes
<1>6. CASE ~(hashed = written /\ list = <<>>)
  <2>1. Verified!Whole("slow") => list = <<>>
    <3> SUFFICES ASSUME Verified!Whole("slow") PROVE list = <<>>
      OBVIOUS
    <3>1. Wrong = {}
      BY <1>1 DEF Wrong, Verified!Differs, Verified!Whole
    <3>2. list \in Seq(Entry) /\ Len(list) \in Nat /\ 1..Len(list) = {}
      BY <1>1, <3>1, LenProperties DEF Listed, Sound
    <3>3. Len(list) # 0 => 1 \in 1..Len(list)
      BY <3>2
    <3>4. QED
      BY <3>2, <3>3, EmptySeq
  <2>2. ~Verified!Whole("slow")
    BY <1>2, <1>6, <2>1 DEF Verified!Whole
  <2>3. \E i \in 0..(Len(written) - 1) : Verified!Differs(i)
    <3> SUFFICES ASSUME \A i \in 0..(Len(written) - 1) : ~Verified!Differs(i) PROVE FALSE
      OBVIOUS
    <3>1. \A i \in 1..Len(written) : i - 1 \in 0..(Len(written) - 1) /\ (i - 1) + 1 = i
      BY <1>1
    <3>2. \A i \in 1..Len(written) : ~(i - 1 >= Len(rb)) /\ rb[i] = written[i]
      BY <3>1 DEF Verified!Differs
    <3>3. Len(written) = 0 \/ ~(Len(written) - 1 >= Len(rb))
      BY <1>1, <3>2
    <3>4. Len(rb) = Len(written)
      BY <1>1, <3>3
    <3>5. rb = written
      BY <1>1, <3>2, <3>4, SeqEqual
    <3>6. QED
      BY <2>2, <3>5 DEF Verified!Whole
  <2>4. list # <<>>
    <3> SUFFICES ASSUME list = <<>> PROVE FALSE
      OBVIOUS
    <3>1. Len(list) = 0 /\ MaxMismatches \in Nat \ {0}
      BY DEF Verified!VerifyAssumption
    <3>2. Covers(list, 0..(checked - 1), Wrong)
      BY <1>1, <3>1 DEF Listed
    <3>3. QED
      BY <1>1, <2>3, <3>1, <3>2 DEF Covers, Wrong
  <2>5. \A p \in Verified!Passes : ~Verified!Whole(p)
    BY <1>1, <2>2 DEF Verified!Passes
  <2>6. \A p \in Verified!Passes : ~Verified!Whole(p)'
    BY <1>3, <2>5 DEF Verified!Whole
  <2>7. verdict' = "mismatch" /\ checked' = Len(written)' /\ (list # <<>>)'
    BY <1>1, <1>3, <1>6, <2>4
  <2>8. QED
    BY <1>3, <1>4, <2>6, <2>7 DEF VerifyInv
<1>7. QED
  BY <1>5, <1>6

(* All together. *)
LEMMA VerifyKeeps ==
    ASSUME Verified!VerifyAssumption, VerifyInv, [Verified!Next]_Verified!vars
    PROVE  VerifyInv'
<1>1. CASE Verified!Next
  BY <1>1, InterruptKeeps, HashKeeps, HashEndKeeps, CompareKeeps, CompareEndKeeps
     DEF Verified!Next
<1>2. CASE UNCHANGED Verified!vars
  BY <1>2 DEF Verified!vars, VerifyInv, ReadTypes, Verified!Whole, Listed, Wrong,
     Verified!Differs
<1>3. QED
  BY <1>1, <1>2

(* A verdict is earned: a match by a pass that returned the image, a        *)
(* mismatch by a list of what is wrong, for images of any length, any chunk *)
(* and list size, short devices and devices that answer each pass anew.     *)
THEOREM VerdictEarned == Spec => []VerdictIsEarned
<1>1. Init => VerifyInv
  <2> SUFFICES ASSUME Init PROVE VerifyInv
    OBVIOUS
  <2> DEFINE r0 == [p \in Verified!Passes |-> <<>>]
  <2>1. CASE tool = "verify"
    <3>1. PICK w \in Verified!Strings(ImageLength),
               n \in {ImageLength, ImageLength - Chunk, ImageLength - Chunk - 1} \cap Nat :
              \E f, s \in Verified!Strings(n) :
                  Verified!Start(w, [p \in Verified!Passes |-> IF p = "fast" THEN f ELSE s])
      BY <2>1 DEF Init, Verified!Init
    <3>2. PICK f \in Verified!Strings(n), s \in Verified!Strings(n) :
              Verified!Start(w, [p \in Verified!Passes |-> IF p = "fast" THEN f ELSE s])
      BY <3>1
    <3> DEFINE r == [p \in Verified!Passes |-> IF p = "fast" THEN f ELSE s]
    <3>3. n <= ImageLength /\ n \in Nat /\ ImageLength \in Nat
      BY ImageToolsAssumption DEF Verified!VerifyAssumption
    <3>4. \A m \in Nat : \A x \in Verified!Strings(m) : x \in Seq(Values) /\ Len(x) = m
      <4> SUFFICES ASSUME NEW m \in Nat, NEW x \in Verified!Strings(m)
                   PROVE  x \in Seq(Values) /\ Len(x) = m
        OBVIOUS
      <4>1. x \in [1..m -> Values]
        BY DEF Verified!Strings
      <4>2. x \in Seq(Values) /\ DOMAIN x = 1..m
        BY <4>1, SeqDef
      <4>3. Len(x) \in Nat /\ 1..Len(x) = 1..m
        BY <4>2, LenProperties
      <4>4. QED
        BY <4>2, <4>3, IntakeProved!SameInterval
    <3>5. \A p \in Verified!Passes : r[p] \in Seq(Values) /\ Len(r[p]) <= Len(w)
      BY <3>3, <3>4
    <3>6. w \in Seq(Values)
      BY <3>3, <3>4
    <3> HIDE DEF r
    <3>7. Verified!Start(w, r)
      BY <3>2 DEF r
    <3>8. QED
      BY <3>5, <3>6, <3>7, VerifyStarts
  <2>2. CASE tool # "verify"
    <3>1. Verified!Start(<<>>, r0)
      BY <2>2 DEF Init, NoVerify
    <3>2. <<>> \in Seq(Values) /\ Len(<<>>) <= Len(<<>>)
      BY EmptySeq
    <3>3. \A p \in Verified!Passes : r0[p] \in Seq(Values) /\ Len(r0[p]) <= Len(<<>>)
      BY <3>2
    <3> HIDE DEF r0
    <3>4. QED
      BY <3>1, <3>2, <3>3, VerifyStarts
  <2>3. QED
    BY <2>1, <2>2
<1>2. VerifyInv /\ [Next]_vars => VerifyInv'
  <2>1. [Next]_vars => [Verified!Next]_Verified!vars
    BY OperationSteps DEF verifyVars, Verified!vars
  <2>2. QED
    BY <2>1, ImageToolsAssumption, VerifyKeeps
<1>3. VerifyInv => VerdictIsEarned
  BY EvidenceIsGiven DEF VerdictIsEarned
<1>4. QED
  BY <1>1, <1>2, <1>3, PTL DEF Spec

-----------------------------------------------------------------------------
(* The answers the window, the command line and the burn give of an image.  *)

(* What round depth of IdentifyDataStream answers for each stream, given    *)
(* the rounds f behind it, and its definition: every round answers so.      *)
Round(depth, f) ==
    [s \in Probed!EmptyStream..Len(image.wrap) |->
        LET src == Probed!PeekAndRewind(s)
        IN  IF depth = MaxDepth THEN Probed!NoStream
            ELSE IF Probed!Magic(src) \notin Probed!Compressions THEN src
            ELSE f[depth + 1][Probed!TryOpen(src)]]

Rounds(f) == f = [depth \in 0..MaxDepth |-> Round(depth, f)]

(* There are such rounds: the last one needs none behind it, and each needs *)
(* only the next.                                                           *)
LEMMA RoundsExist == ASSUME Probed!ProbeAssumption PROVE \E f : Rounds(f)
<1> DEFINE From(n) == \E f : f = [i \in (MaxDepth - n)..MaxDepth |-> Round(i, f)]
           Bad == {n \in 0..MaxDepth : ~From(n)}
<1>1. MaxDepth \in Nat
  BY DEF Probed!ProbeAssumption
<1>2. ASSUME NEW i \in 0..MaxDepth, NEW f, NEW g, i # MaxDepth => f[i + 1] = g[i + 1]
      PROVE  Round(i, f) = Round(i, g)
  <2>1. CASE i = MaxDepth
    BY <2>1 DEF Round
  <2>2. CASE i # MaxDepth
    BY <1>2, <2>2 DEF Round
  <2>3. QED
    BY <2>1, <2>2
<1>3. From(0)
  <2> DEFINE f == [i \in (MaxDepth - 0)..MaxDepth |-> Round(MaxDepth, <<>>)]
  <2>1. \A i \in (MaxDepth - 0)..MaxDepth : i = MaxDepth
    BY <1>1
  <2>2. Round(MaxDepth, f) = Round(MaxDepth, <<>>)
    BY <1>1, <1>2
  <2>3. f = [i \in (MaxDepth - 0)..MaxDepth |-> Round(i, f)]
    <3>1. \A i \in (MaxDepth - 0)..MaxDepth : Round(i, f) = Round(MaxDepth, <<>>)
      BY <2>1, <2>2
    <3>2. QED
      BY <3>1
  <2> HIDE DEF f
  <2>4. QED
    BY <2>3
<1>4. ASSUME NEW n \in 0..(MaxDepth - 1), From(n) PROVE From(n + 1)
  <2> DEFINE j == MaxDepth - (n + 1)
  <2>1. PICK f : f = [i \in (MaxDepth - n)..MaxDepth |-> Round(i, f)]
    BY <1>4
  <2> DEFINE g == [i \in j..MaxDepth |-> IF i = j THEN Round(j, f) ELSE f[i]]
  <2>2. j \in 0..(MaxDepth - 1) /\ j + 1 = MaxDepth - n
    BY <1>1
  <2>3. \A i \in (j + 1)..MaxDepth : g[i] = f[i] /\ f[i] = Round(i, f)
    <3>1. \A i \in (j + 1)..MaxDepth : i \in j..MaxDepth /\ i # j
      BY <1>1, <2>2
    <3> HIDE DEF j
    <3>2. QED
      BY <2>1, <2>2, <3>1
  <2>4. ASSUME NEW i \in j..MaxDepth PROVE g[i] = Round(i, g)
    <3>1. i \in 0..MaxDepth /\ (i = MaxDepth \/ i + 1 \in (j + 1)..MaxDepth)
      BY <1>1, <2>2
    <3>2. Round(i, g) = Round(i, f)
      <4>1. i # MaxDepth => g[i + 1] = f[i + 1]
        BY <2>3, <3>1
      <4> HIDE DEF g, j
      <4>2. QED
        BY <1>2, <3>1, <4>1
    <3>3. g[i] = Round(i, f)
      <4>1. CASE i = j
        BY <4>1
      <4>2. CASE i # j
        <5>1. i \in (j + 1)..MaxDepth
          BY <1>1, <2>2, <4>2
        <5> HIDE DEF g, j
        <5>2. QED
          BY <2>3, <5>1
      <4>3. QED
        BY <4>1, <4>2
    <3> HIDE DEF g
    <3>4. QED
      BY <3>2, <3>3
  <2>5. g = [i \in j..MaxDepth |-> Round(i, g)]
    <3>1. g = [i \in j..MaxDepth |-> g[i]]
      OBVIOUS
    <3> HIDE DEF g, j
    <3>2. QED
      BY <2>4, <3>1
  <2> HIDE DEF g
  <2>6. QED
    BY <2>5
<1> HIDE DEF From
<1>5. Bad = {}
  <2> SUFFICES ASSUME Bad # {} PROVE FALSE
    OBVIOUS
  <2>1. PICK n \in Bad : \A m \in Nat : m < n => m \notin Bad
    <3>1. Bad \in SUBSET Nat
      BY <1>1
    <3> HIDE DEF Bad
    <3>2. QED
      BY <3>1, LeastNumber
  <2>2. n # 0
    BY <1>3, <2>1
  <2>3. /\ n - 1 \in 0..(MaxDepth - 1) /\ n - 1 \in Nat /\ n - 1 < n /\ (n - 1) + 1 = n
        /\ n - 1 \in 0..MaxDepth
    BY <1>1, <2>1, <2>2
  <2>4. From(n - 1)
    BY <2>1, <2>3
  <2>5. QED
    BY <1>4, <2>1, <2>3, <2>4
<1>6. From(MaxDepth) /\ MaxDepth - MaxDepth = 0
  BY <1>1, <1>5
<1>7. QED
  BY <1>6 DEF From, Rounds

(* A file that does not begin with a compression layer is streamed as it is. *)
LEMMA PlainIsStreamed ==
    ASSUME Probed!ProbeAssumption, Probed!Magic(0) \notin Probed!Compressions,
           Len(image.wrap) \in Nat
    PROVE  Probed!IdentifyDataStream = 0
<1> DEFINE f == CHOOSE h : Rounds(h)
<1>1. Rounds(f)
  BY RoundsExist
<1>2. Probed!IdentifyDataStream = (CHOOSE h : Rounds(h))[0][0]
  BY DEF Probed!IdentifyDataStream, Rounds, Round
<1> HIDE DEF f
<1>3. Probed!PeekAndRewind(0) = 0
  BY DEF Probed!PeekAndRewind
<1>4. 0 # MaxDepth /\ 0 \in 0..MaxDepth /\ 0 \in Probed!EmptyStream..Len(image.wrap)
  BY DEF Probed!ProbeAssumption, Probed!EmptyStream
<1>5. f[0] = Round(0, f)
  BY <1>1, <1>4 DEF Rounds
<1>6. Round(0, f)[0] = 0
  BY <1>3, <1>4 DEF Round
<1>7. QED
  BY <1>2, <1>5, <1>6 DEF f

-----------------------------------------------------------------------------
(* The answers, which are functions of the image. *)
Told ==
    [valid |-> Probed!Burnable(Probed!Backend), table |-> Probed!Backend.table,
     boot |-> Probed!Backend.boot]

Printed ==
    CASE image.ext \in Probed!Containers -> Probed!DiskAt(Probed!OpenContainer(image.ext)).table
      [] image.ext \in Probed!Compressions -> Probed!Layout
      [] OTHER -> Probed!DiskAt(0).table

Opened ==
    IF Probed!Probe = "none" THEN Probed!NoStream
    ELSE CASE Probed!Classify(Probed!Probe) = "streaming" -> Probed!IdentifyDataStream
           [] Probed!Classify(Probed!Probe) = "zip" -> Probed!OpenZip
           [] OTHER -> Probed!OpenContainer(Probed!Classify(Probed!Probe))

(* Any file that can lie there. *)
ImageOk ==
    /\ image.ext \in Probed!Extensions /\ Len(image.wrap) \in Nat
    /\ image.disk \in Probed!Disks

(* Each that has answered gave its answer. *)
ProbeInv ==
    /\ ImageOk
    /\ report = Probed!Pending \/ report = Told
    /\ listed = "pending" \/ listed = Printed
    /\ burned = Probed!NotOpened \/ burned = Opened

(* An image the window, the command line and the burn agree on. *)
Agreed ==
    LET d == Probed!DiskAt(Opened)
    IN  /\ Told.valid => Opened # Probed!NoStream \/ image.ext = "dat"
        /\ Told.valid /\ Opened # Probed!NoStream =>
             Probed!Burnable(d) /\ Told.table = d.table /\ Told.boot \subseteq d.boot
        /\ Printed # "none" /\ Opened # Probed!NoStream => Printed = d.table

(* What a disk boots by. *)
Signals == {"GptEsp", "MbrActive", "MbrBootloader", "ElTorito"}

(* A stream shows the disk or none, and none is not burnable. *)
LEMMA DiskIs ==
    ASSUME ImageOk
    PROVE  /\ \A s : Probed!DiskAt(s) = Probed!NoDisk \/ Probed!DiskAt(s) = image.disk
           /\ \A s : Probed!DiskAt(s) \in [table : {"gpt", "mbr", "none"}, fs : BOOLEAN,
                                    signature : BOOLEAN, boot : SUBSET Signals]
           /\ Probed!DiskAt(Probed!NoStream) = Probed!NoDisk
           /\ Probed!NoDisk.table = "none" /\ Probed!NoDisk.boot = {}
           /\ ~Probed!Burnable(Probed!NoDisk)
<1> DEFINE T == [table : {"gpt", "mbr", "none"}, fs : BOOLEAN, signature : BOOLEAN,
                 boot : SUBSET Signals]
<1>1. Probed!Disks \subseteq T
  <2>1. \A d \in Probed!Disks : d \in T
    <3> SUFFICES ASSUME NEW d \in Probed!Disks PROVE d \in T
      OBVIOUS
    <3>1. {"GptEsp"} \in SUBSET Signals /\ {"MbrActive", "MbrBootloader"} \in SUBSET Signals
          /\ {"ElTorito"} \in SUBSET Signals /\ {"MbrBootloader", "ElTorito"} \in SUBSET Signals
          /\ {"MbrBootloader"} \in SUBSET Signals /\ {} \in SUBSET Signals
      BY DEF Signals
    <3>2. \A t \in {"gpt", "mbr", "none"}, f \in BOOLEAN, g \in BOOLEAN, b \in SUBSET Signals :
             Probed!Disk(t, f, g, b) \in T
      BY DEF Probed!Disk
    <3> HIDE DEF T
    <3>3. QED
      BY <3>1, <3>2 DEF Probed!Disks, Probed!NoDisk
  <2>2. QED
    BY <2>1
<1>2. \A s : Probed!DiskAt(s) = Probed!NoDisk \/ Probed!DiskAt(s) = image.disk
  BY DEF Probed!DiskAt
<1>3. Probed!NoDisk \in Probed!Disks
  BY DEF Probed!Disks
<1>4. Probed!DiskAt(Probed!NoStream) = Probed!NoDisk
  BY DEF Probed!DiskAt, Probed!Magic, Probed!NoStream, ImageOk
<1>5. Probed!NoDisk.table = "none" /\ Probed!NoDisk.boot = {} /\ ~Probed!Burnable(Probed!NoDisk)
  BY DEF Probed!NoDisk, Probed!Disk, Probed!Burnable
<1>6. QED
  BY <1>1, <1>2, <1>3, <1>4, <1>5 DEF ImageOk

(* A file that shows a disk as it lies there is a bare image or a fixed VHD. *)
LEMMA ShownAsItIs ==
    ASSUME ImageOk, Probed!DiskAt(0) # Probed!NoDisk
    PROVE  /\ \/ Probed!Magic(0) = "none"
              \/ Probed!Magic(0) = "vhd" /\ Probed!DiskAt(1) = Probed!DiskAt(0)
           /\ Probed!DiskAt(0) = image.disk
BY DEF Probed!DiskAt, Probed!Magic, ImageOk

(* The families of the labels the probe gives. *)
LEMMA FamilyIs ==
    /\ Probed!Classify("qcow2") = "qcow2" /\ Probed!Classify("vhdx") = "vhdx"
    /\ Probed!Classify("vhd") = "vhd"
    /\ Probed!Classify("zip") = "zip" /\ Probed!Classify("raw") = "streaming"
    /\ \A c \in Probed!Compressions \cup {"gzip"} : Probed!Classify(c) = "streaming"
BY DEF Probed!Classify, Probed!StartsWith, Probed!Compressions

(* They agree on every image: by what its extension makes of it.            *)
LEMMA AnswersAgree == ASSUME Probed!ProbeAssumption, ImageOk PROVE Agreed
<1> DEFINE k == image.ext
<1>1. CASE k \in Probed!Compressions
  <2>1. Probed!Probe = k /\ Probed!Probe # "none" /\ Probed!Classify(Probed!Probe) = "streaming"
    BY <1>1, FamilyIs DEF Probed!Probe, Probed!Compressions, Probed!Containers
  <2>2. Opened = Probed!IdentifyDataStream
    BY <2>1 DEF Opened
  <2>3. /\ Probed!Backend = Probed!DecompressedPrefix(Probed!DiskAt(Opened))
        /\ Printed = Probed!DiskAt(Opened).table
    BY <1>1, <2>2 DEF Probed!Backend, Probed!OpenImage, Printed, Probed!Layout,
       Probed!Compressions, Probed!Containers
  <2> DEFINE d == Probed!DiskAt(Opened)
  <2>4. /\ Told.table = d.table /\ Told.valid = Probed!Burnable(d) /\ Told.boot \subseteq d.boot
        /\ (Opened = Probed!NoStream => ~Probed!Burnable(d))
    <3>1. d \in [table : {"gpt", "mbr", "none"}, fs : BOOLEAN, signature : BOOLEAN,
                 boot : SUBSET Signals]
      BY DiskIs
    <3>2. Opened = Probed!NoStream => ~Probed!Burnable(d)
      BY DiskIs
    <3> HIDE DEF d
    <3>3. QED
      BY <2>3, <3>1, <3>2 DEF Told, Probed!DecompressedPrefix, Probed!Burnable, d
  <2>5. QED
    BY <2>3, <2>4 DEF Agreed
<1>2. CASE k = "zip"
  <2>1. /\ Probed!Backend = Probed!DecompressedPrefix(Probed!DiskAt(Probed!OpenZip))
        /\ Printed = Probed!DiskAt(0).table
        /\ Probed!Probe = IF Probed!Magic(0) = "zip" THEN "zip" ELSE "none"
    BY <1>2 DEF Probed!Backend, Probed!OpenImage, Printed, Probed!Probe,
       Probed!Compressions, Probed!Containers
  <2>2. Opened = Probed!OpenZip
    <3>1. CASE Probed!Magic(0) = "zip"
      BY <2>1, <3>1, FamilyIs DEF Opened, Probed!OpenZip
    <3>2. CASE Probed!Magic(0) # "zip"
      BY <2>1, <3>2 DEF Opened, Probed!OpenZip
    <3>3. QED
      BY <3>1, <3>2
  <2> DEFINE d == Probed!DiskAt(Opened)
  <2>3. /\ Told.table = d.table /\ Told.valid = Probed!Burnable(d) /\ Told.boot \subseteq d.boot
        /\ (Opened = Probed!NoStream => ~Probed!Burnable(d))
    <3>1. d \in [table : {"gpt", "mbr", "none"}, fs : BOOLEAN, signature : BOOLEAN,
                 boot : SUBSET Signals]
      BY DiskIs
    <3>2. Opened = Probed!NoStream => ~Probed!Burnable(d)
      BY DiskIs
    <3> HIDE DEF d
    <3>3. QED
      BY <2>1, <2>2, <3>1, <3>2 DEF Told, Probed!DecompressedPrefix, Probed!Burnable, d
  <2>4. Opened # Probed!NoStream => Printed = "none"
    BY <2>1, <2>2, DiskIs, ShownAsItIs DEF Probed!OpenZip
  <2>5. QED
    BY <2>3, <2>4 DEF Agreed
<1>3. CASE k \in Probed!Containers
  <2>1. /\ Probed!Backend = Probed!DiskAt(Probed!OpenContainer(k))
        /\ Printed = Probed!DiskAt(Probed!OpenContainer(k)).table
        /\ Probed!Probe = IF Probed!Magic(0) = k THEN k ELSE "none"
    BY <1>3 DEF Probed!Backend, Probed!OpenImage, Printed, Probed!Probe,
       Probed!Compressions, Probed!Containers
  <2>2. Opened = Probed!OpenContainer(k)
    <3>1. CASE Probed!Magic(0) = k
      <4>1. Probed!Probe = k /\ k # "none" /\ Probed!Classify(k) = k /\ k # "streaming" /\ k # "zip"
        BY <1>3, <2>1, <3>1, FamilyIs DEF Probed!Containers
      <4> HIDE DEF k
      <4>2. QED
        BY <4>1 DEF Opened
    <3>2. CASE Probed!Magic(0) # k
      BY <2>1, <3>2 DEF Opened, Probed!OpenContainer
    <3>3. QED
      BY <3>1, <3>2
  <2>3. Probed!OpenContainer(k) = Probed!NoStream
          => ~Probed!Burnable(Probed!DiskAt(Probed!OpenContainer(k)))
    BY DiskIs
  <2>4. QED
    BY <2>1, <2>2, <2>3 DEF Agreed, Told
<1>4. CASE k \in {"gzip", "img", "dat"}
  <2>1. Probed!Backend = Probed!DiskAt(0) /\ Printed = Probed!DiskAt(0).table
    BY <1>4 DEF Probed!Backend, Probed!OpenImage, Printed, Probed!Compressions,
       Probed!Containers
  <2>2. CASE Probed!DiskAt(0) = Probed!NoDisk
    <3>1. ~Told.valid /\ Printed = "none"
      BY <2>1, <2>2, DiskIs DEF Told
    <3>2. QED
      BY <3>1 DEF Agreed
  <2>3. CASE Probed!DiskAt(0) # Probed!NoDisk
    <3>1. Probed!Magic(0) \notin Probed!Compressions /\ Probed!IdentifyDataStream = 0
      BY <2>3, ShownAsItIs, PlainIsStreamed DEF Probed!Compressions, ImageOk
    <3>2. \/ Opened = 0 \/ (Opened = 1 /\ Probed!DiskAt(1) = Probed!DiskAt(0))
          \/ (Opened = Probed!NoStream /\ k = "dat")
      <4>1. CASE k = "gzip"
        BY <3>1, <4>1, FamilyIs DEF Opened, Probed!Probe, Probed!Compressions,
           Probed!Containers
      <4>2. CASE k = "img"
        BY <2>3, <3>1, <4>2, FamilyIs, ShownAsItIs
           DEF Opened, Probed!Probe, Probed!ByMagic, Probed!OpenContainer,
               Probed!Compressions, Probed!Containers
      <4>3. CASE k = "dat"
        <5>1. Probed!Probe = Probed!Magic(0)
          BY <4>3 DEF Probed!Probe, Probed!ByMagic, Probed!Compressions, Probed!Containers
        <5>2. CASE Probed!Magic(0) = "none"
          BY <4>3, <5>1, <5>2 DEF Opened
        <5>3. CASE Probed!Magic(0) # "none"
          <6>1. Probed!Magic(0) = "vhd" /\ Probed!DiskAt(1) = Probed!DiskAt(0)
            BY <2>3, <5>3, ShownAsItIs
          <6>2. QED
            BY <5>1, <6>1, FamilyIs DEF Opened, Probed!OpenContainer
        <5>4. QED
          BY <5>2, <5>3
      <4>4. QED
        BY <1>4, <4>1, <4>2, <4>3
    <3>3. /\ Told.valid = Probed!Burnable(Probed!DiskAt(0)) /\ Told.table = Probed!DiskAt(0).table
          /\ Told.boot = Probed!DiskAt(0).boot
      BY <2>1 DEF Told
    <3>4. CASE Opened = Probed!NoStream
      BY <3>2, <3>4 DEF Agreed, Probed!NoStream
    <3>5. CASE Opened # Probed!NoStream
      <4>1. Probed!DiskAt(Opened) = Probed!DiskAt(0)
        BY <3>2, <3>5
      <4>2. QED
        BY <2>1, <3>3, <3>5, <4>1 DEF Agreed
    <3>6. QED
      BY <3>4, <3>5
  <2>4. QED
    BY <2>2, <2>3
<1>5. QED
  BY <1>1, <1>2, <1>3, <1>4 DEF ImageOk, Probed!Extensions

(* So what was told is what will be burned. *)
LEMMA AgreementHolds ==
    ASSUME Probed!ProbeAssumption, ProbeInv
    PROVE  Probed!ReportIsOfTheBurn
<1> SUFFICES ASSUME Probed!Answered PROVE
        LET d == Probed!DiskAt(burned)
        IN  /\ report.valid => burned # Probed!NoStream \/ image.ext = "dat"
            /\ report.valid /\ burned # Probed!NoStream =>
                 Probed!Burnable(d) /\ report.table = d.table /\ report.boot \subseteq d.boot
            /\ listed # "none" /\ burned # Probed!NoStream => listed = d.table
  BY DEF Probed!ReportIsOfTheBurn
<1>1. report = Told /\ listed = Printed /\ burned = Opened
  BY DEF Probed!Answered, ProbeInv
<1>2. Agreed
  BY AnswersAgree DEF ProbeInv
<1>3. QED
  BY <1>1, <1>2 DEF Agreed

(* No one has answered at first. *)
LEMMA ProbeStarts ==
    ASSUME NEW i, Probed!Start(i),
           i.ext \in Probed!Extensions, Len(i.wrap) \in Nat, i.disk \in Probed!Disks
    PROVE  ProbeInv
BY DEF Probed!Start, ProbeInv, ImageOk

(* The images TLC is given are such files. *)
LEMMA ImagesAreOk == ASSUME NEW i \in Probed!Images
  PROVE i.ext \in Probed!Extensions /\ Len(i.wrap) \in Nat /\ i.disk \in Probed!Disks
<1>1. i.ext \in Probed!Extensions /\ i.wrap \in Probed!Wraps /\ i.disk \in Probed!Disks
  BY DEF Probed!Images
<1> DEFINE Kinds == Probed!Compressions \cup Probed!Containers \cup {"zip"}
<1>2. PICK n \in 0..3 : i.wrap \in [1..n -> Kinds]
  <2>1. (\E n \in 0..2 : i.wrap \in [1..n -> Kinds]) \/ i.wrap \in [1..3 -> Probed!Compressions]
    BY <1>1 DEF Probed!Wraps
  <2>2. /\ [1..3 -> Probed!Compressions] \subseteq [1..3 -> Kinds]
        /\ 3 \in 0..3 /\ 0..2 \subseteq 0..3
    OBVIOUS
  <2> HIDE DEF Kinds
  <2>3. QED
    BY <2>1, <2>2
<1>3. i.wrap \in Seq(Kinds)
  BY <1>2, SeqDef
<1>4. QED
  BY <1>1, <1>3, LenProperties

(* No answer changes the file the others look at. *)
LEMMA ProbeKeeps == ASSUME ProbeInv, [Probed!Next]_Probed!vars PROVE ProbeInv'
<1>1. UNCHANGED image => /\ Told' = Told /\ Printed' = Printed /\ Opened' = Opened
                         /\ ImageOk' <=> ImageOk
  <2>1. UNCHANGED image => (ImageOk' <=> ImageOk)
    BY DEF ImageOk
  <2>2. UNCHANGED image => Told' = Told
    BY DEF Told, Probed!Backend, Probed!OpenImage, Probed!OpenContainer, Probed!OpenZip,
       Probed!DiskAt, Probed!Magic, Probed!IdentifyDataStream, Probed!PeekAndRewind
  <2>3. UNCHANGED image => Printed' = Printed
    BY DEF Printed, Probed!OpenContainer, Probed!DiskAt, Probed!Magic, Probed!Layout,
       Probed!IdentifyDataStream, Probed!PeekAndRewind
  <2>4. UNCHANGED image => Opened' = Opened
    BY DEF Opened, Probed!OpenContainer, Probed!OpenZip, Probed!Magic, Probed!Probe,
       Probed!ByMagic, Probed!IdentifyDataStream, Probed!PeekAndRewind
  <2> QED
    BY <2>1, <2>2, <2>3, <2>4
<1>2. CASE Probed!InspectImage
  BY <1>1, <1>2 DEF Probed!InspectImage, ProbeInv, Told
<1>3. CASE Probed!InspectAny
  BY <1>1, <1>3 DEF Probed!InspectAny, ProbeInv, Printed
<1>4. CASE Probed!OpenStreaming
  BY <1>1, <1>4 DEF Probed!OpenStreaming, ProbeInv, Opened
<1>5. CASE UNCHANGED Probed!vars
  BY <1>1, <1>5 DEF Probed!vars, ProbeInv
<1>6. QED
  BY <1>2, <1>3, <1>4, <1>5 DEF Probed!Next

(* What the window and the command line say of an image is said of the disk *)
(* the burn will write, for any image and any depth of the decoder chain.   *)
THEOREM ReportOfTheBurn == Spec => []ReportIsOfTheBurn
<1>1. Init => ProbeInv
  <2> SUFFICES ASSUME Init PROVE ProbeInv
    OBVIOUS
  <2>1. CASE tool = "inspect"
    <3>1. PICK i \in Probed!Images : Probed!Start(i)
      BY <2>1 DEF Init, Probed!Init
    <3>2. QED
      BY <3>1, ImagesAreOk, ProbeStarts
  <2>2. CASE tool # "inspect"
    <3> DEFINE i == [ext |-> "img", wrap |-> <<>>, disk |-> Probed!NoDisk, broken |-> 0]
    <3>1. Probed!Start(i)
      BY <2>2 DEF Init, NoProbe
    <3>2. i.ext = "img" /\ i.wrap = <<>> /\ i.disk = Probed!NoDisk
      OBVIOUS
    <3> HIDE DEF i
    <3>3. i.ext \in Probed!Extensions /\ Len(i.wrap) \in Nat /\ i.disk \in Probed!Disks
      BY <3>2, EmptySeq DEF Probed!Extensions, Probed!Disks
    <3>4. QED
      BY <3>1, <3>3, ProbeStarts
  <2>3. QED
    BY <2>1, <2>2
<1>2. ProbeInv /\ [Next]_vars => ProbeInv'
  <2>1. [Next]_vars => [Probed!Next]_Probed!vars
    BY OperationSteps DEF probeVars, Probed!vars
  <2>2. QED
    BY <2>1, ProbeKeeps
<1>3. ProbeInv => ReportIsOfTheBurn
  BY ImageToolsAssumption, AgreementHolds DEF ReportIsOfTheBurn
<1>4. QED
  BY <1>1, <1>2, <1>3, PTL DEF Spec
=============================================================================
