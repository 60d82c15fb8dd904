------------------------------ MODULE Snapshot ------------------------------
(***************************************************************************)
(* The recovery file of src-tauri/src/snapshot.rs: the first blocks of a   *)
(* device, captured before a burn destroys them and written back on        *)
(* demand, maybe much later and to a device that is not the same any more. *)
(* The process may die at any step of either operation, and the file may   *)
(* rot in between.  A digest stands for the blocks it was computed from.   *)
(***************************************************************************)
EXTENDS Naturals, Sequences, FiniteSets

CONSTANTS
    Blocks,        \* what a block may hold
    DeviceSizes,   \* the sizes, in blocks, of the devices plugged in
    SnapshotBlocks, \* snapshot_bytes
    MaxSnapshots   \* bound: captures in one behaviour

SnapshotAssumption ==
    /\ DeviceSizes \subseteq Nat /\ SnapshotBlocks \in Nat /\ MaxSnapshots \in Nat

VARIABLES
    device,    \* blocks of the device given to the operation
    recovery,  \* the recovery file: [exists, magic, header, raw]
    step,      \* "idle", a step of the capture, or "write back"
    raw,       \* the blocks the running operation holds in memory
    back,      \* blocks written back so far
    answer,    \* what the last operation returned
    taken,     \* history: block sequences that were captured
    before     \* history: the device when the last restore began

vars == <<device, recovery, step, raw, back, answer, taken, before>>

Least(m, n) == IF m < n THEN m ELSE n

Devices == UNION {[1..n -> Blocks] : n \in DeviceSizes}

(* The header is its snapshot_bytes and sha256, if it is there and parses.  *)
NoHeader == {}
NoFile == [exists |-> FALSE, magic |-> FALSE, header |-> NoHeader, raw |-> <<>>]
EmptyFile == [NoFile EXCEPT !.exists = TRUE]

Start(d) ==
    /\ device = d /\ recovery = NoFile
    /\ step = "idle" /\ raw = <<>> /\ back = 0 /\ answer = "none"
    /\ taken = {} /\ before = d

Init == \E d \in Devices : Start(d)

-----------------------------------------------------------------------------
(* snapshot_target.                                                         *)

(* The blocks are read before File::create empties the file at that path,   *)
(* an earlier recovery file included.                                       *)
ReadTarget ==
    /\ step = "idle" /\ Cardinality(taken) < MaxSnapshots
    /\ raw' = SubSeq(device, 1, Least(SnapshotBlocks, Len(device)))
    /\ taken' = taken \cup {raw'}
    /\ recovery' = EmptyFile
    /\ step' = "magic" /\ answer' = "none"
    /\ UNCHANGED <<device, back, before>>

WriteMagic ==
    /\ step = "magic"
    /\ recovery' = [recovery EXCEPT !.magic = TRUE]
    /\ step' = "header"
    /\ UNCHANGED <<device, raw, back, answer, taken, before>>

WriteHeader ==
    /\ step = "header"
    /\ recovery' = [recovery EXCEPT !.header = {[blocks |-> Len(raw), sha256 |-> raw]}]
    /\ step' = "raw"
    /\ UNCHANGED <<device, raw, back, answer, taken, before>>

(* write_all of the blocks, flushed; it may stop half way. *)
WriteRaw ==
    /\ step = "raw"
    /\ \E n \in 0..Len(raw) :
        /\ recovery' = [recovery EXCEPT !.raw = SubSeq(raw, 1, n)]
        /\ answer' = IF n = Len(raw) THEN "captured" ELSE "EIO"
    /\ step' = "idle"
    /\ UNCHANGED <<device, raw, back, taken, before>>

-----------------------------------------------------------------------------
(* read_recovery and restore_target.                                        *)

(* Bug: the digest of the header is not compared. *)
AcceptsUnhashed(f) ==
    /\ f.exists /\ f.magic
    /\ \E h \in f.header : Len(f.raw) >= h.blocks

(* The magic, a header that parses, as many blocks as it says, and its      *)
(* digest.                                                                  *)
Accepts(f) ==
    /\ f.exists /\ f.magic
    /\ \E h \in f.header :
        Len(f.raw) >= h.blocks /\ SubSeq(f.raw, 1, h.blocks) = h.sha256

RestoreRefuses ==
    /\ step = "idle" /\ ~Accepts(recovery)
    /\ before' = device /\ answer' = "refused"
    /\ UNCHANGED <<device, recovery, step, raw, back, taken>>

RestoreBegins ==
    /\ step = "idle" /\ Accepts(recovery)
    /\ \E h \in recovery.header : raw' = SubSeq(recovery.raw, 1, h.blocks)
    /\ before' = device /\ back' = 0
    /\ step' = "write back" /\ answer' = "none"
    /\ UNCHANGED <<device, recovery, taken>>

(* write_all: a block at a time; a smaller device ends before the blocks.   *)
WriteBack ==
    /\ step = "write back" /\ back < Least(Len(raw), Len(device))
    /\ device' = [device EXCEPT ![back + 1] = raw[back + 1]]
    /\ back' = back + 1
    /\ UNCHANGED <<recovery, step, raw, answer, taken, before>>

RestoreEnds ==
    /\ step = "write back" /\ back = Len(raw)
    /\ step' = "idle" /\ answer' = "restored"
    /\ UNCHANGED <<device, recovery, raw, back, taken, before>>

-----------------------------------------------------------------------------
(* What happens to the two operations and around them.                      *)

OperationFails ==
    /\ step # "idle"
    /\ step' = "idle" /\ answer' = "EIO"
    /\ UNCHANGED <<device, recovery, raw, back, taken, before>>

(* The device is burned, or another one takes its place. *)
Overwrite ==
    /\ step = "idle"
    /\ \E d \in Devices : device' = d /\ before' = d
    /\ answer' = "none"
    /\ UNCHANGED <<recovery, step, raw, back, taken>>

(* The recovery file is damaged on disk, or cut short. *)
Rot ==
    /\ step = "idle" /\ recovery.exists
    /\ \/ recovery' = [recovery EXCEPT !.magic = FALSE]
       \/ recovery' = [recovery EXCEPT !.header = NoHeader]
       \/ \E h \in recovery.header, n \in 0..SnapshotBlocks :
            recovery' = [recovery EXCEPT !.header = {[h EXCEPT !.blocks = n]}]
       \/ \E i \in DOMAIN recovery.raw, b \in Blocks :
            recovery' = [recovery EXCEPT !.raw[i] = b]
       \/ \E n \in 0..Len(recovery.raw) :
            recovery' = [recovery EXCEPT !.raw = SubSeq(recovery.raw, 1, n)]
    /\ answer' = "none"
    /\ UNCHANGED <<device, step, raw, back, taken, before>>

Next ==
    \/ ReadTarget \/ WriteMagic \/ WriteHeader \/ WriteRaw
    \/ RestoreRefuses \/ RestoreBegins \/ WriteBack \/ RestoreEnds
    \/ OperationFails \/ Overwrite \/ Rot

Spec == Init /\ [][Next]_vars

-----------------------------------------------------------------------------
Prefix(s, n) == SubSeq(s, 1, n)

(* A restore puts back, byte for byte, blocks that were once captured, and  *)
(* nothing behind them; or it refuses and the device is as it was.  A       *)
(* recovery file that a crash left unfinished, that rotted or was cut short *)
(* never reaches the device, not even in part.                              *)
RestoreIsSafe ==
    /\ answer = "refused" => device = before
    /\ answer = "restored" =>
        \E s \in taken :
            /\ Len(s) <= Len(device) /\ Prefix(device, Len(s)) = s
            /\ \A i \in (Len(s) + 1)..Len(device) : device[i] = before[i]
    /\ step = "write back" => raw \in taken
=============================================================================
