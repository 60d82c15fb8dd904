------------------------------- MODULE Verify -------------------------------
(***************************************************************************)
(* The verification after a burn, as the root helper runs it (run_helper   *)
(* of src-tauri/src/helper.rs): a fast pass of pipeline.rs hashes what the *)
(* device gives back, and when the digest is not the one the burn computed *)
(* a slow pass compares image and device byte by byte.  A digest stands    *)
(* for the bytes it was computed from.                                     *)
(***************************************************************************)
EXTENDS Integers, Sequences

CONSTANTS
    Values,         \* the values of a byte
    ImageLength,    \* bytes of the image
    Chunk,          \* chunk_size
    Group,          \* bytes one mismatch entry spans: 16 in the code
    MaxMismatches   \* entries the list holds: 256 in the code

VerifyAssumption ==
    /\ ImageLength \in Nat
    /\ {Chunk, Group, MaxMismatches} \subseteq Nat \ {0}

VARIABLES
    written,    \* the bytes of the image, all of them written
    readback,   \* what the device gives back to the fast and to the slow pass
    pass,       \* "fast", "slow" or "over"
    checked,    \* bytes of the pass done so far
    hashed,     \* device bytes the pass has hashed
    list,       \* mismatches: [at, size] of each entry, from byte 0
    verdict     \* "none", "match", "mismatch" or the error reported

vars == <<written, readback, pass, checked, hashed, list, verdict>>

Smaller(m, n) == IF m < n THEN m ELSE n

Strings(n) == [1..n -> Values]

Passes == {"fast", "slow"}

(* A device may be shorter than the image, and may answer the two passes    *)
(* differently.                                                             *)
Start(w, r) ==
    /\ written = w /\ readback = r
    /\ pass = "fast" /\ checked = 0 /\ hashed = <<>>
    /\ list = <<>> /\ verdict = "none"

Init ==
    \E w \in Strings(ImageLength),
       n \in {ImageLength, ImageLength - Chunk, ImageLength - Chunk - 1} \cap Nat :
        \E f, s \in Strings(n) : Start(w, [p \in Passes |-> IF p = "fast" THEN f ELSE s])

-----------------------------------------------------------------------------
Fixed == UNCHANGED <<written, readback>>

Over(v) == pass' = "over" /\ verdict' = v

(* The flag is asked for at the top of both loops; a read may fail in each. *)
Interrupted ==
    /\ pass \in Passes
    /\ pass = "fast" => checked < Len(written)
    /\ \E e \in {"ECANCELLED", "EIO"} : Over(e)
    /\ Fixed /\ UNCHANGED <<checked, hashed, list>>

(* verify_hash_only_with_hash: one read, which may be short. *)
HashChunk ==
    /\ pass = "fast"
    /\ LET left == Smaller(Len(written), Len(readback["fast"])) - checked
       IN  \E n \in 1..Smaller(Chunk, left) :
             /\ hashed' = hashed \o SubSeq(readback["fast"], checked + 1, checked + n)
             /\ checked' = checked + n
    /\ Fixed /\ UNCHANGED <<pass, list, verdict>>

(* All the burn wrote was read, or the device ended before. *)
HashEnds ==
    /\ pass = "fast"
    /\ checked = Smaller(Len(written), Len(readback["fast"]))
    /\ IF hashed = written THEN Over("match") /\ UNCHANGED <<checked, hashed>>
       ELSE pass' = "slow" /\ checked' = 0 /\ hashed' = <<>> /\ UNCHANGED verdict
    /\ Fixed /\ UNCHANGED list

(* push_mismatch: what does not fit any more is dropped. *)
Capped(entries) == SubSeq(entries, 1, Smaller(Len(entries), MaxMismatches))

(* Bug: the scan resumes one byte after the end of the group. *)
ScanSkips(src, dev, base) ==
    LET len == Smaller(Len(src), Len(dev))
        from[i \in 0..len + 1] ==
            IF i >= len THEN <<>>
            ELSE IF src[i + 1] = dev[i + 1] THEN from[i + 1]
            ELSE LET end == Smaller(i + Group, len)
                 IN  <<[at |-> base + i, size |-> end - i]>> \o from[end + 1]
    IN  from[0]

(* scan_mismatches: a group starts at a byte that differs and ends with the *)
(* chunk at the latest.                                                     *)
ScanMismatches(src, dev, base) ==
    LET len == Smaller(Len(src), Len(dev))
        from[i \in 0..len] ==
            IF i = len THEN <<>>
            ELSE IF src[i + 1] = dev[i + 1] THEN from[i + 1]
            ELSE LET end == Smaller(i + Group, len)
                 IN  <<[at |-> base + i, size |-> end - i]>> \o from[end]
    IN  from[0]

(* The bytes the device no longer has, one entry each. *)
Missing(src, dev, base) ==
    [i \in 1..(Len(src) - Len(dev)) |-> [at |-> base + Len(dev) + i - 1, size |-> 1]]

(* verify_with_hash: read_full fills both buffers; the missing bytes are    *)
(* entered before the differing ones.                                       *)
CompareChunk ==
    /\ pass = "slow" /\ checked < Len(written)
    /\ LET end == Smaller(checked + Chunk, Len(written))
           src == SubSeq(written, checked + 1, end)
           dev == SubSeq(readback["slow"], checked + 1, Smaller(end, Len(readback["slow"])))
       IN  /\ list' = Capped(list \o Missing(src, dev, checked)
                                  \o ScanMismatches(src, dev, checked))
           /\ hashed' = hashed \o dev
           /\ checked' = end
    /\ Fixed /\ UNCHANGED <<pass, verdict>>

CompareEnds ==
    /\ pass = "slow" /\ checked = Len(written)
    /\ Over(IF hashed = written /\ list = <<>> THEN "match" ELSE "mismatch")
    /\ Fixed /\ UNCHANGED <<checked, hashed, list>>

Next == Interrupted \/ HashChunk \/ HashEnds \/ CompareChunk \/ CompareEnds

Spec == Init /\ [][Next]_vars

-----------------------------------------------------------------------------
Whole(p) == readback[p] = written

Differs(i) == i >= Len(readback["slow"]) \/ readback["slow"][i + 1] # written[i + 1]

Spans(e) == e.at .. (e.at + e.size - 1)

(* A match is only reported for a device that gave back every byte of the   *)
(* image to one of the passes.  A mismatch is reported with its evidence:   *)
(* each entry starts at a byte that is wrong or missing, no byte is in two  *)
(* entries, and while the list has room every such byte is in one.          *)
VerdictIsEarned ==
    /\ verdict = "match" => \E p \in Passes : Whole(p)
    /\ verdict = "mismatch" =>
        /\ \A p \in Passes : ~Whole(p)
        /\ list # <<>> /\ Len(list) <= MaxMismatches
        /\ \A k \in DOMAIN list : Differs(list[k].at)
        /\ \A j, k \in DOMAIN list : j # k => Spans(list[j]) \cap Spans(list[k]) = {}
        /\ Len(list) < MaxMismatches =>
             \A i \in 0..(Len(written) - 1) :
                 Differs(i) => \E k \in DOMAIN list : i \in Spans(list[k])
=============================================================================
