------------------------------- MODULE Backup -------------------------------
(***************************************************************************)
(* One backup of a device, a file or a qcow2 disk into an image file:      *)
(* run_backup of src-tauri/src/commands.rs and cli.rs, the copy loops of   *)
(* backup.rs and the sparse writer of sparse.rs.  Source and file are      *)
(* counted in sectors; 0 is the sector of zeros.                           *)
(***************************************************************************)
EXTENDS Integers, Sequences

CONSTANTS
    Sectors,        \* what a sector may hold; 0 is one of them
    MaxSource,      \* longest source
    ChunkSectors    \* chunk_size

BackupAssumption ==
    /\ 0 \in Sectors /\ MaxSource \in Nat /\ ChunkSectors \in Nat \ {0}

VARIABLES
    source,      \* the sectors of the source, of the virtual disk for a qcow2
    allocated,   \* which of them a qcow2 holds; all of them for another source
    sourceBytes, \* its size as probe_source_size found it
    options,     \* [qcow2, sparse, compressed]
    bytesRead,   \* sectors copied so far
    file,        \* the output file, decompressed
    held,        \* sectors the encoder or the BufWriter has not let go of
    cursor,      \* the sparse writer's position
    truncate,    \* its needs_truncate
    digest,      \* what the SHA-256 was fed with
    outcome,     \* "running", "ok" or "error"
    swallowed    \* history: set_len failed in its Drop

sourceVars == <<source, allocated, sourceBytes, options>>
vars == <<sourceVars, bytesRead, file, held, cursor, truncate, digest, outcome, swallowed>>

Least(m, n) == IF m < n THEN m ELSE n

Zeros(n) == [i \in 1..n |-> 0]

(* Sparse is ignored for a compressed backup. *)
Sparse == options.sparse /\ ~options.compressed

(* File::create has truncated what was there. *)
Start(s, a, size, o) ==
    /\ source = s /\ allocated = a /\ sourceBytes = size /\ options = o
    /\ bytesRead = 0 /\ file = <<>> /\ held = <<>>
    /\ cursor = 0 /\ truncate = FALSE
    /\ digest = <<>> /\ outcome = "running" /\ swallowed = FALSE

(* The source may have grown or shrunk since its size was asked for; what a *)
(* qcow2 has not allocated reads as zeros.                                  *)
Init ==
    \E n \in 0..MaxSource :
      \E s \in [1..n -> Sectors], a \in [1..n -> BOOLEAN],
         size \in {n - 1, n, n + 1} \cap Nat,
         o \in [qcow2 : BOOLEAN, sparse : BOOLEAN, compressed : BOOLEAN] :
        /\ IF o.qcow2 THEN size = n /\ \A i \in 1..n : a[i] \/ s[i] = 0
           ELSE \A i \in 1..n : a[i]
        /\ Start(s, a, size, o)

-----------------------------------------------------------------------------
(* write_all of a sector sequence at an offset of a file; a gap before it   *)
(* is a hole.                                                               *)
Overwritten(f, at, data) ==
    [i \in 1..(IF at + Len(data) > Len(f) THEN at + Len(data) ELSE Len(f)) |->
        IF i \in (at + 1)..(at + Len(data)) THEN data[i - at]
        ELSE IF i \in DOMAIN f THEN f[i] ELSE 0]

SetLen(f, n) == SubSeq(Overwritten(f, n, <<>>), 1, n)

(* SparseFileWriter::write: a chunk of zeros only moves the cursor. *)
WriteSparse(data) ==
    /\ IF data = Zeros(Len(data)) THEN truncate' = TRUE /\ UNCHANGED file
       ELSE truncate' = FALSE /\ file' = Overwritten(file, cursor, data)
    /\ cursor' = cursor + Len(data)
    /\ UNCHANGED held

WriteHeld(data) == held' = held \o data /\ UNCHANGED <<file, cursor, truncate>>

Copy(data) ==
    /\ outcome = "running"
    /\ IF Sparse THEN WriteSparse(data) ELSE WriteHeld(data)
    /\ digest' = digest \o data
    /\ bytesRead' = bytesRead + Len(data)
    /\ UNCHANGED <<sourceVars, outcome, swallowed>>

(* run: a read of at most a chunk, of what is left of source_bytes. *)
CopyChunk ==
    /\ ~options.qcow2
    /\ \E n \in 1..Least(ChunkSectors, Least(sourceBytes, Len(source)) - bytesRead) :
        Copy(SubSeq(source, bytesRead + 1, bytesRead + n))

ExtentEnd(i) ==
    CHOOSE e \in i..Len(source) :
        /\ \A j \in i..e : allocated[j] = allocated[i]
        /\ e = Len(source) \/ allocated[e + 1] # allocated[i]

(* run_qcow2_to_file: a chunk of an extent, read if the qcow2 holds it. *)
CopyExtent ==
    /\ options.qcow2 /\ bytesRead < Len(source)
    /\ LET first == bytesRead + 1
           last == Least(bytesRead + ChunkSectors, ExtentEnd(first))
       IN  Copy(IF allocated[first] THEN SubSeq(source, first, last)
                ELSE Zeros(last - bytesRead))

AllRead == bytesRead = IF options.qcow2 THEN Len(source)
                       ELSE Least(sourceBytes, Len(source))

(* Drop of the sparse writer, whose error nobody sees. *)
DropSparse ==
    \/ ~truncate /\ UNCHANGED <<file, swallowed>>
    \/ truncate /\ file' = SetLen(file, cursor) /\ UNCHANGED swallowed
    \/ truncate /\ swallowed' = TRUE /\ UNCHANGED file

(* Bug: the length of a file that ends in zeros is left to the last write. *)
FinishWithoutTruncate ==
    /\ outcome = "running" /\ AllRead
    /\ file' = file \o held
    /\ held' = <<>> /\ outcome' = "ok"
    /\ UNCHANGED <<sourceVars, bytesRead, cursor, truncate, digest, swallowed>>

(* finish flushes the encoder into the file; the writer is then dropped. *)
Finish ==
    /\ outcome = "running" /\ AllRead
    /\ IF Sparse THEN DropSparse
       ELSE file' = file \o held /\ UNCHANGED swallowed
    /\ held' = <<>> /\ outcome' = "ok"
    /\ UNCHANGED <<sourceVars, bytesRead, cursor, truncate, digest>>

(* A read, a write or the final flush fails.  The file stays behind with    *)
(* what reached it.                                                         *)
Fails ==
    /\ outcome = "running"
    /\ outcome' = "error"
    /\ IF Sparse THEN DropSparse
       ELSE \E n \in 0..Len(held) :
              file' = file \o SubSeq(held, 1, n) /\ UNCHANGED swallowed
    /\ held' = <<>>
    /\ UNCHANGED <<sourceVars, bytesRead, cursor, truncate, digest>>

Next == CopyChunk \/ CopyExtent \/ Finish \/ Fails

Spec == Init /\ [][Next]_vars

-----------------------------------------------------------------------------
(* A backup that reports success left an image of the source: every sector  *)
(* up to the size asked for, at its place, zeros that were skipped or never *)
(* read included and the length too, whatever writer, encoder and extents   *)
(* it went through, and the digest reported is that of the image.  The one  *)
(* exception is a set_len that failed unseen: the file is then a prefix.    *)
CopyIsFaithful ==
    outcome = "ok" =>
        LET image == SubSeq(source, 1, IF options.qcow2 THEN Len(source)
                                       ELSE Least(sourceBytes, Len(source)))
        IN  /\ digest = image
            /\ IF swallowed THEN file = SubSeq(image, 1, Len(file)) ELSE file = image
=============================================================================
