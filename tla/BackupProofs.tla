---------------------------- MODULE BackupProofs ----------------------------
(***************************************************************************)
(* Proofs about Backup, for any source, chunk size, extents and options.   *)
(***************************************************************************)
EXTENDS Backup, SequenceTheorems, WellFoundedInduction, TLAPS

Rows == Seq(Sectors)
Copied(n) == SubSeq(source, 1, n)

(* The types a step keeps; what a qcow2 has not allocated reads as zeros.   *)
TypeInv ==
    /\ source \in Rows /\ file \in Rows /\ sourceBytes \in Nat
    /\ bytesRead \in 0..Len(source)
    /\ options.qcow2 => \A i \in 1..Len(source) : allocated[i] \/ source[i] = 0

(* The file ends where the zeros begin that were skipped since, and unless  *)
(* there are some it ends at the cursor.                                    *)
SparseInv ==
    /\ cursor = bytesRead /\ Len(file) <= bytesRead
    /\ \A i \in 1..Len(file) : file[i] = source[i]
    /\ \A i \in (Len(file) + 1)..bytesRead : source[i] = 0
    /\ ~truncate => Len(file) = bytesRead

(* Everything copied is held until the end. *)
HeldInv == file = <<>> /\ held = Copied(bytesRead)

CopyInv ==
    /\ digest = Copied(bytesRead)
    /\ outcome = "running" =>
        /\ ~swallowed
        /\ Sparse => SparseInv
        /\ ~Sparse => HeldInv

IInv == TypeInv /\ CopyInv /\ CopyIsFaithful

-----------------------------------------------------------------------------
(* A piece of a source is a row. *)
LEMMA PieceIsRow ==
    ASSUME NEW s \in Rows, NEW m \in 1..(Len(s) + 1), NEW n \in 0..Len(s)
    PROVE  /\ SubSeq(s, m, n) \in Rows
           /\ Len(SubSeq(s, m, n)) = IF m <= n THEN n - m + 1 ELSE 0
           /\ \A i \in 1..(n - m + 1) : SubSeq(s, m, n)[i] = s[m + i - 1]
<1>1. Len(s) \in Nat
  BY LenProperties DEF Rows
<1>2. \A i \in m..n : s[i] \in Sectors
  BY <1>1, ElementOfSeq DEF Rows
<1>3. QED
  BY <1>1, <1>2, SubSeqProperties DEF Rows

(* A row that agrees with the beginning of another is that beginning. *)
LEMMA BeginningIs ==
    ASSUME NEW f \in Rows, NEW s \in Rows, Len(f) <= Len(s),
           \A i \in 1..Len(f) : f[i] = s[i]
    PROVE  f = SubSeq(s, 1, Len(f))
<1>1. Len(f) \in Nat /\ Len(s) \in Nat
  BY LenProperties DEF Rows
<1>2. /\ SubSeq(s, 1, Len(f)) \in Rows
      /\ Len(SubSeq(s, 1, Len(f))) = Len(f)
      /\ \A i \in 1..Len(f) : SubSeq(s, 1, Len(f))[i] = s[i]
  BY <1>1, PieceIsRow
<1>3. QED
  BY <1>1, <1>2, SeqEqual DEF Rows

(* The piece that follows what was copied makes it longer. *)
LEMMA NextPiece ==
    ASSUME NEW s \in Rows, NEW b \in Nat, NEW n \in Nat \ {0}, b + n <= Len(s)
    PROVE  /\ SubSeq(s, 1, b) \o SubSeq(s, b + 1, b + n) = SubSeq(s, 1, b + n)
           /\ SubSeq(s, b + 1, b + n) \in Rows
           /\ Len(SubSeq(s, b + 1, b + n)) = n
           /\ \A i \in 1..n : SubSeq(s, b + 1, b + n)[i] = s[b + i]
<1>1. Len(s) \in Nat
  BY LenProperties DEF Rows
<1>2. /\ 1 \in 1..(Len(s) + 1) /\ b + 1 \in 1..(Len(s) + 1)
      /\ b \in (1 - 1)..Len(s) /\ b + n \in b..Len(s) /\ b + n \in 0..Len(s)
  BY <1>1
<1>3. SubSeq(s, 1, b) \o SubSeq(s, b + 1, b + n) = SubSeq(s, 1, b + n)
  BY <1>2, ConcatAdjacentSubSeq DEF Rows
<1>4. b + 1 <= b + n /\ (b + n) - (b + 1) + 1 = n /\ \A i \in 1..n : (b + 1) + i - 1 = b + i
  OBVIOUS
<1>5. /\ SubSeq(s, b + 1, b + n) \in Rows
      /\ Len(SubSeq(s, b + 1, b + n)) = (b + n) - (b + 1) + 1
      /\ \A i \in 1..((b + n) - (b + 1) + 1) :
            SubSeq(s, b + 1, b + n)[i] = s[(b + 1) + i - 1]
  BY <1>2, <1>4, PieceIsRow
<1>6. QED
  BY <1>3, <1>4, <1>5

(* A row of zeros. *)
LEMMA ZerosAre ==
    ASSUME 0 \in Sectors, NEW n \in Nat
    PROVE  Zeros(n) \in Rows /\ Len(Zeros(n)) = n /\ \A i \in 1..n : Zeros(n)[i] = 0
<1>1. Zeros(n) \in [1..n -> Sectors]
  BY DEF Zeros
<1>2. Zeros(n) \in Rows /\ DOMAIN Zeros(n) = 1..n
  BY <1>1, SeqDef DEF Rows
<1>3. Len(Zeros(n)) \in Nat /\ DOMAIN Zeros(n) = 1..Len(Zeros(n))
  BY <1>2, LenProperties DEF Rows
<1>4. QED
  BY <1>2, <1>3 DEF Zeros

(* What writing a row at the end of a file or behind it leaves. *)
LEMMA OverwrittenIs ==
    ASSUME 0 \in Sectors, NEW f \in Rows, NEW d \in Rows, NEW at \in Nat, Len(f) <= at
    PROVE  /\ Overwritten(f, at, d) \in Rows
           /\ Len(Overwritten(f, at, d)) = at + Len(d)
           /\ \A i \in 1..(at + Len(d)) :
                Overwritten(f, at, d)[i] = IF i > at THEN d[i - at]
                                           ELSE IF i \in 1..Len(f) THEN f[i] ELSE 0
<1> DEFINE o == Overwritten(f, at, d)
           k == at + Len(d)
<1>1. Len(f) \in Nat /\ DOMAIN f = 1..Len(f) /\ Len(d) \in Nat /\ k \in Nat
  BY LenProperties DEF Rows
<1>2. (IF at + Len(d) > Len(f) THEN at + Len(d) ELSE Len(f)) = k
  BY <1>1
<1>3. o = [i \in 1..k |-> IF i \in (at + 1)..(at + Len(d)) THEN d[i - at]
                          ELSE IF i \in DOMAIN f THEN f[i] ELSE 0]
  BY <1>2 DEF Overwritten
<1>4. ASSUME NEW i \in 1..k
      PROVE  /\ o[i] = IF i > at THEN d[i - at] ELSE IF i \in 1..Len(f) THEN f[i] ELSE 0
             /\ o[i] \in Sectors
  <2>1. i > at => i - at \in 1..Len(d) /\ i \in (at + 1)..(at + Len(d))
    BY <1>1
  <2>2. ~(i > at) => i \notin (at + 1)..(at + Len(d))
    BY <1>1
  <2>3. o[i] = IF i > at THEN d[i - at] ELSE IF i \in 1..Len(f) THEN f[i] ELSE 0
    BY <1>1, <1>3, <2>1, <2>2
  <2>4. QED
    BY <2>1, <2>3, ElementOfSeq DEF Rows
<1>5. o \in [1..k -> Sectors]
  BY <1>3, <1>4
<1>6. o \in Rows /\ DOMAIN o = 1..k
  BY <1>1, <1>5, SeqDef DEF Rows
<1>7. Len(o) \in Nat /\ DOMAIN o = 1..Len(o)
  BY <1>6, LenProperties DEF Rows
<1>8. Len(o) = k
  BY <1>1, <1>6, <1>7
<1>9. QED
  BY <1>4, <1>6, <1>8

-----------------------------------------------------------------------------
(* The next piece of the source, written by either writer. *)
LEMMA CopyStep ==
    ASSUME BackupAssumption, IInv, NEW n \in Nat \ {0}, bytesRead + n <= Len(source),
           Copy(SubSeq(source, bytesRead + 1, bytesRead + n))
    PROVE  IInv'
<1> DEFINE b == bytesRead
           d == SubSeq(source, b + 1, b + n)
<1>1. /\ source \in Rows /\ file \in Rows /\ b \in Nat /\ Len(source) \in Nat
      /\ Len(file) \in Nat /\ 0 \in Sectors
  BY LenProperties DEF IInv, TypeInv, BackupAssumption, Rows
<1>2. /\ Copied(b) \o d = Copied(b + n) /\ d \in Rows /\ Len(d) = n
      /\ \A i \in 1..n : d[i] = source[b + i]
  BY <1>1, NextPiece DEF Copied
<1>3. /\ outcome = "running" /\ outcome' = "running" /\ swallowed' = swallowed
      /\ UNCHANGED <<source, allocated, sourceBytes, options>>
      /\ digest' = digest \o d /\ bytesRead' = b + n
      /\ IF Sparse THEN WriteSparse(d) ELSE WriteHeld(d)
  BY <1>2 DEF Copy, sourceVars
<1>4. digest' = Copied(bytesRead)'
  BY <1>2, <1>3 DEF IInv, CopyInv, Copied
<1>5. ASSUME ~Sparse PROVE HeldInv' /\ file' \in Rows
  BY <1>1, <1>2, <1>3, <1>5 DEF IInv, CopyInv, HeldInv, WriteHeld, Copied
<1>6. ASSUME Sparse PROVE SparseInv' /\ file' \in Rows
  <2>1. SparseInv /\ cursor' = b + n
    BY <1>2, <1>3, <1>6 DEF IInv, CopyInv, SparseInv, WriteSparse
  <2>2. CASE d = Zeros(Len(d))
    <3>1. file' = file /\ truncate' = TRUE
      BY <1>3, <1>6, <2>2 DEF WriteSparse
    <3>2. ASSUME NEW i \in (b + 1)..(b + n) PROVE source[i] = 0
      <4>1. i - b \in 1..n /\ b + (i - b) = i
        BY <1>1
      <4>2. d[i - b] = 0
        BY <1>1, <1>2, <2>2, <4>1, ZerosAre
      <4>3. QED
        BY <1>2, <4>1, <4>2
    <3>3. \A i \in (Len(file) + 1)..(b + n) :
            i \in (Len(file) + 1)..b \/ i \in (b + 1)..(b + n)
      BY <1>1
    <3>4. QED
      BY <1>1, <1>3, <2>1, <3>1, <3>2, <3>3 DEF SparseInv
  <2>3. CASE d # Zeros(Len(d))
    <3>1. file' = Overwritten(file, b, d) /\ truncate' = FALSE
      BY <1>3, <1>6, <2>1, <2>3 DEF WriteSparse, SparseInv
    <3>2. /\ file' \in Rows /\ Len(file') = b + n
          /\ \A i \in 1..(b + n) :
                file'[i] = IF i > b THEN d[i - b] ELSE IF i \in 1..Len(file) THEN file[i] ELSE 0
      <4>1. Len(file) <= b
        BY <2>1 DEF SparseInv
      <4>2. /\ Overwritten(file, b, d) \in Rows
            /\ Len(Overwritten(file, b, d)) = b + Len(d)
            /\ \A i \in 1..(b + Len(d)) :
                 Overwritten(file, b, d)[i] = IF i > b THEN d[i - b]
                                              ELSE IF i \in 1..Len(file) THEN file[i] ELSE 0
        BY <1>1, <1>2, <4>1, OverwrittenIs
      <4>3. QED
        BY <1>2, <3>1, <4>2
    <3>3. ASSUME NEW i \in 1..(b + n) PROVE file'[i] = source[i]
      <4>1. CASE i > b
        <5>1. i - b \in 1..n /\ b + (i - b) = i
          BY <1>1, <4>1
        <5>2. QED
          BY <1>2, <3>2, <4>1, <5>1
      <4>2. CASE i \in 1..Len(file)
        BY <1>1, <2>1, <3>2, <4>2 DEF SparseInv
      <4>3. CASE ~(i > b) /\ i \notin 1..Len(file)
        <5>1. i \in (Len(file) + 1)..b
          BY <1>1, <4>3
        <5>2. QED
          BY <2>1, <3>2, <4>3, <5>1 DEF SparseInv
      <4>4. QED
        BY <1>1, <2>1, <4>1, <4>2, <4>3 DEF SparseInv
    <3>4. QED
      BY <1>1, <1>3, <2>1, <3>1, <3>2, <3>3 DEF SparseInv
  <2>4. QED
    BY <2>2, <2>3
<1>7. TypeInv'
  BY <1>1, <1>3, <1>5, <1>6 DEF IInv, TypeInv
<1>8. Sparse' = Sparse
  BY <1>3 DEF Sparse
<1>9. CopyInv' /\ CopyIsFaithful'
  BY <1>3, <1>4, <1>5, <1>6, <1>8 DEF IInv, CopyInv, CopyIsFaithful
<1>10. QED
  BY <1>7, <1>9 DEF IInv

(* A chunk as long as the read made it. *)
LEMMA ChunkKeeps ==
    ASSUME BackupAssumption, IInv, CopyChunk
    PROVE  IInv'
<1>1. /\ bytesRead \in Nat /\ sourceBytes \in Nat /\ Len(source) \in Nat
      /\ ChunkSectors \in Nat
  BY LenProperties DEF IInv, TypeInv, BackupAssumption, Rows
<1>2. PICK n \in 1..Least(ChunkSectors, Least(sourceBytes, Len(source)) - bytesRead) :
        Copy(SubSeq(source, bytesRead + 1, bytesRead + n))
  BY DEF CopyChunk
<1>3. n \in Nat \ {0} /\ bytesRead + n <= Len(source)
  BY <1>1 DEF Least
<1>4. QED
  BY <1>2, <1>3, CopyStep

(* An extent ends somewhere, and is allocated as its beginning is. *)
LEMMA ExtentIs ==
    ASSUME NEW i \in 1..Len(source), Len(source) \in Nat
    PROVE  /\ ExtentEnd(i) \in i..Len(source)
           /\ \A j \in i..ExtentEnd(i) : allocated[j] = allocated[i]
<1> DEFINE Ends == {e \in i..Len(source) :
                        e = Len(source) \/ allocated[e + 1] # allocated[i]}
           Fits(e) == /\ \A j \in i..e : allocated[j] = allocated[i]
                      /\ e = Len(source) \/ allocated[e + 1] # allocated[i]
<1>1. Ends \subseteq Nat /\ Len(source) \in Ends
  OBVIOUS
<1>2. PICK e \in Ends : \A y \in Ends : ~(<<y, e>> \in OpToRel(<, Nat))
  BY <1>1, WFMin, NatLessThanWellFounded
<1>3. \A y \in Ends : ~(y < e)
  BY <1>1, <1>2 DEF OpToRel
<1>4. ASSUME NEW j \in i..e PROVE allocated[j] = allocated[i]
  <2>1. CASE j = i
    BY <2>1
  <2>2. CASE j # i
    <3>1. j - 1 \in i..Len(source) /\ j - 1 < e /\ j - 1 # Len(source) /\ (j - 1) + 1 = j
      BY <1>1, <2>2
    <3>2. j - 1 \notin Ends
      BY <1>3, <3>1
    <3>3. QED
      BY <3>1, <3>2
  <2>3. QED
    BY <2>1, <2>2
<1>5. e \in i..Len(source) /\ Fits(e)
  BY <1>4
<1>6. ExtentEnd(i) = CHOOSE x \in i..Len(source) : Fits(x)
  BY DEF ExtentEnd
<1>7. ExtentEnd(i) \in i..Len(source) /\ Fits(ExtentEnd(i))
  BY <1>5, <1>6
<1>8. QED
  BY <1>7

(* A chunk of an extent, whether the qcow2 holds it or not. *)
LEMMA ExtentKeeps ==
    ASSUME BackupAssumption, IInv, CopyExtent
    PROVE  IInv'
<1> DEFINE first == bytesRead + 1
           last == Least(bytesRead + ChunkSectors, ExtentEnd(first))
           n == last - bytesRead
           d == SubSeq(source, first, last)
<1>1. /\ source \in Rows /\ bytesRead \in Nat /\ Len(source) \in Nat /\ 0 \in Sectors
      /\ ChunkSectors \in Nat \ {0} /\ bytesRead < Len(source)
  BY LenProperties DEF IInv, TypeInv, BackupAssumption, CopyExtent, Rows
<1>2. /\ ExtentEnd(first) \in first..Len(source)
      /\ \A j \in first..ExtentEnd(first) : allocated[j] = allocated[first]
  BY <1>1, ExtentIs
<1>3. /\ n \in Nat \ {0} /\ bytesRead + n = last /\ last <= Len(source)
      /\ last <= ExtentEnd(first)
  BY <1>1, <1>2 DEF Least
<1>4. ASSUME ~allocated[first] PROVE Zeros(n) = d
  <2>1. d \in Rows /\ Len(d) = n /\ \A i \in 1..n : d[i] = source[bytesRead + i]
    <3> DEFINE y == SubSeq(source, bytesRead + 1, bytesRead + n)
    <3>1. y \in Rows /\ Len(y) = n /\ \A i \in 1..n : y[i] = source[bytesRead + i]
      <4> HIDE DEF n
      <4>1. QED
        BY <1>1, <1>3, NextPiece
    <3>2. y = d
      BY <1>3
    <3>3. QED
      BY <3>1, <3>2
  <2>2. ASSUME NEW i \in 1..n PROVE source[bytesRead + i] = 0
    <3>1. bytesRead + i \in first..ExtentEnd(first) /\ bytesRead + i \in 1..Len(source)
      BY <1>1, <1>2, <1>3
    <3>2. ~allocated[bytesRead + i]
      BY <1>2, <1>4, <3>1
    <3>3. QED
      BY <3>1, <3>2 DEF IInv, TypeInv, CopyExtent
  <2>3. Zeros(n) \in Rows /\ Len(Zeros(n)) = n /\ \A i \in 1..n : Zeros(n)[i] = 0
    BY <1>1, <1>3, ZerosAre
  <2>4. QED
    BY <2>1, <2>2, <2>3, SeqEqual DEF Rows
<1>5. Copy(IF allocated[first] THEN d ELSE Zeros(n))
  BY DEF CopyExtent
<1>6. Copy(d)
  BY <1>4, <1>5
<1>7. QED
  BY <1>3, <1>6, CopyStep

-----------------------------------------------------------------------------
(* The last set_len gives the file the zeros that were skipped at its end.  *)
LEMMA SetLenIs ==
    ASSUME BackupAssumption, TypeInv, SparseInv
    PROVE  SetLen(file, cursor) = Copied(bytesRead)
<1> DEFINE b == bytesRead
           o == Overwritten(file, b, <<>>)
<1>1. /\ source \in Rows /\ file \in Rows /\ b \in Nat /\ Len(source) \in Nat /\ b <= Len(source)
      /\ Len(file) \in Nat /\ 0 \in Sectors /\ <<>> \in Rows /\ Len(<<>>) = 0
      /\ cursor = b /\ Len(file) <= b
  BY LenProperties, EmptySeq DEF TypeInv, BackupAssumption, Rows, SparseInv
<1>2. /\ o \in Rows /\ Len(o) = b
      /\ \A i \in 1..b : o[i] = IF i > b THEN <<>>[i - b] ELSE IF i \in 1..Len(file) THEN file[i] ELSE 0
  <2>1. /\ o \in Rows /\ Len(o) = b + Len(<<>>)
        /\ \A i \in 1..(b + Len(<<>>)) :
             o[i] = IF i > b THEN <<>>[i - b] ELSE IF i \in 1..Len(file) THEN file[i] ELSE 0
    BY <1>1, OverwrittenIs
  <2>2. b + Len(<<>>) = b
    BY <1>1
  <2>3. QED
    BY <2>1, <2>2
<1>3. ASSUME NEW i \in 1..b PROVE o[i] = source[i]
  <2>1. o[i] = IF i \in 1..Len(file) THEN file[i] ELSE 0
    BY <1>1, <1>2
  <2>2. i \in 1..Len(file) \/ i \in (Len(file) + 1)..b
    BY <1>1
  <2>3. QED
    BY <1>1, <2>1, <2>2 DEF SparseInv
<1>4. o = Copied(b)
  BY <1>1, <1>2, <1>3, BeginningIs DEF Copied
<1>5. SubSeq(o, 1, b) = o
  BY <1>2, SubSeqFull DEF Rows
<1>6. QED
  BY <1>1, <1>4, <1>5 DEF SetLen

(* What the dropped sparse writer leaves is a beginning of what was copied, *)
(* and all of it unless set_len failed.                                     *)
LEMMA DropIs ==
    ASSUME BackupAssumption, TypeInv, SparseInv, ~swallowed, DropSparse
    PROVE  /\ file' \in Rows
           /\ IF swallowed' THEN file' = SubSeq(Copied(bytesRead), 1, Len(file'))
              ELSE file' = Copied(bytesRead)
<1>1. /\ source \in Rows /\ file \in Rows /\ bytesRead \in 0..Len(source)
      /\ Len(source) \in Nat /\ Len(file) \in Nat /\ Len(file) <= bytesRead
      /\ \A i \in 1..Len(file) : file[i] = source[i]
  BY LenProperties DEF TypeInv, SparseInv, Rows
<1>2. /\ Copied(bytesRead) \in Rows /\ Len(Copied(bytesRead)) = bytesRead
      /\ \A i \in 1..bytesRead : Copied(bytesRead)[i] = source[i]
  <2>1. 1 \in 1..(Len(source) + 1) /\ bytesRead - 1 + 1 = bytesRead
        /\ (1 <= bytesRead \/ bytesRead = 0) /\ \A i \in 1..bytesRead : 1 + i - 1 = i
    BY <1>1
  <2>2. QED
    BY <1>1, <2>1, PieceIsRow DEF Copied
<1>3. file = SubSeq(Copied(bytesRead), 1, Len(file))
  BY <1>1, <1>2, BeginningIs
<1>4. CASE ~truncate /\ UNCHANGED <<file, swallowed>>
  <2>1. Len(file) = bytesRead /\ file = SubSeq(source, 1, Len(file))
    BY <1>1, <1>4, BeginningIs DEF SparseInv
  <2>2. QED
    BY <1>1, <1>4, <2>1 DEF Copied
<1>5. CASE truncate /\ file' = SetLen(file, cursor) /\ UNCHANGED swallowed
  BY <1>2, <1>5, SetLenIs
<1>6. CASE truncate /\ swallowed' = TRUE /\ UNCHANGED file
  BY <1>1, <1>3, <1>6
<1>7. QED
  BY <1>4, <1>5, <1>6 DEF DropSparse

(* What is flushed from the encoder. *)
LEMMA FlushIs ==
    ASSUME TypeInv, HeldInv
    PROVE  /\ held \in Rows /\ file \o held = Copied(bytesRead)
           /\ \A n \in 0..Len(held) : file \o SubSeq(held, 1, n) \in Rows
<1>1. source \in Rows /\ bytesRead \in 0..Len(source) /\ Len(source) \in Nat
  BY LenProperties DEF TypeInv, Rows
<1>2. held \in Rows /\ file = <<>> /\ file \in Rows
  BY <1>1, PieceIsRow DEF TypeInv, HeldInv, Copied
<1>3. file \o held = held
  BY <1>2, ConcatEmptySeq DEF Rows
<1>4. ASSUME NEW n \in 0..Len(held) PROVE file \o SubSeq(held, 1, n) \in Rows
  <2>1. Len(held) \in Nat
    BY <1>2, LenProperties DEF Rows
  <2>2. SubSeq(held, 1, n) \in Rows
    BY <1>2, <2>1, PieceIsRow
  <2>3. QED
    BY <1>2, <2>2, ConcatProperties DEF Rows
<1>5. QED
  BY <1>2, <1>3, <1>4 DEF HeldInv

(* What a backup that ends well leaves is what was copied, and that is all  *)
(* there was to copy.                                                       *)
LEMMA FinishKeeps ==
    ASSUME BackupAssumption, IInv, Finish
    PROVE  IInv'
<1>1. /\ outcome = "running" /\ AllRead /\ outcome' = "ok" /\ digest' = digest
      /\ UNCHANGED <<source, allocated, sourceBytes, options, bytesRead>>
  BY DEF Finish, sourceVars
<1>2. /\ file' \in Rows
      /\ IF swallowed' THEN file' = SubSeq(Copied(bytesRead), 1, Len(file'))
         ELSE file' = Copied(bytesRead)
  <2>1. CASE Sparse
    BY <1>1, <2>1, DropIs DEF Finish, IInv, CopyInv
  <2>2. CASE ~Sparse
    <3>1. file' = file \o held /\ swallowed' = swallowed /\ ~swallowed /\ HeldInv
      BY <1>1, <2>2 DEF Finish, IInv, CopyInv
    <3>2. TypeInv
      BY DEF IInv
    <3>3. /\ source \in Rows /\ bytesRead \in 0..Len(source) /\ Len(source) \in Nat
      BY <3>2, LenProperties DEF TypeInv, Rows
    <3>4. Copied(bytesRead) \in Rows
      BY <3>3, PieceIsRow DEF Copied
    <3>5. QED
      BY <3>1, <3>2, <3>4, FlushIs
  <2>3. QED
    BY <2>1, <2>2
<1>3. Copied(bytesRead) = SubSeq(source, 1, IF options.qcow2 THEN Len(source)
                                            ELSE Least(sourceBytes, Len(source)))
  BY <1>1 DEF AllRead, Copied
<1>4. TypeInv'
  BY <1>1, <1>2 DEF IInv, TypeInv
<1>5. digest' = Copied(bytesRead)' /\ digest' = Copied(bytesRead)
  BY <1>1 DEF IInv, CopyInv, Copied
<1>6. CopyInv'
  BY <1>1, <1>5 DEF CopyInv
<1>7. CopyIsFaithful'
  BY <1>1, <1>2, <1>3, <1>5 DEF CopyIsFaithful
<1>8. QED
  BY <1>4, <1>6, <1>7 DEF IInv

(* A backup that fails promises nothing of the file. *)
LEMMA FailsKeeps ==
    ASSUME BackupAssumption, IInv, Fails
    PROVE  IInv'
<1>1. /\ outcome = "running" /\ outcome' = "error" /\ digest' = digest
      /\ UNCHANGED <<source, allocated, sourceBytes, options, bytesRead>>
  BY DEF Fails, sourceVars
<1>2. file' \in Rows
  <2>1. CASE Sparse
    BY <1>1, <2>1, DropIs DEF Fails, IInv, CopyInv
  <2>2. CASE ~Sparse
    <3>1. PICK n \in 0..Len(held) : file' = file \o SubSeq(held, 1, n)
      BY <2>2 DEF Fails
    <3>2. QED
      BY <1>1, <2>2, <3>1, FlushIs DEF IInv, CopyInv
  <2>3. QED
    BY <2>1, <2>2
<1>3. TypeInv' /\ CopyInv' /\ CopyIsFaithful'
  BY <1>1, <1>2 DEF IInv, TypeInv, CopyInv, CopyIsFaithful, Copied
<1>4. QED
  BY <1>3 DEF IInv

(* A backup that starts has copied nothing. *)
LEMMA StartIs ==
    ASSUME NEW n \in Nat, NEW s \in [1..n -> Sectors], NEW a, NEW size \in Nat, NEW o,
           o.qcow2 => \A i \in 1..n : a[i] \/ s[i] = 0,
           Start(s, a, size, o)
    PROVE  IInv
<1>1. /\ source = s /\ allocated = a /\ sourceBytes = size /\ options = o /\ bytesRead = 0
      /\ file = <<>> /\ held = <<>> /\ cursor = 0 /\ truncate = FALSE /\ digest = <<>>
      /\ outcome = "running" /\ swallowed = FALSE
  BY DEF Start
<1>2. source \in Rows /\ DOMAIN source = 1..n
  BY <1>1, SeqDef DEF Rows
<1>3. Len(source) \in Nat /\ DOMAIN source = 1..Len(source)
  BY <1>2, LenProperties DEF Rows
<1>4. Len(source) = n
  BY <1>2, <1>3
<1>5. <<>> \in Rows /\ Len(<<>>) = 0
  BY EmptySeq DEF Rows
<1>6. Copied(0) = <<>>
  BY SubSeqEmpty DEF Copied
<1>7. TypeInv
  BY <1>1, <1>2, <1>3, <1>4, <1>5 DEF TypeInv
<1>8. SparseInv /\ HeldInv
  BY <1>1, <1>5, <1>6 DEF SparseInv, HeldInv
<1>9. QED
  BY <1>1, <1>6, <1>7, <1>8 DEF IInv, CopyInv, CopyIsFaithful

(* Every source, extent map and choice of options is a start. *)
LEMMA InitIs == Init => IInv
<1> SUFFICES ASSUME Init PROVE IInv
  OBVIOUS
<1>1. PICK n \in 0..MaxSource : \E s \in [1..n -> Sectors], a \in [1..n -> BOOLEAN],
           size \in {n - 1, n, n + 1} \cap Nat,
           o \in [qcow2 : BOOLEAN, sparse : BOOLEAN, compressed : BOOLEAN] :
          /\ o.qcow2 => \A i \in 1..n : a[i] \/ s[i] = 0
          /\ Start(s, a, size, o)
  BY DEF Init
<1>2. n \in Nat
  OBVIOUS
<1>3. QED
  BY <1>1, <1>2, StartIs

(* From a backup that starts, every step keeps the invariant. *)
THEOREM FaithfulFrom ==
    ASSUME BackupAssumption
    PROVE  IInv /\ [][Next]_vars => []CopyIsFaithful
<1>1. IInv /\ [Next]_vars => IInv'
  <2> SUFFICES ASSUME IInv, [Next]_vars PROVE IInv'
    OBVIOUS
  <2>1. CASE UNCHANGED vars
    BY <2>1 DEF vars, sourceVars, IInv, TypeInv, CopyInv, SparseInv, HeldInv, Sparse, Copied,
       CopyIsFaithful
  <2>2. QED
    BY <2>1, ChunkKeeps, ExtentKeeps, FinishKeeps, FailsKeeps DEF Next
<1>2. IInv => CopyIsFaithful
  BY DEF IInv
<1>3. QED
  BY <1>1, <1>2, PTL

(* A backup that ends well left an image of the source, whatever its size,  *)
(* its extents, the chunks it was read in and the writer it went through.   *)
THEOREM CopiesAreFaithful ==
    ASSUME BackupAssumption
    PROVE  Spec => []CopyIsFaithful
BY InitIs, FaithfulFrom, PTL DEF Spec
=============================================================================
