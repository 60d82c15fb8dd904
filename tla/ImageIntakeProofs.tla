------------------------- MODULE ImageIntakeProofs -------------------------
(***************************************************************************)
(* Proofs about ImageIntake, for any URLs, any number of downloads and     *)
(* scans at work at the same time, and bodies of any length.               *)
(***************************************************************************)
EXTENDS ImageIntake, SequenceTheorems, FiniteSetTheorems, TLAPS

(* What a file may hold and how far a thread may be.                        *)
FileRec == [data : Seq(Urls \cup {Null}), mtime : Nat, made : BOOLEAN]
GetRec == [url : Urls \cup {Null}, pc : {"none", "request", "body", "flush", "leave", "done"},
           done : Nat, flag : BOOLEAN, end : {"none", "ok", "error"}]
Active(d) == get[d].pc \notin {"none", "done"}

FetchTypes ==
    /\ clock \in Nat
    /\ files \in [Paths -> FileRec]
    /\ get \in [Downloads -> GetRec]
    /\ \A d \in Downloads : Active(d) => get[d].url \in Urls \ Foreign
    /\ alone \subseteq Downloads

(* A thread that had the file to itself wrote the beginning of its body and *)
(* nothing else, and goes on to the flush with all of it, if it knows how   *)
(* long that is.                                                            *)
HasWritten(d) ==
    /\ get[d].done <= Blocks
    /\ files[Dest(d)].data = [i \in 1..get[d].done |-> get[d].url]
    /\ get[d].pc = "flush" /\ get[d].url \notin Unsized => get[d].done = Blocks
    /\ \A e \in Downloads : HasFile(e) /\ Dest(e) = Dest(d) => e = d

FetchInv ==
    /\ FetchTypes
    /\ \A d \in Downloads : get[d].pc \in {"none", "request"} => get[d].done = 0
    /\ \A d \in alone : HasFile(d) => HasWritten(d)

(* No file is there and no thread has begun. *)
LEMMA FetchStarts == ASSUME IntakeAssumption, Init PROVE FetchInv
<1>1. NoFile \in FileRec /\ NoGet \in GetRec
  BY EmptySeq DEF NoFile, NoGet, FileRec, GetRec
<1>2. \A d \in Downloads : get[d] = NoGet
  BY DEF Init
<1>3. \A d \in Downloads : ~Active(d)
  BY <1>2 DEF Active, NoGet
<1>4. FetchTypes
  BY <1>1, <1>3 DEF Init, FetchTypes
<1>5. alone = Downloads
  BY DEF Init
<1>6. QED
  BY <1>2, <1>4, <1>5 DEF FetchInv, HasFile, NoGet

(* A thread at work writes under a name that is derived from its URL. *)
LEMMA DestIsPath ==
    ASSUME FetchTypes, NEW d \in Downloads, Active(d)
    PROVE  Dest(d) \in Paths
BY DEF FetchTypes, Dest, Paths

(* Intervals from 1 tell their ends. *)
LEMMA SameInterval == ASSUME NEW m \in Nat, NEW n \in Nat, 1..m = 1..n PROVE m = n
<1>1. Cardinality(1..m) = m /\ Cardinality(1..n) = n
  BY FS_Interval
<1>2. QED
  BY <1>1

(* Put keeps to rows of blocks, and makes n blocks of one URL n + 1. *)
LEMMA PutIs ==
    ASSUME IntakeAssumption, NEW u \in Urls, NEW data \in Seq(Urls \cup {Null}), NEW k \in Nat \ {0}
    PROVE  /\ Put(data, k, u) \in Seq(Urls \cup {Null})
           /\ \A n \in Nat : k = n + 1 /\ data = [i \in 1..n |-> u] =>
                 Put(data, k, u) = [i \in 1..k |-> u]
<1> DEFINE m == IF k > Len(data) THEN k ELSE Len(data)
           x(i) == IF i = k THEN u ELSE IF i <= Len(data) THEN data[i] ELSE Null
<1>1. Len(data) \in Nat /\ data \in [1..Len(data) -> Urls \cup {Null}] /\ m \in Nat
  BY LenProperties
<1>2. ASSUME NEW i \in 1..m PROVE x(i) \in Urls \cup {Null}
  <2>1. i \in Nat /\ (i <= Len(data) => i \in 1..Len(data))
    BY <1>1
  <2> HIDE DEF m
  <2>2. QED
    BY <1>1, <2>1
<1>3. Put(data, k, u) = [i \in 1..m |-> x(i)]
  BY DEF Put
<1>4. [i \in 1..m |-> x(i)] \in [1..m -> Urls \cup {Null}]
  BY <1>2
<1>5. Put(data, k, u) \in Seq(Urls \cup {Null})
  BY <1>1, <1>3, <1>4, SeqDef
<1>6. ASSUME NEW n \in Nat, k = n + 1, data = [i \in 1..n |-> u]
      PROVE  Put(data, k, u) = [i \in 1..k |-> u]
  <2>1. Len(data) = n
    <3>1. 1..n = 1..Len(data)
      BY <1>6, LenProperties
    <3>2. QED
      BY <1>1, <3>1, SameInterval
  <2>2. m = k /\ \A i \in 1..k : x(i) = u
    BY <1>6, <2>1
  <2> HIDE DEF m, x
  <2>3. QED
    BY <1>3, <2>2
<1>7. QED
  BY <1>5, <1>6

(* Nobody but the download threads writes to files or to what they keep.    *)
LEMMA OthersKeepFetch ==
    ASSUME FetchInv, UNCHANGED <<files, fetchVars>>, clock' \in Nat
    PROVE  FetchInv'
BY DEF fetchVars, FetchInv, FetchTypes, Active, HasFile, HasWritten, Dest

(* A step of one thread on its own record. *)
Gets(d, r) ==
    /\ get' = [get EXCEPT ![d] = r]
    /\ r \in GetRec
    /\ r.pc \notin {"none", "done"} => r.url \in Urls \ Foreign
    /\ r.pc \in {"none", "request"} => r.done = 0

(* What such a step leaves of the threads. *)
LEMMA GetsTypes ==
    ASSUME FetchInv, NEW d \in Downloads, NEW r, Gets(d, r),
           files' \in [Paths -> FileRec], clock' = clock, alone' \subseteq alone
    PROVE  /\ FetchTypes' /\ get'[d] = r
           /\ \A e \in Downloads : get'[e].pc \in {"none", "request"} => get'[e].done = 0
           /\ \A e \in Downloads \ {d} : get'[e] = get[e]
<1>1. get \in [Downloads -> GetRec]
  BY DEF FetchInv, FetchTypes
<1>2. get'[d] = r /\ get' \in [Downloads -> GetRec] /\ \A e \in Downloads \ {d} : get'[e] = get[e]
  BY <1>1 DEF Gets
<1>3. \A e \in Downloads : Active(e)' => get'[e].url \in Urls \ Foreign
  BY <1>2 DEF Gets, Active, FetchInv, FetchTypes
<1>4. \A e \in Downloads : get'[e].pc \in {"none", "request"} => get'[e].done = 0
  BY <1>2 DEF Gets, FetchInv
<1>5. QED
  BY <1>2, <1>3, <1>4 DEF FetchInv, FetchTypes

(* A thread that does not come to a file, or leaves its own.                *)
LEMMA NoWriteKeepsFetch ==
    ASSUME FetchInv, NEW d \in Downloads, NEW r, Gets(d, r), UNCHANGED <<files, clock, alone>>,
           \/ r.pc \notin {"body", "flush"}
           \/ /\ HasFile(d) /\ r.url = get[d].url /\ r.done = get[d].done
              /\ r.pc = "flush" /\ get[d].pc # "flush" /\ r.url \notin Unsized => r.done = Blocks
    PROVE  FetchInv'
<1>1. /\ FetchTypes' /\ get'[d] = r
      /\ \A e \in Downloads : get'[e].pc \in {"none", "request"} => get'[e].done = 0
      /\ \A e \in Downloads \ {d} : get'[e] = get[e]
  BY GetsTypes DEF FetchInv, FetchTypes
<1>2. \A e \in Downloads : HasFile(e)' => HasFile(e) /\ Dest(e)' = Dest(e)
  BY <1>1 DEF HasFile, Dest
<1>3. ASSUME NEW e \in alone, HasFile(e)' PROVE HasWritten(e)'
  <2>1. e \in Downloads /\ HasFile(e) /\ HasWritten(e) /\ get'[e].url = get[e].url
        /\ get'[e].done = get[e].done
    BY <1>1, <1>2, <1>3 DEF FetchInv, FetchTypes, HasFile
  <2>2. get'[e].pc = "flush" /\ get'[e].url \notin Unsized => get'[e].done = Blocks
    BY <1>1, <1>3, <2>1 DEF HasFile, HasWritten
  <2>3. QED
    BY <1>2, <1>3, <2>1, <2>2 DEF HasWritten
<1>4. QED
  BY <1>1, <1>3 DEF FetchInv

(* A thread writes to its file, at the next block or at the start of an     *)
(* emptied one; other threads with this file are not alone any more.        *)
LEMMA WriteKeepsFetch ==
    ASSUME FetchInv, NEW d \in Downloads, NEW r, Gets(d, r), NEW f \in FileRec,
           r.pc = "body", Active(d), r.url = get[d].url, clock' = clock,
           files' = [files EXCEPT ![Dest(d)] = f], alone' \subseteq alone,
           \A e \in alone' \ {d} : HasFile(e) => Dest(e) # Dest(d),
           d \in alone' => /\ \A e \in Downloads \ {d} : HasFile(e) => Dest(e) # Dest(d)
                          /\ r.done <= Blocks /\ f.data = [i \in 1..r.done |-> r.url]
    PROVE  FetchInv'
<1>1. /\ files \in [Paths -> FileRec] /\ Dest(d) \in Paths /\ alone \subseteq Downloads
      /\ get[d].url \in Urls /\ get \in [Downloads -> GetRec]
  BY DestIsPath DEF FetchInv, FetchTypes
<1>2. /\ files' \in [Paths -> FileRec] /\ files'[Dest(d)] = f
      /\ \A p \in Paths \ {Dest(d)} : files'[p] = files[p]
  BY <1>1
<1>3. /\ FetchTypes' /\ get'[d] = r
      /\ \A e \in Downloads : get'[e].pc \in {"none", "request"} => get'[e].done = 0
      /\ \A e \in Downloads \ {d} : get'[e] = get[e]
  BY <1>2, GetsTypes
<1>4. \A e \in Downloads : Dest(e)' = Dest(e)
  BY <1>3 DEF Dest
<1>5. \A e \in Downloads \ {d} : HasFile(e)' = HasFile(e)
  BY <1>3 DEF HasFile
<1>6. ASSUME d \in alone' PROVE HasWritten(d)'
  <2>1. files'[Dest(d)'].data = [i \in 1..get'[d].done |-> get'[d].url]
    BY <1>2, <1>3, <1>4, <1>6
  <2>2. get'[d].pc = "body" /\ get'[d].done <= Blocks
    BY <1>3, <1>6
  <2>3. \A e \in Downloads : HasFile(e)' /\ Dest(e)' = Dest(d)' => e = d
    BY <1>4, <1>5, <1>6
  <2>4. QED
    BY <2>1, <2>2, <2>3 DEF HasWritten
<1>7. ASSUME NEW e \in alone' \ {d}, HasFile(e)' PROVE HasWritten(e)'
  <2>1. e \in alone /\ e \in Downloads /\ HasFile(e) /\ get'[e] = get[e] /\ Dest(e) # Dest(d)
    BY <1>1, <1>3, <1>5, <1>7
  <2>2. Dest(e) \in Paths
    BY <2>1, DestIsPath DEF FetchInv, HasFile, Active
  <2>3. HasWritten(e) /\ files'[Dest(e)] = files[Dest(e)]
    BY <1>2, <2>1, <2>2 DEF FetchInv
  <2>4. \A g \in Downloads : HasFile(g)' /\ Dest(g)' = Dest(e)' => g = e
    BY <1>4, <1>5, <2>1, <2>3 DEF HasWritten
  <2>5. QED
    BY <1>4, <2>1, <2>3, <2>4 DEF HasWritten
<1>8. QED
  BY <1>3, <1>6, <1>7 DEF FetchInv

(* The request: File::create empties the file, and tells who had it to      *)
(* itself.                                                                  *)
LEMMA RequestKeepsFetch ==
    ASSUME IntakeAssumption, FetchInv, NEW d \in Downloads, Request(d)
    PROVE  FetchInv'
<1> DEFINE r(pc, end) == [get[d] EXCEPT !.pc = pc, !.end = end]
<1>1. /\ get[d] \in GetRec /\ get[d].pc = "request" /\ get[d].done = 0 /\ Active(d)
      /\ get[d].url \in Urls \ Foreign
  BY DEF FetchInv, FetchTypes, Active, Request
<1>2. ASSUME NEW pc \in {"leave", "body"}, NEW end \in {"none", "error"}, GetTo(d, pc, end)
      PROVE  Gets(d, r(pc, end)) /\ r(pc, end).pc = pc /\ r(pc, end).done = 0
             /\ r(pc, end).url = get[d].url
  BY <1>1, <1>2 DEF GetTo, Gets, GetRec
<1>3. CASE GetTo(d, "leave", "error") /\ UNCHANGED <<files, alone>>
  <2>1. Gets(d, r("leave", "error")) /\ r("leave", "error").pc = "leave" /\ clock' = clock
    BY <1>2, <1>3 DEF Request
  <2> HIDE DEF r
  <2>2. QED
    BY <1>3, <2>1, NoWriteKeepsFetch
<1>4. CASE GetTo(d, "body", "none")
  <2> DEFINE f == [data |-> <<>>, mtime |-> clock, made |-> TRUE]
             other == {e \in Downloads \ {d} : HasFile(e) /\ Dest(e) = Dest(d)}
  <2>1. get'[d].pc = "body"
    BY <1>1, <1>4 DEF GetTo, FetchInv, FetchTypes, GetRec
  <2>2. /\ files' = [files EXCEPT ![Dest(d)] = f] /\ clock' = clock
        /\ alone' = IF other = {} THEN alone ELSE alone \ (other \cup {d})
    BY <2>1, <1>1 DEF Request, GetTo, FetchInv, FetchTypes, GetRec
  <2>3. f \in FileRec /\ f.data = [i \in 1..0 |-> get[d].url]
    <3>1. <<>> = [i \in 1..0 |-> get[d].url]
      OBVIOUS
    <3>2. QED
      BY <3>1, EmptySeq DEF FileRec, FetchInv, FetchTypes
  <2>4. /\ alone' \subseteq alone
        /\ \A e \in alone' \ {d} : HasFile(e) => Dest(e) # Dest(d)
        /\ d \in alone' => \A e \in Downloads \ {d} : HasFile(e) => Dest(e) # Dest(d)
    BY <2>2 DEF FetchInv, FetchTypes
  <2>5. Gets(d, r("body", "none")) /\ r("body", "none").pc = "body" /\ r("body", "none").done = 0
        /\ r("body", "none").url = get[d].url
    BY <1>2, <1>4
  <2>6. 0 <= Blocks
    BY DEF IntakeAssumption
  <2> HIDE DEF r, f, other
  <2>7. QED
    BY <1>1, <2>2, <2>3, <2>4, <2>5, <2>6, WriteKeepsFetch
<1>5. QED
  BY <1>3, <1>4 DEF Request

(* One turn of the loop. *)
LEMMA BodyKeepsFetch ==
    ASSUME IntakeAssumption, FetchInv, NEW d \in Downloads, Body(d)
    PROVE  FetchInv'
<1> DEFINE r(pc, end) == [get[d] EXCEPT !.pc = pc, !.end = end]
           n == [get[d] EXCEPT !.done = @ + 1]
<1>1. /\ get[d] \in GetRec /\ get[d].pc = "body" /\ Active(d) /\ HasFile(d)
      /\ get[d].url \in Urls \ Foreign /\ UNCHANGED <<clock, alone>>
  BY DEF FetchInv, FetchTypes, Active, Body, HasFile
<1>2. CASE GetTo(d, "leave", "error") /\ UNCHANGED files
  <2>1. Gets(d, r("leave", "error")) /\ r("leave", "error").pc = "leave"
    BY <1>1, <1>2 DEF GetTo, Gets, GetRec
  <2> HIDE DEF r
  <2>2. QED
    BY <1>1, <1>2, <2>1, NoWriteKeepsFetch
<1>3. CASE /\ get[d].done = Blocks \/ get[d].url \in Unsized
           /\ GetTo(d, "flush", "none") /\ UNCHANGED files
  <2>1. /\ Gets(d, r("flush", "none")) /\ r("flush", "none").done = get[d].done
        /\ r("flush", "none").url = get[d].url
    BY <1>1, <1>3 DEF GetTo, Gets, GetRec
  <2> HIDE DEF r
  <2>2. QED
    BY <1>1, <1>3, <2>1, NoWriteKeepsFetch
<1>4. CASE WriteBlock(d)
  <2> DEFINE k == get[d].done + 1
             data == Put(files[Dest(d)].data, k, get[d].url)
             f == [files[Dest(d)] EXCEPT !.data = data, !.mtime = clock]
  <2>1. /\ files[Dest(d)] \in FileRec /\ files \in [Paths -> FileRec] /\ clock \in Nat
        /\ Dest(d) \in Paths
    BY <1>1, DestIsPath DEF FetchInv, FetchTypes
  <2>2. k \in Nat \ {0} /\ k <= Blocks
    BY <1>1, <1>4 DEF WriteBlock, GetRec, IntakeAssumption
  <2>3. data \in Seq(Urls \cup {Null})
    BY <1>1, <2>1, <2>2, PutIs DEF FileRec
  <2>4. ASSUME d \in alone PROVE data = [i \in 1..k |-> get[d].url]
    <3> DEFINE j == get[d].done
               before == files[Dest(d)].data
    <3>1. before = [i \in 1..j |-> get[d].url] /\ before \in Seq(Urls \cup {Null})
      BY <1>1, <2>1, <2>4 DEF FetchInv, HasWritten, FileRec
    <3>2. j \in Nat /\ k = j + 1 /\ get[d].url \in Urls
      BY <1>1 DEF GetRec
    <3>3. data = Put(before, k, get[d].url)
      OBVIOUS
    <3> HIDE DEF j, before, k, data
    <3>4. QED
      BY <2>2, <3>1, <3>2, <3>3, PutIs
  <2>5. f \in FileRec /\ f.data = data
    <3> HIDE DEF data
    <3>1. QED
      BY <2>1, <2>3 DEF FileRec
  <2>6. files' = [files EXCEPT ![Dest(d)] = f]
    BY <1>4, <2>1 DEF WriteBlock, FileRec
  <2>7. Gets(d, n) /\ n.pc = "body" /\ n.url = get[d].url /\ n.done = k
    BY <1>1, <1>4 DEF WriteBlock, Gets, GetRec
  <2>8. \A e \in alone : HasFile(e) /\ e # d => Dest(e) # Dest(d)
    BY <1>1 DEF FetchInv, FetchTypes, HasWritten
  <2>9. d \in alone => \A e \in Downloads \ {d} : HasFile(e) => Dest(e) # Dest(d)
    BY <1>1 DEF FetchInv, HasWritten
  <2> HIDE DEF n, f, k, data
  <2>10. QED
    BY <1>1, <2>2, <2>4, <2>5, <2>6, <2>7, <2>8, <2>9, WriteKeepsFetch
<1>5. QED
  BY <1>2, <1>3, <1>4 DEF Body

(* Every step of a download thread. *)
LEMMA ThreadKeepsFetch ==
    ASSUME IntakeAssumption, FetchInv, NEW d \in Downloads, Fetch(d)
    PROVE  FetchInv'
<1>1. get[d] \in GetRec /\ NoGet \in GetRec
  BY DEF FetchInv, FetchTypes, NoGet, GetRec
<1>2. CASE Flush(d)
  <2> DEFINE r(end) == [get[d] EXCEPT !.pc = "leave", !.end = end]
  <2>1. PICK end \in {"ok", "error"} : GetTo(d, "leave", end)
    BY <1>2 DEF Flush
  <2>2. Gets(d, r(end)) /\ r(end).pc = "leave"
    BY <1>1, <1>2, <2>1 DEF GetTo, Flush, Gets, GetRec, FetchInv, FetchTypes, Active
  <2>3. UNCHANGED <<files, clock, alone>>
    BY <1>2 DEF Flush
  <2> HIDE DEF r
  <2>4. QED
    BY <2>2, <2>3, NoWriteKeepsFetch
<1>3. CASE Leave(d)
  <2> DEFINE r == [NoGet EXCEPT !.pc = "done"]
  <2>1. Gets(d, r) /\ r.pc = "done" /\ UNCHANGED <<files, clock, alone>>
    BY <1>1, <1>3 DEF Leave, Gets, GetRec, NoGet
  <2> HIDE DEF r
  <2>2. QED
    BY <2>1, NoWriteKeepsFetch
<1>4. QED
  BY <1>2, <1>3, RequestKeepsFetch, BodyKeepsFetch DEF Fetch

(* What the operator does: start, cancel, or look at an image. *)
LEMMA WindowKeepsFetch ==
    ASSUME FetchInv, Window
    PROVE  FetchInv'
<1>1. ASSUME NEW d \in Downloads, CancelDownload(d) PROVE FetchInv'
  <2> DEFINE r == [get[d] EXCEPT !.flag = TRUE]
  <2>1. get[d] \in GetRec
    BY DEF FetchInv, FetchTypes
  <2>2. /\ Gets(d, r) /\ r.pc = get[d].pc /\ r.url = get[d].url /\ r.done = get[d].done
        /\ UNCHANGED <<files, clock, alone>>
    BY <1>1, <2>1 DEF CancelDownload, Gets, GetRec, FetchInv, FetchTypes, Active
  <2> HIDE DEF r
  <2>3. QED
    BY <2>2, NoWriteKeepsFetch DEF HasFile
<1>2. ASSUME NEW d \in Downloads, NEW u \in Urls, StartDownload(d, u) PROVE FetchInv'
  <2> DEFINE r == [get[d] EXCEPT !.url = u, !.pc = "request"]
  <2>1. get[d] \in GetRec /\ get[d].pc = "none" /\ get[d].done = 0
    BY <1>2 DEF FetchInv, FetchTypes, StartDownload
  <2>2. Gets(d, r) /\ r.pc = "request" /\ UNCHANGED <<files, clock, alone>>
    BY <1>2, <2>1 DEF StartDownload, Gets, GetRec, Valid
  <2> HIDE DEF r
  <2>3. QED
    BY <2>2, NoWriteKeepsFetch
<1>3. ASSUME NEW s \in Scans, NEW p \in Paths,
             AddArrived(s, p) \/ AddExisting(s, p) \/ Refresh(s, p)
      PROVE  FetchInv'
  <2>1. UNCHANGED <<files, clock, fetchVars>> /\ clock \in Nat
    BY <1>3 DEF AddArrived, AddExisting, Refresh, FetchInv, FetchTypes
  <2>2. QED
    BY <2>1, OthersKeepFetch
<1>4. QED
  BY <1>1, <1>2, <1>3 DEF Window

(* The invariant of the download threads is inductive. *)
LEMMA NextKeepsFetch ==
    ASSUME IntakeAssumption, FetchInv, [Next]_vars
    PROVE  FetchInv'
<1>1. clock \in Nat
  BY DEF FetchInv, FetchTypes
<1>2. CASE UNCHANGED vars \/ Tick
  BY <1>1, <1>2, OthersKeepFetch DEF vars, Tick
<1>3. ASSUME NEW s \in Scans, Scan(s) PROVE FetchInv'
  <2>1. UNCHANGED <<files, clock, fetchVars>>
    BY <1>3 DEF Scan, Lookup, Stat, BeginRow, ReadPrefix, PatchPrefix, FinishPlain, Walk,
       Finish, EmitComplete, Scanning
  <2>2. QED
    BY <1>1, <2>1, OthersKeepFetch
<1>4. QED
  BY <1>2, <1>3, ThreadKeepsFetch, WindowKeepsFetch DEF Next

(* A thread that comes to the flush alone has its whole body in the file. *)
LEMMA FetchIsWhole ==
    FetchInv => \A d \in alone :
        get[d].pc = "flush" /\ get[d].url \notin Unsized
            => files[Dest(d)].data = [i \in 1..Blocks |-> get[d].url]
BY DEF FetchInv, HasFile, HasWritten

(* A download that reports success left every block of its body under its   *)
(* name (url_fetch.rs), however many there are and whenever one is          *)
(* cancelled.                                                               *)
THEOREM CompleteWhole == ASSUME IntakeAssumption PROVE Spec => CompleteIsWhole
<1>1. Init => FetchInv
  BY FetchStarts
<1>2. FetchInv /\ [Next]_vars => FetchInv'
  BY NextKeepsFetch
<1>3. FetchInv => [\A d \in alone :
         get[d].pc = "flush" /\ get'[d].end = "ok" /\ get[d].url \notin Unsized
         => files[Dest(d)].data = [i \in 1..Blocks |-> get[d].url]]_vars
  BY FetchIsWhole
<1>4. QED
  BY <1>1, <1>2, <1>3, PTL DEF Spec, CompleteIsWhole
-----------------------------------------------------------------------------
(* What a scan thread and a row of image_scans may hold. *)
Tables == Urls \X (Urls \cup {Null})
ScanRec == [path : Paths \cup {Null},
            pc : {"none", "lookup", "stat", "begin", "prefix", "patch", "plain", "walk",
                  "finish", "tell", "done"},
            size : Nat, mtime : Nat, stat : Nat, table : Tables \cup {Null}]
RowRec == [in : BOOLEAN, size : Nat, mtime : Nat, stat : Nat, complete : BOOLEAN,
           table : Tables \cup {Null}]
AtRest == {"none", "done"}

(* What a scan knows of its file, as long as the file is as it was when the *)
(* scan looked and had been so for a second.                                *)
ReadOk(t, data) ==
    /\ t.pc \in {"patch", "walk"} => t.table = TableOf(data)
    /\ t.pc = "plain" => TableOf(data) = Null
    /\ t.pc = "finish" => t.table = FullTable(data)

(* The row of a scan that fills it is its own. *)
ScanOk(t, row, f, now) ==
    /\ t.pc \notin {"lookup", "stat", "tell"} => t.stat <= now
    /\ t.pc \in {"walk", "finish"} => t.table \in Tables
    /\ t.pc \in {"prefix", "patch", "plain", "walk", "finish"} =>
         /\ row.in /\ ~row.complete /\ row.mtime = t.mtime /\ row.stat = t.stat
         /\ t.pc \in {"prefix", "patch", "plain"} => row.table = Null
         /\ t.stat > t.mtime /\ f.mtime = t.mtime => ReadOk(t, f.data)

RowOk(row, f, now) ==
    /\ f.mtime <= now /\ row.stat <= now
    /\ row.complete /\ row.mtime = f.mtime /\ row.stat > row.mtime
         => row.table = FullTable(f.data)

ScanTypes ==
    /\ scan \in [Scans -> ScanRec] /\ cache \in [Paths -> RowRec]
    /\ \A s \in Working : scan[s].path \in Paths

ScanInv ==
    /\ ScanTypes
    /\ \A s \in Working :
         ScanOk(scan[s], cache[scan[s].path], files[scan[s].path], clock)
    /\ \A p \in Paths : RowOk(cache[p], files[p], clock)

(* Nothing in the code says so: the run that drops it finds a row that is   *)
(* complete, fresh and wrong.                                               *)
OneScanPerPath == \A r, s \in Working : scan[r].path = scan[s].path => r = s

(* Tables are found in rows of blocks, and a label makes a table of a       *)
(* table.                                                                   *)
LEMMA TableIs ==
    ASSUME IntakeAssumption, NEW data \in Seq(Urls \cup {Null})
    PROVE  /\ TableOf(data) \in Tables \cup {Null}
           /\ \A t \in Tables : Labelled(t, data) \in Tables
           /\ Null \notin Tables
<1>1. data # <<>> => data[1] \in Urls \cup {Null}
  BY EmptySeq
<1>2. Len(data) >= Blocks => data[Blocks] \in Urls \cup {Null}
  BY LenProperties, ElementOfSeq DEF IntakeAssumption
<1>3. QED
  BY <1>1, <1>2, LenProperties DEF TableOf, Labelled, Tables, IntakeAssumption

(* No scan has begun and no row is filled. *)
LEMMA ScansStart == ASSUME IntakeAssumption, Init PROVE ScanInv
<1>1. Idle \in ScanRec /\ NoRow \in RowRec /\ \A s \in Scans : scan[s] = Idle
  BY DEF Idle, NoRow, ScanRec, RowRec, Init
<1>2. Working = {}
  BY <1>1 DEF Working, Idle
<1>3. ScanTypes
  BY <1>1, <1>2 DEF Init, ScanTypes
<1>4. \A p \in Paths : RowOk(cache[p], files[p], clock)
  BY DEF Init, RowOk, NoRow, NoFile
<1>5. QED
  BY <1>2, <1>3, <1>4 DEF ScanInv

(* Files are written and time passes: what is written now was not so when   *)
(* the scan looked, unless it looked within this second.                    *)
LEMMA FilesKeepScans ==
    ASSUME ScanInv, FetchTypes, FetchTypes', UNCHANGED <<scan, cache>>, clock <= clock',
           \A p \in Paths : files'[p] = files[p] \/ files'[p].mtime = clock'
    PROVE  ScanInv'
<1>1. /\ clock \in Nat /\ clock' \in Nat
      /\ \A p \in Paths : /\ files[p].mtime \in Nat /\ files'[p].mtime \in Nat
                          /\ cache[p].stat \in Nat /\ cache[p].mtime \in Nat
      /\ \A s \in Working : scan[s].path \in Paths /\ scan[s].stat \in Nat /\ scan[s].mtime \in Nat
  BY DEF FetchTypes, FileRec, ScanInv, ScanTypes, RowRec, ScanRec, Working
<1>2. Working' = Working /\ ScanTypes'
  BY DEF Working, ScanInv, ScanTypes
<1>3. ASSUME NEW p \in Paths PROVE RowOk(cache[p], files'[p], clock')
  <2>1. RowOk(cache[p], files[p], clock)
    BY DEF ScanInv
  <2>2. QED
    BY <1>1, <2>1 DEF RowOk
<1>4. ASSUME NEW s \in Working
      PROVE  ScanOk(scan[s], cache[scan[s].path], files'[scan[s].path], clock')
  <2>1. ScanOk(scan[s], cache[scan[s].path], files[scan[s].path], clock)
    BY DEF ScanInv
  <2>2. files'[scan[s].path] = files[scan[s].path] \/ files'[scan[s].path].mtime = clock'
    BY <1>1
  <2>3. QED
    BY <1>1, <2>1, <2>2 DEF ScanOk
<1>5. QED
  BY <1>2, <1>3, <1>4 DEF ScanInv

(* One scan moves and writes one row; no other scan is about this path, or  *)
(* the row stays as it is.                                                  *)
LEMMA MoveKeepsScans ==
    ASSUME ScanInv, NEW s \in Scans, NEW t \in ScanRec, NEW p \in Paths, NEW row \in RowRec,
           scan' = [scan EXCEPT ![s] = t], cache' = [cache EXCEPT ![p] = row],
           UNCHANGED <<files, clock>>,
           t.pc \notin AtRest => t.path = p /\ ScanOk(t, row, files[p], clock),
           RowOk(row, files[p], clock),
           \A r \in Working \ {s} : scan[r].path = p => row = cache[p]
    PROVE  ScanInv'
<1>1. scan \in [Scans -> ScanRec] /\ cache \in [Paths -> RowRec]
  BY DEF ScanInv, ScanTypes
<1>2. /\ scan' \in [Scans -> ScanRec] /\ cache' \in [Paths -> RowRec]
      /\ scan'[s] = t /\ cache'[p] = row
      /\ \A r \in Scans \ {s} : scan'[r] = scan[r]
      /\ \A q \in Paths \ {p} : cache'[q] = cache[q]
  BY <1>1
<1>3. /\ Working' \ {s} = Working \ {s}
      /\ s \in Working' => t.pc \notin AtRest
  BY <1>2 DEF Working, AtRest
<1>4. ASSUME NEW r \in Working'
      PROVE  /\ scan'[r].path \in Paths
             /\ ScanOk(scan'[r], cache'[scan'[r].path], files[scan'[r].path], clock)
  <2>1. CASE r = s
    BY <1>2, <1>3, <1>4, <2>1
  <2>2. CASE r # s
    <3>1. r \in Working \ {s} /\ scan'[r] = scan[r]
      BY <1>2, <1>3, <1>4, <2>2 DEF Working
    <3>2. scan[r].path \in Paths /\ cache'[scan[r].path] = cache[scan[r].path]
      BY <1>2, <3>1 DEF ScanInv, ScanTypes
    <3>3. QED
      BY <3>1, <3>2 DEF ScanInv
  <2>3. QED
    BY <2>1, <2>2
<1>5. \A q \in Paths : RowOk(cache'[q], files[q], clock)
  BY <1>2 DEF ScanInv
<1>6. QED
  BY <1>2, <1>4, <1>5 DEF ScanInv, ScanTypes

(* A scan begins; Refresh forgets the row of a file nobody scans. *)
LEMMA BeginKeepsScans ==
    ASSUME IntakeAssumption, FetchTypes, ScanInv, OneScanPerPath',
           NEW s \in Scans, NEW p \in Paths,
           AddArrived(s, p) \/ AddExisting(s, p) \/ Refresh(s, p)
    PROVE  ScanInv'
<1> DEFINE t == [scan[s] EXCEPT !.path = p, !.pc = "lookup"]
<1>1. /\ scan \in [Scans -> ScanRec] /\ cache \in [Paths -> RowRec] /\ scan[s] \in ScanRec
      /\ cache[p] \in RowRec /\ RowOk(cache[p], files[p], clock) /\ NoRow \in RowRec
  BY DEF ScanInv, ScanTypes, NoRow, RowRec
<1>2. scan' = [scan EXCEPT ![s] = t] /\ scan[s].pc = "none" /\ UNCHANGED <<files, clock>>
  BY <1>1 DEF AddArrived, AddExisting, Refresh, Begin, ScanRec
<1>3. t \in ScanRec /\ t.path = p /\ t.pc = "lookup"
  BY <1>1 DEF ScanRec
<1>4. scan'[s] = t /\ \A r \in Working \ {s} : scan'[r] = scan[r] /\ r \in Working' /\ s \in Working'
  BY <1>1, <1>2, <1>3 DEF Working
<1> HIDE DEF t
<1>5. \A r \in Working \ {s} : scan[r].path # p
  BY <1>3, <1>4 DEF OneScanPerPath
<1>6. ASSUME NEW row \in RowRec PROVE ScanOk(t, row, files[p], clock)
  BY <1>3 DEF ScanOk
<1>7. CASE cache' = cache
  <2>1. cache' = [cache EXCEPT ![p] = cache[p]]
    BY <1>1, <1>7
  <2>2. QED
    BY <1>1, <1>2, <1>3, <1>6, <2>1, MoveKeepsScans
<1>8. CASE cache' = [cache EXCEPT ![p] = NoRow]
  <2>1. clock \in Nat /\ files[p].mtime <= clock
    BY <1>1 DEF FetchTypes, RowOk
  <2>2. RowOk(NoRow, files[p], clock)
    BY <2>1 DEF RowOk, NoRow
  <2>3. QED
    BY <1>1, <1>2, <1>3, <1>5, <1>6, <1>8, <2>2, MoveKeepsScans
<1>9. QED
  BY <1>7, <1>8 DEF AddArrived, AddExisting, Refresh

(* A step of a scan that leaves the table as it is. *)
LEMMA ReadKeepsScans ==
    ASSUME ScanInv, NEW s \in Working, NEW t \in ScanRec, scan' = [scan EXCEPT ![s] = t],
           UNCHANGED <<files, clock, cache>>,
           t.pc \notin AtRest =>
             t.path = scan[s].path /\ ScanOk(t, cache[t.path], files[t.path], clock)
    PROVE  ScanInv'
<1> DEFINE p == scan[s].path
<1>1. p \in Paths /\ cache \in [Paths -> RowRec] /\ s \in Scans
  BY DEF ScanInv, ScanTypes, Working
<1>2. cache' = [cache EXCEPT ![p] = cache[p]] /\ cache[p] \in RowRec
      /\ RowOk(cache[p], files[p], clock)
  BY <1>1 DEF ScanInv
<1>3. QED
  BY <1>1, <1>2, MoveKeepsScans

(* The steps that look at the table or at the file. *)
LEMMA ScanReadsKeepScans ==
    ASSUME IntakeAssumption, FetchTypes, ScanInv, NEW s \in Scans,
           Lookup(s) \/ Stat(s) \/ ReadPrefix(s) \/ Walk(s) \/ EmitComplete(s)
    PROVE  ScanInv'
<1> DEFINE p == scan[s].path
           f == files[p]
           to(pc) == [scan[s] EXCEPT !.pc = pc]
<1>1. /\ s \in Working /\ scan[s] \in ScanRec /\ p \in Paths /\ cache[p] \in RowRec
      /\ f \in FileRec /\ clock \in Nat /\ Idle \in ScanRec
      /\ ScanOk(scan[s], cache[p], f, clock) /\ UNCHANGED <<files, clock, cache>>
  BY DEF ScanInv, ScanTypes, FetchTypes, Working, Idle, ScanRec, Scanning,
     Lookup, Stat, ReadPrefix, Walk, EmitComplete
<1>2. f.data \in Seq(Urls \cup {Null}) /\ Len(f.data) \in Nat
  BY <1>1, LenProperties DEF FileRec
<1>3. ASSUME NEW pc \in {"tell", "stat"}, ScanTo(s, pc) PROVE ScanInv'
  <2>1. to(pc) \in ScanRec /\ to(pc).path = p /\ to(pc).pc = pc
    BY <1>1 DEF ScanRec
  <2>2. scan' = [scan EXCEPT ![s] = to(pc)] /\ ScanOk(to(pc), cache[p], f, clock)
    BY <1>3, <2>1 DEF ScanTo, ScanOk
  <2> HIDE DEF to
  <2>3. QED
    BY <1>1, <2>1, <2>2, ReadKeepsScans
<1>4. CASE Lookup(s)
  BY <1>3, <1>4 DEF Lookup
<1>5. CASE Stat(s)
  <2> DEFINE t == [scan[s] EXCEPT !.pc = "begin", !.size = Len(f.data), !.mtime = f.mtime,
                                  !.stat = clock]
  <2>1. t \in ScanRec /\ t.path = p /\ t.pc = "begin" /\ t.stat = clock
    BY <1>1, <1>2 DEF ScanRec, FileRec
  <2>2. scan' = [scan EXCEPT ![s] = t]
    BY <1>1, <1>5 DEF Stat, File, ScanRec
  <2> HIDE DEF t
  <2>3. ScanOk(t, cache[p], f, clock)
    BY <1>1, <2>1 DEF ScanOk
  <2>4. QED
    BY <1>1, <2>1, <2>2, <2>3, ReadKeepsScans
<1>6. CASE ReadPrefix(s)
  <2> DEFINE x == TableOf(f.data)
             t == [scan[s] EXCEPT !.pc = "patch", !.table = x]
  <2>1. scan[s].pc = "prefix" /\ (ScanTo(s, "tell") \/ scan' = [scan EXCEPT ![s] = t])
    BY <1>1, <1>6 DEF ReadPrefix, File, ScanRec
  <2>2. x \in Tables \cup {Null}
    BY <1>2, TableIs
  <2> HIDE DEF x
  <2>3. t \in ScanRec /\ t.path = p /\ t.pc = "patch" /\ t.table = x
        /\ t.mtime = scan[s].mtime /\ t.stat = scan[s].stat
    BY <1>1, <2>2 DEF ScanRec
  <2> HIDE DEF t
  <2>4. ScanOk(t, cache[p], f, clock)
    BY <1>1, <1>2, <2>1, <2>2, <2>3, TableIs DEF x, ScanOk, ReadOk
  <2>5. QED
    BY <1>1, <1>3, <2>1, <2>3, <2>4, ReadKeepsScans
<1>7. CASE Walk(s)
  <2> DEFINE x == Labelled(scan[s].table, f.data)
             t == [scan[s] EXCEPT !.pc = "finish", !.table = x]
  <2>1. scan[s].pc = "walk" /\ (ScanTo(s, "tell") \/ scan' = [scan EXCEPT ![s] = t])
    BY <1>1, <1>7 DEF Walk, File, ScanRec
  <2>2. x \in Tables
    BY <1>1, <1>2, <2>1, TableIs DEF ScanOk
  <2> HIDE DEF x
  <2>3. t \in ScanRec /\ t.path = p /\ t.pc = "finish" /\ t.table = x
        /\ t.mtime = scan[s].mtime /\ t.stat = scan[s].stat
    BY <1>1, <2>2 DEF ScanRec
  <2> HIDE DEF t
  <2>4. ScanOk(t, cache[p], f, clock)
    BY <1>1, <1>2, <2>1, <2>2, <2>3, TableIs DEF x, ScanOk, ReadOk, FullTable
  <2>5. QED
    BY <1>1, <1>3, <2>1, <2>3, <2>4, ReadKeepsScans
<1>8. CASE EmitComplete(s)
  <2> DEFINE t == [Idle EXCEPT !.pc = "done"]
  <2>1. t \in ScanRec /\ t.pc = "done"
    BY DEF ScanRec, Idle
  <2>2. scan' = [scan EXCEPT ![s] = t]
    BY <1>8 DEF EmitComplete
  <2> HIDE DEF t
  <2>3. QED
    BY <1>1, <2>1, <2>2, ReadKeepsScans DEF AtRest
<1>9. QED
  BY <1>4, <1>5, <1>6, <1>7, <1>8

(* The steps that write the row: the upsert, and the patches that fill it. *)
LEMMA ScanWritesKeepScans ==
    ASSUME IntakeAssumption, FetchTypes, ScanInv, OneScanPerPath, NEW s \in Scans,
           BeginRow(s) \/ PatchPrefix(s) \/ FinishPlain(s) \/ Finish(s)
    PROVE  ScanInv'
<1> DEFINE p == scan[s].path
           f == files[p]
           old == cache[p]
           to(pc) == [scan[s] EXCEPT !.pc = pc]
<1>1. /\ s \in Working /\ scan[s] \in ScanRec /\ p \in Paths /\ old \in RowRec
      /\ scan \in [Scans -> ScanRec] /\ cache \in [Paths -> RowRec]
      /\ f \in FileRec /\ clock \in Nat /\ NoRow \in RowRec
      /\ ScanOk(scan[s], old, f, clock) /\ RowOk(old, f, clock) /\ UNCHANGED <<files, clock>>
  BY DEF ScanInv, ScanTypes, FetchTypes, Working, NoRow, RowRec, Scanning,
     BeginRow, PatchPrefix, FinishPlain, Finish
<1>2. f.data \in Seq(Urls \cup {Null}) /\ f.mtime <= clock
  BY <1>1 DEF FileRec, RowOk
<1>3. \A r \in Working \ {s} : scan[r].path # p
  BY <1>1 DEF OneScanPerPath
<1>4. ASSUME NEW pc \in {"prefix", "plain", "walk", "tell"}
      PROVE  /\ to(pc) \in ScanRec /\ to(pc).path = p /\ to(pc).pc = pc
             /\ to(pc).table = scan[s].table /\ to(pc).mtime = scan[s].mtime
             /\ to(pc).stat = scan[s].stat
  BY <1>1 DEF ScanRec
<1>5. ASSUME NEW pc \in {"prefix", "plain", "walk", "tell"}, NEW row \in RowRec, ScanTo(s, pc),
             cache' = [cache EXCEPT ![p] = row], ScanOk(to(pc), row, f, clock),
             RowOk(row, f, clock)
      PROVE  ScanInv'
  <2>1. scan' = [scan EXCEPT ![s] = to(pc)]
    BY <1>5 DEF ScanTo
  <2> DEFINE t == to(pc)
  <2>2. t \in ScanRec /\ t.path = p /\ ScanOk(t, row, f, clock) /\ scan' = [scan EXCEPT ![s] = t]
    BY <1>4, <1>5, <2>1
  <2> HIDE DEF t
  <2>3. QED
    BY <1>1, <1>3, <1>5, <2>2, MoveKeepsScans
<1>6. CASE BeginRow(s)
  <2> DEFINE row == [NoRow EXCEPT !.in = TRUE, !.size = scan[s].size,
                                  !.mtime = scan[s].mtime, !.stat = scan[s].stat]
  <2>1. /\ row \in RowRec /\ row.in /\ ~row.complete /\ row.table = Null
        /\ row.mtime = scan[s].mtime /\ row.stat = scan[s].stat
    BY <1>1 DEF RowRec, NoRow, ScanRec
  <2>2. cache' = [cache EXCEPT ![p] = row] /\ ScanTo(s, "prefix") /\ scan[s].pc = "begin"
    BY <1>6 DEF BeginRow
  <2> HIDE DEF row, to
  <2>3. scan[s].stat <= clock
    BY <1>1, <2>2 DEF ScanOk
  <2>4. RowOk(row, f, clock) /\ ScanOk(to("prefix"), row, f, clock)
    BY <1>2, <1>4, <2>1, <2>3 DEF RowOk, ScanOk, ReadOk
  <2>5. QED
    BY <1>5, <2>1, <2>2, <2>4
<1>7. ASSUME NEW x \in Tables \cup {Null}, NEW c \in {TRUE, Null}, old.in
      PROVE  LET row == Patched(old, [table |-> x, complete |-> c]) IN
             /\ row \in RowRec /\ row.in /\ row.mtime = old.mtime /\ row.stat = old.stat
             /\ row.table = IF x = Null THEN old.table ELSE x
             /\ c = Null => row.complete = old.complete
  <2> DEFINE table == IF x = Null THEN old.table ELSE x
             complete == IF c = Null THEN old.complete ELSE c
             row == [old EXCEPT !.table = table, !.complete = complete]
  <2>1. table \in Tables \cup {Null} /\ complete \in BOOLEAN
    BY <1>1 DEF RowRec
  <2>2. Patched(old, [table |-> x, complete |-> c]) = row
    BY <1>1, <1>7 DEF Patched, RowRec
  <2>3. c = Null => complete = old.complete
    OBVIOUS
  <2> HIDE DEF table, complete
  <2>4. /\ row \in RowRec /\ row.in = old.in /\ row.mtime = old.mtime /\ row.stat = old.stat
        /\ row.table = table /\ row.complete = complete
    BY <1>1, <2>1 DEF RowRec
  <2>5. QED
    BY <1>7, <2>2, <2>3, <2>4 DEF table
<1>8. /\ Patch(s, [table |-> scan[s].table, complete |-> Null])
             => cache' = [cache EXCEPT ![p] = Patched(old, [table |-> scan[s].table, complete |-> Null])]
      /\ \A x : Patch(s, [table |-> x, complete |-> TRUE])
             => cache' = [cache EXCEPT ![p] = Patched(old, [table |-> x, complete |-> TRUE])]
  BY <1>1 DEF Patch
<1>9. scan[s].table \in Tables \cup {Null} /\ Null \notin Tables
  BY <1>1, <1>2, TableIs DEF ScanRec
<1>10. CASE PatchPrefix(s)
  <2> DEFINE row == Patched(old, [table |-> scan[s].table, complete |-> Null])
             pc == IF scan[s].table = Null THEN "plain" ELSE "walk"
  <2>1. scan[s].pc = "patch" /\ ScanTo(s, pc) /\ cache' = [cache EXCEPT ![p] = row]
    BY <1>8, <1>10 DEF PatchPrefix
  <2>2. old.in /\ ~old.complete /\ old.table = Null /\ old.mtime = scan[s].mtime
        /\ old.stat = scan[s].stat /\ scan[s].stat <= clock
        /\ (scan[s].stat > scan[s].mtime /\ f.mtime = scan[s].mtime
             => scan[s].table = TableOf(f.data))
    BY <1>1, <2>1 DEF ScanOk, ReadOk
  <2>3. /\ row \in RowRec /\ row.in /\ ~row.complete /\ row.mtime = scan[s].mtime
        /\ row.stat = scan[s].stat /\ row.table = scan[s].table
    BY <1>7, <1>9, <2>2
  <2> HIDE DEF row, to
  <2>4. RowOk(row, f, clock)
    BY <1>2, <2>2, <2>3 DEF RowOk
  <2>5. ScanOk(to(pc), row, f, clock)
    BY <1>4, <1>9, <2>2, <2>3 DEF ScanOk, ReadOk
  <2>6. QED
    BY <1>5, <2>1, <2>3, <2>4, <2>5
<1>11. ASSUME NEW x \in Tables \cup {Null}, Patch(s, [table |-> x, complete |-> TRUE]),
              ScanTo(s, "tell"),
              \/ scan[s].pc = "plain" /\ x = Null
              \/ scan[s].pc = "finish" /\ x = scan[s].table
       PROVE  ScanInv'
  <2> DEFINE row == Patched(old, [table |-> x, complete |-> TRUE])
  <2>1. cache' = [cache EXCEPT ![p] = row]
    BY <1>8, <1>11
  <2>2. old.in /\ old.mtime = scan[s].mtime /\ old.stat = scan[s].stat /\ scan[s].stat <= clock
        /\ (scan[s].pc = "plain" => old.table = Null)
        /\ (scan[s].stat > scan[s].mtime /\ f.mtime = scan[s].mtime
             => ReadOk(scan[s], f.data))
    BY <1>1, <1>11 DEF ScanOk
  <2>3. /\ row \in RowRec /\ row.mtime = scan[s].mtime /\ row.stat = scan[s].stat
        /\ row.table = IF x = Null THEN old.table ELSE x
    BY <1>7, <2>2
  <2>4. scan[s].pc = "finish" => scan[s].table \in Tables
    BY <1>1 DEF ScanOk
  <2> HIDE DEF row, to
  <2>5. RowOk(row, f, clock)
    BY <1>2, <1>9, <1>11, <2>2, <2>3, <2>4 DEF RowOk, ReadOk, FullTable
  <2>6. ScanOk(to("tell"), row, f, clock)
    BY <1>4 DEF ScanOk
  <2>7. QED
    BY <1>5, <1>11, <2>1, <2>3, <2>5, <2>6
<1>12. QED
  BY <1>6, <1>9, <1>10, <1>11 DEF FinishPlain, Finish

(* The download threads and the clock. *)
LEMMA FetchKeepsScans ==
    ASSUME FetchInv, FetchInv', ScanInv,
           Tick \/ \E d \in Downloads : Fetch(d)
    PROVE  ScanInv'
<1>1. FetchTypes /\ FetchTypes' /\ clock \in Nat /\ files \in [Paths -> FileRec]
  BY DEF FetchInv, FetchTypes
<1>2. CASE Tick
  BY <1>1, <1>2, FilesKeepScans DEF Tick, scanVars
<1>3. ASSUME NEW d \in Downloads, Fetch(d) PROVE ScanInv'
  <2>1. UNCHANGED <<scan, cache, clock>>
    BY <1>3 DEF Fetch, Request, Body, Flush, Leave, scanVars
  <2>2. CASE UNCHANGED files
    BY <1>1, <2>1, <2>2, FilesKeepScans
  <2>3. CASE Request(d) /\ ~UNCHANGED files
    <3>1. files' = [files EXCEPT ![Dest(d)] = [data |-> <<>>, mtime |-> clock, made |-> TRUE]]
      BY <2>3 DEF Request
    <3>2. \A p \in Paths : files'[p] = files[p] \/ files'[p].mtime = clock'
      BY <1>1, <2>1, <3>1
    <3>3. QED
      BY <1>1, <2>1, <3>2, FilesKeepScans
  <2>4. CASE Body(d) /\ ~UNCHANGED files
    <3>1. WriteBlock(d)
      BY <2>4 DEF Body
    <3>2. \A p \in Paths : files'[p] = files[p] \/ files'[p].mtime = clock'
      BY <1>1, <2>1, <3>1 DEF WriteBlock, FileRec
    <3>3. QED
      BY <1>1, <2>1, <3>2, FilesKeepScans
  <2>5. QED
    BY <1>3, <2>2, <2>3, <2>4 DEF Fetch, Flush, Leave
<1>4. QED
  BY <1>2, <1>3

(* The invariant of the rows is kept while no two scans share a path. *)
LEMMA NextKeepsScans ==
    ASSUME IntakeAssumption, FetchInv, FetchInv', ScanInv, OneScanPerPath, OneScanPerPath',
           [Next]_vars
    PROVE  ScanInv'
<1>1. FetchTypes /\ FetchTypes' /\ clock \in Nat
  BY DEF FetchInv, FetchTypes
<1>2. CASE UNCHANGED <<scan, cache, files, clock>>
  BY <1>1, <1>2, FilesKeepScans
<1>3. CASE Window
  <2>1. ASSUME NEW d \in Downloads, CancelDownload(d) \/ \E u \in Urls : StartDownload(d, u)
        PROVE  ScanInv'
    BY <1>2, <2>1 DEF CancelDownload, StartDownload, scanVars
  <2>2. ASSUME NEW s \in Scans, NEW p \in Paths,
               AddArrived(s, p) \/ AddExisting(s, p) \/ Refresh(s, p)
        PROVE  ScanInv'
    BY <1>1, <2>2, BeginKeepsScans
  <2>3. QED
    BY <1>3, <2>1, <2>2 DEF Window
<1>4. ASSUME NEW s \in Scans, Scan(s) PROVE ScanInv'
  BY <1>1, <1>4, ScanReadsKeepScans, ScanWritesKeepScans DEF Scan
<1>5. QED
  BY <1>2, <1>3, <1>4, FetchKeepsScans DEF Next, vars, scanVars

(* The invariant says what FreshIsCurrent says. *)
LEMMA ScansAreCurrent ==
    ASSUME FetchTypes, ScanInv
    PROVE  FreshIsCurrent
BY DEF FreshIsCurrent, Fresh, ScanInv, RowOk

(* What the cache answers instead of a scan is what is in the file, in      *)
(* every run in which no two scans are about one file at the same time.     *)
THEOREM CacheIsCurrent ==
    ASSUME IntakeAssumption PROVE Spec /\ []OneScanPerPath => []FreshIsCurrent
<1>1. Init => FetchInv /\ ScanInv
  BY FetchStarts, ScansStart
<1>2. FetchInv /\ [Next]_vars => FetchInv'
  BY NextKeepsFetch
<1>3. /\ FetchInv /\ FetchInv' /\ ScanInv /\ OneScanPerPath /\ OneScanPerPath' /\ [Next]_vars
      => ScanInv'
  BY NextKeepsScans
<1>4. FetchInv /\ ScanInv => FreshIsCurrent
  BY ScansAreCurrent DEF FetchInv
<1>5. QED
  BY <1>1, <1>2, <1>3, <1>4, PTL DEF Spec

(* What scan threads are, whoever fills the rows. *)
ThreadTypes ==
    /\ scan \in [Scans -> ScanRec]
    /\ \A s \in Working : scan[s].path \in Paths
    /\ \A s \in Scans : scan[s].pc = "walk" => scan[s].table \in Tables

(* A step of one scan thread: it goes on, or it is over and its strip gone. *)
Moves(s, t) ==
    /\ scan' = [scan EXCEPT ![s] = t] /\ t \in ScanRec
    /\ t.pc \notin AtRest => t.path \in Paths
    /\ t.pc = "walk" => t.table \in Tables
    /\ strip' \subseteq strip \cup {s} /\ (t.pc \in AtRest => s \notin strip')

(* Every step of a scan thread is such a move of a thread at work. *)
LEMMA ScanMoves ==
    ASSUME IntakeAssumption, FetchTypes, ThreadTypes, NEW s \in Scans, Scan(s)
    PROVE  s \in Working /\ \E t \in ScanRec : Moves(s, t)
<1> DEFINE f == files[scan[s].path]
           to(pc) == [scan[s] EXCEPT !.pc = pc]
<1>1. /\ s \in Working /\ scan[s] \in ScanRec /\ scan[s].path \in Paths /\ f \in FileRec
      /\ f.data \in Seq(Urls \cup {Null}) /\ Len(f.data) \in Nat /\ clock \in Nat
  <2>1. s \in Working /\ scan[s] \in ScanRec
    BY DEF ThreadTypes, Working, Scan, Lookup, Stat, BeginRow, ReadPrefix, PatchPrefix,
       FinishPlain, Walk, Finish, EmitComplete
  <2>2. scan[s].path \in Paths /\ f \in FileRec /\ clock \in Nat
    BY <2>1 DEF ThreadTypes, FetchTypes
  <2>3. QED
    BY <2>1, <2>2, LenProperties DEF FileRec
<1> SUFFICES \E t \in ScanRec : Moves(s, t)
  BY <1>1
<1>2. ASSUME NEW t \in ScanRec, scan' = [scan EXCEPT ![s] = t], strip' = strip,
             t.pc \notin AtRest, t.path = scan[s].path, t.pc = "walk" => t.table \in Tables
      PROVE  \E u \in ScanRec : Moves(s, u)
  BY <1>1, <1>2 DEF Moves
<1>3. ASSUME NEW pc \in {"tell", "stat", "prefix", "plain", "walk"}, ScanTo(s, pc), strip' = strip,
             pc = "walk" => scan[s].table \in Tables
      PROVE  \E t \in ScanRec : Moves(s, t)
  <2>1. to(pc) \in ScanRec /\ to(pc).path = scan[s].path /\ to(pc).pc = pc
        /\ to(pc).table = scan[s].table
    BY <1>1 DEF ScanRec
  <2>2. scan' = [scan EXCEPT ![s] = to(pc)]
    BY <1>3 DEF ScanTo
  <2> HIDE DEF to
  <2>3. QED
    BY <1>2, <1>3, <2>1, <2>2 DEF AtRest
<1>4. CASE Lookup(s) \/ BeginRow(s) \/ FinishPlain(s) \/ Finish(s)
  BY <1>3, <1>4 DEF Lookup, BeginRow, FinishPlain, Finish, Scanning
<1>5. CASE PatchPrefix(s)
  BY <1>1, <1>3, <1>5 DEF PatchPrefix, Scanning, ScanRec
<1>6. CASE Stat(s)
  <2> DEFINE t == [scan[s] EXCEPT !.pc = "begin", !.size = Len(f.data), !.mtime = f.mtime,
                                  !.stat = clock]
  <2>1. t \in ScanRec /\ t.path = scan[s].path /\ t.pc = "begin"
    BY <1>1 DEF ScanRec, FileRec
  <2>2. scan' = [scan EXCEPT ![s] = t] /\ strip' = strip
    BY <1>1, <1>6 DEF Stat, File, ScanRec, Scanning
  <2> HIDE DEF t
  <2>3. QED
    BY <1>2, <2>1, <2>2 DEF AtRest
<1>7. CASE ReadPrefix(s)
  <2> DEFINE x == TableOf(f.data)
             t == [scan[s] EXCEPT !.pc = "patch", !.table = x]
  <2>1. strip' = strip /\ (ScanTo(s, "tell") \/ scan' = [scan EXCEPT ![s] = t])
    BY <1>1, <1>7 DEF ReadPrefix, File, ScanRec, Scanning
  <2>2. x \in Tables \cup {Null}
    BY <1>1, TableIs
  <2> HIDE DEF x
  <2>3. t \in ScanRec /\ t.path = scan[s].path /\ t.pc = "patch"
    BY <1>1, <2>2 DEF ScanRec
  <2> HIDE DEF t
  <2>4. QED
    BY <1>2, <1>3, <2>1, <2>3 DEF AtRest
<1>8. CASE Walk(s)
  <2> DEFINE x == Labelled(scan[s].table, f.data)
             t == [scan[s] EXCEPT !.pc = "finish", !.table = x]
  <2>1. scan[s].pc = "walk" /\ strip' = strip
        /\ (ScanTo(s, "tell") \/ scan' = [scan EXCEPT ![s] = t])
    BY <1>1, <1>8 DEF Walk, File, ScanRec, Scanning
  <2>2. x \in Tables
    BY <1>1, <2>1, TableIs DEF ThreadTypes
  <2> HIDE DEF x
  <2>3. t \in ScanRec /\ t.path = scan[s].path /\ t.pc = "finish"
    BY <1>1, <2>2 DEF ScanRec
  <2> HIDE DEF t
  <2>4. QED
    BY <1>2, <1>3, <2>1, <2>3 DEF AtRest
<1>9. CASE EmitComplete(s)
  <2> DEFINE t == [Idle EXCEPT !.pc = "done"]
  <2>1. t \in ScanRec /\ t.pc = "done"
    BY DEF ScanRec, Idle
  <2>2. scan' = [scan EXCEPT ![s] = t] /\ strip' = strip \ {s}
    BY <1>9 DEF EmitComplete
  <2> HIDE DEF t
  <2>3. QED
    BY <2>1, <2>2 DEF Moves, AtRest
<1>10. QED
  BY <1>4, <1>5, <1>6, <1>7, <1>8, <1>9 DEF Scan

(* So is its beginning. *)
LEMMA BeginMoves ==
    ASSUME ThreadTypes, NEW s \in Scans, NEW p \in Paths, Begin(s, p)
    PROVE  \E t \in ScanRec : Moves(s, t)
<1> DEFINE t == [scan[s] EXCEPT !.path = p, !.pc = "lookup"]
<1>1. t \in ScanRec /\ t.path = p /\ t.pc = "lookup" /\ scan' = [scan EXCEPT ![s] = t]
  BY DEF ThreadTypes, Begin, ScanRec
<1> HIDE DEF t
<1>2. QED
  BY <1>1 DEF Begin, Moves, AtRest

(* Strips are for scans at work: a scan puts its own up when it begins and  *)
(* takes it down when it is over.                                           *)
LEMMA MovesKeepStrips ==
    ASSUME ThreadTypes, StripsEnd, NEW s \in Scans, NEW t \in ScanRec, Moves(s, t)
    PROVE  ThreadTypes' /\ StripsEnd' /\ Working' \subseteq Working \cup {s}
<1>1. /\ scan' \in [Scans -> ScanRec] /\ scan'[s] = t
      /\ \A r \in Scans \ {s} : scan'[r] = scan[r]
  BY DEF ThreadTypes, Moves
<1>2. \A r \in Scans \ {s} : r \in Working' <=> r \in Working
  BY <1>1 DEF Working
<1>3. s \in Working' <=> t.pc \notin AtRest
  BY <1>1 DEF Working, AtRest
<1>4. StripsEnd'
  BY <1>2, <1>3 DEF StripsEnd, Moves, Working
<1>5. ThreadTypes'
  BY <1>1, <1>2, <1>3 DEF ThreadTypes, Moves, Working
<1>6. Working' \subseteq Working \cup {s}
  BY <1>2 DEF Working
<1>7. QED
  BY <1>4, <1>5, <1>6

(* No scan thread has begun, and no strip is shown. *)
LEMMA ThreadsStart == ASSUME Init PROVE ThreadTypes /\ StripsEnd /\ Working = {}
<1>1. Idle \in ScanRec /\ \A s \in Scans : scan[s] = Idle
  BY DEF Idle, ScanRec, Init
<1>2. Working = {}
  BY <1>1 DEF Working, Idle
<1>3. QED
  BY <1>1, <1>2 DEF Init, ThreadTypes, StripsEnd, Idle

(* The steps as the strips see them. *)
LEMMA StepsOfThreads ==
    ASSUME IntakeAssumption, FetchTypes, ThreadTypes, [Next]_vars
    PROVE  \/ UNCHANGED <<scan, strip>>
           \/ \E s \in Scans, t \in ScanRec :
                Moves(s, t) /\ (s \in Working \/ Cardinality(Working) < AtOnce)
<1>1. CASE UNCHANGED vars \/ Tick
  BY <1>1 DEF vars, scanVars, Tick
<1>2. ASSUME NEW d \in Downloads, Fetch(d) PROVE UNCHANGED <<scan, strip>>
  BY <1>2 DEF Fetch, Request, Body, Flush, Leave, scanVars
<1>3. CASE Window
  <2>1. ASSUME NEW d \in Downloads, CancelDownload(d) \/ \E u \in Urls : StartDownload(d, u)
        PROVE  UNCHANGED <<scan, strip>>
    BY <2>1 DEF CancelDownload, StartDownload, scanVars
  <2>2. ASSUME NEW s \in Scans, NEW p \in Paths,
               AddArrived(s, p) \/ AddExisting(s, p) \/ Refresh(s, p)
        PROVE  Cardinality(Working) < AtOnce /\ \E t \in ScanRec : Moves(s, t)
    <3>1. Begin(s, p)
      BY <2>2 DEF AddArrived, AddExisting, Refresh
    <3>2. QED
      BY <3>1, BeginMoves DEF Begin
  <2>3. QED
    BY <1>3, <2>1, <2>2 DEF Window
<1>4. ASSUME NEW s \in Scans, Scan(s)
      PROVE  s \in Working /\ \E t \in ScanRec : Moves(s, t)
  BY <1>4, ScanMoves
<1>5. QED
  BY <1>1, <1>2, <1>3, <1>4 DEF Next

(* Strips and the types of scan threads are inductive together. *)
LEMMA NextKeepsStrips ==
    ASSUME IntakeAssumption, FetchTypes, ThreadTypes, StripsEnd, [Next]_vars
    PROVE  ThreadTypes' /\ StripsEnd'
<1>1. CASE UNCHANGED <<scan, strip>>
  BY <1>1 DEF ThreadTypes, StripsEnd, Working
<1>2. QED
  BY <1>1, StepsOfThreads, MovesKeepStrips

(* No progress strip outlives its scan, for any number of scans at once. *)
THEOREM StripsDoEnd == ASSUME IntakeAssumption PROVE Spec => []StripsEnd
<1>1. Init => FetchInv /\ ThreadTypes /\ StripsEnd
  BY FetchStarts, ThreadsStart
<1>2. FetchInv /\ [Next]_vars => FetchInv'
  BY NextKeepsFetch
<1>3. FetchInv /\ ThreadTypes /\ StripsEnd /\ [Next]_vars => ThreadTypes' /\ StripsEnd'
  BY NextKeepsStrips DEF FetchInv
<1>4. QED
  BY <1>1, <1>2, <1>3, PTL DEF Spec

(* With one scan at a time no two are about one file. *)
LEMMA OneScanAtATime ==
    ASSUME IntakeAssumption, AtOnce = 1, FetchTypes, ThreadTypes, StripsEnd,
           \A r, q \in Working : r = q, [Next]_vars
    PROVE  (\A r, q \in Working : r = q)'
<1>1. CASE UNCHANGED <<scan, strip>>
  BY <1>1 DEF Working
<1>2. ASSUME NEW s \in Scans, NEW t \in ScanRec, Moves(s, t),
             s \in Working \/ Cardinality(Working) < AtOnce
      PROVE  (\A r, q \in Working : r = q)'
  <2>1. Working' \subseteq Working \cup {s}
    BY <1>2, MovesKeepStrips
  <2>2. IsFiniteSet(Working)
    <3>1. IsFiniteSet(Scans)
      BY FS_Interval DEF Scans, IntakeAssumption
    <3>2. QED
      BY <3>1, FS_Subset DEF Working
  <2>3. Cardinality(Working) \in Nat /\ (Cardinality(Working) = 0 <=> Working = {})
    BY <2>2, FS_EmptySet, FS_CardinalityType
  <2>4. s \in Working \/ Working = {}
    BY <1>2, <2>3
  <2>5. QED
    BY <2>1, <2>4
<1>3. QED
  BY <1>1, <1>2, StepsOfThreads

(* The same where scans are begun one at a time, the case the run checks. *)
THEOREM CacheIsCurrentOneScan ==
    ASSUME IntakeAssumption, AtOnce = 1 PROVE Spec => []FreshIsCurrent
<1> DEFINE One == \A r, q \in Working : r = q
<1>1. Init => FetchInv /\ ThreadTypes /\ StripsEnd /\ One
  BY FetchStarts, ThreadsStart
<1>2. FetchInv /\ [Next]_vars => FetchInv'
  BY NextKeepsFetch
<1>3. FetchInv /\ ThreadTypes /\ StripsEnd /\ [Next]_vars => ThreadTypes' /\ StripsEnd'
  BY NextKeepsStrips DEF FetchInv
<1>4. FetchInv /\ ThreadTypes /\ StripsEnd /\ One /\ [Next]_vars => One'
  BY OneScanAtATime DEF FetchInv
<1>5. One => OneScanPerPath
  BY DEF OneScanPerPath
<1>6. Spec => []OneScanPerPath
  BY <1>1, <1>2, <1>3, <1>4, <1>5, PTL DEF Spec
<1>7. QED
  BY <1>6, CacheIsCurrent, PTL
=============================================================================
