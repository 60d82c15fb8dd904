---------------------------- MODULE ImageIntake ----------------------------
(***************************************************************************)
(* How an image gets into the queue, and what the app remembers of it.     *)
(* Download threads (src-tauri/src/url_fetch.rs) write files whose names   *)
(* are derived from their URLs; a file that arrived is added to the queue, *)
(* which starts a deep scan of it (image_scan.rs); a scan fills one row of *)
(* the image_scans table per path (db/mod.rs), which later scans and       *)
(* probes trust as long as size and mtime of the file match.               *)
(*                                                                         *)
(* A body is a number of blocks; what matters of each is its URL.          *)
(***************************************************************************)
EXTENDS Naturals, Sequences, FiniteSets

CONSTANTS
    Urls,       \* what the operator may paste or pick from the catalog
    Foreign,    \* those that are neither http nor https
    Nameless,   \* those whose last segment is no file name
    Unsized,    \* those whose server announces no Content-Length
    Plain,      \* those with an image that has no partition table
    MaxGets,    \* bound: download threads, one per press of the button
    Blocks,     \* blocks of every body
    MaxScans,   \* bound: scan threads
    AtOnce,     \* bound: scans at work at the same time
    AtWork,     \* bound: downloads and scans at work at the same time
    MaxClock,   \* bound: seconds that pass
    Null        \* an SQL NULL; no URL and no table

IntakeAssumption ==
    /\ \A S \in {Foreign, Nameless, Unsized, Plain} : S \subseteq Urls
    /\ Null \notin Urls /\ Null \notin Urls \X (Urls \cup {Null})
    /\ Blocks \in Nat \ {0} /\ MaxGets \in Nat
    /\ MaxScans \in Nat /\ AtOnce \in Nat /\ AtWork \in Nat
    /\ MaxClock \in Nat \ {0}

Scans == 1..MaxScans
Downloads == 1..MaxGets

VARIABLES
    files,     \* the download directory: name -> [data, mtime, made]
    clock,     \* wall clock in seconds
    get,       \* download threads: url, step, blocks done, flag, outcome
    registry,  \* DownloadRegistry: the threads whose flag can be raised
    alone,     \* history: no other thread had the file while this one did
    arrived,   \* paths reported by download-complete, not yet added
    scan,      \* scan threads: path, step, stat, what was read
    cache,     \* image_scans: path -> row
    strip      \* the scans whose progress strip the window shows

fetchVars == <<get, registry, alone>>
scanVars == <<scan, cache, strip>>
vars == <<files, clock, fetchVars, arrived, scanVars>>

(* derive_filename: no usable base name gives the fallback, so unlike URLs  *)
(* may share a file.                                                        *)
DeriveFilename(u) == IF u \in Nameless THEN "download.img" ELSE u
Paths == {DeriveFilename(u) : u \in Urls \ Foreign}

(* validate_url *)
Valid(u) == u \notin Foreign

NoGet == [url |-> Null, pc |-> "none", done |-> 0, flag |-> FALSE, end |-> "none"]
NoFile == [data |-> <<>>, mtime |-> 0, made |-> FALSE]
NoRow == [in |-> FALSE, size |-> 0, mtime |-> 0, stat |-> 0, complete |-> FALSE,
          table |-> Null]
Idle == [path |-> Null, pc |-> "none", size |-> 0, mtime |-> 0, stat |-> 0,
         table |-> Null]

Init ==
    /\ files = [p \in Paths |-> NoFile]
    /\ clock = 1
    /\ get = [d \in Downloads |-> NoGet]
    /\ registry = {} /\ alone = Downloads /\ arrived = {}
    /\ scan = [s \in Scans |-> Idle]
    /\ cache = [p \in Paths |-> NoRow]
    /\ strip = {}

Loading == {d \in Downloads : get[d].pc \notin {"none", "done"}}
Working == {s \in Scans : scan[s].pc \notin {"none", "done"}}
Room == Cardinality(Loading) + Cardinality(Working) < AtWork

Tick ==
    /\ clock < MaxClock
    /\ clock' = clock + 1
    /\ UNCHANGED <<files, fetchVars, arrived, scanVars>>

-----------------------------------------------------------------------------
(* The download thread.                                                     *)

Dest(d) == DeriveFilename(get[d].url)
HasFile(d) == get[d].pc \in {"body", "flush"}

StartDownload(d, u) ==
    /\ get[d].pc = "none" /\ Valid(u) /\ Room
    /\ \A e \in Downloads : get[e].pc = "none" => d <= e
    /\ get' = [get EXCEPT ![d].url = u, ![d].pc = "request"]
    /\ registry' = registry \cup {d}
    /\ UNCHANGED <<files, clock, alone, arrived, scanVars>>

CancelDownload(d) ==
    /\ d \in registry
    /\ get' = [get EXCEPT ![d].flag = TRUE]
    /\ UNCHANGED <<files, clock, registry, alone, arrived, scanVars>>

GetTo(d, pc, end) == get' = [get EXCEPT ![d].pc = pc, ![d].end = end]

(* The request, then File::create, which empties a file that exists, also   *)
(* one that another thread still writes at its own offset.                  *)
Request(d) ==
    /\ get[d].pc = "request"
    /\ \/ GetTo(d, "leave", "error") /\ UNCHANGED <<files, alone>>
       \/ /\ GetTo(d, "body", "none")
          /\ files' = [files EXCEPT ![Dest(d)] =
                         [data |-> <<>>, mtime |-> clock, made |-> TRUE]]
          /\ LET other == {e \in Downloads \ {d} : HasFile(e) /\ Dest(e) = Dest(d)}
             IN alone' = IF other = {} THEN alone ELSE alone \ (other \cup {d})
    /\ UNCHANGED <<clock, registry, arrived, scanVars>>

(* A write past the end of an emptied file leaves a hole before it. *)
Put(data, k, x) ==
    [i \in 1..(IF k > Len(data) THEN k ELSE Len(data)) |->
        IF i = k THEN x ELSE IF i <= Len(data) THEN data[i] ELSE Null]

WriteBlock(d) ==
    /\ get[d].done < Blocks
    /\ get' = [get EXCEPT ![d].done = @ + 1]
    /\ files' = [files EXCEPT ![Dest(d)].data = Put(@, get[d].done + 1, get[d].url),
                              ![Dest(d)].mtime = clock]

(* Bug: an error of the connection is taken for the end of the body. *)
BodyOrStop(d) ==
    /\ get[d].pc = "body"
    /\ IF get[d].flag THEN GetTo(d, "leave", "error") /\ UNCHANGED files
       ELSE \/ WriteBlock(d)
            \/ GetTo(d, "flush", "none") /\ UNCHANGED files
    /\ UNCHANGED <<clock, registry, alone, arrived, scanVars>>

(* One turn of the loop: the flag, then a block, an error of the connection *)
(* or of the disk, or the end.  With a Content-Length an early end is an    *)
(* error; without one it cannot be told from the end of the body.           *)
Body(d) ==
    /\ get[d].pc = "body"
    /\ IF get[d].flag THEN GetTo(d, "leave", "error") /\ UNCHANGED files
       ELSE \/ WriteBlock(d)
            \/ GetTo(d, "leave", "error") /\ UNCHANGED files
            \/ /\ get[d].done = Blocks \/ get[d].url \in Unsized
               /\ GetTo(d, "flush", "none") /\ UNCHANGED files
    /\ UNCHANGED <<clock, registry, alone, arrived, scanVars>>

Flush(d) ==
    /\ get[d].pc = "flush"
    /\ \E e \in {"ok", "error"} : GetTo(d, "leave", e)
    /\ UNCHANGED <<files, clock, registry, alone, arrived, scanVars>>

(* Out of the registry, then the event.  A file that is not whole stays     *)
(* under its name, but only a complete one is announced.                    *)
Leave(d) ==
    /\ get[d].pc = "leave"
    /\ registry' = registry \ {d}
    /\ arrived' = IF get[d].end = "ok" THEN arrived \cup {Dest(d)} ELSE arrived
    /\ get' = [get EXCEPT ![d] = [NoGet EXCEPT !.pc = "done"]]
    /\ UNCHANGED <<files, clock, alone, scanVars>>

-----------------------------------------------------------------------------
(* The window: rows of the queue that show an image start scans of it.      *)

Begin(s, p) ==
    /\ scan[s].pc = "none" /\ \A r \in Scans : scan[r].pc = "none" => s <= r
    /\ Cardinality(Working) < AtOnce /\ Room
    /\ scan' = [scan EXCEPT ![s].path = p, ![s].pc = "lookup"]
    /\ strip' = strip \cup {s}

(* download-complete: addImageFromPath, startScan *)
AddArrived(s, p) ==
    /\ p \in arrived /\ Begin(s, p)
    /\ arrived' = arrived \ {p}
    /\ UNCHANGED <<files, clock, fetchVars, cache>>

(* The file picker, or hydrate for a row that is already there *)
AddExisting(s, p) ==
    /\ files[p].made /\ Begin(s, p)
    /\ UNCHANGED <<files, clock, fetchVars, arrived, cache>>

(* REFRESH: image_scan_clear, then startScan *)
Refresh(s, p) ==
    /\ files[p].made /\ Begin(s, p)
    /\ cache' = [cache EXCEPT ![p] = NoRow]
    /\ UNCHANGED <<files, clock, fetchVars, arrived>>

-----------------------------------------------------------------------------
(* The scan thread.                                                         *)

(* image_scan_is_fresh *)
Fresh(row, f) == row.size = Len(f.data) /\ row.mtime = f.mtime

(* What the decoder chain and the partition probe make of a file's blocks:  *)
(* a table, and once the walk was there, the label of its last partition.   *)
(* The other columns of a row come from the same prefix and go its way.     *)
TableOf(data) ==
    IF data = <<>> THEN Null
    ELSE IF data[1] = Null \/ data[1] \in Plain THEN Null
    ELSE <<data[1], Null>>
Labelled(table, data) == <<table[1], IF Len(data) < Blocks THEN Null ELSE data[Blocks]>>
FullTable(data) == IF TableOf(data) = Null THEN Null ELSE Labelled(TableOf(data), data)

ScanTo(s, pc) == scan' = [scan EXCEPT ![s].pc = pc]
Scanning == UNCHANGED <<files, clock, fetchVars, arrived, strip>>
File(s) == files[scan[s].path]

(* spawn_scan *)
Lookup(s) ==
    /\ scan[s].pc = "lookup"
    /\ LET row == cache[scan[s].path] IN
       ScanTo(s, IF row.complete /\ Fresh(row, File(s)) THEN "tell" ELSE "stat")
    /\ Scanning /\ UNCHANGED cache

Stat(s) ==
    /\ scan[s].pc = "stat"
    /\ scan' = [scan EXCEPT ![s].pc = "begin", ![s].size = Len(File(s).data),
                            ![s].mtime = File(s).mtime, ![s].stat = clock]
    /\ Scanning /\ UNCHANGED cache

(* image_scan_begin: an upsert that forgets all the row knew *)
BeginRow(s) ==
    /\ scan[s].pc = "begin"
    /\ cache' = [cache EXCEPT ![scan[s].path] =
                   [NoRow EXCEPT !.in = TRUE, !.size = scan[s].size,
                                 !.mtime = scan[s].mtime, !.stat = scan[s].stat]]
    /\ ScanTo(s, "prefix") /\ Scanning

ReadPrefix(s) ==
    /\ scan[s].pc = "prefix"
    /\ \/ scan' = [scan EXCEPT ![s].pc = "patch", ![s].table = TableOf(File(s).data)]
       \/ ScanTo(s, "tell")
    /\ Scanning /\ UNCHANGED cache

(* image_scan_patch: an update of the row of this path, if there is one; a  *)
(* field that is None is left as it is.                                     *)
Patched(row, p) ==
    IF ~row.in THEN row
    ELSE [row EXCEPT !.table = IF p.table = Null THEN @ ELSE p.table,
                     !.complete = IF p.complete = Null THEN @ ELSE p.complete]

Patch(s, p) == cache' = [cache EXCEPT ![scan[s].path] = Patched(@, p)]

PatchPrefix(s) ==
    /\ scan[s].pc = "patch"
    /\ Patch(s, [table |-> scan[s].table, complete |-> Null])
    /\ ScanTo(s, IF scan[s].table = Null THEN "plain" ELSE "walk")
    /\ Scanning

(* No partition table: the scan is over. *)
FinishPlain(s) ==
    /\ scan[s].pc = "plain"
    /\ Patch(s, [table |-> Null, complete |-> TRUE])
    /\ ScanTo(s, "tell") /\ Scanning

(* The walk to the last partition, then the labels found there. *)
Walk(s) ==
    /\ scan[s].pc = "walk"
    /\ \/ scan' = [scan EXCEPT ![s].pc = "finish",
                               ![s].table = Labelled(@, File(s).data)]
       \/ ScanTo(s, "tell")
    /\ Scanning /\ UNCHANGED cache

(* Bug: the row is stamped with the file as it is when the scan ends. *)
FinishAndStamp(s) ==
    /\ scan[s].pc = "finish"
    /\ cache' = [cache EXCEPT ![scan[s].path] =
         [Patched(@, [table |-> scan[s].table, complete |-> TRUE])
            EXCEPT !.size = Len(File(s).data), !.mtime = File(s).mtime, !.stat = clock]]
    /\ ScanTo(s, "tell") /\ Scanning

Finish(s) ==
    /\ scan[s].pc = "finish"
    /\ Patch(s, [table |-> scan[s].table, complete |-> TRUE])
    /\ ScanTo(s, "tell") /\ Scanning

(* Bug: image-scan-complete is not emitted for a row that is not complete. *)
EmitIfComplete(s) ==
    /\ scan[s].pc = "tell"
    /\ scan' = [scan EXCEPT ![s] = [Idle EXCEPT !.pc = "done"]]
    /\ strip' = IF cache[scan[s].path].complete THEN strip \ {s} ELSE strip
    /\ UNCHANGED <<files, clock, fetchVars, arrived, cache>>

(* emit_complete, whatever became of the scan *)
EmitComplete(s) ==
    /\ scan[s].pc = "tell"
    /\ scan' = [scan EXCEPT ![s] = [Idle EXCEPT !.pc = "done"]]
    /\ strip' = strip \ {s}
    /\ UNCHANGED <<files, clock, fetchVars, arrived, cache>>

-----------------------------------------------------------------------------
Fetch(d) ==
    Request(d) \/ Body(d) \/ Flush(d) \/ Leave(d)
Scan(s) ==
    \/ Lookup(s) \/ Stat(s) \/ BeginRow(s) \/ ReadPrefix(s) \/ PatchPrefix(s)
    \/ FinishPlain(s) \/ Walk(s) \/ Finish(s) \/ EmitComplete(s)
Window ==
    \/ \E d \in Downloads : CancelDownload(d) \/ \E u \in Urls : StartDownload(d, u)
    \/ \E s \in Scans, p \in Paths : AddArrived(s, p) \/ AddExisting(s, p) \/ Refresh(s, p)

Next ==
    \/ Tick \/ Window
    \/ \E d \in Downloads : Fetch(d)
    \/ \E s \in Scans : Scan(s)

Spec == Init /\ [][Next]_vars

-----------------------------------------------------------------------------
(* Every variable keeps to the values the code can give it. *)
TypeOK ==
    /\ \A p \in Paths : files[p].mtime \in 0..MaxClock /\ Len(files[p].data) <= Blocks
    /\ clock \in 1..MaxClock
    /\ \A d \in Downloads : get[d].done \in 0..Blocks
    /\ registry \subseteq Downloads /\ alone \subseteq Downloads
    /\ arrived \subseteq Paths /\ strip \subseteq Scans
    /\ \A p \in Paths : cache[p].complete => cache[p].in

(* A download that reports success left every block of its body under its   *)
(* name, unless the server announced no length or another download had the  *)
(* same name at the time; a read error or a cancel never ends in ok.        *)
CompleteIsWhole ==
    [][\A d \in alone :
         get[d].pc = "flush" /\ get'[d].end = "ok" /\ get[d].url \notin Unsized
         => files[Dest(d)].data = [i \in 1..Blocks |-> get[d].url]]_vars

(* A row that is complete and fresh says what is in the file now, as long   *)
(* as the file had been at rest for a second when the scan looked: what the *)
(* cache answers instead of a new scan (image_scan.rs 146-149).             *)
FreshIsCurrent ==
    \A p \in Paths :
        LET row == cache[p] IN
        (row.complete /\ Fresh(row, files[p]) /\ row.stat > row.mtime) =>
            row.table = FullTable(files[p].data)

(* No progress strip outlives its scan: a cache hit, a file that does not   *)
(* open and a walk that fails all report the end.                           *)
StripsEnd == strip \subseteq Working
=============================================================================
