----------------------------- MODULE ImageProbe -----------------------------
(***************************************************************************)
(* What Disk Cutter makes of an image file, asked three times over by code *)
(* that decides each time anew how the file is to be read: DiskImage of    *)
(* src-tauri/src/image.rs for the window (validation, partitions, boot     *)
(* signals), inspect_any of inspect.rs for the command line, and           *)
(* open_streaming of source.rs for the burn.  The decoder chain takes off  *)
(* compression layers; containers and archives have readers of their own.  *)
(*                                                                         *)
(* A file is its extension and a disk wrapped in layers, the outermost     *)
(* first.  gz stands for gz, bz2 and zst, img for iso, img, bin and raw,   *)
(* dat for an extension nobody knows, qcow2 for qcow2 and vmdk.  A stream  *)
(* is the number of layers taken off.                                      *)
(***************************************************************************)
EXTENDS Integers, Sequences

CONSTANT MaxDepth   \* MAX_DEPTH of the decoder chain: 16 in the code

ProbeAssumption == MaxDepth \in Nat \ {0}

VARIABLES
    image,    \* [ext, wrap, disk, broken]
    report,   \* what the window was told, or Pending
    listed,   \* the partition table the command line printed, or "pending"
    burned    \* the stream the burn opened, or NotOpened

vars == <<image, report, listed, burned>>

Compressions == {"xz", "gz"}
Containers == {"qcow2", "vhdx", "vhd"}
Extensions == Compressions \cup Containers \cup {"zip", "gzip", "img", "dat"}

(* What the probes look for on a disk: a table, a filesystem signature, the *)
(* boot signature of sector 0, and the signals it boots by.                 *)
Disk(table, fs, signature, boot) ==
    [table |-> table, fs |-> fs, signature |-> signature, boot |-> boot]

NoDisk == Disk("none", FALSE, FALSE, {})

Disks ==
    { NoDisk,
      Disk("gpt", FALSE, TRUE, {"GptEsp"}),
      Disk("mbr", FALSE, TRUE, {"MbrActive", "MbrBootloader"}),
      Disk("none", TRUE, FALSE, {"ElTorito"}),
      Disk("mbr", TRUE, TRUE, {"MbrBootloader", "ElTorito"}),
      Disk("none", TRUE, TRUE, {"MbrBootloader"}),
      Disk("none", FALSE, TRUE, {}) }

Wraps ==
    LET Kinds == Compressions \cup Containers \cup {"zip"}
    IN  (UNION {[1..n -> Kinds] : n \in 0..2}) \cup [1..3 -> Compressions]

EmptyStream == -1
NoStream == -2
NotOpened == -3
Pending == [valid |-> FALSE, table |-> "pending", boot |-> {}]

(* broken: the compression layer, if any, whose content cannot be decoded.  *)
Images ==
    {i \in [ext : Extensions, wrap : Wraps, disk : Disks, broken : 0..3] :
        i.broken = 0 \/ (i.broken \in DOMAIN i.wrap /\ i.wrap[i.broken] \in Compressions)}

Start(i) ==
    image = i /\ report = Pending /\ listed = "pending" /\ burned = NotOpened

Init == \E i \in Images : Start(i)

-----------------------------------------------------------------------------
(* Readers.                                                                 *)

(* The layer the next bytes belong to, by their magic: at the head, or, for *)
(* a VHD, in the footer at the tail, asked for when the head has none.  A   *)
(* VHD that holds a further layer is a dynamic one, whose head is a copy of *)
(* that footer; a fixed one holds the disk, so its head has no magic.  (A   *)
(* fixed VHD of compressed contents, which reads as both, is not among the  *)
(* images.)                                                                 *)
Magic(s) == IF s >= 0 /\ s < Len(image.wrap) THEN image.wrap[s + 1] ELSE "none"

(* peek_and_rewind: the first bytes of a stream, put back after the look.   *)
(* Those of a layer that cannot be decoded cannot be had, and the stream is *)
(* replaced by an empty one, without an error.                              *)
PeekAndRewind(s) == IF s > 0 /\ s = image.broken THEN EmptyStream ELSE s

(* try_open of the format whose magic was seen: it wraps the source.        *)
TryOpen(s) == s + 1

(* identify_data_stream: round after round until no format claims the       *)
(* source, at most MAX_DEPTH rounds, the last one included.                 *)
IdentifyDataStream ==
    LET round[depth \in 0..MaxDepth] ==
            [s \in EmptyStream..Len(image.wrap) |->
                LET src == PeekAndRewind(s)
                IN  IF depth = MaxDepth THEN NoStream
                    ELSE IF Magic(src) \notin Compressions THEN src
                    ELSE round[depth + 1][TryOpen(src)]]
    IN  round[0][0]

(* Qcow2Reader, VhdReader, VhdxReader, VmdkReader: open fails on a file of  *)
(* another kind.                                                            *)
OpenContainer(kind) == IF Magic(0) = kind THEN 1 ELSE NoStream

(* ZipArchive with the image entry it holds, streamed by a thread.          *)
OpenZip == IF Magic(0) = "zip" THEN 1 ELSE NoStream

(* The disk the bytes of a stream show.  A fixed VHD is its disk with a     *)
(* footer behind it.                                                        *)
DiskAt(s) ==
    LET bare == s = Len(image.wrap)
        fixedVhd == Magic(s) = "vhd" /\ s + 1 = Len(image.wrap)
    IN  IF bare \/ fixedVhd THEN image.disk ELSE NoDisk

-----------------------------------------------------------------------------
(* The window.                                                              *)

(* validate_block and classify_buffer. *)
Burnable(d) == d.table # "none" \/ d.fs \/ d.signature

(* DiskImage::open goes by the extension alone. *)
OpenImage ==
    CASE image.ext \in Containers -> OpenContainer(image.ext)
      [] image.ext = "zip" -> OpenZip
      [] image.ext \in Compressions -> IdentifyDataStream
      [] OTHER -> 0

(* A compressed image is judged by the first 0x8200 bytes of its disk; the  *)
(* boot record of an ISO lies behind them, at 0x8800.                       *)
DecompressedPrefix(d) == [d EXCEPT !.boot = @ \ {"ElTorito"}]

Backend ==
    IF image.ext \in Compressions \cup {"zip"} THEN DecompressedPrefix(DiskAt(OpenImage))
    ELSE DiskAt(OpenImage)

InspectImage ==
    /\ report = Pending
    /\ report' = [valid |-> Burnable(Backend), table |-> Backend.table,
                  boot |-> Backend.boot]
    /\ UNCHANGED <<image, listed, burned>>

-----------------------------------------------------------------------------
(* The command line.                                                        *)

(* DiskReader::layout: the table in the prefix of what the chain decodes.   *)
Layout == DiskAt(IdentifyDataStream).table

(* inspect_any: no reader for an archive.                                   *)
InspectAny ==
    /\ listed = "pending"
    /\ listed' = CASE image.ext \in Containers -> DiskAt(OpenContainer(image.ext)).table
                   [] image.ext \in Compressions -> Layout
                   [] OTHER -> DiskAt(0).table
    /\ UNCHANGED <<image, report, burned>>

-----------------------------------------------------------------------------
(* The burn.                                                                *)

(* probe: the label of the source, "none" for a file nobody recognises; the *)
(* extension first, then the magic at the head or, for a VHD, the tail.     *)
ByMagic == Magic(0)

Probe ==
    CASE image.ext \in Containers \cup {"zip"} ->
            IF Magic(0) = image.ext THEN image.ext ELSE "none"
      [] image.ext \in Compressions \cup {"gzip"} -> image.ext
      [] image.ext = "img" -> IF ByMagic = "none" THEN "raw" ELSE ByMagic
      [] OTHER -> ByMagic

(* "VHDX (...)" starts with "VHD" too. *)
StartsWith(label, prefix) ==
    label = prefix \/ (label = "vhdx" /\ prefix = "vhd")

(* Bug: the shorter prefix is asked for first. *)
ClassifyVhdFirst(label) ==
    CASE StartsWith(label, "qcow2") -> "qcow2"
      [] ~StartsWith(label, "qcow2") /\ StartsWith(label, "vhd") -> "vhd"
      [] StartsWith(label, "zip") -> "zip"
      [] OTHER -> "streaming"

(* classify: the family of a label, the prefixes asked for in this order. *)
Classify(label) ==
    CASE StartsWith(label, "qcow2") -> "qcow2"
      [] StartsWith(label, "vhdx") -> "vhdx"
      [] ~StartsWith(label, "vhdx") /\ StartsWith(label, "vhd") -> "vhd"
      [] StartsWith(label, "zip") -> "zip"
      [] OTHER -> "streaming"

OpenStreaming ==
    /\ burned = NotOpened
    /\ burned' = IF Probe = "none" THEN NoStream
                 ELSE CASE Classify(Probe) = "streaming" -> IdentifyDataStream
                        [] Classify(Probe) = "zip" -> OpenZip
                        [] OTHER -> OpenContainer(Classify(Probe))
    /\ UNCHANGED <<image, report, listed>>

Next == InspectImage \/ InspectAny \/ OpenStreaming

Spec == Init /\ [][Next]_vars

-----------------------------------------------------------------------------
(* All three have looked at the image. *)
Answered == report # Pending /\ listed # "pending" /\ burned # NotOpened

(* What the window and the command line say of an image is said of the disk *)
(* the burn will write.  An image the window found valid is refused by the  *)
(* burn only for an extension nobody knows; what is burned is a burnable    *)
(* disk with that partition table and at least those boot signals; and a    *)
(* table the command line printed is the table that is burned.  A layer     *)
(* that cannot be decoded never passes for a disk.                          *)
ReportIsOfTheBurn ==
    Answered =>
        LET d == DiskAt(burned)
        IN  /\ report.valid => burned # NoStream \/ image.ext = "dat"
            /\ report.valid /\ burned # NoStream =>
                 Burnable(d) /\ report.table = d.table /\ report.boot \subseteq d.boot
            /\ listed # "none" /\ burned # NoStream => listed = d.table
=============================================================================
