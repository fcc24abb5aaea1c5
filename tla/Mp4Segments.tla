---------------------------- MODULE Mp4Segments ----------------------------
(***************************************************************************)
(* The MP4 segments that the MediaSource decoder writes for the browser    *)
(* (src/web/stream/video/media_source_decoder.ts) with the big-endian      *)
(* writers of src/web/stream/buffer.ts.  What is written is its size and   *)
(* the values that begin at its positions; the bytes of an array are one   *)
(* value.  The lengths and the offset that the code patches in afterwards  *)
(* are computed from the same positions.  Refusals of arguments that no    *)
(* caller passes (a box type that is not four letters long) are left out,  *)
(* and the sizes and times of the track are abstracted.                    *)
(***************************************************************************)
EXTENDS Integers, Sequences

Nothing == [size |-> 0, text |-> <<>>]
Number(n) == [number |-> n]
Name(text) == [name |-> text]

(* The writer goes on where it is.                                         *)
Texts(a, b) ==
    [p \in DOMAIN a.text \union {a.size + q : q \in DOMAIN b.text} |->
        IF p \in DOMAIN a.text THEN a.text[p] ELSE b.text[p - a.size]]

a ++ b == [size |-> a.size + b.size, text |-> Texts(a, b)]

Put(value, wide) == [size |-> wide, text |-> [p \in {0} |-> value]]

U8(n) == Put(Number(n), 1)
U16(n) == Put(Number(n), 2)
U32(n) == Put(Number(n), 4)
(* The view that is asked for moves on by eight bytes, and putU64 then     *)
(* moves on by eight more.                                                 *)
U64(n) == Put(Number(n), 16)
U8Array(what, count) == Put(Name(what), count)
U16Array(count) == Put(Name("numbers"), 2 * count)
U32Array(count) == Put(Name("numbers"), 4 * count)
(* A text comes with the number of its letters, which are a byte each.     *)
Utf8Raw(text, letters) == Put(Name(text), letters)

(* A box is its length, filled in once its contents are written, its type  *)
(* and its contents.                                                       *)
Box(type, fields) ==
    U32(fields.size + 8) ++ Utf8Raw(type, 4) ++ fields

FullBox(type, version, flags, fields) ==
    Box(type, U8(version) ++ Put(Number(flags), 3) ++ fields)

TrackId == 1
Zero == U32(0)
Matrix == U32Array(9)

(***************************************************************************)
(* The init segment.                                                       *)
(***************************************************************************)
FTypeBox ==
    Box("ftyp", Utf8Raw("isom", 4) ++ U32(512) ++ U8Array("brands", 16))

MvhdBox ==
    FullBox("mvhd", 0, 0,
        Zero ++ Zero ++ U32(1000000) ++ Zero ++ U32(65536)
            ++ U16(256) ++ U16(0) ++ U32Array(2) ++ Matrix
            ++ U32Array(6) ++ U32(TrackId + 1))

TkhdBox ==
    FullBox("tkhd", 0, 3,
        Zero ++ Zero ++ U32(TrackId) ++ Zero ++ Zero ++ U32Array(2)
            ++ U16(0) ++ U16(0) ++ U16(0) ++ U16(0) ++ Matrix
            ++ Zero ++ Zero)

MdhdBox ==
    FullBox("mdhd", 0, 0,
        Zero ++ Zero ++ U32(1000000) ++ Zero ++ U16(0) ++ U16(0))

HdlrBox ==
    FullBox("hdlr", 0, 0,
        Zero ++ Utf8Raw("vide", 4) ++ U32Array(3)
            ++ Utf8Raw("VideoHandler", 12) ++ U8(0))

VmhdBox == FullBox("vmhd", 0, 1, U16(0) ++ U16Array(3))

UrlBox == FullBox("url ", 0, 1, Nothing)
DrefBox == FullBox("dref", 0, 0, U32(1) ++ UrlBox)
DinfBox == Box("dinf", DrefBox)

AvcCBox == Box("avcC", U8Array("description", 40))

Avc1Box ==
    Box("avc1",
        U8Array("reserved", 6) ++ U16(1) ++ U16(0) ++ U16(0) ++ U32Array(3)
            ++ U16(0) ++ U16(0) ++ U32(4718592) ++ U32(4718592)
            ++ Zero ++ U16(1) ++ U8Array("compressor", 32) ++ U16(24)
            ++ U16(0 - 1) ++ AvcCBox)

StsdBox == FullBox("stsd", 0, 0, U32(1) ++ Avc1Box)
SttsBox == FullBox("stts", 0, 0, Zero)
StscBox == FullBox("stsc", 0, 0, Zero)
StszBox == FullBox("stsz", 0, 0, Zero ++ Zero)
StcoBox == FullBox("stco", 0, 0, Zero)

StblBox == Box("stbl", StsdBox ++ SttsBox ++ StscBox ++ StszBox ++ StcoBox)
MinfBox == Box("minf", VmhdBox ++ DinfBox ++ StblBox)
MdiaBox == Box("mdia", MdhdBox ++ HdlrBox ++ MinfBox)
TrakBox == Box("trak", TkhdBox ++ MdiaBox)

TrexBox ==
    FullBox("trex", 0, 0, U32(TrackId) ++ U32(1) ++ Zero ++ Zero ++ Zero)
MvexBox == Box("mvex", TrexBox)

MoovBox == Box("moov", MvhdBox ++ TrakBox ++ MvexBox)
VideoInitSegment == FTypeBox ++ MoovBox

(***************************************************************************)
(* The segment of one frame.                                               *)
(***************************************************************************)
MfhdBox(sequence) == FullBox("mfhd", 0, 0, U32(sequence))
TfhdBox == FullBox("tfhd", 0, 131072, U32(TrackId))
TfdtBox(time) == FullBox("tfdt", 1, 0, U64(time))

(* The flags of the sample go before its duration when it is the first one *)
(* of the source buffer, and after its size otherwise.                     *)
TrunBox(offset, duration, size, key, first) ==
    LET flags == U32(IF key THEN 33554432 ELSE 16842752) IN
    FullBox("trun", 0, 769 + (IF first THEN 4 ELSE 1024),
        U32(1) ++ U32(offset) ++ (IF first THEN flags ELSE Nothing)
            ++ U32(duration) ++ U32(size)
            ++ (IF first THEN Nothing ELSE flags))

TrafBox(frame, offset) ==
    Box("traf",
        TfhdBox ++ TfdtBox(frame.time)
            ++ TrunBox(offset, frame.duration, frame.size, frame.key,
                       frame.sequence = 1))

MoofBox(frame, offset) ==
    Box("moof", MfhdBox(frame.sequence) ++ TrafBox(frame, offset))

MdatBox(frame) == Box("mdat", U8Array("frame", frame.size))

(* The offset of the frame is patched in behind the fragment: the length   *)
(* of the fragment and the header of the box the frame is in.              *)
VideoFrameSegment(frame) ==
    MoofBox(frame, MoofBox(frame, 0).size + 8) ++ MdatBox(frame)

(***************************************************************************)
(* How a browser reads a segment, from the format and not from the writer: *)
(* by the lengths it finds, header by header.                              *)
(***************************************************************************)
At(f, position) ==
    IF position \in DOMAIN f.text THEN f.text[position] ELSE Name("nothing")

NumberAt(f, position) ==
    IF "number" \in DOMAIN At(f, position) THEN At(f, position).number ELSE 0

(* The box of a type is sought from the one at a position on: two boxes at  *)
(* most stand before one that is looked for.                               *)
Skip(f, box, type) ==
    IF At(f, box + 4) = Name(type) THEN box ELSE box + NumberAt(f, box)

Seek(f, from, type) == Skip(f, Skip(f, from, type), type)

(* The sample entry is 16 bytes into its table, and the description of the *)
(* codec 86 bytes into the entry.                                          *)
InitSegmentReads ==
    LET f == VideoInitSegment
        moov == Seek(f, 0, "moov")
        trak == Seek(f, moov + 8, "trak")
        tkhd == Seek(f, trak + 8, "tkhd")
        mdia == Seek(f, trak + 8, "mdia")
        hdlr == Seek(f, mdia + 8, "hdlr")
        minf == Seek(f, mdia + 8, "minf")
        stbl == Seek(f, minf + 8, "stbl")
        avc1 == Seek(f, stbl + 8, "stsd") + 16
        mvex == Seek(f, moov + 8, "mvex")
    IN  /\ f.size <= 2000
        /\ moov + NumberAt(f, moov) = f.size
        /\ At(f, hdlr + 16) = Name("vide")
        /\ At(f, avc1 + 4) = Name("avc1")
        /\ At(f, avc1 + 90) = Name("avcC")
        /\ At(f, avc1 + 94) = Name("description")
        /\ NumberAt(f, tkhd + 20) = TrackId
        /\ NumberAt(f, Seek(f, mvex + 8, "trex") + 12) = TrackId

(* The run of samples tells where the frame is, counted from the fragment, *)
(* and how long it is and lasts; the time is in the box before it.  The    *)
(* buffer the code takes for the segment has 400 bytes beside the frame.   *)
FrameSegmentReads(frame) ==
    LET f == VideoFrameSegment(frame)
        traf == Seek(f, 8, "traf")
        trun == Seek(f, traf + 8, "trun")
        first == (NumberAt(f, trun + 9) \div 4) % 2
        sample == trun + 20 + 4 * first
        data == NumberAt(f, trun + 16)
    IN  /\ f.size <= 400 + frame.size
        /\ NumberAt(f, Seek(f, traf + 8, "tfhd") + 12) = TrackId
        /\ NumberAt(f, Seek(f, traf + 8, "tfdt") + 12) = frame.time
        /\ NumberAt(f, sample) = frame.duration
        /\ NumberAt(f, sample + 4) = frame.size
        /\ At(f, data) = Name("frame")
        /\ NumberAt(f, data - 8) = frame.size + 8
=============================================================================
