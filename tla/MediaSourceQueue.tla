-------------------------- MODULE MediaSourceQueue --------------------------
(***************************************************************************)
(* The decoder that plays the video through a MediaSource                  *)
(* (src/web/stream/video/media_source_decoder.ts): every decode unit is    *)
(* translated (annex_b_translator.ts), written as a segment (Mp4Segments)  *)
(* and queued until the source buffer has taken the one before.  A unit    *)
(* that completes a pair of parameter sets replaces the source buffer.     *)
(* The browser is external: a source buffer is busy with what it is given  *)
(* until it reports, and fails on a frame that no init segment precedes.   *)
(***************************************************************************)
EXTENDS Mp4Segments

CONSTANTS Stamps,      \* timestamps that units carry, in any order
          MaxUnits,    \* bound on the units that arrive
          MaxDropped   \* drops after which a key frame is asked for

ASSUME SourceAssumption ==
    Stamps \subseteq Nat /\ MaxUnits \in Nat /\ MaxDropped \in Nat

VARIABLES
    decoder,  \* the fields of the decoder and of its translator
    buffers,  \* segments waiting for the source buffer
    given,    \* the segment the source buffer was given last
    seen      \* history: units, and what the queue has gone through

sourceVars == <<decoder, buffers, given, seen>>

Units == [key : BOOLEAN, sps : BOOLEAN, pps : BOOLEAN, idrFirst : BOOLEAN,
          playable : BOOLEAN, at : Stamps]

NoSegment == [kind |-> "none"]
InitOf(n) == [kind |-> "init", of |-> n]

(* An interval of the frame rate is the unit of time.                      *)
ExpectedDuration == 1

SourceInit ==
    /\ decoder = [errored |-> FALSE, source |-> FALSE, made |-> 0,
                  updating |-> FALSE, needIdr |-> TRUE, dropped |-> 0,
                  shift |-> 0, last |-> 0, sequence |-> 0,
                  described |-> FALSE, sps |-> FALSE, pps |-> FALSE]
    /\ buffers = <<>>
    /\ given = NoSegment
    /\ seen = [units |-> 0, stale |-> FALSE, headless |-> {},
               failed |-> FALSE]

(***************************************************************************)
(* The translator.  Deltas before the first parameter sets are passed over *)
(* without being counted; a pair of them asks for a new configuration.     *)
(***************************************************************************)
ShouldProcess(d, unit) == unit.key \/ d.described

Reconfigures(d, unit) == (d.sps \/ unit.sps) /\ (d.pps \/ unit.pps)

Translated(d, unit) ==
    LET pair == Reconfigures(d, unit) IN
    [d EXCEPT !.described = @ \/ pair,
              !.sps = (@ \/ unit.sps) /\ ~pair,
              !.pps = (@ \/ unit.pps) /\ ~pair]

(* A slip of Timestamp: it is taken as it comes.                           *)
TimestampGiven(d, unit) == unit.at - d.shift

(* Timestamps are counted from the last configuration and made to grow.    *)
Timestamp(d, unit) ==
    IF unit.at - d.shift <= d.last THEN d.last + ExpectedDuration
    ELSE unit.at - d.shift

Frame(d, unit, sequence, time, key) ==
    [kind |-> "frame", of |-> d.made, sequence |-> sequence, time |-> time,
     duration |-> Timestamp(d, unit) - d.last, key |-> key,
     size |-> IF unit.idrFirst THEN 9 ELSE 5]

(***************************************************************************)
(* The source buffer takes one segment at a time.                          *)
(***************************************************************************)
Waits(d, queue) ==
    d.errored \/ ~d.source \/ d.updating \/ queue = <<>>

TryAppendDecodeUnit(d, queue, taken) ==
    IF Waits(d, queue)
    THEN decoder' = d /\ buffers' = queue /\ given' = taken
    ELSE /\ decoder' = [d EXCEPT !.updating = TRUE]
         /\ buffers' = Tail(queue)
         /\ given' = Head(queue)

(* The receiver polls once a unit has been submitted without throwing.     *)
PollRequestIdr(d) ==
    IF d.dropped > MaxDropped THEN [d EXCEPT !.dropped = 0] ELSE d

Quiet(d) == decoder' = PollRequestIdr(d) /\ UNCHANGED <<buffers, given>>

(***************************************************************************)
(* A new configuration: the old source buffer goes, and a new one that the *)
(* browser may refuse takes its place.  The queue is left as it is.        *)
(***************************************************************************)
CreateNewSourceBuffer(d) ==
    [d EXCEPT !.source = TRUE, !.made = @ + 1, !.updating = FALSE]

Configured(d, unit) ==
    [CreateNewSourceBuffer(d) EXCEPT
        !.shift = unit.at, !.last = 0, !.sequence = 1]

(* The init segment is queued before the frame is looked at: a frame that  *)
(* does not begin with an IDR slice throws behind it.                      *)
Configure(d, unit) ==
    LET c == Configured(d, unit)
        frame == [Frame(d, unit, c.sequence, 0, TRUE) EXCEPT !.of = c.made]
        begun == Append(buffers, InitOf(c.made))
    IN  /\ seen' = [seen EXCEPT
                       !.units = @ + 1, !.stale = buffers # <<>>,
                       !.headless = IF unit.idrFirst THEN @
                                    ELSE @ \union {c.made}]
        /\ IF unit.idrFirst
           THEN TryAppendDecodeUnit(
                    PollRequestIdr([c EXCEPT !.needIdr = FALSE, !.dropped = 0]),
                    Append(begun, frame), NoSegment)
           ELSE decoder' = c /\ buffers' = begun /\ given' = NoSegment

Refused(d, unit) ==
    /\ decoder' = [d EXCEPT !.source = FALSE, !.updating = FALSE,
                            !.last = Timestamp(d, unit)]
    /\ given' = NoSegment
    /\ seen' = [seen EXCEPT !.units = @ + 1]
    /\ UNCHANGED buffers

(* Any other unit is a frame of the configuration there is, unless none    *)
(* was ever completed.                                                     *)
Follow(d, unit) ==
    LET time == Timestamp(d, unit)
        f == [d EXCEPT !.last = time, !.sequence = @ + 1] IN
    IF d.needIdr THEN Quiet([d EXCEPT !.last = time, !.dropped = @ + 1])
    ELSE TryAppendDecodeUnit(
             PollRequestIdr(f),
             Append(buffers, Frame(d, unit, f.sequence, time, FALSE)), given)

SubmitDecodeUnit(unit) ==
    LET d == Translated(decoder, unit)
        passes == decoder.errored \/ ~ShouldProcess(decoder, unit) IN
    /\ seen.units < MaxUnits
    /\ IF ~passes /\ Reconfigures(decoder, unit)
       THEN IF unit.playable THEN Configure(d, unit) ELSE Refused(d, unit)
       ELSE /\ seen' = [seen EXCEPT !.units = @ + 1]
            /\ IF passes THEN Quiet(decoder) ELSE Follow(d, unit)

(***************************************************************************)
(* The browser.                                                            *)
(***************************************************************************)
(* It fails on a frame that is not of the init segment it was given.       *)
Plays(segment) == segment.kind = "init" \/ segment.of = decoder.made

OnUpdateEnd ==
    /\ decoder.updating /\ Plays(given)
    /\ TryAppendDecodeUnit([decoder EXCEPT !.updating = FALSE], buffers, given)
    /\ UNCHANGED seen

OnError(excuse) ==
    /\ decoder' = [decoder EXCEPT !.errored = TRUE, !.updating = FALSE]
    /\ seen' = [seen EXCEPT !.failed = excuse]
    /\ UNCHANGED <<buffers, given>>

RefusesFrame == decoder.updating /\ ~Plays(given) /\ OnError(FALSE)

DecodeFails == decoder.updating /\ Plays(given) /\ OnError(TRUE)

SourceNext ==
    \/ \E unit \in Units : SubmitDecodeUnit(unit)
    \/ OnUpdateEnd
    \/ RefusesFrame
    \/ DecodeFails

SourceSpec == SourceInit /\ [][SourceNext]_sourceVars

(***************************************************************************)
(* Properties.                                                             *)
(***************************************************************************)
(* Every variable keeps its shape.                                         *)
SourceTypeOK ==
    /\ decoder.made \in 0 .. MaxUnits /\ decoder.dropped \in 0 .. MaxDropped
    /\ decoder.last \in Int /\ decoder.sequence \in 0 .. MaxUnits
    /\ \A i \in DOMAIN buffers : buffers[i].kind \in {"init", "frame"}
    /\ given.kind \in {"none", "init", "frame"}

Pending == (IF given = NoSegment THEN <<>> ELSE <<given>>) \o buffers

(* A configuration whose frame threw goes on with the second number.       *)
Follows(a, b) ==
    IF b.kind = "init" THEN a.of < b.of
    ELSE /\ a.of = b.of
         /\ IF a.kind = "init"
            THEN b.sequence = (IF b.of \in seen.headless THEN 2 ELSE 1)
            ELSE b.sequence = a.sequence + 1 /\ b.time > a.time

(* "Sequence number should start at 1" and "Every segment must start at    *)
(* timestamp 0" (media_source_decoder.ts:166,170): what a source buffer is *)
(* given begins with its init segment and goes on, each frame numbered     *)
(* after the one before and later than it, whatever timestamps the units   *)
(* carry; and only a decoder that replaced a source buffer while segments  *)
(* waited for it gives the new one frames of the old.                      *)
SegmentsInOrder ==
    /\ \A i \in 1 .. Len(Pending) - 1 : Follows(Pending[i], Pending[i + 1])
    /\ (decoder.source /\ ~seen.stale) =>
           /\ \A i \in DOMAIN Pending : Pending[i].of = decoder.made
           /\ (given = NoSegment /\ buffers # <<>>) =>
                  Head(buffers).kind = "init"
    /\ (decoder.errored /\ ~seen.failed) => seen.stale

(* Whatever waits for the source buffer (putVideoInitSegment and           *)
(* putVideoFrameSegment) can be read back by the format: the description   *)
(* of the codec, and the time, length and place of the frame.              *)
SegmentsReadBack ==
    \A i \in DOMAIN buffers :
        CASE buffers[i].kind = "init" -> InitSegmentReads
          [] buffers[i].kind = "frame" -> FrameSegmentReads(buffers[i])
=============================================================================
