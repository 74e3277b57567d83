---------------------------- MODULE VideoDecoding ----------------------------
(* What the three isolated workers make of one video, and what the library     *)
(* accepts of it: media_worker lists all frames, perception_worker detects on  *)
(* the frames that were asked for, original_frame_worker returns their pixels. *)
(* The three loops are written three times in the source and have to agree:    *)
(* a frame that ingestion has recorded is later found again by the other two.  *)
(*                                                                             *)
(* A frame's pixels are its place in the video, its size stands for width and  *)
(* height, and time is in units of the stream's time base.                     *)
EXTENDS Integers, Sequences, FiniteSets

CONSTANTS MaxFrames,     \* frames a worker decodes
          MaxBytes,      \* bytes of decoded pixels
          MaxDuration,   \* span of the presentation times
          MaxSize,       \* size of a frame
          Videos,        \* the videos that are checked
          NoTime         \* a missing presentation time or duration

LimitsAssumption ==
  /\ MaxFrames \in Nat \ {0} /\ MaxBytes \in Nat /\ MaxDuration \in Nat
  /\ MaxSize \in Nat \ {0}

\* A video: the size and time base of its stream, and its frames.
Indexes(video) == 1..Len(video.frames)

VARIABLES video,     \* the file
          request,   \* the frames that will be asked for, in this order
          pc,
          source,    \* what ingestion recorded: "none", an error, or a record
          detection, \* the answer of the detector
          pixels     \* the answer of the original-frame reader
vars == <<video, request, pc, source, detection, pixels>>

\* Answers are records, so that errors and results can be told apart.
Failed(code) == [status |-> code]
Done(value)  == [status |-> "ok", value |-> value]
NotYet       == [status |-> "none"]

---------------------------------------------------------------------------
(* The decoding loops.  A loop state holds what is carried from frame to       *)
(* frame; exit is "go" until a limit is met.                                   *)

Lowest(s)  == CHOOSE x \in s : \A y \in s : x <= y
Highest(s) == CHOOSE x \in s : \A y \in s : x >= y

LoopStart == [exit |-> "go", bytes |-> 0, times |-> {}, rotations |-> {}, out |-> <<>>]

\* The presentation time and, when there is a duration, the end of a frame.
TimesOf(frame) ==
  {frame.pts} \cup IF frame.dur = NoTime THEN {} ELSE {frame.pts + frame.dur}

TooLong(times) == Highest(times) - Lowest(times) > MaxDuration

\* The checks the three loops share.  They differ in what a frame's size is
\* compared with and in the rotations they take, and in the exit status.
Measured(loop, frame, size) ==
  [loop EXCEPT !.bytes = @ + size, !.times = @ \cup TimesOf(frame)]

\* media_worker: any size within the limit, the rotation as it stands.
MediaFrame(loop, frame, n) ==
  LET next == Measured(loop, frame, frame.size)
      limited == \/ n > MaxFrames
                 \/ frame.pts = NoTime
                 \/ frame.size > MaxSize
                 \/ loop.bytes + frame.size > MaxBytes
                 \/ frame.dur # NoTime /\ frame.dur < 0
                 \/ TooLong(next.times)
  IN  IF limited THEN [loop EXCEPT !.exit = "limit"]
      ELSE [next EXCEPT !.rotations = @ \cup {frame.rot},
                        !.out = Append(@, [index |-> n, pts |-> frame.pts,
                                           dur |-> frame.dur, key |-> frame.key])]

MediaLoop(v) ==
  LET loop[n \in 0..Len(v.frames)] ==
        IF n = 0 THEN LoopStart
        ELSE IF loop[n - 1].exit # "go" THEN loop[n - 1]
        ELSE MediaFrame(loop[n - 1], v.frames[n], n)
  IN  loop[Len(v.frames)]

\* The stream must fit, and all frames must have one rotation.
MediaWorker(v) ==
  LET loop == MediaLoop(v)
  IN  IF v.size > MaxSize \/ loop.exit # "go" \/ loop.out = <<>>
         \/ Cardinality(loop.rotations) # 1
      THEN Failed("LIMIT_EXCEEDED")
      ELSE Done([size |-> v.size, rot |-> CHOOSE r \in loop.rotations : TRUE,
                 frames |-> loop.out])

QuarterTurn(rot) == rot % 90 = 0

\* Slip: any rotation is taken.
PerceptionFrameAnyTurn(loop, v, n, wanted) ==
  LET frame == v.frames[n]
      next == Measured(loop, frame, frame.size)
      rotations == loop.rotations \cup {frame.rot % 360}
      limited == \/ n > MaxFrames
                 \/ frame.pts = NoTime
                 \/ frame.size # v.size
                 \/ next.bytes > MaxBytes
                 \/ frame.dur # NoTime /\ frame.dur < 0
                 \/ TooLong(next.times)
                 \/ Cardinality(rotations) > 1
  IN  IF limited THEN [loop EXCEPT !.exit = "limit"]
      ELSE [next EXCEPT !.rotations = rotations,
                        !.out = IF n \in wanted
                                THEN Append(@, [index |-> n, pts |-> frame.pts,
                                                dur |-> frame.dur, key |-> frame.key])
                                ELSE @,
                        !.exit = IF n = Highest(wanted) THEN "last" ELSE "go"]

\* perception_worker: every frame as large as the stream, quarter turns only,
\* and nothing after the last frame that was asked for.
PerceptionFrame(loop, v, n, wanted) ==
  LET frame == v.frames[n]
      next == Measured(loop, frame, frame.size)
      rotations == loop.rotations \cup {frame.rot % 360}
      limited == \/ n > MaxFrames
                 \/ frame.pts = NoTime
                 \/ frame.size # v.size
                 \/ next.bytes > MaxBytes
                 \/ frame.dur # NoTime /\ frame.dur < 0
                 \/ TooLong(next.times)
                 \/ ~QuarterTurn(frame.rot)
                 \/ Cardinality(rotations) > 1
  IN  IF limited THEN [loop EXCEPT !.exit = "limit"]
      ELSE [next EXCEPT !.rotations = rotations,
                        !.out = IF n \in wanted
                                THEN Append(@, [index |-> n, pts |-> frame.pts,
                                                dur |-> frame.dur, key |-> frame.key])
                                ELSE @,
                        !.exit = IF n = Highest(wanted) THEN "last" ELSE "go"]

PerceptionLoop(v, wanted) ==
  LET loop[n \in 0..Len(v.frames)] ==
        IF n = 0 THEN LoopStart
        ELSE IF loop[n - 1].exit # "go" THEN loop[n - 1]
        ELSE PerceptionFrame(loop[n - 1], v, n, wanted)
  IN  loop[Len(v.frames)]

IndexesOf(records) == {records[i].index : i \in DOMAIN records}

PerceptionWorker(v, wanted) ==
  LET loop == PerceptionLoop(v, wanted)
  IN  IF v.size > MaxSize \/ loop.exit = "limit" \/ IndexesOf(loop.out) # wanted
         \/ Cardinality(loop.rotations) # 1
      THEN Failed("LIMIT_EXCEEDED")
      ELSE Done([size |-> v.size, rot |-> CHOOSE r \in loop.rotations : TRUE,
                 frames |-> loop.out])

\* original_frame_worker: _source takes a quarter turn from 0 to 270, and every
\* frame has to be the one the request describes.
RequestRotations == {0, 90, 180, 270}

OriginalFrame(loop, v, n, record, wanted) ==
  LET frame == v.frames[n]
      next == Measured(loop, frame, frame.size)
      expected == CHOOSE r \in wanted : r.index = n
      limited == n > MaxFrames \/ next.bytes > MaxBytes \/ TooLong(next.times)
      other == \/ frame.size # record.size
               \/ frame.dur # NoTime /\ frame.dur < 0
               \/ ~QuarterTurn(frame.rot) \/ frame.rot % 360 # record.rot
      differs == \/ frame.pts # expected.pts
                 \/ expected.dur # NoTime /\ frame.dur # expected.dur
                 \/ frame.key # expected.key
      asked == \E r \in wanted : r.index = n
  IN  IF frame.pts = NoTime \/ other \/ (asked /\ differs) THEN [loop EXCEPT !.exit = "failed"]
      ELSE IF limited THEN [loop EXCEPT !.exit = "limit"]
      ELSE [next EXCEPT !.out = IF asked THEN Append(@, [index |-> n, pixels |-> n]) ELSE @,
                        !.exit = IF n = Highest({r.index : r \in wanted})
                                 THEN "last" ELSE "go"]

OriginalLoop(v, record, wanted) ==
  LET loop[n \in 0..Len(v.frames)] ==
        IF n = 0 THEN LoopStart
        ELSE IF loop[n - 1].exit # "go" THEN loop[n - 1]
        ELSE OriginalFrame(loop[n - 1], v, n, record, wanted)
  IN  loop[Len(v.frames)]

\* The pixels lie one after the other in the shared buffer, in the order of the
\* request, which the library has sorted by decode index.
OriginalWorker(v, record, wanted) ==
  LET loop == OriginalLoop(v, record, wanted)
  IN  CASE record.rot \notin RequestRotations -> Failed("DECODE_FAILED")
        [] v.size # record.size               -> Failed("DECODE_FAILED")
        [] loop.exit = "limit"                -> Failed("LIMIT_EXCEEDED")
        [] loop.exit = "failed" \/ IndexesOf(loop.out) # {r.index : r \in wanted}
                                              -> Failed("DECODE_FAILED")
        [] OTHER -> Done([i \in DOMAIN loop.out |->
                            [index |-> loop.out[i].index, offset |-> (i - 1) * record.size,
                             pixels |-> loop.out[i].pixels]])

---------------------------------------------------------------------------
(* What the library makes of the workers' answers.                           *)

\* LocalVideoSource: the Source with the frames that ingestion will record.
Ingested(v) == MediaWorker(v)

Record(frames, n) == CHOOSE r \in {frames[i] : i \in DOMAIN frames} : r.index = n

\* IsolatedPerceptionWorker.infer: the answer has to describe the stream and the
\* frames as they were recorded; a rotation may differ by whole turns.
SameFrames(out, frames) == \A i \in DOMAIN out : out[i] = Record(frames, out[i].index)

Detected(v, record, wanted) ==
  LET answer == PerceptionWorker(v, wanted)
  IN  CASE Highest(wanted) > MaxFrames -> Failed("LIMIT_EXCEEDED")
        [] answer.status # "ok"        -> answer
        [] \/ answer.value.size # record.size
           \/ record.rot % 360 # answer.value.rot
           \/ ~SameFrames(answer.value.frames, record.frames)
                                       -> Failed("DECODE_FAILED")
        [] OTHER                       -> Done(answer.value.frames)

\* IsolatedOriginalFrameReader.read: offsets without gaps, and the pixels given
\* back in the order in which the caller has asked.
ContiguousFrom(chunks, size) == \A i \in DOMAIN chunks : chunks[i].offset = (i - 1) * size

ChunkOf(chunks, n) == CHOOSE c \in {chunks[i] : i \in DOMAIN chunks} : c.index = n

InRequestOrder(chunks, asked) == [i \in DOMAIN asked |-> ChunkOf(chunks, asked[i]).pixels]

Read(v, record, asked) ==
  LET wanted == {Record(record.frames, asked[i]) : i \in DOMAIN asked}
      answer == OriginalWorker(v, record, wanted)
  IN  CASE answer.status # "ok" -> answer
        [] ~ContiguousFrom(answer.value, record.size) -> Failed("CONFLICT")
        [] OTHER -> Done(InRequestOrder(answer.value, asked))

Init ==
  /\ video \in Videos
  /\ request = <<>> /\ pc = "ingest"
  /\ source = NotYet /\ detection = NotYet /\ pixels = NotYet

Ingest ==
  /\ pc = "ingest" /\ source' = Ingested(video)
  /\ pc' = IF source'.status = "ok" THEN "select" ELSE "over"
  /\ UNCHANGED <<video, request, detection, pixels>>

\* Any frames, each once, in any order; as many as one call takes.
Distinct(s) == \A i, j \in DOMAIN s : s[i] = s[j] => i = j

Select ==
  /\ pc = "select" /\ pc' = "detect"
  /\ \E n \in 1..2 : \E asked \in [1..n -> IndexesOf(source.value.frames)] :
       Distinct(asked) /\ request' = asked
  /\ UNCHANGED <<video, source, detection, pixels>>

Detect ==
  /\ pc = "detect" /\ pc' = "read"
  /\ detection' = Detected(video, source.value, {request[i] : i \in DOMAIN request})
  /\ UNCHANGED <<video, request, source, pixels>>

ReadPixels ==
  /\ pc = "read" /\ pc' = "over"
  /\ pixels' = Read(video, source.value, request)
  /\ UNCHANGED <<video, request, source, detection>>

Next == Ingest \/ Select \/ Detect \/ ReadPixels

Spec == Init /\ [][Next]_vars

---------------------------------------------------------------------------
TypeOK ==
  /\ pc \in {"ingest", "select", "detect", "read", "over"}
  /\ {source.status, detection.status, pixels.status}
       \subseteq {"none", "ok", "LIMIT_EXCEEDED", "DECODE_FAILED", "CONFLICT"}
  /\ source.status = "ok" => IndexesOf(source.value.frames) \subseteq Indexes(video)
  /\ detection.status = "ok" => DOMAIN detection.value = 1..Len(request)
  /\ pixels.status = "ok" => Len(pixels.value) = Len(request)

\* The three decoders have frames of one size in common, and quarter turns.
Plain == /\ \A n \in Indexes(video) : video.frames[n].size = video.size
         /\ \A n \in Indexes(video) : QuarterTurn(video.frames[n].rot)

\* Whatever frames of a recorded video are asked for, the detector finds them
\* again: ingestion takes no video within these forms that the detector refuses.
DetectorAcceptsWhatIsRecorded == Plain /\ detection.status # "none" => detection.status = "ok"

\* The same of the pixels, for a source whose rotation is already normalized.
ReaderAcceptsWhatIsRecorded ==
  Plain /\ source.status = "ok" /\ pixels.status # "none" =>
    (source.value.rot \in RequestRotations => pixels.status = "ok")

\* Every frame that is given back is the frame that was asked for at its place.
PixelsAreOfTheRequest ==
  pixels.status = "ok" => pixels.value = [i \in DOMAIN request |-> request[i]]

\* No detection is reported of a video in which another frame than the recorded
\* one stands at the index, nor by a rotation the boxes are not mapped by.
DetectionsAreOfTheRecord ==
  detection.status = "ok" =>
    /\ IndexesOf(detection.value) = {request[i] : i \in DOMAIN request}
    /\ \A i \in DOMAIN detection.value :
         LET frame == video.frames[detection.value[i].index]
         IN  frame.pts = detection.value[i].pts
             /\ frame.rot % 360 = source.value.rot % 360 /\ QuarterTurn(frame.rot)

\* Version 1 takes quarter turns "normalized" modulo 360: the pixels of every
\* frame on which boxes were found can be read.
=============================================================================
