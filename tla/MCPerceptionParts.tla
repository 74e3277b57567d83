--------------------------- MODULE MCPerceptionParts ---------------------------
(***************************************************************************)
(* The parts a perception run is made of, on small instances.  They share  *)
(* no state: "part" says which of them a behaviour is about, the variables *)
(* of the others stay Unused or where they start.                          *)
(***************************************************************************)
EXTENDS Integers, Sequences, TLC

CONSTANTS None, Unused, Bad

VARIABLES
    part,
    rate, samplerCursor, samplerPage, taken, output,
    weights, costs, row, column, rowPotential, columnPotential, matchedRow,
    predecessor, minimums, used, phase,
    cursor, page, seen, cuts, tracklets,
    transform, detectedBox, geometry, crop,
    sinkPc, file, knows,
    config, chosenTracklets, planned, next, original, crops, total, result,
    step, calling, outcome, cancelled, expired, raw, following, previousCandidate,
    previousSelected, selected, detected, sampled, observations, runTracklets, active,
    intents, toPlan, pages, candidateCount, events, lateCalls, lastOffered,
    content, mtime, cancel, callExpired, decoded, source, call, cached, callPc, fds, copy,
    before, answer, callSeen, calls,
    video, request, decoderPc, recorded, detection, pixels,
    record, stored, altered, loaded

-----------------------------------------------------------------------------
(* Streams of up to four frames: rates below, at and above the frame rate, *)
(* equal times, gaps, and tails.                                           *)
Sampling == INSTANCE Sampler WITH
    Times <- 0..4, Durations <- {0, 2}, Decodes <- 0..3,
    Rates <- {<<1, 1>>, <<2, 3>>, <<2, 1>>}, MaxPage <- 3, MaxTotal <- 4, MaxSpan <- 4,
    cursor <- samplerCursor, page <- samplerPage

(* Every matrix of up to three rows and columns. *)
Assigning == INSTANCE Assignment WITH
    MaxRows <- 3, MaxColumns <- 3, MaxWeight <- 2, Infinity <- 100

(* Two overlapping boxes, which continue each other, and one apart. *)
Tracking == INSTANCE Tracker WITH
    Box <- {<<0, 0, 4, 4>>, <<2, 0, 6, 4>>, <<5, 5, 7, 7>>}, Threshold <- 1000,
    MaxMissed <- 2, MaxPage <- 2, MaxFrames <- 5, MaxObservations <- 4, MaxActive <- 2,
    MaxTracks <- 3, MaxPoints <- 3

(* All rotations, one of them declared negative; letterboxes and upscaling. *)
Mapping == INSTANCE DetectorGeometry WITH
    Widths <- {2, 3}, Heights <- {1, 3}, DetectorWidth <- 4, DetectorHeight <- 3,
    Rotations <- {0, 90, 180, -90}, detected <- detectedBox

(* Three calls for one crop. *)
Sink == INSTANCE CropSink WITH Caller <- {"c1", "c2", "c3"}, Size <- 3, pc <- sinkPc

(* Six observations in three frames of a 4 by 4 image.  Two boxes of the   *)
(* second frame coincide in different categories, so two tracklets can ask *)
(* for the same evidence.                                                  *)
O(id, f, b, c, q) ==
    [id |-> id, frame |-> f, pts |-> f, box |-> b, category |-> c, confidence |-> q]
MCObservation ==
    {O("o1", 1, <<0, 0, 2, 2>>, "car", 2), O("o2", 2, <<1, 1, 3, 3>>, "car", 1),
     O("o3", 2, <<1, 1, 3, 3>>, "bus", 2), O("o4", 3, <<1, 1, 4, 3>>, "car", 2),
     O("o5", 3, <<1, 1, 3, 2>>, "bus", 2), O("o6", 1, <<1, 1, 3, 2>>, "bus", 1)}
Selecting == INSTANCE Materialization WITH
    Observation <- MCObservation, Width <- 4, Height <- 4, Scale <- 4, MaxSelected <- 2,
    MaxBytes <- 9, Needs <- {"INSPECTION", "DOWNSTREAM_DETAIL"},
    Details <- {"UNKNOWN", "RESOLVED", "UNRESOLVABLE"},
    tracklets <- chosenTracklets, intents <- planned, selected <- crops

(* Pages of four frames, two observations of which share a frame. *)
Perceiving == INSTANCE PerceptionRun WITH
    LastDecode <- 4, Observation <- {"o1", "o2", "o3"},
    ObservationFrame <- [o1 |-> 1, o2 |-> 3, o3 |-> 3],
    PageCandidates <- 2, MaxPages <- 3, MaxCandidates <- 3, MaxSamples <- 3,
    MaxObservations <- 3, MaxTracklets <- 2, WithPixels <- TRUE, tracklets <- runTracklets

(* Four calls of a worker while the file is written up to three times. *)
Calling == INSTANCE WorkerCall WITH
    Blocks <- 2, MaxWrites <- 3, MaxCalls <- 4,
    expired <- callExpired, pc <- callPc, seen <- callSeen

(* Videos of up to two frames with every combination of a missing, early   *)
(* or late time, duration, size, rotation and key-frame flag.              *)
NoTime == 99
FrameSet == [pts : {NoTime, 0, 2}, dur : {NoTime, -1, 1}, size : 1..2,
             rot : {0, 90, 45}, key : BOOLEAN]
VideoSet == [size : 1..2, frames : UNION {[1..n -> FrameSet] : n \in 0..2}]
Decoding == INSTANCE VideoDecoding WITH
    MaxFrames <- 2, MaxBytes <- 3, MaxDuration <- 2, MaxSize <- 2, Videos <- VideoSet,
    pc <- decoderPc, source <- recorded

(* Records of every schema, valid and not: equal times in two bases, two   *)
(* estimates, boxes that leave the frame or disagree with their transform, *)
(* lists at their limits and above, tracks with repeated or early points.  *)
Moment(v, b) == [value |-> v, base |-> b, basis |-> "measured", method |-> None, producer |-> None]
Moments ==
    {Moment(1, <<1, 2>>), Moment(1, <<1, 1>>), Moment(2, <<1, 2>>), Moment(Bad, <<1, 1>>)}
    \cup [value : {1}, base : {<<1, 2>>}, basis : {"measured", "estimated", Bad},
          method : {None, "previous_pts_plus_duration"}, producer : {None, "tracker"}]
Region(box, kind, space, coefficients) ==
    [width |-> 3, height |-> 2, box |-> box, measurement |-> "measured", kind |-> kind,
     space |-> space, coefficients |-> coefficients]
Shifted == <<<<3, 2>>, <<0, 1>>, <<0, 1>>, <<0, 1>>, <<-1, 1>>, <<2, 1>>>>
Regions ==
    {Region(b, k, s, c) :
        b \in {<<0, 0, 2, 2>>, <<0, 0, 1, 2>>, <<1, 0, 4, 2>>}, k \in {"identity", "affine_rational"},
        s \in {None, [width |-> 2, height |-> 2, box |-> <<0, 0, 1, 2>>]}, c \in {None, Shifted}}
Lists(S, n) == UNION {[1..k -> S] : k \in 0..n}
Points ==
    {[source_id |-> "s", frame_id |-> f, stream_index |-> 0, pts |-> Moment(t, <<1, b>>),
      geometry |-> Region(<<0, 0, 2, 2>>, "identity", None, None), category |-> "car",
      observation_id |-> <<f, t, b>>] : f \in {"f", "g"}, t \in 1..2, b \in 1..2}
RecordInputs ==
    [source |-> [fingerprint : {"a", "b", Bad}, streams : Lists([index : 0..1, rest : {"x", "y"}], 3)],
     frame_ref |-> [source_id : {"s", "t"}, stream_index : {0}, decode_index : {0, 1}, pts : Moments,
                    duration : {None, Moment(1, <<1, 1>>), Moment(2, <<1, 2>>)},
                    key_frame : {None, FALSE, Bad}],
     evidence_ref |-> [frame_id : {"f", "g"}, artifact : [sha256 : {"a", "b"}, bytes : {1, 2}],
                       geometry : {None} \cup Regions],
     run_manifest |-> [source_id : {"s"}, producers : Lists({"a", "b"}, 3), sampling : 0..1,
                       state : {"preparing", "committed", "failed", Bad}, outputs : {None, "o", "p"}],
     observation |-> [source_id : {"s"}, frame_id : {"f", "g"}, stream_index : {0},
                      pts : {Moment(1, <<1, 1>>), Moment(2, <<1, 2>>)}, geometry : Regions,
                      category : {"car", "bus"}, confidence_millionths : {5, Bad}, producer : {"d"}],
     tracklet |-> [source_id : {"s", "t"}, stream_index : {0}, category : {"car"},
                   points : Lists(Points, 3), termination : {"cut", "source_end"}, producer : {"d"}]]
Recording == INSTANCE Records WITH
    Inputs <- RecordInputs, MaxArrayItems <- 2, MaxStreams <- 2, MaxProducers <- 2,
    MaxTrackPoints <- 2

ASSUME Parameters ==
    /\ Sampling!SamplerLimits /\ Assigning!AssignmentBounds /\ Tracking!TrackerLimits
    /\ Mapping!GeometrySizes /\ Sink!CropHasBytes /\ Selecting!SelectionLimits
    /\ Perceiving!PerceptionConfig /\ Perceiving!FramesOfObservations
    /\ Calling!WorkerCallAssumption /\ Decoding!LimitsAssumption /\ Recording!RecordLimits

samplerVars == <<rate, samplerCursor, samplerPage, taken, output>>
assignmentVars == <<weights, costs, row, column, rowPotential, columnPotential, matchedRow,
                    predecessor, minimums, used, phase>>
trackerVars == <<cursor, page, seen, cuts, tracklets>>
geometryVars == <<transform, detectedBox, geometry, crop>>
sinkVars == <<sinkPc, file, knows>>
materializationVars == <<config, chosenTracklets, planned, next, original, crops, total, result>>
runVars == <<step, calling, outcome, cancelled, expired, raw, following, previousCandidate,
             previousSelected, selected, detected, sampled, observations, runTracklets, active,
             intents, toPlan, pages, candidateCount, events, lateCalls, lastOffered>>
callVars == <<content, mtime, cancel, callExpired, decoded, source, call, cached, callPc, fds,
              copy, before, answer, callSeen, calls>>
decodingVars == <<video, request, decoderPc, recorded, detection, pixels>>
recordVars == <<record, stored, altered, loaded>>
vars == <<part, samplerVars, assignmentVars, trackerVars, geometryVars, sinkVars,
          materializationVars, runVars, callVars, decodingVars, recordVars>>

NoSampling ==
    rate = Unused /\ samplerCursor = Unused /\ samplerPage = Unused /\ taken = Unused
    /\ output = Unused
NoAssignment ==
    /\ weights = Unused /\ costs = Unused /\ row = Unused /\ column = Unused
    /\ rowPotential = Unused /\ columnPotential = Unused /\ matchedRow = Unused
    /\ predecessor = Unused /\ minimums = Unused /\ used = Unused /\ phase = Unused
NoMapping == transform = Unused /\ detectedBox = Unused /\ geometry = Unused /\ crop = Unused
NoSelecting ==
    /\ config = Unused /\ chosenTracklets = Unused /\ planned = Unused /\ next = Unused
    /\ original = Unused /\ crops = Unused /\ total = Unused /\ result = Unused
NoDecoding ==
    /\ video = Unused /\ request = Unused /\ decoderPc = Unused /\ recorded = Unused
    /\ detection = Unused /\ pixels = Unused

Init ==
    /\ part \in {"sampler", "assignment", "tracker", "geometry", "sink", "materialization",
                 "run", "call", "decoders", "records"}
    /\ IF part = "sampler" THEN Sampling!Init ELSE NoSampling
    /\ IF part = "assignment" THEN Assigning!Init ELSE NoAssignment
    /\ Tracking!Init
    /\ IF part = "geometry" THEN Mapping!Init ELSE NoMapping
    /\ Sink!Init
    /\ IF part = "materialization" THEN Selecting!Init ELSE NoSelecting
    /\ Perceiving!Init
    /\ Calling!Init
    /\ IF part = "decoders" THEN Decoding!Init ELSE NoDecoding
    /\ Recording!Init

Next ==
    /\ part' = part
    /\ IF part = "sampler" THEN Sampling!Next ELSE UNCHANGED samplerVars
    /\ IF part = "assignment" THEN Assigning!Next ELSE UNCHANGED assignmentVars
    /\ IF part = "tracker" THEN Tracking!Next ELSE UNCHANGED trackerVars
    /\ IF part = "geometry" THEN Mapping!Next ELSE UNCHANGED geometryVars
    /\ IF part = "sink" THEN Sink!Next ELSE UNCHANGED sinkVars
    /\ IF part = "materialization" THEN Selecting!Next ELSE UNCHANGED materializationVars
    /\ IF part = "run" THEN Perceiving!Next ELSE UNCHANGED runVars
    /\ IF part = "call" THEN Calling!Next ELSE UNCHANGED callVars
    /\ IF part = "decoders" THEN Decoding!Next ELSE UNCHANGED decodingVars
    /\ IF part = "records" THEN Recording!Next ELSE UNCHANGED recordVars

Spec == Init /\ [][Next]_vars

-----------------------------------------------------------------------------
(* However a stream is cut into pages, and whatever calls were abandoned,   *)
(* the pages select exactly the frames nearest to the targets that are due, *)
(* each once; and a cursor that was issued can be resumed (_sample_page).   *)
SamplingIsNearest ==
    /\ [](part = "sampler" =>
            /\ Sampling!TypeOK /\ Sampling!SelectionIsNearest
            /\ Sampling!IssuedCursorResumes /\ Sampling!StreamIsOrdered)
    /\ [][part = "sampler" => /\ Len(output') <= Len(output) + 3
                              /\ Sampling!Distinct(SubSeq(output', Len(output) + 1, Len(output')))]_output

(* Every observation of every page becomes a point of exactly one tracklet, *)
(* which spans no cut and no long gap and ends when it should, and each     *)
(* cursor is one that the next page accepts (IouTracker._track_page).  What *)
(* a frame continues is an assignment no other is better than, found with   *)
(* potentials feasible all the way (_maximum_weight_assignment).            *)
EveryObservationOnce ==
    /\ part = "assignment" => /\ Assigning!TypeOK /\ Assigning!PotentialsAreFeasible
                              /\ Assigning!RowsAreMatched /\ Assigning!ResultIsMaximum
    /\ part = "tracker" =>
          /\ Tracking!TypeOK /\ Tracking!CursorIsConsistent
          /\ Tracking!EveryObservationOnce /\ Tracking!TrackletsAreContinuous
          /\ Tracking!TimeoutsAreDue /\ Tracking!FinishedIsAccounted

(* A box in the detector's input becomes the box of exactly the source      *)
(* pixels it saw, and the crop has exactly their bytes (map_box,            *)
(* extract_rgb24_crop); a crop that was returned is there, whole, read-only *)
(* and the caller's own, and a file of another caller is never touched      *)
(* (write_rgb24_crop).                                                      *)
CropsAreExact ==
    /\ [](part = "geometry" =>
            Mapping!TypeOK /\ Mapping!BoxIsWhatWasSeen /\ Mapping!CropIsByteExact)
    /\ [](part = "sink" => Sink!TypeOK /\ Sink!ReturnedIsThere /\ Sink!ReadOnlyIsWhole)
    /\ Sink!OthersFilesAreKept

(* A batch of crops is all of the plan, in its order and within the budget  *)
(* of the run, with distinct references; and the plan leaves out nothing    *)
(* that is better in every respect (materialize_evidence, rank_key).        *)
BatchIsWhole ==
    part = "materialization" =>
        /\ Selecting!TypeOK /\ Selecting!NothingBetterLeftOut
        /\ Selecting!WholeBatch /\ Selecting!BatchFitsStore

(* What a run of several pages hands over is a whole graph, within the      *)
(* bound on events, and scored and sampled across the pages; a run whose    *)
(* deadline has passed asks at most one more adapter.                       *)
HandedOverIsWhole ==
    /\ [](part = "run" =>
            /\ Perceiving!TypeOK /\ Perceiving!HandedOverIsWhole
            /\ Perceiving!DeadlineStopsTheRun
            /\ Perceiving!ScoredAgainstTheLastFrame /\ Perceiving!EventsFit)
    /\ Perceiving!SamplerIsResumedExactly

(* An answer is about the content that was asked for, however the file is   *)
(* written meanwhile; a call that was cancelled or late answers nothing and *)
(* no way out leaves a descriptor open.                                     *)
AnswersAreOfTheSource ==
    /\ [](part = "call" =>
            Calling!TypeOK /\ Calling!DescriptorsAreClosed /\ Calling!ResultIsOfTheSource)
    /\ Calling!MediaAnswersAgree /\ Calling!NoLateResult

(* The three decoders agree: a frame that ingestion recorded is found again *)
(* by the detector and the reader, each is the one that was asked for, and  *)
(* nothing else is detected.                                                *)
DecodersAgree ==
    part = "decoders" =>
        /\ Decoding!TypeOK
        /\ Decoding!DetectorAcceptsWhatIsRecorded /\ Decoding!ReaderAcceptsWhatIsRecorded
        /\ Decoding!PixelsAreOfTheRequest /\ Decoding!DetectionsAreOfTheRecord

(* A record that can be created can be written and is read back as it was;  *)
(* whatever is damaged or replaced in between, what is read is what would   *)
(* be written, and says under its identifier nothing else than the record   *)
(* that got it (ingestion.py, perception.py).                               *)
RecordsAreExact ==
    part = "records" =>
        /\ Recording!TypeOK /\ Recording!CreatedIsStorable
        /\ Recording!LoadedIsCanonical /\ Recording!NamesAreBinding
================================================================================
