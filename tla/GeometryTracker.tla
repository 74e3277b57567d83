---------------------------- MODULE GeometryTracker ----------------------------
(***************************************************************************)
(* The benchmark's geometry tracker and the diagnostics it is judged by    *)
(* (scripts/v02_tracking_metrics.py), driven over one annotated clip as    *)
(* the benchmark drives it (_run_tracker, _evaluate_candidate and          *)
(* _representative_failures of scripts/run_v02_tracking_benchmark.py).     *)
(* Boxes are intervals of the frame's width: all have the frame's height.  *)
(***************************************************************************)
EXTENDS Integers, Sequences, FiniteSets, FiniteSetsExt, Functions, SequencesExt

CONSTANTS
    Width,              \* of the frame, in the unit of the boxes
    Boxes,              \* what a detector may report: <<left, right>>
    DetectionLists,     \* what it may report of a frame, most confident first
    Objects,            \* 1..n, the annotated tracks of a clip
    Clips,              \* annotated clips: sequences of partial functions object -> box
    Configurations,     \* [association, motion, threshold (basis points), maxMissed]
    Intervals,          \* between the times of two frames
    MaxExamples         \* MAX_FAILURE_EXAMPLES_PER_KIND

GeometryBounds ==
    /\ Width \in Nat \ {0} /\ DetectionLists \subseteq Seq(Boxes) /\ Intervals \subseteq Nat \ {0}
    /\ Boxes \subseteq {b \in (0..Width) \X (0..Width) : b[1] < b[2]}
    /\ MaxExamples \in Nat \ {0}

VARIABLES
    clip, configuration,
    tracks,         \* _states: id -> [seen |-> its last one or two sightings, missed]
    nextId, maximumActive, terminations,
    now,            \* pts_ms of the frame last given to the tracker
    frames,         \* what went in and came out: [cut, detections, observations]
    finished

vars == <<clip, configuration, tracks, nextId, maximumActive, terminations, now, frames, finished>>

Init ==
    /\ clip \in Clips /\ configuration \in Configurations
    /\ tracks = <<>> /\ nextId = 1 /\ maximumActive = 0
    /\ terminations = [cut |-> 0, miss_timeout |-> 0, source_end |-> 0]
    /\ now = 0 /\ frames = <<>> /\ finished = FALSE

-----------------------------------------------------------------------------
(* Overlap and assignment. *)

Least(a, b) == IF a < b THEN a ELSE b
Greatest(a, b) == IF a < b THEN b ELSE a

Intersection(a, b) == Greatest(0, Least(a[2], b[2]) - Greatest(a[1], b[1]))
Union2(a, b) == (a[2] - a[1]) + (b[2] - b[1]) - Intersection(a, b)

(* iou_basis_points; with Unit a multiple of every union, the exact ratio. *)
Overlap(a, b, unit) == (Intersection(a, b) * unit) \div Union2(a, b)
BasisPoints == 10000
Unit == 2520

Pairings(rows, columns) ==
    IF Cardinality(rows) <= Cardinality(columns)
    THEN {{<<r, f[r]>> : r \in rows} : f \in Injection(rows, columns)}
    ELSE {{<<f[c], c>> : c \in columns} : f \in Injection(columns, rows)}

(* hungarian_max: one of the pairings of the smaller side that weigh most. *)
MaximumPairing(rows, columns, Weight(_, _)) ==
    LET total == [p \in Pairings(rows, columns) |-> MapThenSumSet(LAMBDA x : Weight(x[1], x[2]), p)]
    IN  CHOOSE p \in DOMAIN total : \A q \in DOMAIN total : total[q] <= total[p]

-----------------------------------------------------------------------------
(* GeometryTracker *)

(* _prediction: \div rounds down, as // does. *)
Prediction(c, t, pts) ==
    LET last == t.seen[1].box
    IN  IF c.motion = "last" \/ Len(t.seen) = 1 THEN last
        ELSE LET before == t.seen[2].box
                 history == t.seen[1].pts - t.seen[2].pts
                 moved == ((last[1] + last[2] - before[1] - before[2]) * (pts - t.seen[1].pts)) \div history
                 extent == last[2] - last[1]
                 left == Greatest(0, Least(Width - extent, last[1] + moved \div 2))
             IN  <<left, left + extent>>

(* The order of ranked: score, then track, box and place. *)
BoxBefore(a, b) == a[1] < b[1] \/ (a[1] = b[1] /\ a[2] < b[2])
RanksBefore(score, detections, x, y) ==
    \/ score[x] > score[y]
    \/ score[x] = score[y] /\ x[1] < y[1]
    \/ score[x] = score[y] /\ x[1] = y[1] /\ BoxBefore(detections[x[2]], detections[y[2]])
    \/ score[x] = score[y] /\ x[1] = y[1] /\ detections[x[2]] = detections[y[2]] /\ x[2] < y[2]

(* _pairs: the global association drops what is below the threshold after *)
(* it has paired everything, the greedy one before.                       *)
Pairs(c, predicted, detections) ==
    LET score == [x \in (DOMAIN predicted) \X DOMAIN detections |->
                     Overlap(predicted[x[1]], detections[x[2]], BasisPoints)]
        eligible == {x \in DOMAIN score : score[x] >= c.threshold}
        Greedy[left \in SUBSET eligible] ==
            IF left = {} THEN {}
            ELSE LET first == CHOOSE x \in left : \A y \in left \ {x} : RanksBefore(score, detections, x, y)
                 IN  {first} \cup Greedy[{y \in left : y[1] # first[1] /\ y[2] # first[2]}]
    IN  IF c.association = "global"
        THEN eligible \cap MaximumPairing(DOMAIN predicted, DOMAIN detections, LAMBDA r, k : score[<<r, k>>])
        ELSE Greedy[eligible]

(* Slip: a cut is counted and its tracks go on. *)
KeptTracks(cut) == tracks

(* reset() at a detected cut. *)
Kept(cut) == IF cut THEN <<>> ELSE tracks

Expired(known, matched) ==
    {id \in (DOMAIN known) \ matched : known[id].missed + 1 > configuration.maxMissed}

(* The id a detection that continues nothing gets. *)
Fresh(cut, unused, k) == nextId + Cardinality({j \in unused : j < k})

(* One frame of _run_tracker: reset() when the cut score reaches its       *)
(* threshold, then update().                                               *)
Frame(cut, detections, interval) ==
    LET pts == now + interval
        known == Kept(cut)
        predicted == [id \in DOMAIN known |-> Prediction(configuration, known[id], pts)]
        pairs == IF DOMAIN known = {} \/ detections = <<>> THEN {}
                 ELSE Pairs(configuration, predicted, detections)
        matched == {p[1] : p \in pairs}
        unused == (DOMAIN detections) \ {p[2] : p \in pairs}
        expired == Expired(known, matched)
        Found(id) == detections[(CHOOSE p \in pairs : p[1] = id)[2]]
        continued == [id \in (DOMAIN known) \ expired |->
                         IF id \in matched
                         THEN [seen |-> <<[box |-> Found(id), pts |-> pts], known[id].seen[1]>>, missed |-> 0]
                         ELSE [known[id] EXCEPT !.missed = @ + 1]]
        opened == [k \in unused |-> Fresh(cut, unused, k)]
        Opener(id) == detections[CHOOSE k \in unused : opened[k] = id]
        ids == {opened[k] : k \in unused}
        alive == [id \in (DOMAIN continued) \cup ids |->
                     IF id \in ids THEN [seen |-> <<[box |-> Opener(id), pts |-> pts]>>, missed |-> 0]
                     ELSE continued[id]]
    IN  /\ ~finished /\ Len(frames) < Len(clip)
        /\ cut => frames # <<>>         \* the first frame has no score
        /\ tracks' = alive
        /\ nextId' = nextId + Cardinality(unused)
        /\ maximumActive' = Greatest(maximumActive, Cardinality(DOMAIN alive))
        /\ terminations' = [terminations EXCEPT
                !.cut = IF cut THEN @ + Cardinality(DOMAIN tracks) ELSE @,
                !.miss_timeout = @ + Cardinality(expired)]
        /\ now' = pts
        /\ frames' = Append(frames, [cut |-> cut, detections |-> detections,
                observations |-> [id \in matched \cup ids |-> alive[id].seen[1].box]])
        /\ UNCHANGED <<clip, configuration, finished>>

(* finish() at the end of the clip. *)
Finish ==
    /\ ~finished /\ Len(frames) = Len(clip)
    /\ terminations' = [terminations EXCEPT !.source_end = @ + Cardinality(DOMAIN tracks)]
    /\ tracks' = <<>> /\ finished' = TRUE
    /\ UNCHANGED <<clip, configuration, nextId, maximumActive, now, frames>>

Next ==
    \/ \E cut \in BOOLEAN, detections \in DetectionLists, interval \in Intervals :
           Frame(cut, detections, interval)
    \/ Finish

Spec == Init /\ [][Next]_vars

-----------------------------------------------------------------------------
(* The diagnostics. *)

(* frame_matches at the default threshold of one half. *)
Matches(i) ==
    LET truth == clip[i]
        found == frames[i].observations
    IN  {x \in MaximumPairing(DOMAIN truth, DOMAIN found, LAMBDA g, p : Overlap(truth[g], found[p], Unit)) :
             2 * Overlap(truth[x[1]], found[x[2]], Unit) >= Unit}

(* The track that an object was matched with in a frame, 0 for none. *)
MatchedWith(matches, g) ==
    IF \E x \in matches : x[1] = g THEN (CHOOSE x \in matches : x[1] = g)[2] ELSE 0

(* The visible objects in the order of the two loops: [frame, object, track]. *)
Sightings ==
    LET matches == [i \in DOMAIN frames |-> Matches(i)]
        n == Cardinality(Objects)
        all == [k \in 1..(n * Len(frames)) |-> <<((k - 1) \div n) + 1, ((k - 1) % n) + 1>>]
        visible == SelectSeq(all, LAMBDA x : x[2] \in DOMAIN clip[x[1]])
    IN  [k \in DOMAIN visible |-> [frame |-> visible[k][1], object |-> visible[k][2],
                                   track |-> MatchedWith(matches[visible[k][1]], visible[k][2])]]

(* identity_diagnostics *)
IdentityDiagnostics(sightings) ==
    FoldLeft(LAMBDA s, x :
        IF x.track = 0
        THEN [s EXCEPT !.gap = IF s.last[x.object] # 0 THEN @ \cup {x.object} ELSE @]
        ELSE [last |-> [s.last EXCEPT ![x.object] = x.track],
              gap |-> s.gap \ {x.object},
              switches |-> s.switches + (IF s.last[x.object] \notin {0, x.track} THEN 1 ELSE 0),
              fragmentations |-> s.fragmentations + (IF x.object \in s.gap THEN 1 ELSE 0)],
        [last |-> [g \in Objects |-> 0], gap |-> {}, switches |-> 0, fragmentations |-> 0],
        sightings)

(* false_cut_continuations *)
Continued(cut, window) ==
    LET Ids(range) == UNION {DOMAIN frames[i].observations : i \in range \cap DOMAIN frames}
    IN  Ids((cut - window)..(cut - 1)) \cap Ids(cut..(cut + window - 1))

(* _representative_failures: the first examples of each kind. *)
RepresentativeFailures(sightings) ==
    FoldLeft(LAMBDA s, x :
        LET Keep(kind, holds) == IF holds /\ Len(s[kind]) < MaxExamples
                                 THEN Append(s[kind], <<x.frame, x.object>>) ELSE s[kind]
        IN  IF x.track = 0
            THEN [s EXCEPT !.missed = Keep("missed", TRUE),
                           !.gap = IF s.last[x.object] # 0 THEN @ \cup {x.object} ELSE @]
            ELSE [s EXCEPT !.switch = Keep("switch", s.last[x.object] \notin {0, x.track}),
                           !.fragmentation = Keep("fragmentation", x.object \in s.gap),
                           !.last[x.object] = x.track, !.gap = @ \ {x.object}],
        [last |-> [g \in Objects |-> 0], gap |-> {}, missed |-> <<>>, switch |-> <<>>, fragmentation |-> <<>>],
        sightings)

(* Its examples of ids that continue across an annotated cut: [cut, id],   *)
(* cut by cut, the ids of a cut in their order.                            *)
CutExamples(cuts, window) ==
    FoldLeft(LAMBDA kept, cut :
        LET ids == SetToSortSeq(Continued(cut, window), <)
            room == Least(MaxExamples - Len(kept), Len(ids))
        IN  kept \o [k \in 1..room |-> <<cut, ids[k]>>],
        <<>>, cuts)

-----------------------------------------------------------------------------
(* The state holds what the code's fields hold. *)
TypeOK ==
    /\ clip \in Clips /\ configuration \in Configurations /\ finished \in BOOLEAN
    /\ DOMAIN tracks \subseteq 1..(nextId - 1)
    /\ \A id \in DOMAIN tracks :
           /\ tracks[id].missed \in 0..configuration.maxMissed
           /\ Len(tracks[id].seen) \in 1..2
           /\ \A k \in DOMAIN tracks[id].seen : tracks[id].seen[k].box \in Boxes
           /\ Len(tracks[id].seen) = 2 => tracks[id].seen[1].pts > tracks[id].seen[2].pts
    /\ maximumActive >= Cardinality(DOMAIN tracks)

(* Every track that was opened is alive or was ended exactly once, for one *)
(* of the three reasons, and was observed: the counts the benchmark        *)
(* publishes add up.                                                       *)
TracksAddUp ==
    /\ nextId - 1 = Cardinality(DOMAIN tracks) + terminations.cut + terminations.miss_timeout
                        + terminations.source_end
    /\ UNION {DOMAIN frames[i].observations : i \in DOMAIN frames} = 1..(nextId - 1)
    /\ finished => DOMAIN tracks = {}

(* Every detection of a frame comes out under exactly one track id. *)
EveryDetectionIsTracked ==
    \A i \in DOMAIN frames :
        LET seen == frames[i].observations
            given == frames[i].detections
        IN  \A box \in Boxes :
                Cardinality({id \in DOMAIN seen : seen[id] = box})
                    = Cardinality({k \in DOMAIN given : given[k] = box})

(* No id is seen on both sides of a cut that the benchmark detected at     *)
(* that frame, whatever window is compared: a false continuation is always *)
(* a cut that was missed.                                                  *)
CutsEndTracks ==
    \A i \in DOMAIN frames : frames[i].cut => \A w \in 1..Len(frames) : Continued(i, w) = {}

(* An id that comes back was away for no more samples than the             *)
(* configuration allows.                                                   *)
ReturnsInTime ==
    \A i, j \in DOMAIN frames : \A id \in DOMAIN frames[i].observations :
        (/\ i < j /\ id \in DOMAIN frames[j].observations
         /\ \A k \in (i + 1)..(j - 1) : id \notin DOMAIN frames[k].observations)
        => j - i - 1 <= configuration.maxMissed

(* The counts of identity_diagnostics are those of the whole clip: one     *)
(* switch per object and frame whose previous match was another track, one *)
(* fragmentation per object and frame that ends a gap after a match.       *)
DiagnosticsAreExact ==
    finished =>
        LET s == Sightings
            found == {k \in DOMAIN s : s[k].track # 0}
            Earlier(k) == {j \in found : j < k /\ s[j].object = s[k].object}
            Missed(j, k) == \E m \in (j + 1)..(k - 1) : s[m].object = s[k].object
            result == IdentityDiagnostics(s)
        IN  /\ result.switches = Cardinality({k \in found :
                   Earlier(k) # {} /\ s[Max(Earlier(k))].track # s[k].track})
            /\ result.fragmentations = Cardinality({k \in found :
                   Earlier(k) # {} /\ Missed(Max(Earlier(k)), k)})

(* The examples that _representative_failures keeps are as many as the     *)
(* counts of identity_diagnostics and false_cut_continuations, up to their *)
(* limit, wherever a clip is cut: the loops, in two files, see the same    *)
(* failures.                                                               *)
ExamplesMatchTheCounts ==
    finished =>
        LET s == Sightings
            counted == IdentityDiagnostics(s)
            kept == RepresentativeFailures(s)
        IN  /\ Len(kept.switch) = Least(MaxExamples, counted.switches)
            /\ Len(kept.fragmentation) = Least(MaxExamples, counted.fragmentations)
            /\ Len(kept.missed) = Least(MaxExamples, Cardinality({k \in DOMAIN s : s[k].track = 0}))
            /\ \A cuts \in SUBSET (2..Len(frames)), window \in 1..Len(frames) :
                   Len(CutExamples(SetToSortSeq(cuts, <), window)) =
                       Least(MaxExamples, MapThenSumSet(LAMBDA cut : Cardinality(Continued(cut, window)), cuts))
===============================================================================
