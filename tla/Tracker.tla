------------------------------- MODULE Tracker -------------------------------
(***************************************************************************)
(* GlobalLastBoxTracker (tracking.py): the detections of sampled frames    *)
(* become tracklets.  Frames arrive in pages; the cursor a page issues     *)
(* carries the tracks that are still open.  One frame of a page is one     *)
(* step here: a call may be refused or cancelled after any of them, and    *)
(* then has no effect.                                                     *)
(***************************************************************************)
EXTENDS Integers, Sequences, FiniteSets, FiniteSetsExt

CONSTANTS
    Box,                    \* boxes <<x1, y1, x2, y2>> the detector reports
    Threshold,              \* ASSOCIATION_IOU_BASIS_POINTS
    MaxMissed,              \* MAX_MISSED_SAMPLES
    MaxPage, MaxFrames, MaxObservations,
    MaxActive, MaxTracks, MaxPoints

TrackerLimits ==
    /\ Box \subseteq Nat \X Nat \X Nat \X Nat
    /\ {Threshold, MaxMissed} \subseteq Nat
    /\ {MaxPage, MaxFrames, MaxObservations, MaxActive, MaxTracks, MaxPoints} \subseteq Nat \ {0}
    /\ MaxPage <= MaxFrames /\ MaxActive <= MaxTracks

VARIABLES
    cursor,         \* the cursor the last page issued, <<>> before the first
    page,           \* the call that is running, <<>> between calls
    seen,           \* history: the observations of the issued pages
    cuts,           \* history: their frames that begin after a cut
    tracklets       \* history: the tracklets they returned

vars == <<cursor, page, seen, cuts, tracklets>>

(* Frames are numbered from 1: the code accepts only consecutive samples. *)
FrameNo == 1..MaxFrames

(* TrackPoint; its observation_id is a digest of what the detector saw, here
   frame and box: no two detections of a frame have the same box. *)
Point == [frame : FrameNo, box : Box]

Tracklet == [points : Seq(Point), reason : {"cut", "miss_timeout", "source_end"}]

Start == [active |-> [o \in {} |-> <<>>], next |-> 1, frames |-> 0, observations |-> 0,
          created |-> 0, maxActive |-> 0, cutFrames |-> 0,
          cutEnds |-> 0, missEnds |-> 0, sourceEnds |-> 0]

IsPrefix(x) ==
    /\ DOMAIN x = DOMAIN Start
    /\ DOMAIN x.active \subseteq 1..MaxTracks
    /\ \A o \in DOMAIN x.active :
          x.active[o].points \in Seq(Point) /\ x.active[o].missed \in 0..MaxMissed
    /\ \A k \in DOMAIN Start \ {"active"} : x[k] \in Nat

TypeOK ==
    /\ cursor = <<>> \/ (IsPrefix(cursor.prefix) /\ cursor.finished \in BOOLEAN)
    /\ page = <<>> \/
          /\ IsPrefix(page.prefix)
          /\ page.todo \in 0..MaxPage
          /\ page.completed \subseteq Tracklet
          /\ page.seen \subseteq Point /\ page.cuts \subseteq FrameNo
    /\ seen \subseteq Point /\ cuts \subseteq FrameNo /\ tracklets \subseteq Tracklet

Init == cursor = <<>> /\ page = <<>> /\ seen = {} /\ cuts = {} /\ tracklets = {}

-----------------------------------------------------------------------------
(* _iou_basis_points *)
Extent(a, b) == IF b > a THEN b - a ELSE 0
Area(b) == (b[3] - b[1]) * (b[4] - b[2])
Intersection(a, b) == Extent(Max({a[1], b[1]}), Min({a[3], b[3]}))
                      * Extent(Max({a[2], b[2]}), Min({a[4], b[4]}))
Iou(a, b) ==
    LET union == Area(a) + Area(b) - Intersection(a, b)
    IN  IF union <= 0 THEN 0 ELSE (Intersection(a, b) * 10000) \div union

Last(s) == s[Len(s)]
Tail1(t) == Last(t.points)

(* _maximum_assignment, by its result: see Assignment. *)
A == INSTANCE Assignment WITH
        MaxRows <- MaxActive, MaxColumns <- MaxActive, MaxWeight <- 10000, Infinity <- 1000000,
        weights <- <<>>, costs <- <<>>, row <- 0, column <- 0, rowPotential <- <<>>,
        columnPotential <- <<>>, matchedRow <- <<>>, predecessor <- <<>>, minimums <- <<>>,
        used <- {}, phase <- "done"

(* Slip: every pair of the assignment is taken. *)
AssignedPairs(active, boxes, P) == P

(* A pair of the assignment counts only above the threshold. *)
GoodPairs(active, boxes, P) ==
    {p \in P : Iou(Tail1(active[p[1]]).box, p[2]) >= Threshold}

(* The continuations the code may choose: tracks by ordinal, detections. *)
Associations(active, boxes) ==
    IF DOMAIN active = {} \/ boxes = {} THEN {{}}
    ELSE {GoodPairs(active, boxes, P) :
            P \in A!MaximumAssignments([i \in (DOMAIN active) \X boxes |->
                                            Iou(Tail1(active[i[1]]).box, i[2])])}

Complete(ts, reason) == {[points |-> t.points, reason |-> reason] : t \in ts}
TracksOf(active) == {active[o] : o \in DOMAIN active}

-----------------------------------------------------------------------------
(* One frame of the page. *)

ActiveAfterCut(p, cut) == IF cut THEN [o \in {} |-> <<>>] ELSE p.active

Continued(active, P, f) ==
    [o \in {p[1] : p \in P} |->
        [points |-> Append(active[o].points,
                           [frame |-> f, box |-> CHOOSE b \in Box : <<o, b>> \in P]),
         missed |-> 0]]

Lost(active, P) ==
    {o \in DOMAIN active : (\A p \in P : p[1] # o) /\ active[o].missed + 1 > MaxMissed}

Missed(active, P) ==
    [o \in DOMAIN active \ ({p[1] : p \in P} \cup Lost(active, P)) |->
        [active[o] EXCEPT !.missed = @ + 1]]

(* New tracks take the next ordinals in the order of the detections. *)
Opened(next, boxes, f) ==
    LET order == CHOOSE s \in [1..Cardinality(boxes) -> boxes] :
                    \A i, k \in 1..Cardinality(boxes) : s[i] = s[k] => i = k
    IN  [o \in next..(next + Cardinality(boxes) - 1) |->
            [points |-> <<[frame |-> f, box |-> order[o - next + 1]]>>, missed |-> 0]]

Joined(f, g) == [o \in DOMAIN f \cup DOMAIN g |-> IF o \in DOMAIN f THEN f[o] ELSE g[o]]

(* The track limits, which the code checks before it grows anything. *)
WithinLimits(p, active, P, fresh) ==
    /\ \A q \in P : Len(active[q[1]].points) < MaxPoints
    /\ p.created + Cardinality(fresh) <= MaxTracks
    /\ fresh # {} => Cardinality(DOMAIN active \ Lost(active, P)) + Cardinality(fresh) <= MaxActive

Frame(cut, boxes) ==
    /\ page # <<>> /\ page.todo > 0
    /\ LET p == page.prefix
           f == p.frames + 1
           active == ActiveAfterCut(p, cut)
       IN  /\ f <= MaxFrames
           /\ f = 1 => ~cut
           /\ Cardinality(boxes) <= MaxActive
           /\ p.observations + Cardinality(boxes) <= MaxObservations
           /\ \E P \in Associations(active, boxes) :
                LET fresh == {b \in boxes : \A q \in P : q[2] # b}
                    now == Joined(Joined(Continued(active, P, f), Missed(active, P)),
                                  Opened(p.next, fresh, f))
                IN  /\ WithinLimits(p, active, P, fresh)
                    /\ page' = [page EXCEPT
                          !.todo = @ - 1,
                          !.seen = @ \cup [frame : {f}, box : boxes],
                          !.cuts = IF cut THEN @ \cup {f} ELSE @,
                          !.completed = @
                              \cup Complete(TracksOf(p.active) \ TracksOf(active), "cut")
                              \cup Complete({active[o] : o \in Lost(active, P)}, "miss_timeout"),
                          !.prefix = [p EXCEPT
                              !.active = now, !.frames = f,
                              !.observations = @ + Cardinality(boxes),
                              !.next = @ + Cardinality(fresh),
                              !.created = @ + Cardinality(fresh),
                              !.maxActive = Max({@, Cardinality(DOMAIN now)}),
                              !.cutFrames = IF cut THEN @ + 1 ELSE @,
                              !.cutEnds = @ + Cardinality(DOMAIN p.active)
                                            - Cardinality(DOMAIN active),
                              !.missEnds = @ + Cardinality(Lost(active, P))]]
    /\ UNCHANGED <<cursor, seen, cuts, tracklets>>

-----------------------------------------------------------------------------
(* The calls. *)

(* A page needs a frame, unless it only ends the stream. *)
StartPage(k) ==
    /\ page = <<>>
    /\ cursor = <<>> => k > 0
    /\ cursor # <<>> => ~cursor.finished
    /\ page' = [prefix |-> IF cursor = <<>> THEN Start ELSE cursor.prefix,
                todo |-> k, completed |-> {}, seen |-> {}, cuts |-> {}, empty |-> k = 0]
    /\ UNCHANGED <<cursor, seen, cuts, tracklets>>

Issue(prefix, finished, completed) ==
    /\ cursor' = [prefix |-> prefix, finished |-> finished]
    /\ page' = <<>>
    /\ seen' = seen \cup page.seen /\ cuts' = cuts \cup page.cuts
    /\ tracklets' = tracklets \cup completed

EndPage ==
    /\ page # <<>> /\ page.todo = 0 /\ ~page.empty
    /\ Issue(page.prefix, FALSE, page.completed)

EndStream ==
    /\ page # <<>> /\ page.todo = 0
    /\ Issue([page.prefix EXCEPT !.active = [o \in {} |-> <<>>],
                                 !.sourceEnds = @ + Cardinality(DOMAIN page.prefix.active)],
             TRUE,
             page.completed \cup Complete(TracksOf(page.prefix.active), "source_end"))

(* Refused (LIMIT_EXCEEDED, CONFLICT, INVALID_REQUEST), cancelled, or answered
   UNSUPPORTED: the cursor of the caller is as good as before. *)
AbandonPage ==
    /\ page # <<>>
    /\ page' = <<>>
    /\ UNCHANGED <<cursor, seen, cuts, tracklets>>

Next ==
    \/ \E k \in 0..MaxPage : StartPage(k)
    \/ \E cut \in BOOLEAN, boxes \in SUBSET Box : Frame(cut, boxes)
    \/ EndPage \/ EndStream \/ AbandonPage

Spec == Init /\ [][Next]_vars

-----------------------------------------------------------------------------
Terminations(p) == p.cutEnds + p.missEnds + p.sourceEnds
PointsOf(t) == {t.points[i] : i \in 1..Len(t.points)}

(* What TrackingCursor.__post_init__ demands; it would raise ValueError. *)
CursorIsConsistent ==
    cursor # <<>> =>
        LET p == cursor.prefix
            active == p.active
        IN  /\ Cardinality(DOMAIN active) <= p.maxActive
            /\ p.maxActive <= MaxActive /\ p.maxActive <= p.created
            /\ p.next = p.created + 1
            /\ p.created <= MaxTracks /\ p.created <= p.observations
            /\ p.frames \in 1..MaxFrames /\ p.observations <= MaxObservations
            /\ p.cutFrames <= p.frames
            /\ p.created = Cardinality(DOMAIN active) + Terminations(p)
            /\ IF cursor.finished THEN DOMAIN active = {} ELSE p.sourceEnds = 0
            /\ \A o \in DOMAIN active :
                  /\ o < p.next
                  /\ Len(active[o].points) <= MaxPoints
                  /\ p.frames - Tail1(active[o]).frame = active[o].missed

AllTracks == tracklets \cup (IF cursor = <<>> THEN {} ELSE TracksOf(cursor.prefix.active))

(* Every observation of every page becomes a point of exactly one track, open
   or completed, however the frames were cut into pages: none is lost at a
   page boundary, claimed twice, or made up. *)
EveryObservationOnce ==
    /\ UNION {PointsOf(t) : t \in AllTracks} = seen
    /\ \A t1, t2 \in AllTracks : t1 # t2 => PointsOf(t1) \cap PointsOf(t2) = {}

(* A tracklet never spans a cut, skips more than MaxMissed samples, or joins
   boxes that overlap less than the threshold. *)
TrackletsAreContinuous ==
    \A t \in AllTracks : \A i \in 1..(Len(t.points) - 1) :
        LET a == t.points[i]
            b == t.points[i + 1]
        IN  /\ b.frame \in (a.frame + 1)..(a.frame + MaxMissed + 1)
            /\ Iou(a.box, b.box) >= Threshold
            /\ \A c \in cuts : ~(a.frame < c /\ c <= b.frame)

(* A tracklet that ended for misses ended no earlier than the code's limit
   allows: no frame within MaxMissed samples continued it, and a page
   boundary did not start its count afresh or cut it short. *)
TimeoutsAreDue ==
    cursor # <<>> =>
        /\ \A t \in tracklets : t.reason = "miss_timeout" =>
              Last(t.points).frame + MaxMissed < cursor.prefix.frames
        /\ \A o \in DOMAIN cursor.prefix.active :
              Tail1(cursor.prefix.active[o]).frame + MaxMissed >= cursor.prefix.frames

(* A finished stream returned a tracklet for every track it ever opened. *)
FinishedIsAccounted ==
    cursor # <<>> /\ cursor.finished => Cardinality(tracklets) = cursor.prefix.created
=============================================================================
