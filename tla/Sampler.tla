------------------------------- MODULE Sampler -------------------------------
(***************************************************************************)
(* PtsFrameSampler (sampling.py): the frames of a stream arrive in pages,  *)
(* and for every point of a lattice of target times, anchored at the first *)
(* frame, the nearest frame is selected.  A page is one call; what it      *)
(* needs of the earlier pages is in the cursor the previous call issued.   *)
(* One candidate of the page is one step here, so the caller may be        *)
(* refused, or cancel, after any of them; the page then has no effect.     *)
(***************************************************************************)
EXTENDS Integers, Sequences, FiniteSets

CONSTANTS
    Times,          \* PTS values, in ticks of the stream's time base
    Durations,      \* durations in ticks; 0 stands for an absent one too
    Decodes,        \* decode indexes
    Rates,          \* target rates <<n, d>>: n targets in d ticks
    MaxPage,        \* max_page_candidates
    MaxTotal,       \* max_total_candidates
    MaxSpan         \* max_duration_seconds, in ticks

SamplerLimits ==
    /\ Times \subseteq Nat /\ Durations \subseteq Nat /\ Decodes \subseteq Nat
    /\ Rates \subseteq (Nat \ {0}) \X (Nat \ {0})
    /\ MaxPage \in Nat /\ MaxPage >= 2
    /\ MaxTotal \in Nat /\ MaxPage <= MaxTotal
    /\ MaxSpan \in Nat \ {0}

(* FrameRef: its identifier is a digest of what it says. *)
FrameRef == [pts : Times, decode : Decodes, duration : Durations]

VARIABLES
    rate,           \* sampling.target_fps, the same in every call
    cursor,         \* the cursor the last page issued, <<>> before the first
    page,           \* the locals of the call that is running, <<>> between calls
    taken,          \* history: the frames of the pages that were issued
    output          \* history: the frames those pages selected

vars == <<rate, cursor, page, taken, output>>

Cursor == [origin : Times, previous : FrameRef, left : FrameRef, next : Nat,
           seen : Nat, last : FrameRef, finished : BOOLEAN]

Page == [origin : Times, consumed : FrameRef, left : FrameRef, next : Nat,
         seen : Nat, last : FrameRef, todo : Nat,
         selected : Seq(FrameRef), fed : Seq(FrameRef)]

TypeOK ==
    /\ rate \in Rates
    /\ cursor = <<>> \/ cursor \in Cursor
    /\ page = <<>> \/ page \in Page
    /\ taken \in Seq(FrameRef)
    /\ output \in Seq(FrameRef)

Init ==
    /\ rate \in Rates
    /\ cursor = <<>> /\ page = <<>>
    /\ taken = <<>> /\ output = <<>>

-----------------------------------------------------------------------------
(* The lattice.  Target j is due n * (t - origin) / d >= j ticks after the  *)
(* origin.                                                                  *)

(* floor((t - origin) * fps): the last target due at time t. *)
Due(origin, t) == ((t - origin) * rate[1]) \div rate[2]

(* Slip: a target half-way between two frames goes to the later one. *)
SplitAfter(origin, l, r) == ((l + r - 2 * origin) * rate[1] - 1) \div (2 * rate[2])

(* The last target that is not nearer to r than to l. *)
Split(origin, l, r) == ((l + r - 2 * origin) * rate[1]) \div (2 * rate[2])

(* ceil((horizon - origin) * fps) - 1: the last target before the horizon. *)
DueBefore(origin, horizon) == ((horizon - origin) * rate[1] - 1) \div rate[2]

Larger(a, b) == IF a >= b THEN a ELSE b
Smaller(a, b) == IF a <= b THEN a ELSE b

-----------------------------------------------------------------------------
(* A call begins with k candidates. *)

(* Without a cursor the first candidate is the origin, and always selected. *)
StartPage(f, k) ==
    /\ cursor = <<>> /\ page = <<>>
    /\ k \in 1..MaxPage /\ k <= MaxTotal
    /\ page' = [origin |-> f.pts, consumed |-> f, left |-> f, next |-> 1,
                seen |-> k, last |-> f, todo |-> k - 1,
                selected |-> <<f>>, fed |-> <<f>>]
    /\ UNCHANGED <<rate, cursor, taken, output>>

(* The first candidate of a resumed page repeats cursor.previous. *)
SeenAfter(c, k) == c.seen + k - 1

(* The checks on a cursor other than that it belongs to this stream. *)
CursorFits(c, k) ==
    /\ SeenAfter(c, k) <= MaxTotal
    /\ c.left.pts >= c.origin
    /\ c.next = Due(c.origin, c.left.pts) + 1
    /\ c.previous.pts - c.origin <= MaxSpan

ResumePage(k) ==
    /\ page = <<>> /\ cursor # <<>>
    /\ ~cursor.finished
    /\ k \in 1..MaxPage
    /\ CursorFits(cursor, k)
    /\ page' = [origin |-> cursor.origin, consumed |-> cursor.previous,
                left |-> cursor.left, next |-> cursor.next,
                seen |-> SeenAfter(cursor, k), last |-> cursor.last, todo |-> k - 1,
                selected |-> <<>>, fed |-> <<>>]
    /\ UNCHANGED <<rate, cursor, taken, output>>

-----------------------------------------------------------------------------
(* One candidate. *)

InOrder(r) ==
    /\ r.decode > page.consumed.decode
    /\ r.pts >= page.consumed.pts
    /\ r.pts - page.origin <= MaxSpan

LeftWins(r) ==
    /\ page.next <= Smaller(Split(page.origin, page.left.pts, r.pts),
                            Due(page.origin, r.pts))
    /\ page.left # page.last

RightWins(r) ==
    Larger(page.next, Split(page.origin, page.left.pts, r.pts) + 1) <= Due(page.origin, r.pts)

Winners(r) == (IF LeftWins(r) THEN <<page.left>> ELSE <<>>)
              \o (IF RightWins(r) THEN <<r>> ELSE <<>>)

(* A later frame with the same time replaces nothing. *)
Candidate(r) ==
    /\ page # <<>>
    /\ page.todo > 0
    /\ InOrder(r)
    /\ page' = [page EXCEPT !.todo = @ - 1, !.consumed = r, !.fed = Append(@, r),
            !.left = IF r.pts > page.left.pts THEN r ELSE @,
            !.next = IF r.pts > page.left.pts THEN Larger(@, Due(page.origin, r.pts) + 1) ELSE @,
            !.selected = IF r.pts > page.left.pts THEN @ \o Winners(r) ELSE @,
            !.last = IF r.pts <= page.left.pts \/ Winners(r) = <<>> THEN @
                     ELSE Winners(r)[Len(Winners(r))]]
    /\ UNCHANGED <<rate, cursor, taken, output>>

-----------------------------------------------------------------------------
(* The call returns. *)

Issue(finished, next, last, selected) ==
    /\ page' = <<>>
    /\ cursor' = [origin |-> page.origin, previous |-> page.consumed, left |-> page.left,
                  next |-> next, seen |-> page.seen, last |-> last, finished |-> finished]
    /\ taken' = taken \o page.fed
    /\ output' = output \o selected
    /\ UNCHANGED rate

EndPage ==
    /\ page # <<>> /\ page.todo = 0
    /\ Issue(FALSE, page.next, page.last, page.selected)

Horizon == page.consumed.pts + page.consumed.duration

(* The last frame stands for the targets within its duration. *)
TailDue == DueBefore(page.origin, Horizon)

(* end_of_stream; a frame of no duration has no tail. *)
EndStream ==
    /\ page # <<>> /\ page.todo = 0
    /\ LET late == page.consumed.duration > 0 /\ page.next <= TailDue /\ page.left # page.last
       IN  /\ page.consumed.duration > 0 => Horizon - page.origin <= MaxSpan
           /\ Issue(TRUE,
                    IF page.consumed.duration > 0 THEN Larger(page.next, TailDue + 1)
                    ELSE page.next,
                    IF late THEN page.left ELSE page.last,
                    IF late THEN Append(page.selected, page.left) ELSE page.selected)

(* CANCELLED, CONFLICT or LIMIT_EXCEEDED: the cursor the caller has is still
   good, and it may call again. *)
AbandonPage ==
    /\ page # <<>>
    /\ page' = <<>>
    /\ UNCHANGED <<rate, cursor, taken, output>>

Next ==
    \/ \E f \in FrameRef, k \in 1..MaxPage : StartPage(f, k)
    \/ \E k \in 1..MaxPage : ResumePage(k)
    \/ \E r \in FrameRef : Candidate(r)
    \/ EndPage \/ EndStream \/ AbandonPage

Spec == Init /\ [][Next]_vars

-----------------------------------------------------------------------------
(* The definition: what sampling the whole stream in one go should give.   *)

Distance(x) == IF x >= 0 THEN x ELSE -x

(* Of frames with equal times only the first can be selected. *)
Leaders(s) == {i \in 1..Len(s) : i = 1 \/ s[i].pts > s[i - 1].pts}

(* The frame nearest to target j, the earlier one of two equally near. *)
Nearest(s, j) ==
    LET off(i) == Distance((s[i].pts - s[1].pts) * rate[1] - j * rate[2])
    IN  CHOOSE i \in Leaders(s) :
            \A k \in Leaders(s) : off(i) < off(k) \/ (off(i) = off(k) /\ i <= k)

(* Targets up to the last frame, and within its duration at the end. *)
LastTarget(s, ended) ==
    LET z == s[Len(s)]
    IN  IF ended /\ z.duration > 0 THEN DueBefore(s[1].pts, z.pts + z.duration)
        ELSE Due(s[1].pts, z.pts)

Chosen(s, ended) == {Nearest(s, j) : j \in 0..LastTarget(s, ended)}

(* The frames at a set of positions, in order. *)
FramesAt(s, I) ==
    [n \in 1..Cardinality(I) |->
        s[CHOOSE i \in I : Cardinality({k \in I : k <= i}) = n]]

(* However a stream is cut into pages, and whatever calls were refused in
   between, the pages select exactly the frames nearest to the targets that
   are due: none is missing, repeated, or out of order (_sample_page). *)
SelectionIsNearest ==
    cursor # <<>> => output = FramesAt(taken, Chosen(taken, cursor.finished))

(* A cursor that was issued is accepted: unless the stream is at a limit, the
   next page does not fail the check of next_target_index against the lattice. *)
IssuedCursorResumes ==
    cursor # <<>> /\ ~cursor.finished /\ cursor.seen < MaxTotal => CursorFits(cursor, 2)

(* No page selects a frame twice or more frames than a page may have, either
   of which would make SamplingPage raise in the middle of a stream. *)
Distinct(s) == \A i, k \in 1..Len(s) : s[i] = s[k] => i = k
(* The frames accepted over all pages are in order and within the limits:
   refused calls and page boundaries let none through. *)
StreamIsOrdered ==
    /\ \A i, k \in 1..Len(taken) : i < k =>
          taken[i].decode < taken[k].decode /\ taken[i].pts <= taken[k].pts
    /\ Len(taken) <= MaxTotal
    /\ cursor # <<>> => cursor.seen = Len(taken)
=============================================================================
