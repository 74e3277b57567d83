----------------------------- MODULE PerceptionRun -----------------------------
(***************************************************************************)
(* The page loop of PerceptionCoordinator._execute (coordinator.py), from  *)
(* the first probe to the graph it hands over for publication.  It asks    *)
(* one adapter after the other: the video for the page after the current   *)
(* one, the sampler, the detector, the discontinuity scorer, the tracker,  *)
(* and the selector once per tracklet.  The adapters are not trusted: each *)
(* may answer anything, and what the code does not refuse it goes on with. *)
(* Meanwhile another thread may cancel the run, and its deadline may pass. *)
(* A frame is named by its decode index, a tracklet by its points.         *)
(***************************************************************************)
EXTENDS Integers, Sequences, FiniteSets, SequencesExt

CONSTANTS
    LastDecode,         \* the decode indexes are 1..LastDecode
    Observation, ObservationFrame,
    PageCandidates,     \* config.page_candidates
    MaxPages, MaxCandidates, MaxSamples, MaxObservations, MaxTracklets,
    WithPixels          \* run_with_original_frames: crops are materialized

PerceptionConfig ==
    /\ PageCandidates \in Nat /\ PageCandidates >= 2
    /\ {LastDecode, MaxPages, MaxCandidates, MaxSamples} \subseteq Nat \ {0}
    /\ {MaxObservations, MaxTracklets} \subseteq 0..MaxSamples
    /\ WithPixels \in BOOLEAN

FramesOfObservations == ObservationFrame \in [Observation -> 1..LastDecode]

VARIABLES
    step,               \* the adapter the run is about to ask, or asks
    calling,            \* whether the call is running
    outcome,            \* how the run ended, "running" before
    cancelled, expired, \* the caller's event is set; the deadline has passed
    raw, following,     \* the page and the one after it
    previousCandidate, previousSelected,    \* of the earlier pages; 0 for None
    selected,           \* of this page
    detected,           \* of this page
    sampled, observations, tracklets, active, intents,
    toPlan,             \* tracklets of this page without a plan
    pages, candidateCount, events,
    lateCalls, lastOffered      \* history: calls begun after the deadline; the
                                \* last candidate the sampler was offered

inputs == <<cancelled, expired>>
pageVars == <<raw, following, selected, detected, toPlan>>
graphVars == <<sampled, observations, tracklets, active, intents>>
pastVars == <<previousCandidate, previousSelected, pages, candidateCount>>
history == <<lateCalls, lastOffered>>
vars == <<step, calling, outcome, events, inputs, pageVars, graphVars, pastVars, history>>

Frame == 1..LastDecode
Page == Seq(Frame)
Adapter == {"probe", "read", "follow", "sample", "detect", "score", "track", "plan",
            "reprobe", "crop", "reprobe_again"}

TypeOK ==
    /\ step \in Adapter \cup {"loop", "commit"}
    /\ outcome \in {"running", "cancelled", "incomplete", "error", "handed_over"}
    /\ {calling, cancelled, expired} \subseteq BOOLEAN
    /\ {raw, following, selected, sampled} \subseteq Page
    /\ {previousCandidate, previousSelected, lastOffered} \subseteq 0..LastDecode
    /\ UNION {detected, observations, active} \subseteq Observation
    /\ toPlan \subseteq tracklets
    /\ \A t \in tracklets : t \subseteq observations
    /\ \A i \in intents : i[1] \in tracklets /\ i[2] \in Observation
    /\ pages <= MaxPages /\ candidateCount <= MaxCandidates
    /\ Len(sampled) <= MaxSamples /\ Cardinality(tracklets) <= MaxTracklets

Init ==
    /\ step = "probe" /\ calling = FALSE /\ outcome = "running" /\ events = 0
    /\ cancelled = FALSE /\ expired = FALSE
    /\ raw = <<>> /\ following = <<>> /\ selected = <<>>
    /\ detected = {} /\ toPlan = {}
    /\ sampled = <<>> /\ observations = {} /\ tracklets = {} /\ active = {} /\ intents = {}
    /\ previousCandidate = 0 /\ previousSelected = 0 /\ pages = 0 /\ candidateCount = 0
    /\ lateCalls = 0 /\ lastOffered = 0

-----------------------------------------------------------------------------
(* Calls. *)

MaxEvents == MaxPages * 6 + MaxSamples + 8  \* MAX_PERCEPTION_EVENTS

Running == outcome = "running"

End(o) ==
    /\ outcome' = o /\ calling' = FALSE /\ events' = events + 1
    /\ UNCHANGED <<step, inputs, pageVars, graphVars, pastVars, history>>

(* Candidates of a page after the first begin with the last one before it. *)
Candidates == IF previousCandidate = 0 THEN raw ELSE <<previousCandidate>> \o raw

(* _raise_if_cancelled comes before every call but the last probe. *)
Call ==
    /\ Running /\ ~calling /\ step \in Adapter
    /\ step = "plan" => toPlan # {}
    /\ cancelled => step = "reprobe_again"
    /\ calling' = TRUE
    /\ lateCalls' = IF expired THEN lateCalls + 1 ELSE lateCalls
    /\ lastOffered' = IF step = "sample" THEN Last(Candidates) ELSE lastOffered
    /\ UNCHANGED <<step, outcome, events, inputs, pageVars, graphVars, pastVars>>

CancelBeforeCall ==
    /\ Running /\ ~calling /\ step \in Adapter \ {"reprobe_again"}
    /\ cancelled
    /\ End("cancelled")

CancelAfterCall == Running /\ calling /\ cancelled /\ End("cancelled")

(* _expired is asked after every call. *)
ExpiryChecked(s) == s \in Adapter

ExpireAfterCall ==
    /\ Running /\ calling /\ ~cancelled /\ expired
    /\ ExpiryChecked(step)
    /\ End("error")

(* The adapter raises, or what it returns is malformed, conflicts with what
   was asked, or exceeds a limit. *)
Refuse == Running /\ calling /\ ~cancelled /\ End("error")

(* The adapter returns a state other than COMPLETE. *)
Incomplete ==
    /\ Running /\ calling /\ ~cancelled /\ ~expired
    /\ step \in {"detect", "score", "track", "plan", "crop"}
    /\ End("incomplete")

(* The adapter of step s has answered in time; the run goes on with n. *)
Answered(s, n) ==
    /\ Running /\ calling /\ ~cancelled
    /\ step = s
    /\ expired => ~ExpiryChecked(s)
    /\ calling' = FALSE /\ step' = n
    /\ events' = IF s \in {"reprobe", "reprobe_again"} THEN events ELSE events + 1
    /\ UNCHANGED <<outcome, inputs, history>>

-----------------------------------------------------------------------------
(* Pages. *)

IsIncreasing(p) == \A i \in 1..Len(p) - 1 : p[i] < p[i + 1]

(* _validate_page *)
ValidPage(p, limit) == Len(p) <= limit /\ IsIncreasing(p)

PagesUpTo(limit) == UNION {[1..n -> Frame] : n \in 0..limit}

Probe ==
    /\ Answered("probe", "read")
    /\ UNCHANGED <<pageVars, graphVars, pastVars>>

ReadFirst ==
    /\ Answered("read", "loop")
    /\ \E p \in PagesUpTo(PageCandidates) : ValidPage(p, PageCandidates) /\ raw' = p
    /\ UNCHANGED <<following, selected, detected, toPlan, graphVars, pastVars>>

(* No candidate twice, and decode order across pages. *)
PageIsNew(p) == previousCandidate # 0 => p[1] > previousCandidate

PageFits(p) == pages < MaxPages /\ candidateCount + Len(p) <= MaxCandidates

(* The head of the loop. *)
BeginPage ==
    /\ Running /\ step = "loop"
    /\ raw # <<>>
    /\ IF /\ ~expired
          /\ PageFits(raw)
          /\ PageIsNew(raw)
       THEN /\ pages' = pages + 1
            /\ candidateCount' = candidateCount + Len(raw)
            /\ step' = "follow"
            /\ UNCHANGED <<calling, outcome, events, inputs, pageVars, graphVars,
                           previousCandidate, previousSelected, history>>
       ELSE End("error")

(* One slot of the next page is reserved for the overlap. *)
ReadFollowing ==
    /\ Answered("follow", "sample")
    /\ \E p \in PagesUpTo(PageCandidates - 1) :
          ValidPage(p, PageCandidates - 1) /\ following' = p
    /\ UNCHANGED <<raw, selected, detected, toPlan, graphVars, pastVars>>

EndOfStream == following = <<>>

(* Candidates in their order, none of them selected before. *)
ValidSelection(s) ==
    /\ Range(s) \subseteq Range(Candidates)
    /\ IsIncreasing(s)
    /\ Range(s) \cap Range(sampled) = {}

Sample ==
    /\ Answered("sample", "detect")
    /\ \E s \in PagesUpTo(PageCandidates) :
          /\ ValidSelection(s)
          /\ Len(sampled) + Len(s) <= MaxSamples
          /\ selected' = s
    /\ UNCHANGED <<raw, following, detected, toPlan, graphVars, pastVars>>

(* Observations of the selected frames, none of them known already. *)
ValidDetection(os) ==
    \A o \in os : ObservationFrame[o] \in Range(selected) /\ o \notin observations

Detect ==
    /\ Answered("detect", "score")
    /\ \E os \in SUBSET Observation :
          /\ ValidDetection(os)
          /\ Cardinality(observations) + Cardinality(os) <= MaxObservations
          /\ detected' = os
          /\ observations' = observations \cup os
    /\ UNCHANGED <<raw, following, selected, toPlan, sampled, tracklets, active, intents, pastVars>>

(* The scores have to name the selected frames in their order. *)
Score ==
    /\ Answered("score", "track")
    /\ UNCHANGED <<pageVars, graphVars, pastVars>>

(* Slip: nobody asks whether every observation is still accounted for. *)
PointsAreDisjoint(ts, act) ==
    /\ \A t \in ts : t # {} /\ t \subseteq observations
    /\ \A t \in ts, u \in ts \cup tracklets : t # u => t \cap u = {}
    /\ ts \cap tracklets = {}
    /\ \A t \in ts \cup tracklets : act \cap t = {}
    /\ EndOfStream => act = {}

(* Completed tracklets are of known observations and share none; with the
   tracks the cursor keeps open they account for every observation; a cursor
   that is finished keeps none open. *)
ValidTracking(ts, act) ==
    /\ \A t \in ts : t # {} /\ t \subseteq observations
    /\ \A t \in ts, u \in ts \cup tracklets : t # u => t \cap u = {}
    /\ ts \cap tracklets = {}
    /\ \A t \in ts \cup tracklets : act \cap t = {}
    /\ act \cup UNION (ts \cup tracklets) = observations
    /\ EndOfStream => act = {}

Track ==
    /\ Answered("track", "plan")
    /\ \E ts \in SUBSET SUBSET observations, act \in SUBSET observations :
          /\ Cardinality(tracklets) + Cardinality(ts) <= MaxTracklets
          /\ ValidTracking(ts, act)
          /\ tracklets' = tracklets \cup ts
          /\ toPlan' = ts
          /\ active' = act
    /\ sampled' = sampled \o selected
    /\ UNCHANGED <<raw, following, selected, detected, observations, intents, pastVars>>

(* At least one intent, and all of them of the tracklet's own points. *)
ValidPlan(t, os) == os # {} /\ os \subseteq t

Plan ==
    /\ Answered("plan", "plan")
    /\ \E t \in toPlan, os \in SUBSET observations :
          /\ ValidPlan(t, os)
          /\ intents' = intents \cup ({t} \X os)
          /\ toPlan' = toPlan \ {t}
    /\ UNCHANGED <<raw, following, selected, detected, sampled, observations, tracklets,
                   active, pastVars>>

LastSelected == IF selected = <<>> THEN previousSelected ELSE Last(selected)

Overlap == Last(raw)

(* The foot of the loop. *)
EndPage ==
    /\ Running /\ step = "plan" /\ ~calling
    /\ toPlan = {}
    /\ previousCandidate' = Overlap
    /\ previousSelected' = LastSelected
    /\ raw' = following
    /\ following' = <<>> /\ selected' = <<>> /\ detected' = {}
    /\ step' = "loop"
    /\ UNCHANGED <<calling, outcome, events, inputs, graphVars, toPlan, pages,
                   candidateCount, history>>

-----------------------------------------------------------------------------
(* After the last page: the source is probed again, crops are made, and the
   source is probed once more. *)

LeaveLoop ==
    /\ Running /\ step = "loop"
    /\ raw = <<>>
    /\ IF expired
       THEN End("error")
       ELSE /\ step' = "reprobe"
            /\ UNCHANGED <<calling, outcome, events, inputs, pageVars, graphVars, pastVars, history>>

Reprobe ==
    /\ Answered("reprobe", IF WithPixels THEN "crop" ELSE "commit")
    /\ UNCHANGED <<pageVars, graphVars, pastVars>>

Crop ==
    /\ Answered("crop", "reprobe_again")
    /\ UNCHANGED <<pageVars, graphVars, pastVars>>

ReprobeAgain ==
    /\ Answered("reprobe_again", "commit")
    /\ UNCHANGED <<pageVars, graphVars, pastVars>>

HandOver == Running /\ step = "commit" /\ End("handed_over")

Environment ==
    /\ Running
    /\ \/ cancelled' = TRUE /\ UNCHANGED expired
       \/ expired' = TRUE /\ UNCHANGED cancelled
    /\ UNCHANGED <<step, calling, outcome, events, pageVars, graphVars, pastVars, history>>

Next ==
    \/ Call \/ CancelBeforeCall \/ CancelAfterCall \/ ExpireAfterCall \/ Refuse \/ Incomplete
    \/ Probe \/ ReadFirst \/ BeginPage \/ ReadFollowing \/ Sample \/ Detect \/ Score
    \/ Track \/ Plan \/ EndPage
    \/ LeaveLoop \/ Reprobe \/ Crop \/ ReprobeAgain \/ HandOver
    \/ Environment

Spec == Init /\ [][Next]_vars

-----------------------------------------------------------------------------
(* What the run hands over is a whole graph, whatever the adapters answered on
   whatever page: frames in decode order, observations of those frames, each
   of them in exactly one tracklet, each tracklet with evidence to cut, none
   of it twice. *)
HandedOverIsWhole ==
    outcome = "handed_over" =>
        /\ IsIncreasing(sampled)
        /\ \A o \in observations : ObservationFrame[o] \in Range(sampled)
        /\ UNION tracklets = observations
        /\ \A t, u \in tracklets : t # u => t \cap u = {}
        /\ \A t \in tracklets : \E i \in intents : i[1] = t
        /\ \A i \in intents : i[2] \in i[1]

(* A run whose deadline has passed asks at most one more adapter. *)
DeadlineStopsTheRun == lateCalls <= 1

(* The scorer compares the first frame of a page with the last frame that was
   selected on any page before it, however many selected none. *)
ScoredAgainstTheLastFrame ==
    step = "score" =>
        previousSelected = IF sampled = <<>> THEN 0 ELSE Last(sampled)

(* The sampler is resumed with exactly the candidate its last page ended with,
   whatever was selected of that page. *)
SamplerIsResumedExactly ==
    [][step = "sample" /\ ~calling /\ calling' /\ lastOffered # 0
          => Candidates[1] = lastOffered]_vars

(* A PerceptionRunResult takes no more than MAX_PERCEPTION_EVENTS: what a run
   of any length emitted fits the result that is built after the commit. *)
EventsFit == events <= MaxEvents
================================================================================
