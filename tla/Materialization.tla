---------------------------- MODULE Materialization ----------------------------
(***************************************************************************)
(* BestFrameEvidenceSelector (evidence.py) ranks the observations of every *)
(* tracklet and plans a crop of the best ones; OriginalFrameMaterializer   *)
(* (perception_materialization.py) reads the original frame of one planned *)
(* crop after the other and cuts it out.  The batch is all or nothing.     *)
(* The caller may hold a plan made for other tracklets than it passes.     *)
(***************************************************************************)
EXTENDS Integers, Sequences, FiniteSets, SequencesExt

CONSTANTS
    Observation,    \* records [id, frame, pts, box, category, confidence]
    Width, Height,  \* of the source image
    Scale,          \* the millionths of visible_area_millionths
    MaxSelected,    \* max_selected_observations
    MaxBytes,       \* max_total_evidence_bytes, in pixels of three bytes
    Needs,          \* config.need: "INSPECTION", "DOWNSTREAM_DETAIL"
    Details         \* config.detail_resolution: "UNKNOWN", "RESOLVABLE", "UNRESOLVABLE"

SelectionLimits ==
    /\ MaxSelected \in 1..8 /\ MaxBytes \in Nat
    /\ Width \in Nat \ {0} /\ Height \in Nat \ {0} /\ Scale \in Nat \ {0}

(* A tracklet: observations of one category, one per frame, in time order. *)
IsTracklet(t) ==
    /\ t # <<>>
    /\ \A i \in 2..Len(t) : t[i - 1].pts < t[i].pts
    /\ \A i \in 1..Len(t) : t[i].category = t[1].category

Tracklets == {t \in SeqOf(Observation, 3) : IsTracklet(t)}

(* Tracklets of one run share no observation. *)
Batches ==
    {b \in SeqOf(Tracklets, 2) :
        \A i, j \in 1..Len(b) : i # j => ToSet(b[i]) \cap ToSet(b[j]) = {}}

VARIABLES
    config,         \* the EvidenceMaterializationConfig
    tracklets,      \* of the run, as committed
    intents,        \* the caller's plan: [tracklet, rank, observation]
    next,           \* the intent whose turn it is
    original,       \* the frame in memory, <<>> between reads
    selected,       \* the crops cut so far: [intent, frame, box]
    total,          \* total_crop_bytes
    result          \* [state, crops] once the call returned or raised

vars == <<config, tracklets, intents, next, original, selected, total, result>>

Running == [state |-> "RUNNING", crops |-> <<>>]
Ends(state) == result' = [state |-> state, crops |-> <<>>]

-----------------------------------------------------------------------------
(* Ranking. *)

Area(b) == (b[3] - b[1]) * (b[4] - b[2])

BoundaryTouches(b) ==
    Cardinality({i \in 1..4 : b[i] = <<0, 0, Width, Height>>[i]})

Distance(t, p) ==
    LET d == 2 * p - t[1].pts - t[Len(t)].pts IN IF d < 0 THEN -d ELSE d

(* EvidenceScore.rank_key: the smallest key is the best observation. *)
RankKey(t, i) ==
    LET o == t[i] IN
    <<BoundaryTouches(o.box), -o.confidence, -((Area(o.box) * Scale) \div (Width * Height)),
      -Area(o.box), Distance(t, o.pts), i>>

Before(k, l) ==
    \E n \in 1..6 : k[n] < l[n] /\ \A m \in 1..(n - 1) : k[m] = l[m]

(* The points of t, best first. *)
Ranking(t) ==
    SetToSortSeq(1..Len(t), LAMBDA i, j : Before(RankKey(t, i), RankKey(t, j)))

(* An intent carries the selector's producer, so the limit it was made under. *)
Plan(t, limit) ==
    [r \in 1..(IF Len(t) < limit THEN Len(t) ELSE limit) |->
        [tracklet |-> t, rank |-> r, observation |-> t[Ranking(t)[r]],
         selector |-> limit]]

PlanAll(b, limit) == FlattenSeq([i \in 1..Len(b) |-> Plan(b[i], limit)])

-----------------------------------------------------------------------------
(* The caller's plan may be for other tracklets than it passes, or made by  *)
(* a selector with another limit.                                           *)
Init ==
    /\ config \in [need : Needs, detail : Details]
    /\ tracklets \in Batches
    /\ \E planned \in {tracklets} \cup {Append(<<>>, t) : t \in Tracklets},
          limit \in 1..MaxSelected :
         intents = PlanAll(planned, limit)
    /\ next = 1 /\ original = <<>>
    /\ selected = <<>> /\ total = 0
    /\ result = Running

(* Detail that nobody may claim ends the call before any read. *)
RefuseDetail ==
    /\ result = Running /\ next = 1 /\ original = <<>>
    /\ intents # <<>>
    /\ \/ config.detail = "UNRESOLVABLE"
       \/ config.need = "DOWNSTREAM_DETAIL" /\ config.detail = "UNKNOWN"
    /\ Ends("UNKNOWN")
    /\ UNCHANGED <<config, tracklets, intents, next, original, selected, total>>

DetailAllowed ==
    ~\/ config.detail = "UNRESOLVABLE"
     \/ config.need = "DOWNSTREAM_DETAIL" /\ config.detail = "UNKNOWN"

(* The tracklet an intent names, by identifier: its points decide it. *)
Known(intent) == intent.tracklet \in ToSet(tracklets)

(* _read_one: exactly the frame of the intent, or the reader's own refusal. *)
ReadOne ==
    /\ result = Running /\ original = <<>>
    /\ intents # <<>> => DetailAllowed
    /\ next <= Len(intents)
    /\ \/ /\ ~Known(intents[next])
          /\ Ends("CONFLICT")
          /\ UNCHANGED original
       \/ /\ Known(intents[next])
          /\ \E state \in {"UNKNOWN", "UNSUPPORTED", "ERROR"} : Ends(state)
          /\ UNCHANGED original
       \/ /\ Known(intents[next])
          /\ original' = <<intents[next].observation.frame>>
          /\ UNCHANGED result
    /\ UNCHANGED <<config, tracklets, intents, next, selected, total>>

(* Slip: the planner's word is taken for it. *)
AnyIntentPlanned(intent) == TRUE

(* The selector plans again, for the tracklet it is given. *)
StillPlanned(intent) == intent \in ToSet(Plan(intent.tracklet, MaxSelected))

Fits(crop) == total + Area(crop.box) <= MaxBytes

(* EvidenceRef.create: frame, box and bytes decide the identifier. *)
EvidenceId(crop) == <<crop.frame, crop.box>>

FreshId(crop) == EvidenceId(crop) \notin {EvidenceId(c) : c \in ToSet(selected)}

CropOne ==
    /\ result = Running /\ original # <<>>
    /\ LET intent == intents[next]
           crop == [intent |-> intent, frame |-> original[1], box |-> intent.observation.box]
       IN  \/ /\ StillPlanned(intent) => Fits(crop) /\ ~FreshId(crop)
              /\ Ends("CONFLICT")
              /\ UNCHANGED <<selected, total, next, original>>
           \/ /\ StillPlanned(intent) /\ ~Fits(crop)
              /\ Ends("LIMIT_EXCEEDED")
              /\ UNCHANGED <<selected, total, next, original>>
           \/ /\ StillPlanned(intent) /\ Fits(crop) /\ FreshId(crop)
              /\ selected' = Append(selected, crop)
              /\ total' = total + Area(crop.box)
              /\ next' = next + 1
              /\ original' = <<>>
              /\ UNCHANGED result
    /\ UNCHANGED <<config, tracklets, intents>>

Return ==
    /\ result = Running /\ original = <<>>
    /\ intents # <<>> => DetailAllowed
    /\ next > Len(intents)
    /\ result' = [state |-> "COMPLETE", crops |-> selected]
    /\ UNCHANGED <<config, tracklets, intents, next, original, selected, total>>

Next == RefuseDetail \/ ReadOne \/ CropOne \/ Return

Spec == Init /\ [][Next]_vars

-----------------------------------------------------------------------------
(* Properties. *)

TypeOK ==
    /\ config \in [need : Needs, detail : Details]
    /\ \A i \in 1..Len(tracklets) : IsTracklet(tracklets[i])
    /\ \A i \in 1..Len(intents) :
         /\ IsTracklet(intents[i].tracklet)
         /\ intents[i].rank \in 1..MaxSelected
         /\ intents[i].observation \in ToSet(intents[i].tracklet)
    /\ next \in 1..(Len(intents) + 1)
    /\ original \in {<<>>} \cup {<<o.frame>> : o \in Observation}
    /\ Len(selected) = next - 1
    /\ total \in 0..MaxBytes

(* As good as another observation in all the selector looks at, and better  *)
(* in something.                                                            *)
Dominates(t, o, p) ==
    LET Better(a, b) ==
            <<BoundaryTouches(a.box) <= BoundaryTouches(b.box),
              a.confidence >= b.confidence,
              Area(a.box) >= Area(b.box),
              Distance(t, a.pts) <= Distance(t, b.pts)>>
    IN  /\ \A n \in 1..4 : Better(o, p)[n]
        /\ \E n \in 1..4 : ~Better(p, o)[n]

(* evidence.py:515-533 (rank_key): of the observations of a tracklet, none  *)
(* that was left out is as good as a selected one in every respect and      *)
(* better in one, and a better rank never goes to a dominated observation.  *)
NothingBetterLeftOut ==
    \A i \in 1..Len(tracklets) :
        LET t == tracklets[i]  plan == Plan(t, MaxSelected) IN
        \A r \in 1..Len(plan) :
            /\ \A o \in ToSet(t) \ {plan[s].observation : s \in 1..r} :
                 ~Dominates(t, o, plan[r].observation)
            /\ \A s \in 1..Len(plan) : s # r => plan[s].observation # plan[r].observation

(* A complete batch holds one crop for every intent, in their order, cut    *)
(* from the intent's own frame; every intent is of a tracklet of the run    *)
(* and of its ranking now, whatever plan the caller came with.              *)
WholeBatch ==
    result.state = "COMPLETE" =>
        /\ Len(result.crops) = Len(intents)
        /\ \A i \in 1..Len(intents) :
             LET crop == result.crops[i] IN
             /\ crop.intent = intents[i]
             /\ crop.frame = intents[i].observation.frame
             /\ crop.intent.tracklet \in ToSet(tracklets)
             /\ crop.intent.rank <= Len(Plan(crop.intent.tracklet, MaxSelected))
             /\ crop.intent.selector = MaxSelected

(* perception_materialization.py:404-408: the references of one run are     *)
(* distinct (UNIQUE (run_id, evidence_id) of the store), and their bytes    *)
(* stay in the run's budget, at every moment and not just at the end.       *)
BatchFitsStore ==
    /\ \A i, j \in 1..Len(selected) :
         i # j => EvidenceId(selected[i]) # EvidenceId(selected[j])
    /\ MapThenSumSet(LAMBDA i : Area(selected[i].box), 1..Len(selected)) <= MaxBytes
=============================================================================
