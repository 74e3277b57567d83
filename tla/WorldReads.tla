------------------------------- MODULE WorldReads -------------------------------
(***************************************************************************)
(* The read operations of LocalWorldStore.  Each is one read transaction:  *)
(* it sees the tables of one moment and changes none, so it is an operator *)
(* on the state.  A read returns its items in order, or the PortError it   *)
(* raises.  SQL and identifier syntax are left out; what a row says never  *)
(* changes, so the projection checks come down to the rows they need.      *)
(***************************************************************************)
EXTENDS PerceptionStore, Functions

CONSTANT Order      \* every record's place: decode index, PTS or identifier

(* Rows that can be on one page differ in place; how the others compare is of no
   effect. *)
ASSUME OrderIsTotal ==
    \A S \in {Frame, Evidence, Observation, Tracklet} : \A x, y \in S :
        Order[x] \in Nat \ {0} /\ (Order[x] = Order[y] => x = y)

(* Identifiers are of a fixed length, so that there are finitely many. *)
ASSUME RecordsAreFinite ==
    \A S \in {Frame, Evidence, Observation, Tracklet} : IsFiniteSet(S)

Ok(items) == [code |-> "ok", items |-> items]
Raised(code) == [code |-> code, items |-> <<>>]

(* The row that has i - 1 before it. *)
Nth(place, S, i) ==
    CHOOSE x \in S : Cardinality({y \in S : place[y] <= place[x]}) = i

(* ORDER BY ... LIMIT n, with the rows at or before the cursor left out. *)
PageBy(place, S, after, n) ==
    LET rest == {x \in S : place[x] > after}
        size == IF Cardinality(rest) < n THEN Cardinality(rest) ELSE n
    IN  [i \in 1..size |-> Nth(place, rest, i)]

Page(S, after, n) == PageBy(Order, S, after, n)

(* _verify_projection of an evidence: its catalog row and its frame. *)
EvidenceReads(e) ==
    e \in evidence /\ EvidenceDigest[e] \in catalog /\ EvidenceFrame[e] \in frames

(* _verify_perception_projection: a point carries its observation along. *)
ObservationReads(o) == o \in observations /\ ObservationFrame[o] \in frames
TrackletReads(t) ==
    t \in tracklets /\ \A o \in TrackletPoints[t] : ObservationReads(o)

(* Every item must pass the projection check, or the whole page is CORRUPT. *)
Checked(items, reads(_)) ==
    IF \A i \in DOMAIN items : reads(items[i]) THEN Ok(items) ELSE Raised("corrupt")

FrameReads(f) == f \in frames /\ FrameSource[f] \in sources

-----------------------------------------------------------------------------
(* Records by identifier. *)

(* get *)
Get(x) ==
    IF x \notin (sources \cup VisibleFrames \cup VisibleEvidence \cup Runs) \ Hidden
    THEN Raised("not_found")
    ELSE IF x \in Evidence /\ ~EvidenceReads(x) THEN Raised("corrupt") ELSE Ok(<<x>>)

(* _verify_run_perception_ownership, one record type at a time. *)
ObservationsAreOwned(r) ==
    \A o \in PerceptionOf(r) \cap Observation :
        o \in observations /\ SourceOf(o) = RunSource[r] /\ ObservationFrame[o] \in OwnedBy(r)
TrackletsAreOwned(r) ==
    \A t \in PerceptionOf(r) \cap Tracklet :
        /\ t \in tracklets /\ TrackletSource(t) = RunSource[r]
        /\ \A o \in TrackletPoints[t] :
              o \in PerceptionOf(r) /\ ObservationFrame[o] \in OwnedBy(r)

(* _verify_visible_perception_ownership: of every committed run that owns it. *)
OwnersAreSound(x) ==
    \A r \in PerceptionOwners(x) : runState[r] = "committed" =>
        IF x \in Observation THEN ObservationsAreOwned(r) ELSE TrackletsAreOwned(r)

PerceptionReads(x) == IF x \in Observation THEN ObservationReads(x) ELSE TrackletReads(x)

(* get_perception looks at the record's integrity before its visibility. *)
GetPerception(x) ==
    IF x \notin observations \cup tracklets THEN Raised("not_found")
    ELSE IF ~PerceptionReads(x) \/ ~OwnersAreSound(x) THEN Raised("corrupt")
    ELSE IF x \notin VisiblePerception THEN Raised("not_found") ELSE Ok(<<x>>)

-----------------------------------------------------------------------------
(* Pages of what a source or a frame has. *)

(* list_frames *)
ListFrames(s, after, n) ==
    IF s \notin sources \ Hidden THEN Raised("not_found")
    ELSE Checked(Page({f \in VisibleFrames : FrameSource[f] = s}, after, n), FrameReads)

(* list_evidence asks nothing of the frame itself. *)
ListEvidence(f, n) ==
    Checked(Page({e \in VisibleEvidence : EvidenceFrame[e] = f}, 0, n), EvidenceReads)

-----------------------------------------------------------------------------
(* Pages of what a run published. *)

(* Slip: a run that is being deleted still lists its records. *)
PublishedEvenIfDeleted(r) == runState[r] = "committed"

(* _committed_run *)
Published(r) == runState[r] = "committed" /\ r \notin Hidden

(* The frames and the evidence of a run, and those of them a page may show. *)
RunFrameRows(r) ==
    {f \in OwnedBy(r) \cap frames : FrameSource[f] = RunSource[r] /\ f \notin Hidden}
RunEvidenceRows(r) ==
    {e \in OwnedBy(r) \cap evidence :
        /\ EvidenceFrame[e] \in OwnedBy(r) \cap frames
        /\ FrameSource[EvidenceFrame[e]] = RunSource[r]
        /\ {e, EvidenceFrame[e]} \cap Hidden = {}}

(* list_run_frames: what the run owns is what it shows and what it counted. *)
ListRunFrames(r, after, n) ==
    IF ~Published(r) THEN Raised("not_found")
    ELSE IF \/ OwnedBy(r) \cap Frame # RunFrameRows(r)
            \/ Cardinality(OwnedBy(r) \cap Frame) # Cardinality(RunFrames(r))
    THEN Raised("corrupt")
    ELSE Checked(Page(RunFrameRows(r), after, n), FrameReads)

(* list_run_evidence *)
ListRunEvidence(r, after, n) ==
    IF ~Published(r) THEN Raised("not_found")
    ELSE IF OwnedBy(r) \cap Evidence # RunEvidenceRows(r) THEN Raised("corrupt")
    ELSE Checked(Page(RunEvidenceRows(r), after, n), EvidenceReads)

(* list_run_observations and list_run_tracklets; the source, stream, category
   and termination filters narrow a page, they are not told apart here. *)
ListRunObservations(r, after, n) ==
    IF ~Published(r) THEN Raised("not_found")
    ELSE IF ~ObservationsAreOwned(r) THEN Raised("corrupt")
    ELSE Checked(Page((PerceptionOf(r) \cap observations) \ PerceptionHidden, after, n),
                 ObservationReads)

ListRunTracklets(r, after, n) ==
    IF ~Published(r) THEN Raised("not_found")
    ELSE IF ~TrackletsAreOwned(r) THEN Raised("corrupt")
    ELSE Checked(Page((PerceptionOf(r) \cap tracklets) \ PerceptionHidden, after, n),
                 TrackletReads)

(* list_tracklet_observations: here visibility comes before integrity. *)
ListTrackletObservations(t, after, n) ==
    IF t \notin VisiblePerception THEN Raised("not_found")
    ELSE IF ~TrackletReads(t) \/ ~OwnersAreSound(t) THEN Raised("corrupt")
    ELSE Checked(Page(TrackletPoints[t], after, n), ObservationReads)

(* _verify_evidence_selection *)
SelectionReads(s) ==
    /\ TrackletReads(s.tracklet) /\ ObservationReads(s.observation)
    /\ {s.tracklet, s.observation} \subseteq PerceptionOf(s.run)
    /\ ObservationFrame[s.observation] \in OwnedBy(s.run)
    /\ s.observation \in TrackletPoints[s.tracklet]
    /\ s.evidence # NoEvidence =>
          /\ s.evidence \in OwnedBy(s.run) /\ EvidenceReads(s.evidence)
          /\ <<s.evidence, s.observation>> \in Depicts

Ranks == [s \in selected |-> s.rank]

(* list_selected_evidence *)
ListSelectedEvidence(r, t, after, n) ==
    IF ~Published(r) THEN Raised("not_found")
    ELSE IF ~ObservationsAreOwned(r) \/ ~TrackletsAreOwned(r) THEN Raised("corrupt")
    ELSE IF t \notin PerceptionOf(r) THEN Raised("not_found")
    ELSE IF ~TrackletReads(t) THEN Raised("corrupt")
    ELSE Checked(PageBy(Ranks, {s \in SelectionsOf(r) : s.tracklet = t}, after, n),
                 SelectionReads)

-----------------------------------------------------------------------------
(* The audit. *)

(* _verify_perception_run, without require_publication. *)
RunPerceptionAudits(r) ==
    /\ GraphIsOwned(r, OwnedBy(r))
    /\ \A x \in PerceptionOf(r) : PerceptionReads(x)
    /\ \A s \in SelectionsOf(r) : SelectionReads(s)
    /\ RanksAreContiguous(r)

(* The part of _verify_coordination that is about one deletion. *)
JobAudits(d) ==
    IF jobState[d] = "pending"
    THEN /\ PlanLoads(d) /\ PerceptionPlanLoads(d)
         /\ jobRoot[d] \in closure[d]
         /\ closure[d] \subseteq sources \cup frames \cup evidence \cup Runs
         /\ perceptionClosure[d] \subseteq observations \cup tracklets
         /\ required[d] \cup retained[d] \subseteq catalog \cup {i.digest : i \in intents}
    ELSE /\ jobRoot[d] = NoSource /\ closure[d] = {} /\ perceptionClosure[d] = {}
         /\ required[d] \cup retained[d] = {}

(* _verify_coordination: ownership, orphans, runs, intents and deletions. *)
CoordinationAudits ==
    /\ OwnershipIsSound
    /\ NoOrphanPerception
    /\ \A r \in Runs : RunPerceptionAudits(r)
    /\ IntentsAreOpen
    /\ \A c, d \in DeletionId : c # d =>
          closure[c] \cap closure[d] = {} /\ perceptionClosure[c] \cap perceptionClosure[d] = {}
    /\ \A d \in DeletionId : JobAudits(d)

(* verify, with room for all records in one audit. *)
Verify ==
    /\ \A f \in frames : FrameReads(f)
    /\ \A e \in evidence : EvidenceReads(e)
    /\ \A x \in observations \cup tracklets : PerceptionReads(x)
    /\ CoordinationAudits

-----------------------------------------------------------------------------
(* What readers may rely on under every client. *)

(* Nobody outside a frozen closure has begun, or ceased, to refer to one of
   its artifacts since it was frozen; the store does not prevent it. *)
PlansHold ==
    \A d \in DeletionId : jobState[d] = "pending" =>
        /\ \A x \in required[d] : ~SurvivesOutside(x, closure[d])
        /\ \A x \in retained[d] : SurvivesOutside(x, closure[d])

(* The audit accepts every history of legal calls once the ranks of a run that
   is not published have no gap, which the audit, too, asks of hidden runs,
   and as long as the plan of a pending deletion is not overtaken. *)
AuditAcceptsWithoutGaps == PlansHold /\ (\A r \in Run : RanksAreContiguous(r)) => Verify

(* The limit of a page that has room for all records. *)
Everything == Cardinality(Frame \cup Evidence \cup Perceived)

AllReads ==
    {Get(x) : x \in Record}
    \cup {GetPerception(x) : x \in Perceived}
    \cup {ListFrames(s, 0, Everything) : s \in Source}
    \cup {ListEvidence(f, Everything) : f \in Frame}
    \cup {ListRunFrames(r, 0, Everything) : r \in Run}
    \cup {ListRunEvidence(r, 0, Everything) : r \in Run}
    \cup {ListRunObservations(r, 0, Everything) : r \in Run}
    \cup {ListRunTracklets(r, 0, Everything) : r \in Run}
    \cup {ListTrackletObservations(t, 0, Everything) : t \in Tracklet}
    \cup {ListSelectedEvidence(r, t, 0, MaxRank) : r \in Run, t \in Tracklet}

(* No read of a legal history reports CORRUPT: whatever half-done run, cleanup
   or deletion it meets, it answers with records or NOT_FOUND. *)
ReadsAreNeverCorrupt == \A a \in AllReads : a.code # "corrupt"

(* What a run lists can be fetched by identifier at the same moment: frames,
   evidence, observations, tracklets, the points of a listed tracklet and the
   linked evidence of its selections (perception_cli export relies on it).  The
   listings of the source and of the frames have it, too. *)
ListedIsGettable ==
    \A r \in Run :
        /\ \A x \in Range(ListRunFrames(r, 0, Everything).items)
                    \cup Range(ListRunEvidence(r, 0, Everything).items) :
              Get(x) = Ok(<<x>>)
        /\ Range(ListRunFrames(r, 0, Everything).items)
             \subseteq Range(ListFrames(RunSource[r], 0, Everything).items)
        /\ \A e \in Range(ListRunEvidence(r, 0, Everything).items) :
              e \in Range(ListEvidence(EvidenceFrame[e], Everything).items)
        /\ \A x \in Range(ListRunObservations(r, 0, Everything).items)
                    \cup Range(ListRunTracklets(r, 0, Everything).items) :
              /\ GetPerception(x) = Ok(<<x>>)
              /\ x \in Tracklet => ListTrackletObservations(x, 0, Everything).code = "ok"
        /\ \A t \in Tracklet : \A s \in Range(ListSelectedEvidence(r, t, 0, MaxRank).items) :
              s.evidence # NoEvidence => Get(s.evidence) = Ok(<<s.evidence>>)

(* A reader can rely on every answer of the store at every moment. *)
ReadsAreSound == AuditAcceptsWithoutGaps /\ ReadsAreNeverCorrupt /\ ListedIsGettable
================================================================================
