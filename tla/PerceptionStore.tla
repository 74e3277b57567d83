---------------------------- MODULE PerceptionStore ----------------------------
(***************************************************************************)
(* The version 2 tables of LocalWorldStore (world_store_v2.py): what a run *)
(* perceived in its frames.  Operations that also touch the tables of      *)
(* WorldStore are written as that module's operation with the effect on    *)
(* these tables conjoined; one operation is still one transaction.         *)
(***************************************************************************)
EXTENDS WorldStore

CONSTANTS
    Observation, Tracklet,
    ObservationFrame,   \* Observation -> Frame
    TrackletPoints,     \* Tracklet -> the observations of its points
    Depicts,            \* <<e, o>>: evidence with the frame and geometry of o
    MaxRank,            \* the CHECK on selected_evidence.rank
    NoEvidence          \* the NULL evidence_id of a selection

ASSUME PerceptionTypes ==
    /\ ObservationFrame \in [Observation -> Frame]
    /\ TrackletPoints \in [Tracklet -> (SUBSET Observation) \ {{}}]
    /\ Depicts \subseteq Evidence \X Observation
    /\ MaxRank \in 1..8
    /\ NoEvidence \notin Evidence
    /\ Observation \cap Tracklet = {}

(* An evidence reference names the frame it was cut from. *)
ASSUME EvidenceDepictsItsFrame ==
    \A p \in Depicts : EvidenceFrame[p[1]] = ObservationFrame[p[2]]

(* All points of a tracklet are of the tracklet's source. *)
ASSUME TrackletsAreOfOneSource ==
    \A t \in Tracklet : \A o1, o2 \in TrackletPoints[t] :
        FrameSource[ObservationFrame[o1]] = FrameSource[ObservationFrame[o2]]

Perceived == Observation \cup Tracklet

VARIABLES
    observations, tracklets,    \* rows; a tracklet row carries its points
    perceivedBy,                \* perception_run_records
    selected,                   \* selected_evidence
    perceptionClosure           \* perception_deletion_closure, per job

perceptionVars == <<observations, tracklets, perceivedBy, selected, perceptionClosure>>

Selection == [run : Run, tracklet : Tracklet, rank : 1..MaxRank,
              observation : Observation, evidence : Evidence \cup {NoEvidence}]
Intent == [tracklet : Tracklet, rank : 1..MaxRank, observation : Observation]

PerceptionTypeOK ==
    /\ observations \subseteq Observation
    /\ tracklets \subseteq Tracklet
    /\ perceivedBy \subseteq Run \X Perceived
    /\ selected \subseteq Selection
    /\ perceptionClosure \in [DeletionId -> SUBSET Perceived]

PerceptionInit ==
    /\ observations = {} /\ tracklets = {}
    /\ perceivedBy = {} /\ selected = {}
    /\ perceptionClosure = [d \in DeletionId |-> {}]

-----------------------------------------------------------------------------
SourceOf(o) == FrameSource[ObservationFrame[o]]
TrackletSource(t) == SourceOf(CHOOSE o \in TrackletPoints[t] : TRUE)
PerceivedSource(x) == IF x \in Observation THEN SourceOf(x) ELSE TrackletSource(x)

PerceptionOwners(x) == {r \in Run : <<r, x>> \in perceivedBy}
PerceptionOf(r) == {x \in Perceived : <<r, x>> \in perceivedBy}
SelectionsOf(r) == {s \in selected : s.run = r}
PerceptionHidden == UNION {perceptionClosure[d] : d \in DeletionId}

(* _perception_record_visible: owned by a committed run of its source, and  *)
(* no deletion of that source is pending.                                   *)
VisiblePerception ==
    {x \in (observations \cup tracklets) \ PerceptionHidden :
        /\ \E r \in PerceptionOwners(x) :
              runState[r] = "committed" /\ RunSource[r] = PerceivedSource(x)
        /\ \A d \in DeletionId :
              ~(jobState[d] = "pending" /\ jobRoot[d] = PerceivedSource(x))}

-----------------------------------------------------------------------------
(* commit_perception_for_run *)

(* _write_observation and its association: the frame is there, of the run's *)
(* source, and the run owns it.                                             *)
CanPerceive(r, os) ==
    \A o \in os :
        /\ ObservationFrame[o] \in frames
        /\ SourceOf(o) = RunSource[r]
        /\ ObservationFrame[o] \in OwnedBy(r)

(* Slip: a point may be in two tracklets of the run. *)
CanTrackTwice(r, os, ts) ==
    \A t \in ts :
        /\ TrackletSource(t) = RunSource[r]
        /\ TrackletPoints[t] \subseteq PerceptionOf(r) \cup os

(* _write_tracklet and its association: the run owns every point, and no    *)
(* point is already in another tracklet of the run.                         *)
CanTrack(r, os, ts) ==
    /\ \A t \in ts :
        /\ TrackletSource(t) = RunSource[r]
        /\ TrackletPoints[t] \subseteq PerceptionOf(r) \cup os
    /\ \A t \in ts, u \in (PerceptionOf(r) \cap Tracklet) \cup ts :
        t # u => TrackletPoints[t] \cap TrackletPoints[u] = {}

(* The keys of selected_evidence: one observation per rank, one rank per
   observation of a tracklet. *)
SameKey(i, j) ==
    i.tracklet = j.tracklet /\ (i.rank = j.rank \/ i.observation = j.observation)

(* _write_evidence_intents *)
CanSelect(r, os, ts, is) ==
    /\ \A i \in is :
        /\ i.tracklet \in PerceptionOf(r) \cup ts
        /\ i.observation \in PerceptionOf(r) \cup os
        /\ i.observation \in TrackletPoints[i.tracklet]
    /\ \A i \in is, j \in is \cup {[tracklet |-> s.tracklet, rank |-> s.rank,
                                    observation |-> s.observation] : s \in SelectionsOf(r)} :
        SameKey(i, j) => i = j

Unlinked(r, is) ==
    {[run |-> r, tracklet |-> i.tracklet, rank |-> i.rank,
      observation |-> i.observation, evidence |-> NoEvidence] : i \in is}

(* An intent that is there already is left as it is, link included. *)
NewIntents(r, is) ==
    {i \in is : \A s \in SelectionsOf(r) : ~SameKey(i, s)}

CanCommitPerception(r, os, ts, is) ==
    /\ runState[r] = "preparing"
    /\ \A s \in {RunSource[r]} \cup {SourceOf(o) : o \in os} \cup {TrackletSource(t) : t \in ts} :
          SourceWritable(s)
    /\ CanPerceive(r, os)
    /\ CanTrack(r, os, ts)
    /\ CanSelect(r, os, ts, is)

CommitPerceptionForRun(r, os, ts, is) ==
    /\ CanCommitPerception(r, os, ts, is)
    /\ observations' = observations \cup os
    /\ tracklets' = tracklets \cup ts
    /\ perceivedBy' = perceivedBy \cup ({r} \X (os \cup ts))
    /\ selected' = selected \cup Unlinked(r, NewIntents(r, is))
    /\ UNCHANGED <<worldVars, perceptionClosure>>

(* link_selected_evidence, one link; present are the valid artifacts. *)
CanLink(s, e, present) ==
    /\ s \in selected
    /\ SourceWritable(RunSource[s.run])
    /\ runState[s.run] = "preparing"
    /\ e \in OwnedBy(s.run) \cap evidence
    /\ <<e, s.observation>> \in Depicts
    /\ EvidenceDigest[e] \in {i.digest : i \in IntentsOf({s.run})}
    /\ EvidenceDigest[e] \in present
    /\ s.evidence \in {NoEvidence, e}
    /\ \A t \in SelectionsOf(s.run) \ {s} : t.evidence # e

LinkSelectedEvidence(s, e, present) ==
    /\ CanLink(s, e, present)
    /\ selected' = (selected \ {s}) \cup {[s EXCEPT !.evidence = e]}
    /\ UNCHANGED <<worldVars, observations, tracklets, perceivedBy, perceptionClosure>>

-----------------------------------------------------------------------------
(* Publication. *)

(* The ranks of every tracklet with selections are 1..n. *)
RanksAreContiguous(r) ==
    \A s \in SelectionsOf(r) : \A n \in 1..s.rank :
        \E u \in SelectionsOf(r) : u.tracklet = s.tracklet /\ u.rank = n

(* _verify_run_perception_ownership and the reuse check, for one run. *)
GraphIsOwned(r, fs) ==
    /\ \A o \in PerceptionOf(r) \cap Observation :
          o \in observations /\ ObservationFrame[o] \in fs
    /\ \A t \in PerceptionOf(r) \cap Tracklet :
          t \in tracklets /\ TrackletPoints[t] \subseteq PerceptionOf(r)
    /\ \A t, u \in PerceptionOf(r) \cap Tracklet :
          t # u => TrackletPoints[t] \cap TrackletPoints[u] = {}

LinkedDigests(r) ==
    {EvidenceDigest[s.evidence] : s \in {u \in SelectionsOf(r) : u.evidence # NoEvidence}}

(* _verify_perception_run, and the inspection of the linked artifacts. *)
CanFinalizePerception(r, fs, present) ==
    /\ GraphIsOwned(r, OwnedBy(r) \cup fs)
    /\ RanksAreContiguous(r)
    /\ runState[r] # "committed" =>
          LinkedDigests(r) \subseteq {i.digest : i \in IntentsOf({r})}
    /\ LinkedDigests(r) \subseteq present

FinalizePerceptionRun(r, fs, es, present) ==
    /\ CanFinalizePerception(r, fs, present)
    /\ FinalizeRun(r, fs, es)
    /\ UNCHANGED perceptionVars

-----------------------------------------------------------------------------
(* Recovery of a run that did not commit. *)

(* pending_runs(actionable_only) *)
ActionablePerceptionRuns ==
    ActionableRuns
    \cup {r \in Run \ Hidden :
            /\ runState[r] \in {"failed", "cancelled"}
            /\ PerceptionOf(r) # {} \/ SelectionsOf(r) # {}}

(* Slip: what another run perceived too is dropped with the run. *)
PerceivedEvenIfShared(r) == PerceptionOf(r)

(* Slip: the tracklets are left to somebody else. *)
OnlyObservedBy(r) == {x \in PerceptionOf(r) \cap Observation : PerceptionOwners(x) = {r}}

OnlyPerceivedBy(r) == {x \in PerceptionOf(r) : PerceptionOwners(x) = {r}}

(* finish_run_cleanup: selections and ownership of the run, the tracklets   *)
(* only it owned, its observations no tracklet is left to point to; a frame *)
(* that goes takes its observations along.                                  *)
FinishPerceptionCleanup(r) ==
    /\ FinishRunCleanup(r)
    /\ tracklets' = tracklets \ OnlyPerceivedBy(r)
    /\ observations' =
         {o \in observations :
            /\ o \in OnlyPerceivedBy(r) => \E t \in tracklets' : o \in TrackletPoints[t]
            /\ ObservationFrame[o] \in frames'}
    /\ perceivedBy' = {p \in perceivedBy : p[1] # r}
    /\ selected' = selected \ SelectionsOf(r)
    /\ UNCHANGED perceptionClosure

-----------------------------------------------------------------------------
(* Deletion of a source. *)

(* _perception_source_closure *)
PerceptionSourceClosure(s) == {x \in observations \cup tracklets : PerceivedSource(x) = s}

(* begin_source_deletion *)
BeginPerceptionDeletion(s, d) ==
    /\ BeginSourceDeletion(s, d)
    /\ perceptionClosure' = [perceptionClosure EXCEPT ![d] = PerceptionSourceClosure(s)]
    /\ UNCHANGED <<observations, tracklets, perceivedBy, selected>>

(* _load_deletion_plan compares both closures with the tables. *)
PerceptionPlanLoads(d) == perceptionClosure[d] = PerceptionSourceClosure(jobRoot[d])

(* purge_deletion_metadata: the source row takes everything of it along. *)
PurgePerception(d, present) ==
    /\ PerceptionPlanLoads(d)
    /\ PurgeDeletionMetadata(d, present)
    /\ observations' = {o \in observations : ObservationFrame[o] \in frames'}
    /\ tracklets' = {t \in tracklets : TrackletSource(t) # jobRoot[d]}
    /\ perceivedBy' = {p \in perceivedBy : runState'[p[1]] # "absent"}
    /\ selected' = {s \in selected : runState'[s.run] # "absent"}
    /\ perceptionClosure' = [perceptionClosure EXCEPT ![d] = {}]

-----------------------------------------------------------------------------
(* What the tables promise under every client. *)

(* The foreign keys of world_store_v2.py between tables, the ones without a
   cascade included: a cleanup or a purge never leaves, or is stopped by, a
   row that something still refers to. *)
ForeignKeysHold ==
    /\ \A o \in observations : ObservationFrame[o] \in frames
    /\ \A t \in tracklets : TrackletPoints[t] \subseteq observations
    /\ \A p \in perceivedBy : p[1] \in Runs
    /\ \A s \in selected :
          /\ s.run \in Runs /\ s.tracklet \in tracklets /\ s.observation \in observations
          /\ s.evidence \in evidence \cup {NoEvidence}

(* verify(): every run owns what it perceived together with the frames under
   it, and uses no observation in two tracklets; other runs that share the
   records may be cleaned up or deleted meanwhile. *)
PerceptionIsOwned == \A r \in Run : GraphIsOwned(r, OwnedBy(r))

(* verify() (orphaned_perception): no observation or tracklet is left that no
   run owns. *)
NoOrphanPerception ==
    \A x \in observations \cup tracklets : PerceptionOwners(x) # {}

(* _verify_evidence_selection: a selection stays within its run's graph, and
   a link shows the selected observation and is the run's only one to that
   evidence; the published ranks of a tracklet have no gap. *)
SelectionsAreSound ==
    /\ \A s \in selected :
        /\ {s.tracklet, s.observation} \subseteq PerceptionOf(s.run)
        /\ s.observation \in TrackletPoints[s.tracklet]
        /\ s.evidence # NoEvidence =>
              s.evidence \in OwnedBy(s.run) /\ <<s.evidence, s.observation>> \in Depicts
    /\ \A s, u \in selected :
        s.run = u.run /\ s # u => ~SameKey(s, u) /\ (s.evidence = u.evidence => s.evidence = NoEvidence)
    /\ \A r \in Run : runState[r] = "committed" => RanksAreContiguous(r)

(* While a deletion is pending its plan can be loaded: the perception of the
   source neither grows nor shrinks. *)
PerceptionClosureIsFrozen ==
    \A d \in DeletionId : jobState[d] = "pending" => PerceptionPlanLoads(d)

(* get_perception shows a record only with all it rests on: a visible tracklet
   with its observations, an observation with its frame. *)
VisibleGraphIsClosed ==
    \A x \in VisiblePerception :
        /\ x \in Tracklet => TrackletPoints[x] \subseteq VisiblePerception
        /\ x \in Observation => ObservationFrame[x] \in VisibleFrames

(* What the store promises of its graph, under every client and between any
   two transactions. *)
PerceptionGraphIsSound ==
    /\ PerceptionTypeOK
    /\ ForeignKeysHold /\ PerceptionIsOwned /\ NoOrphanPerception
    /\ SelectionsAreSound /\ VisibleGraphIsClosed /\ PerceptionClosureIsFrozen
=============================================================================
