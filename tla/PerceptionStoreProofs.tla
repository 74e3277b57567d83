------------------------- MODULE PerceptionStoreProofs -------------------------
(***************************************************************************)
(* What every operation of the version 2 tables preserves, for any sets of *)
(* records: one lemma per operation, each from the same invariant.  The    *)
(* operations of version 1 underneath are the lemmas of WorldStoreProofs.  *)
(***************************************************************************)
EXTENDS PerceptionStore, WorldStoreProofs

(* A job that is not pending hides no perception: the purge empties its
   closure. *)
OnlyPendingHidesPerception ==
    \A d \in DeletionId : jobState[d] # "pending" => perceptionClosure[d] = {}

GraphInv ==
    /\ PerceptionTypeOK
    /\ ForeignKeysHold
    /\ PerceptionIsOwned
    /\ NoOrphanPerception
    /\ SelectionsAreSound
    /\ PerceptionClosureIsFrozen
    /\ OnlyPendingHidesPerception

-----------------------------------------------------------------------------
(* The operators. *)

(* Every point of a tracklet is of the tracklet's source. *)
LEMMA PointSource ==
    ASSUME NEW t \in Tracklet, NEW o \in TrackletPoints[t]
    PROVE  o \in Observation /\ SourceOf(o) = TrackletSource(t)
<1>1. TrackletPoints[t] \subseteq Observation
  BY PerceptionTypes
<1>2. (CHOOSE x \in TrackletPoints[t] : TRUE) \in TrackletPoints[t]
  OBVIOUS
<1> QED BY <1>1, <1>2, TrackletsAreOfOneSource DEF SourceOf, TrackletSource

(* A tracklet has points. *)
LEMMA SomePoint == ASSUME NEW t \in Tracklet PROVE \E o \in TrackletPoints[t] : TRUE
BY PerceptionTypes

(* The kinds of perceived records are told apart. *)
LEMMA PerceivedSourceCases ==
    /\ \A o \in Observation : PerceivedSource(o) = SourceOf(o)
    /\ \A t \in Tracklet : PerceivedSource(t) = TrackletSource(t)
BY PerceptionTypes DEF PerceivedSource

(* What a run perceived is in the tables, and of the run's source. *)
LEMMA PerceivedInSource ==
    ASSUME WorldInv, GraphInv, NEW r \in Run, NEW x \in PerceptionOf(r)
    PROVE  /\ x \in observations \cup tracklets
           /\ PerceivedSource(x) = RunSource[r]
<1>1. GraphIsOwned(r, OwnedBy(r))
  BY DEF GraphInv, PerceptionIsOwned
<1>2. \A o \in PerceptionOf(r) \cap Observation : o \in observations /\ SourceOf(o) = RunSource[r]
  <2> SUFFICES ASSUME NEW o \in PerceptionOf(r) \cap Observation
               PROVE  o \in observations /\ SourceOf(o) = RunSource[r]
    OBVIOUS
  <2>1. o \in observations /\ <<r, ObservationFrame[o]>> \in runRecords
    BY <1>1 DEF GraphIsOwned, OwnedBy
  <2>2. ObservationFrame[o] \in Frame
    BY PerceptionTypes
  <2> QED BY <2>1, <2>2 DEF WorldInv, OwnershipIsSound, SourceOf
<1>3. CASE x \in Observation
  BY <1>2, <1>3, PerceivedSourceCases
<1>4. CASE x \in Tracklet
  <2>1. x \in tracklets /\ TrackletPoints[x] \subseteq PerceptionOf(r)
    BY <1>1, <1>4 DEF GraphIsOwned
  <2>2. PICK o \in TrackletPoints[x] : TRUE
    BY <1>4, SomePoint
  <2>3. o \in Observation /\ SourceOf(o) = TrackletSource(x)
    BY <1>4, <2>2, PointSource
  <2> QED BY <1>2, <1>4, <2>1, <2>2, <2>3, PerceivedSourceCases
<1> QED BY <1>3, <1>4 DEF PerceptionOf, Perceived

(* A pending deletion hides exactly the perception of its source. *)
LEMMA PerceptionHiddenBySource ==
    ASSUME GraphInv, NEW x \in observations \cup tracklets
    PROVE  x \in PerceptionHidden <=> BeingDeleted(PerceivedSource(x))
BY DEF GraphInv, PerceptionClosureIsFrozen, PerceptionPlanLoads, PerceptionSourceClosure,
    OnlyPendingHidesPerception, PerceptionHidden, BeingDeleted

(* The graph that get_perception shows is closed, whoever else shares its
   frames and observations. *)
LEMMA VisibleGraph ==
    ASSUME WorldInv, GraphInv PROVE VisibleGraphIsClosed
<1> SUFFICES ASSUME NEW x \in VisiblePerception
             PROVE  /\ x \in Tracklet => TrackletPoints[x] \subseteq VisiblePerception
                    /\ x \in Observation => ObservationFrame[x] \in VisibleFrames
  BY DEF VisibleGraphIsClosed
<1>1. PICK r \in PerceptionOwners(x) :
         runState[r] = "committed" /\ RunSource[r] = PerceivedSource(x)
  BY DEF VisiblePerception
<1>2. /\ r \in Run /\ r \in Runs /\ <<r, x>> \in perceivedBy
      /\ x \in observations \cup tracklets /\ ~BeingDeleted(RunSource[r])
  BY <1>1 DEF PerceptionOwners, VisiblePerception, BeingDeleted, Runs
<1>3. x \in Perceived /\ x \in PerceptionOf(r) /\ GraphIsOwned(r, OwnedBy(r))
  BY <1>2 DEF GraphInv, PerceptionTypeOK, PerceptionOf, PerceptionIsOwned, Perceived
<1>4. ASSUME NEW y \in PerceptionOf(r) PROVE y \in VisiblePerception
  <2>1. y \in observations \cup tracklets /\ PerceivedSource(y) = RunSource[r]
    BY <1>2, <1>4, PerceivedInSource
  <2>2. y \notin PerceptionHidden
    BY <1>2, <2>1, PerceptionHiddenBySource
  <2>3. r \in PerceptionOwners(y)
    BY <1>2 DEF PerceptionOf, PerceptionOwners
  <2> QED BY <1>1, <1>2, <2>1, <2>2, <2>3 DEF VisiblePerception, BeingDeleted
<1>5. ASSUME x \in Tracklet PROVE TrackletPoints[x] \subseteq VisiblePerception
  BY <1>3, <1>4, <1>5 DEF GraphIsOwned
<1>6. ASSUME x \in Observation PROVE ObservationFrame[x] \in VisibleFrames
  <2> DEFINE f == ObservationFrame[x]
  <2>1. f \in Frame /\ <<r, f>> \in runRecords
    BY <1>3, <1>6, PerceptionTypes DEF GraphIsOwned, OwnedBy
  <2>2. f \in frames /\ FrameSource[f] = RunSource[r]
    BY <2>1, RecordKinds DEF WorldInv, WorldTypeOK, OwnershipIsSound
  <2>3. f \notin Hidden
    BY <1>2, <2>2, HiddenBySource
  <2>4. OwnershipVisible(f)
    BY <1>1, <1>2, <2>1 DEF OwnershipVisible, OwnersOf
  <2> QED BY <2>2, <2>3, <2>4 DEF VisibleFrames
<1> QED BY <1>5, <1>6

(* What PerceptionGraphIsSound asks follows from the invariant. *)
LEMMA SoundGraph == ASSUME WorldInv, GraphInv PROVE PerceptionGraphIsSound
BY VisibleGraph DEF GraphInv, PerceptionGraphIsSound

-----------------------------------------------------------------------------
(* The operations. *)

(* The tables start empty. *)
LEMMA InitGraph == WorldInit /\ PerceptionInit => GraphInv
BY DEF WorldInit, PerceptionInit, GraphInv, PerceptionTypeOK, ForeignKeysHold,
    PerceptionIsOwned, GraphIsOwned, PerceptionOf, NoOrphanPerception, SelectionsAreSound,
    PerceptionClosureIsFrozen, OnlyPendingHidesPerception

(* A step of version 1 that only adds rows and ownership, and publishes only
   runs whose ranks have no gap. *)
LEMMA GrowGraph ==
    ASSUME GraphInv, UNCHANGED perceptionVars,
           frames \subseteq frames', evidence \subseteq evidence',
           runRecords \subseteq runRecords',
           \A r \in Run : runState[r] # "absent" => runState'[r] # "absent",
           \A r \in Run : runState'[r] = "committed" => RanksAreContiguous(r),
           \A d \in DeletionId : (jobState'[d] = "pending") = (jobState[d] = "pending"),
           jobRoot' = jobRoot
    PROVE  GraphInv'
<1>1. UNCHANGED <<observations, tracklets, perceivedBy, selected, perceptionClosure>>
  BY DEF perceptionVars
<1>2. \A r : OwnedBy(r) \subseteq OwnedBy(r)' /\ PerceptionOf(r)' = PerceptionOf(r)
  BY <1>1 DEF OwnedBy, PerceptionOf
<1>3. PerceptionTypeOK'
  BY <1>1 DEF GraphInv, PerceptionTypeOK
<1>4. ForeignKeysHold'
  BY <1>1 DEF GraphInv, ForeignKeysHold, Runs
<1>5. PerceptionIsOwned'
  BY <1>1, <1>2 DEF GraphInv, PerceptionIsOwned, GraphIsOwned
<1>6. NoOrphanPerception'
  BY <1>1 DEF GraphInv, NoOrphanPerception, PerceptionOwners
<1>7. \A r \in Run : runState'[r] = "committed" => RanksAreContiguous(r)'
  BY <1>1 DEF RanksAreContiguous, SelectionsOf
<1>8. SelectionsAreSound'
  BY <1>1, <1>2, <1>7 DEF GraphInv, SelectionsAreSound, SameKey
<1>9. PerceptionClosureIsFrozen' /\ OnlyPendingHidesPerception'
  BY <1>1 DEF GraphInv, PerceptionClosureIsFrozen, PerceptionPlanLoads,
      PerceptionSourceClosure, OnlyPendingHidesPerception
<1> QED BY <1>3, <1>4, <1>5, <1>6, <1>8, <1>9 DEF GraphInv

(* commit, of manifests that do not publish. *)
LEMMA CommitGraph ==
    ASSUME WorldInv, GraphInv, NEW ss, NEW rs \in SUBSET Run,
           NEW st \in {"preparing", "failed", "cancelled"}, NEW fs, NEW es,
           Commit(ss, rs, st, fs, es), UNCHANGED perceptionVars
    PROVE  GraphInv'
<1>1. /\ frames \subseteq frames' /\ evidence \subseteq evidence'
      /\ runRecords \subseteq runRecords' /\ UNCHANGED <<jobState, jobRoot>>
      /\ runState' = [r \in Run |-> IF r \in rs THEN st ELSE runState[r]]
  BY DEF Commit, WriteData, jobVars
<1>2. \A r \in Run : runState'[r] = "committed" => RanksAreContiguous(r)
  BY <1>1 DEF GraphInv, SelectionsAreSound
<1> QED BY <1>1, <1>2, GrowGraph

(* commit_for_run *)
LEMMA CommitForRunGraph ==
    ASSUME WorldInv, GraphInv, NEW r, NEW fs, NEW es,
           CommitForRun(r, fs, es), UNCHANGED perceptionVars
    PROVE  GraphInv'
<1>1. /\ frames \subseteq frames' /\ evidence \subseteq evidence'
      /\ runRecords \subseteq runRecords' /\ UNCHANGED <<runState, jobState, jobRoot>>
  BY DEF CommitForRun, WriteData, jobVars
<1>2. \A q \in Run : runState'[q] = "committed" => RanksAreContiguous(q)
  BY <1>1 DEF GraphInv, SelectionsAreSound
<1> QED BY <1>1, <1>2, GrowGraph

(* record_artifact_intents, complete_deletion and steps outside the tables. *)
LEMMA QuietGraph ==
    ASSUME WorldInv, GraphInv, UNCHANGED perceptionVars,
           \/ \E r, hs : RecordArtifactIntents(r, hs)
           \/ \E d \in DeletionId : CompleteDeletion(d)
           \/ UNCHANGED worldVars
    PROVE  GraphInv'
<1>1. /\ UNCHANGED <<frames, evidence, runRecords, runState, jobRoot>>
      /\ \A d \in DeletionId : (jobState'[d] = "pending") = (jobState[d] = "pending")
  BY DEF RecordArtifactIntents, CompleteDeletion, worldVars, recordVars, jobVars,
      WorldInv, WorldTypeOK
<1>2. \A q \in Run : runState'[q] = "committed" => RanksAreContiguous(q)
  BY <1>1 DEF GraphInv, SelectionsAreSound
<1> QED BY <1>1, <1>2, GrowGraph

(* finalize_run publishes a run whose ranks it has checked. *)
LEMMA FinalizeGraph ==
    ASSUME WorldInv, GraphInv, NEW r \in Run, NEW fs, NEW es, NEW present,
           FinalizePerceptionRun(r, fs, es, present)
    PROVE  GraphInv'
<1>1. /\ frames \subseteq frames' /\ evidence \subseteq evidence'
      /\ runRecords \subseteq runRecords' /\ UNCHANGED <<jobState, jobRoot>>
      /\ runState' = [runState EXCEPT ![r] = "committed"]
      /\ UNCHANGED perceptionVars /\ RanksAreContiguous(r)
  BY DEF FinalizePerceptionRun, CanFinalizePerception, FinalizeRun, WriteData, jobVars
<1>2. /\ \A q \in Run : runState'[q] = "committed" => RanksAreContiguous(q)
      /\ \A q \in Run : runState[q] # "absent" => runState'[q] # "absent"
  BY <1>1 DEF GraphInv, SelectionsAreSound, WorldInv, WorldTypeOK
<1> QED BY <1>1, <1>2, GrowGraph

(* begin_source_deletion freezes the perception it is about to delete. *)
LEMMA BeginDeletionGraph ==
    ASSUME WorldInv, GraphInv, NEW s \in Source, NEW d \in DeletionId,
           BeginPerceptionDeletion(s, d)
    PROVE  GraphInv'
<1>1. /\ UNCHANGED <<observations, tracklets, perceivedBy, selected>>
      /\ UNCHANGED <<frames, evidence, runRecords, runState>>
      /\ perceptionClosure' = [perceptionClosure EXCEPT ![d] = PerceptionSourceClosure(s)]
      /\ jobState' = [jobState EXCEPT ![d] = "pending"]
      /\ jobRoot' = [jobRoot EXCEPT ![d] = s]
      /\ \A c \in DeletionId : jobState[c] # "pending"
  BY DEF BeginPerceptionDeletion, BeginSourceDeletion, CanBeginDeletion, ActiveJobs, recordVars
<1>2. \A r : OwnedBy(r)' = OwnedBy(r) /\ PerceptionOf(r)' = PerceptionOf(r)
  BY <1>1 DEF OwnedBy, PerceptionOf
<1>3. PerceptionTypeOK'
  BY <1>1 DEF GraphInv, PerceptionTypeOK, PerceptionSourceClosure, Perceived
<1>4. ForeignKeysHold' /\ NoOrphanPerception'
  BY <1>1 DEF GraphInv, ForeignKeysHold, NoOrphanPerception, PerceptionOwners, Runs
<1>5. PerceptionIsOwned'
  BY <1>1, <1>2 DEF GraphInv, PerceptionIsOwned, GraphIsOwned
<1>6. SelectionsAreSound'
  BY <1>1, <1>2 DEF GraphInv, SelectionsAreSound, RanksAreContiguous, SelectionsOf
<1>7. PerceptionClosureIsFrozen' /\ OnlyPendingHidesPerception'
  BY <1>1 DEF GraphInv, PerceptionTypeOK, WorldInv, WorldTypeOK, PerceptionClosureIsFrozen,
      PerceptionPlanLoads, PerceptionSourceClosure, OnlyPendingHidesPerception
<1> QED BY <1>3, <1>4, <1>5, <1>6, <1>7 DEF GraphInv

(* commit_perception_for_run writes what the run may own, of a source that is
   not being deleted, and intents whose keys are free. *)
LEMMA CommitPerceptionGraph ==
    ASSUME WorldInv, GraphInv, NEW r \in Run,
           NEW os \in SUBSET Observation, NEW ts \in SUBSET Tracklet, NEW is \in SUBSET Intent,
           CommitPerceptionForRun(r, os, ts, is)
    PROVE  GraphInv'
<1> DEFINE new == Unlinked(r, NewIntents(r, is))
<1>1. /\ CanCommitPerception(r, os, ts, is)
      /\ observations' = observations \cup os
      /\ tracklets' = tracklets \cup ts
      /\ perceivedBy' = perceivedBy \cup ({r} \X (os \cup ts))
      /\ selected' = selected \cup new
      /\ UNCHANGED <<runState, runRecords, frames, evidence, jobState, jobRoot, perceptionClosure>>
  BY DEF CommitPerceptionForRun, worldVars, recordVars, jobVars
<1>2. /\ PerceptionOf(r)' = PerceptionOf(r) \cup os \cup ts
      /\ \A q \in Run \ {r} : PerceptionOf(q)' = PerceptionOf(q)
      /\ \A q : OwnedBy(q)' = OwnedBy(q)
  BY <1>1 DEF PerceptionOf, OwnedBy, Perceived
<1>3. \A n \in new : /\ n.run = r /\ n.evidence = NoEvidence
                     /\ \E i \in is : /\ n = [run |-> r, tracklet |-> i.tracklet, rank |-> i.rank,
                                               observation |-> i.observation, evidence |-> NoEvidence]
                                      /\ \A s \in SelectionsOf(r) : ~SameKey(i, s)
  BY DEF Unlinked, NewIntents
<1>4. PerceptionTypeOK'
  <2>1. new \subseteq Selection
    BY <1>3 DEF Selection, Intent
  <2> QED BY <1>1, <2>1 DEF GraphInv, PerceptionTypeOK, Perceived
<1>5. CanPerceive(r, os) /\ CanTrack(r, os, ts) /\ CanSelect(r, os, ts, is)
      /\ runState[r] = "preparing" /\ r \in Runs
  BY <1>1 DEF CanCommitPerception, Runs
<1>6. GraphIsOwned(r, OwnedBy(r))'
  <2>1. GraphIsOwned(r, OwnedBy(r))
    BY DEF GraphInv, PerceptionIsOwned
  <2>2. \A o \in PerceptionOf(r)' \cap Observation :
           o \in observations' /\ ObservationFrame[o] \in OwnedBy(r)'
    BY <1>1, <1>2, <1>5, <2>1, PerceptionTypes DEF GraphIsOwned, CanPerceive
  <2>3. \A t \in PerceptionOf(r)' \cap Tracklet :
           t \in tracklets' /\ TrackletPoints[t] \subseteq PerceptionOf(r)'
    BY <1>1, <1>2, <1>5, <2>1, PerceptionTypes DEF GraphIsOwned, CanTrack
  <2>4. PerceptionOf(r)' \cap Tracklet = (PerceptionOf(r) \cap Tracklet) \cup ts
    BY <1>2, PerceptionTypes
  <2>5. \A t, u \in PerceptionOf(r)' \cap Tracklet :
           t # u => TrackletPoints[t] \cap TrackletPoints[u] = {}
    BY <2>1, <2>4, <1>5 DEF GraphIsOwned, CanTrack
  <2> QED BY <2>2, <2>3, <2>5 DEF GraphIsOwned
<1>7. PerceptionIsOwned'
  BY <1>1, <1>2, <1>6 DEF GraphInv, PerceptionIsOwned, GraphIsOwned
<1>8. ForeignKeysHold'
  <2>1. \A o \in observations' : ObservationFrame[o] \in frames'
    BY <1>1, <1>5 DEF GraphInv, ForeignKeysHold, CanPerceive
  <2>2. PerceptionOf(r)' \cap Observation \subseteq observations'
    BY <1>6 DEF GraphIsOwned
  <2>3. \A t \in ts : TrackletPoints[t] \subseteq observations'
    BY <1>2, <1>5, <2>2, PerceptionTypes DEF CanTrack
  <2>4. \A t \in tracklets' : TrackletPoints[t] \subseteq observations'
    BY <1>1, <2>3 DEF GraphInv, ForeignKeysHold
  <2>5. \A p \in perceivedBy' : p[1] \in Runs'
    BY <1>1, <1>5 DEF GraphInv, ForeignKeysHold, Runs
  <2>6. \A i \in is : i.tracklet \in tracklets' /\ i.observation \in observations'
    BY <1>2, <1>5, <1>6, <2>2 DEF CanSelect, GraphIsOwned, Intent
  <2>7. \A s \in new : /\ s.run \in Runs /\ s.tracklet \in tracklets'
                       /\ s.observation \in observations' /\ s.evidence \in evidence \cup {NoEvidence}
    BY <1>3, <1>5, <2>6
  <2>8. \A s \in selected' : /\ s.run \in Runs' /\ s.tracklet \in tracklets'
                             /\ s.observation \in observations'
                             /\ s.evidence \in evidence' \cup {NoEvidence}
    BY <1>1, <2>7 DEF GraphInv, ForeignKeysHold, Runs
  <2> QED BY <2>1, <2>4, <2>5, <2>8 DEF ForeignKeysHold
<1>9. NoOrphanPerception'
  BY <1>1 DEF GraphInv, NoOrphanPerception, PerceptionOwners
<1>10. SelectionsAreSound'
  <2>1. \A s \in selected' :
          /\ {s.tracklet, s.observation} \subseteq PerceptionOf(s.run)'
          /\ s.observation \in TrackletPoints[s.tracklet]
          /\ s.evidence # NoEvidence =>
                s.evidence \in OwnedBy(s.run)' /\ <<s.evidence, s.observation>> \in Depicts
    <3>1. \A q \in Run : PerceptionOf(q) \subseteq PerceptionOf(q)'
      BY <1>2
    <3>2. \A s \in selected : s.run \in Run
      BY DEF GraphInv, PerceptionTypeOK, Selection
    <3>3. \A s \in new : {s.tracklet, s.observation} \subseteq PerceptionOf(r)'
                         /\ s.observation \in TrackletPoints[s.tracklet]
      BY <1>2, <1>3, <1>5 DEF CanSelect
    <3> QED BY <1>1, <1>2, <1>3, <3>1, <3>2, <3>3 DEF GraphInv, SelectionsAreSound
  <2>2. \A s, u \in selected' : s.run = u.run /\ s # u =>
           ~SameKey(s, u) /\ (s.evidence = u.evidence => s.evidence = NoEvidence)
    <3> SUFFICES ASSUME NEW s \in selected', NEW u \in selected', s.run = u.run, s # u
                 PROVE  ~SameKey(s, u) /\ (s.evidence = u.evidence => s.evidence = NoEvidence)
      OBVIOUS
    <3>1. CASE s \in selected /\ u \in selected
      BY <3>1 DEF GraphInv, SelectionsAreSound
    <3>2. CASE s \in new /\ u \in SelectionsOf(r)
      BY <1>3, <3>2 DEF SameKey
    <3>3. CASE u \in new /\ s \in SelectionsOf(r)
      BY <1>3, <3>3 DEF SameKey
    <3>4. CASE s \in new /\ u \in new
      <4>1. \A i, j \in is : SameKey(i, j) => i = j
        BY <1>5 DEF CanSelect
      <4> QED BY <1>3, <3>4, <4>1 DEF SameKey
    <3> QED BY <1>1, <1>3, <3>1, <3>2, <3>3, <3>4 DEF SelectionsOf
  <2>3. \A q \in Run : runState'[q] = "committed" => RanksAreContiguous(q)'
    <3>1. \A q \in Run \ {r} : SelectionsOf(q)' = SelectionsOf(q)
      BY <1>1, <1>3 DEF SelectionsOf
    <3> QED BY <1>1, <1>5, <3>1 DEF GraphInv, SelectionsAreSound, RanksAreContiguous
  <2> QED BY <2>1, <2>2, <2>3 DEF SelectionsAreSound
<1>11. PerceptionClosureIsFrozen' /\ OnlyPendingHidesPerception'
  <2>1. \A x \in os \cup ts : SourceWritable(PerceivedSource(x))
    BY <1>1, PerceivedSourceCases DEF CanCommitPerception
  <2>2. \A d \in DeletionId : jobState[d] = "pending" =>
           PerceptionSourceClosure(jobRoot[d])' = PerceptionSourceClosure(jobRoot[d])
    BY <1>1, <2>1 DEF PerceptionSourceClosure, SourceWritable
  <2> QED BY <1>1, <2>2 DEF GraphInv, PerceptionClosureIsFrozen, PerceptionPlanLoads,
            OnlyPendingHidesPerception
<1> QED BY <1>4, <1>7, <1>8, <1>9, <1>10, <1>11 DEF GraphInv

(* link_selected_evidence fills in a link that keeps the keys as they are. *)
LEMMA LinkGraph ==
    ASSUME WorldInv, GraphInv, NEW s \in selected, NEW e \in Evidence, NEW present,
           LinkSelectedEvidence(s, e, present)
    PROVE  GraphInv'
<1> DEFINE n == [s EXCEPT !.evidence = e]
<1>1. /\ CanLink(s, e, present)
      /\ selected' = (selected \ {s}) \cup {n}
      /\ UNCHANGED <<observations, tracklets, perceivedBy, perceptionClosure>>
      /\ UNCHANGED <<runState, runRecords, frames, evidence, jobState, jobRoot>>
  BY DEF LinkSelectedEvidence, worldVars, recordVars, jobVars
<1>2. s \in Selection
  BY DEF GraphInv, PerceptionTypeOK
<1>3. /\ n \in Selection /\ n.run = s.run /\ n.tracklet = s.tracklet /\ n.rank = s.rank
      /\ n.observation = s.observation /\ n.evidence = e /\ e # NoEvidence
  BY <1>2, PerceptionTypes DEF Selection
<1> HIDE DEF n
<1>4. \A q : OwnedBy(q)' = OwnedBy(q) /\ PerceptionOf(q)' = PerceptionOf(q)
  BY <1>1 DEF OwnedBy, PerceptionOf
<1>5. PerceptionTypeOK'
  BY <1>1, <1>3 DEF GraphInv, PerceptionTypeOK
<1>6. ForeignKeysHold'
  BY <1>1, <1>3 DEF GraphInv, ForeignKeysHold, Runs, CanLink
<1>7. PerceptionIsOwned' /\ NoOrphanPerception'
  BY <1>1, <1>4 DEF GraphInv, PerceptionIsOwned, GraphIsOwned, NoOrphanPerception, PerceptionOwners
<1>8. SelectionsAreSound'
  <2>0. /\ selected' = (selected \ {s}) \cup {n} /\ s.evidence \in {NoEvidence, e}
        /\ e \in OwnedBy(s.run) /\ <<e, s.observation>> \in Depicts
        /\ runState[s.run] = "preparing"
        /\ \A t \in selected \ {s} : t.run = s.run => t.evidence # e
    BY <1>1 DEF CanLink, SelectionsOf
  <2>1. \A t \in selected' :
          /\ {t.tracklet, t.observation} \subseteq PerceptionOf(t.run)'
          /\ t.observation \in TrackletPoints[t.tracklet]
          /\ t.evidence # NoEvidence =>
                t.evidence \in OwnedBy(t.run)' /\ <<t.evidence, t.observation>> \in Depicts
    BY <1>3, <1>4, <2>0 DEF GraphInv, SelectionsAreSound
  <2>2. \A t, u \in selected' : t.run = u.run /\ t # u =>
           ~SameKey(t, u) /\ (t.evidence = u.evidence => t.evidence = NoEvidence)
    <3>1. \A t \in selected \ {s} : t.run = s.run => ~SameKey(t, s) /\ ~SameKey(s, t)
      BY DEF GraphInv, SelectionsAreSound
    <3>2. \A t \in selected \ {s} : t.run = n.run =>
             ~SameKey(t, n) /\ ~SameKey(n, t) /\ t.evidence # n.evidence
      BY <1>3, <2>0, <3>1 DEF SameKey
    <3> QED BY <2>0, <3>2 DEF GraphInv, SelectionsAreSound
  <2>3. \A q \in Run : runState'[q] = "committed" => RanksAreContiguous(q)'
    <3>1. \A q \in Run : runState'[q] = "committed" => SelectionsOf(q)' = SelectionsOf(q)
      BY <1>1, <1>3, <2>0 DEF SelectionsOf
    <3> QED BY <1>1, <3>1 DEF GraphInv, SelectionsAreSound, RanksAreContiguous
  <2> QED BY <2>1, <2>2, <2>3 DEF SelectionsAreSound
<1>9. PerceptionClosureIsFrozen' /\ OnlyPendingHidesPerception'
  BY <1>1 DEF GraphInv, PerceptionClosureIsFrozen, PerceptionPlanLoads,
      PerceptionSourceClosure, OnlyPendingHidesPerception
<1> QED BY <1>5, <1>6, <1>7, <1>8, <1>9 DEF GraphInv

(* finish_run_cleanup takes only what no other run perceived: a record that
   another run owns keeps its row, its points and its frame. *)
LEMMA CleanupKeepsOthers ==
    ASSUME WorldInv, GraphInv, NEW r \in Run, FinishPerceptionCleanup(r)
    PROVE  /\ \A q \in Run \ {r} : PerceptionOf(q) \subseteq observations' \cup tracklets'
           /\ \A x \in observations' \cup tracklets' :
                 \E q \in Run \ {r} : x \in PerceptionOf(q)
<1>1. /\ tracklets' = tracklets \ OnlyPerceivedBy(r)
      /\ observations' =
           {o \in observations :
              /\ o \in OnlyPerceivedBy(r) => \E t \in tracklets' : o \in TrackletPoints[t]
              /\ ObservationFrame[o] \in frames'}
      /\ frames' = frames \ CleanupFrames(r)
  BY DEF FinishPerceptionCleanup, FinishRunCleanup
<1>2. \A q \in Run : GraphIsOwned(q, OwnedBy(q))
  BY DEF GraphInv, PerceptionIsOwned
<1>3. \A x : x \in OnlyPerceivedBy(r) => \A q \in Run \ {r} : x \notin PerceptionOf(q)
  BY DEF OnlyPerceivedBy, PerceptionOwners, PerceptionOf
<1>4. ASSUME NEW q \in Run \ {r}, NEW x \in PerceptionOf(q)
      PROVE  x \in observations' \cup tracklets'
  <2>1. CASE x \in Tracklet
    BY <1>1, <1>2, <1>3, <1>4, <2>1 DEF GraphIsOwned
  <2>2. CASE x \in Observation
    <3>1. x \in observations /\ <<q, ObservationFrame[x]>> \in runRecords
      BY <1>2, <1>4, <2>2 DEF GraphIsOwned, OwnedBy
    <3>2. ObservationFrame[x] \notin CleanupFrames(r)
      BY <3>1 DEF CleanupFrames, OnlyOwned, OwnersOf
    <3> QED BY <1>1, <1>3, <1>4, <3>1, <3>2 DEF GraphInv, ForeignKeysHold
  <2> QED BY <1>4, <2>1, <2>2 DEF PerceptionOf, Perceived
<1>5. \A x \in observations \cup tracklets :
         x \in Perceived /\ \E q \in Run : x \in PerceptionOf(q)
  BY DEF GraphInv, NoOrphanPerception, PerceptionOwners, PerceptionTypeOK, PerceptionOf, Perceived
<1>6. \A x \in observations \cup tracklets :
         x \in OnlyPerceivedBy(r) \/ \E q \in Run \ {r} : x \in PerceptionOf(q)
  BY <1>5 DEF OnlyPerceivedBy, PerceptionOwners, PerceptionOf
<1>7. \A t \in tracklets' : \E q \in Run \ {r} : t \in PerceptionOf(q)
  BY <1>1, <1>6
<1>8. ASSUME NEW o \in observations' PROVE \E q \in Run \ {r} : o \in PerceptionOf(q)
  <2>1. CASE o \in OnlyPerceivedBy(r)
    <3>1. PICK t \in tracklets' : o \in TrackletPoints[t]
      BY <1>1, <1>8, <2>1
    <3>2. PICK q \in Run \ {r} : t \in PerceptionOf(q)
      BY <1>7
    <3>3. t \in Tracklet
      BY <1>1 DEF GraphInv, PerceptionTypeOK
    <3> QED BY <1>2, <3>1, <3>2, <3>3 DEF GraphIsOwned
  <2> QED BY <1>1, <1>6, <1>8, <2>1
<1> QED BY <1>4, <1>7, <1>8

LEMMA CleanupGraph ==
    ASSUME WorldInv, GraphInv, NEW r \in Run, FinishPerceptionCleanup(r)
    PROVE  GraphInv'
<1>1. /\ tracklets' \subseteq tracklets /\ observations' \subseteq observations
      /\ \A o \in observations' : ObservationFrame[o] \in frames'
      /\ perceivedBy' = {p \in perceivedBy : p[1] # r}
      /\ selected' = selected \ SelectionsOf(r)
      /\ evidence' = evidence \ CleanupEvidence(r)
      /\ runRecords' = {o \in runRecords : o[1] # r}
      /\ runState[r] \in {"preparing", "failed", "cancelled"} /\ SourceWritable(RunSource[r])
      /\ runState' = [runState EXCEPT ![r] = IF @ = "preparing" THEN "failed" ELSE @]
      /\ UNCHANGED <<perceptionClosure, jobState, jobRoot>>
  BY DEF FinishPerceptionCleanup, FinishRunCleanup, CanFinishCleanup, jobVars
<1>2. /\ PerceptionOf(r)' = {}
      /\ \A q \in Run \ {r} : PerceptionOf(q)' = PerceptionOf(q) /\ OwnedBy(q)' = OwnedBy(q)
      /\ \A q \in Run \ {r} : SelectionsOf(q)' = SelectionsOf(q)
  BY <1>1 DEF PerceptionOf, OwnedBy, SelectionsOf
<1>3. /\ \A q \in Run \ {r} : PerceptionOf(q) \subseteq observations' \cup tracklets'
      /\ \A x \in observations' \cup tracklets' : \E q \in Run \ {r} : x \in PerceptionOf(q)
  BY CleanupKeepsOthers
<1>4. PerceptionTypeOK'
  BY <1>1 DEF GraphInv, PerceptionTypeOK
<1>5. \A q \in Run \ {r} :
         /\ PerceptionOf(q) \cap Observation \subseteq observations'
         /\ PerceptionOf(q) \cap Tracklet \subseteq tracklets'
  BY <1>3, <1>4, PerceptionTypes DEF PerceptionTypeOK
<1>6. PerceptionIsOwned'
  <2>1. GraphIsOwned(r, OwnedBy(r))'
    BY <1>2 DEF GraphIsOwned
  <2>2. ASSUME NEW q \in Run \ {r} PROVE GraphIsOwned(q, OwnedBy(q))'
    BY <1>2, <1>5 DEF GraphInv, PerceptionIsOwned, GraphIsOwned
  <2> QED BY <2>1, <2>2 DEF PerceptionIsOwned
<1>7. NoOrphanPerception'
  BY <1>1, <1>3 DEF NoOrphanPerception, PerceptionOwners, PerceptionOf
<1>8. \A s \in selected' : /\ s \in selected /\ s \in Selection /\ s.run \in Run \ {r}
                           /\ s.tracklet \in Tracklet /\ s.observation \in Observation
  BY <1>1 DEF GraphInv, PerceptionTypeOK, Selection, SelectionsOf
<1>9. ForeignKeysHold'
  <2>1. \A t \in tracklets' : TrackletPoints[t] \subseteq observations'
    <3> SUFFICES ASSUME NEW t \in tracklets', NEW o \in TrackletPoints[t] PROVE o \in observations'
      OBVIOUS
    <3>1. t \in Tracklet /\ o \in Observation
      BY <1>4, PointSource DEF PerceptionTypeOK
    <3>2. PICK q \in Run \ {r} : t \in PerceptionOf(q)
      BY <1>3
    <3> QED BY <1>5, <3>1, <3>2 DEF GraphInv, PerceptionIsOwned, GraphIsOwned
  <2>2. \A p \in perceivedBy' : p[1] \in Runs'
    BY <1>1 DEF GraphInv, ForeignKeysHold, Runs, WorldInv, WorldTypeOK
  <2>3. ASSUME NEW s \in selected'
        PROVE  /\ s.run \in Runs' /\ s.tracklet \in tracklets' /\ s.observation \in observations'
               /\ s.evidence \in evidence' \cup {NoEvidence}
    <3>1. /\ {s.tracklet, s.observation} \subseteq PerceptionOf(s.run)
          /\ s.evidence # NoEvidence => s.evidence \in OwnedBy(s.run)
          /\ s.evidence \in evidence \cup {NoEvidence} /\ s.run \in Runs
      BY <1>8, <2>3 DEF GraphInv, SelectionsAreSound, ForeignKeysHold
    <3>2. s.run \in Runs'
      BY <1>1, <1>8, <2>3, <3>1 DEF Runs, WorldInv, WorldTypeOK
    <3>3. s.evidence # NoEvidence => s.evidence \notin CleanupEvidence(r)
      BY <1>8, <2>3, <3>1 DEF CleanupEvidence, OnlyOwned, OwnersOf, OwnedBy
    <3> QED BY <1>1, <1>5, <1>8, <2>3, <3>1, <3>2, <3>3
  <2> QED BY <1>1, <2>1, <2>2, <2>3 DEF ForeignKeysHold
<1>10. SelectionsAreSound'
  <2>1. \A q \in Run : runState'[q] = "committed" => q # r /\ runState[q] = "committed"
    BY <1>1 DEF WorldInv, WorldTypeOK
  <2>2. \A q \in Run : runState'[q] = "committed" => RanksAreContiguous(q)'
    BY <1>2, <2>1 DEF GraphInv, SelectionsAreSound, RanksAreContiguous
  <2>3. \A s, u \in selected' : s.run = u.run /\ s # u =>
           ~SameKey(s, u) /\ (s.evidence = u.evidence => s.evidence = NoEvidence)
    BY <1>8 DEF GraphInv, SelectionsAreSound
  <2>4. \A s \in selected' :
          /\ {s.tracklet, s.observation} \subseteq PerceptionOf(s.run)'
          /\ s.observation \in TrackletPoints[s.tracklet]
          /\ s.evidence # NoEvidence =>
                s.evidence \in OwnedBy(s.run)' /\ <<s.evidence, s.observation>> \in Depicts
    BY <1>2, <1>8 DEF GraphInv, SelectionsAreSound
  <2> QED BY <2>2, <2>3, <2>4 DEF SelectionsAreSound
<1>11. PerceptionClosureIsFrozen' /\ OnlyPendingHidesPerception'
  <2>1. \A x \in (observations \cup tracklets) \ (observations' \cup tracklets') :
           PerceivedSource(x) = RunSource[r]
    <3> SUFFICES ASSUME NEW x \in observations \cup tracklets, x \notin observations' \cup tracklets'
                 PROVE  PerceivedSource(x) = RunSource[r]
      OBVIOUS
    <3>1. \A q \in Run \ {r} : x \notin PerceptionOf(q)
      BY <1>3
    <3>2. x \in PerceptionOf(r)
      BY <3>1 DEF GraphInv, NoOrphanPerception, PerceptionOwners, PerceptionOf, PerceptionTypeOK, Perceived
    <3> QED BY <3>2, PerceivedInSource
  <2>2. \A d \in DeletionId : jobState[d] = "pending" =>
           PerceptionSourceClosure(jobRoot[d])' = PerceptionSourceClosure(jobRoot[d])
    <3> SUFFICES ASSUME NEW d \in DeletionId, jobState[d] = "pending"
                 PROVE  PerceptionSourceClosure(jobRoot[d])' = PerceptionSourceClosure(jobRoot[d])
      OBVIOUS
    <3>1. jobRoot[d] # RunSource[r]
      BY <1>1, WritableIsNotRoot
    <3> QED BY <1>1, <2>1, <3>1 DEF PerceptionSourceClosure
  <2> QED BY <1>1, <2>2 DEF GraphInv, PerceptionClosureIsFrozen, PerceptionPlanLoads,
            OnlyPendingHidesPerception
<1> QED BY <1>4, <1>6, <1>7, <1>9, <1>10, <1>11 DEF GraphInv

(* purge_deletion_metadata takes the perception of one source and keeps every
   other run's. *)
LEMMA PurgeGraph ==
    ASSUME WorldInv, GraphInv, NEW d \in DeletionId, NEW present, PurgePerception(d, present)
    PROVE  GraphInv'
<1> DEFINE s == jobRoot[d]
<1>1. /\ jobState[d] = "pending"
      /\ frames' = {f \in frames : FrameSource[f] # s}
      /\ evidence' = {e \in evidence : EvidenceFrame[e] \in frames'}
      /\ runState' = [r \in Run |-> IF r \in Runs /\ RunSource[r] # s THEN runState[r] ELSE "absent"]
      /\ runRecords' = {o \in runRecords : o[1] \in Runs /\ RunSource[o[1]] # s}
      /\ jobState' = [jobState EXCEPT ![d] = "metadata_purged"]
      /\ observations' = {o \in observations : ObservationFrame[o] \in frames'}
      /\ tracklets' = {t \in tracklets : TrackletSource(t) # s}
      /\ perceivedBy' = {p \in perceivedBy : runState'[p[1]] # "absent"}
      /\ selected' = {u \in selected : runState'[u.run] # "absent"}
      /\ perceptionClosure' = [perceptionClosure EXCEPT ![d] = {}]
  BY DEF PurgePerception, PurgeDeletionMetadata, CanPurge, PlanLoads
<1>2. /\ \A r \in Run : runState'[r] # "absent" => /\ r \in Runs /\ RunSource[r] # s
                                                   /\ runState'[r] = runState[r]
      /\ \A r \in Runs : RunSource[r] # s => runState'[r] = runState[r] /\ runState'[r] # "absent"
  BY <1>1 DEF Runs
<1>3. PerceptionTypeOK'
  BY <1>1 DEF GraphInv, PerceptionTypeOK
<1>4. /\ \A r \in Run : runState'[r] # "absent" => /\ PerceptionOf(r)' = PerceptionOf(r)
                                                   /\ OwnedBy(r)' = OwnedBy(r)
                                                   /\ SelectionsOf(r)' = SelectionsOf(r)
      /\ \A r \in Run : runState'[r] = "absent" => PerceptionOf(r)' = {}
  <2>1. \A u \in selected : u.run \in Run
    BY DEF GraphInv, PerceptionTypeOK, Selection
  <2>2. \A r \in Run : \A x : <<r, x>> \in perceivedBy' <=> <<r, x>> \in perceivedBy /\ runState'[r] # "absent"
    BY <1>1
  <2>3. \A r \in Run : runState'[r] # "absent" => OwnedBy(r)' = OwnedBy(r)
    BY <1>1, <1>2 DEF OwnedBy
  <2>4. \A r \in Run : runState'[r] # "absent" => SelectionsOf(r)' = SelectionsOf(r)
    BY <1>1 DEF SelectionsOf
  <2> QED BY <2>2, <2>3, <2>4 DEF PerceptionOf
<1>5. \A o \in observations : ObservationFrame[o] \in frames' <=> SourceOf(o) # s
  BY <1>1 DEF GraphInv, ForeignKeysHold, SourceOf
<1>6. \A r \in Run : runState'[r] # "absent" =>
         /\ PerceptionOf(r) \cap Observation \subseteq observations'
         /\ PerceptionOf(r) \cap Tracklet \subseteq tracklets'
  <2> SUFFICES ASSUME NEW r \in Run, runState'[r] # "absent", NEW x \in PerceptionOf(r)
               PROVE  /\ x \in Observation => x \in observations'
                      /\ x \in Tracklet => x \in tracklets'
    OBVIOUS
  <2>1. x \in observations \cup tracklets /\ PerceivedSource(x) # s
    BY <1>2, PerceivedInSource
  <2>2. x \in Observation => x \in observations /\ x \notin Tracklet
    BY <2>1, PerceptionTypes DEF GraphInv, PerceptionTypeOK
  <2>3. x \in Tracklet => x \in tracklets /\ x \notin Observation
    BY <2>1, PerceptionTypes DEF GraphInv, PerceptionTypeOK
  <2> QED BY <1>1, <1>5, <2>1, <2>2, <2>3, PerceivedSourceCases
<1>7. PerceptionIsOwned'
  <2> SUFFICES ASSUME NEW r \in Run PROVE GraphIsOwned(r, OwnedBy(r))'
    BY DEF PerceptionIsOwned
  <2>1. CASE runState'[r] = "absent"
    BY <1>4, <2>1 DEF GraphIsOwned
  <2>2. CASE runState'[r] # "absent"
    BY <1>4, <1>6, <2>2 DEF GraphInv, PerceptionIsOwned, GraphIsOwned
  <2> QED BY <2>1, <2>2
<1>8. \A x \in observations' \cup tracklets' :
         \E r \in Run : runState'[r] # "absent" /\ x \in PerceptionOf(r)
  <2> SUFFICES ASSUME NEW x \in observations' \cup tracklets'
               PROVE  \E r \in Run : runState'[r] # "absent" /\ x \in PerceptionOf(r)
    OBVIOUS
  <2>1. x \in observations \cup tracklets /\ x \in Perceived
    BY <1>1 DEF GraphInv, PerceptionTypeOK, Perceived
  <2>2. PerceivedSource(x) # s
    BY <1>1, <1>3, <1>5, PerceivedSourceCases DEF PerceptionTypeOK
  <2>3. PICK r \in Run : <<r, x>> \in perceivedBy
    BY <2>1 DEF GraphInv, NoOrphanPerception, PerceptionOwners
  <2>4. x \in PerceptionOf(r) /\ r \in Runs
    BY <2>1, <2>3 DEF PerceptionOf, GraphInv, ForeignKeysHold
  <2>5. RunSource[r] # s
    BY <2>2, <2>4, PerceivedInSource
  <2> QED BY <1>2, <2>4, <2>5
<1>9. NoOrphanPerception'
  <2> SUFFICES ASSUME NEW x \in observations' \cup tracklets' PROVE PerceptionOwners(x)' # {}
    BY DEF NoOrphanPerception
  <2>1. PICK r \in Run : runState'[r] # "absent" /\ x \in PerceptionOf(r)
    BY <1>8
  <2>2. x \in PerceptionOf(r)'
    BY <1>4, <2>1
  <2> QED BY <2>2 DEF PerceptionOf, PerceptionOwners
<1>10. \A u \in selected' : /\ u \in selected /\ u \in Selection /\ u.run \in Run
                            /\ u.tracklet \in Tracklet /\ u.observation \in Observation
                            /\ runState'[u.run] # "absent"
  BY <1>1 DEF GraphInv, PerceptionTypeOK, Selection
<1>11. ForeignKeysHold'
  <2>1. \A t \in tracklets' : TrackletPoints[t] \subseteq observations'
    <3> SUFFICES ASSUME NEW t \in tracklets', NEW o \in TrackletPoints[t] PROVE o \in observations'
      OBVIOUS
    <3>1. t \in Tracklet /\ t \in tracklets /\ TrackletSource(t) # s
      BY <1>1, <1>3 DEF PerceptionTypeOK
    <3>2. o \in observations /\ SourceOf(o) # s
      BY <3>1, PointSource DEF GraphInv, ForeignKeysHold
    <3> QED BY <1>1, <1>5, <3>2
  <2>2. \A p \in perceivedBy' : p[1] \in Runs'
    BY <1>1 DEF GraphInv, PerceptionTypeOK, Runs
  <2>3. ASSUME NEW u \in selected'
        PROVE  /\ u.run \in Runs' /\ u.tracklet \in tracklets' /\ u.observation \in observations'
               /\ u.evidence \in evidence' \cup {NoEvidence}
    <3>1. /\ {u.tracklet, u.observation} \subseteq PerceptionOf(u.run)
          /\ u.evidence # NoEvidence => u.evidence \in OwnedBy(u.run)
          /\ u.evidence \in evidence \cup {NoEvidence}
      BY <1>10, <2>3 DEF GraphInv, SelectionsAreSound, ForeignKeysHold
    <3>2. u.evidence # NoEvidence => u.evidence \in evidence'
      <4> SUFFICES ASSUME u.evidence # NoEvidence PROVE u.evidence \in evidence'
        OBVIOUS
      <4>1. /\ u.evidence \in evidence /\ u.evidence \in Evidence
            /\ <<u.run, u.evidence>> \in runRecords
        BY <3>1 DEF OwnedBy, WorldInv, WorldTypeOK
      <4>2. FrameSource[EvidenceFrame[u.evidence]] = RunSource[u.run]
        BY <4>1 DEF WorldInv, OwnershipIsSound
      <4>3. RunSource[u.run] # s
        BY <1>2, <1>10, <2>3
      <4> QED BY <1>1, <4>1, <4>2, <4>3 DEF WorldInv, EvidenceHasFrame
    <3> QED BY <1>6, <1>10, <2>3, <3>1, <3>2 DEF Runs
  <2> QED BY <1>1, <2>1, <2>2, <2>3 DEF ForeignKeysHold
<1>12. SelectionsAreSound'
  <2>1. \A r \in Run : runState'[r] = "committed" => RanksAreContiguous(r)'
    BY <1>2, <1>4 DEF GraphInv, SelectionsAreSound, RanksAreContiguous
  <2>2. \A u, v \in selected' : u.run = v.run /\ u # v =>
           ~SameKey(u, v) /\ (u.evidence = v.evidence => u.evidence = NoEvidence)
    BY <1>10 DEF GraphInv, SelectionsAreSound
  <2>3. \A u \in selected' :
          /\ {u.tracklet, u.observation} \subseteq PerceptionOf(u.run)'
          /\ u.observation \in TrackletPoints[u.tracklet]
          /\ u.evidence # NoEvidence =>
                u.evidence \in OwnedBy(u.run)' /\ <<u.evidence, u.observation>> \in Depicts
    BY <1>4, <1>10 DEF GraphInv, SelectionsAreSound
  <2> QED BY <2>1, <2>2, <2>3 DEF SelectionsAreSound
<1>13. PerceptionClosureIsFrozen' /\ OnlyPendingHidesPerception'
  <2>1. \A c \in DeletionId : jobState'[c] # "pending"
    BY <1>1 DEF WorldInv, WorldTypeOK, OneJobAtATime, ActiveJobs
  <2>2. \A c \in DeletionId : perceptionClosure'[c] = {}
    BY <1>1, <2>1 DEF GraphInv, PerceptionTypeOK, OnlyPendingHidesPerception, WorldInv, WorldTypeOK
  <2> QED BY <2>1, <2>2 DEF PerceptionClosureIsFrozen, OnlyPendingHidesPerception
<1> QED BY <1>3, <1>7, <1>9, <1>11, <1>12, <1>13 DEF GraphInv

-----------------------------------------------------------------------------
(* No operation changes what a published run perceived and selected: writing
   asks for a preparing run, cleanup for one that did not commit, and a purge
   takes a run with its source or not at all. *)
LEMMA PublishedGraphStep ==
    ASSUME GraphInv, NEW r \in Run, runState[r] = "committed", runState'[r] # "absent",
           \/ UNCHANGED perceptionVars
           \/ \E q, os, ts, is : CommitPerceptionForRun(q, os, ts, is)
           \/ \E s, e, present : LinkSelectedEvidence(s, e, present)
           \/ \E q : FinishPerceptionCleanup(q)
           \/ \E s, d : BeginPerceptionDeletion(s, d)
           \/ \E d, present : PurgePerception(d, present)
    PROVE  PerceptionOf(r)' = PerceptionOf(r) /\ SelectionsOf(r)' = SelectionsOf(r)
<1>1. ASSUME UNCHANGED <<perceivedBy, selected>>
      PROVE  PerceptionOf(r)' = PerceptionOf(r) /\ SelectionsOf(r)' = SelectionsOf(r)
  BY <1>1 DEF PerceptionOf, SelectionsOf
<1>2. ASSUME NEW q, NEW os, NEW ts, NEW is, CommitPerceptionForRun(q, os, ts, is)
      PROVE  PerceptionOf(r)' = PerceptionOf(r) /\ SelectionsOf(r)' = SelectionsOf(r)
  <2>1. /\ perceivedBy' = perceivedBy \cup ({q} \X (os \cup ts))
        /\ selected' = selected \cup Unlinked(q, NewIntents(q, is))
        /\ q # r
    BY <1>2 DEF CommitPerceptionForRun, CanCommitPerception
  <2>2. \A s \in Unlinked(q, NewIntents(q, is)) : s.run = q
    BY DEF Unlinked
  <2> QED BY <2>1, <2>2 DEF PerceptionOf, SelectionsOf
<1>3. ASSUME NEW s, NEW e, NEW present, LinkSelectedEvidence(s, e, present)
      PROVE  PerceptionOf(r)' = PerceptionOf(r) /\ SelectionsOf(r)' = SelectionsOf(r)
  <2> DEFINE n == [s EXCEPT !.evidence = e]
  <2>1. /\ perceivedBy' = perceivedBy /\ selected' = (selected \ {s}) \cup {n}
        /\ s \in Selection /\ runState[s.run] = "preparing"
    BY <1>3 DEF LinkSelectedEvidence, CanLink, GraphInv, PerceptionTypeOK
  <2>2. n.run = s.run
    BY <2>1 DEF Selection
  <2> QED BY <2>1, <2>2 DEF PerceptionOf, SelectionsOf
<1>4. ASSUME NEW q, FinishPerceptionCleanup(q)
      PROVE  PerceptionOf(r)' = PerceptionOf(r) /\ SelectionsOf(r)' = SelectionsOf(r)
  <2>1. /\ perceivedBy' = {p \in perceivedBy : p[1] # q}
        /\ selected' = selected \ SelectionsOf(q) /\ q # r
    BY <1>4 DEF FinishPerceptionCleanup, FinishRunCleanup, CanFinishCleanup
  <2> QED BY <2>1 DEF PerceptionOf, SelectionsOf
<1>5. ASSUME NEW d, NEW present, PurgePerception(d, present)
      PROVE  PerceptionOf(r)' = PerceptionOf(r) /\ SelectionsOf(r)' = SelectionsOf(r)
  BY <1>5 DEF PurgePerception, PerceptionOf, SelectionsOf
<1> QED BY <1>1, <1>2, <1>3, <1>4, <1>5 DEF perceptionVars, BeginPerceptionDeletion
===============================================================================
