------------------------- MODULE PerceptionCoordinator -------------------------
(***************************************************************************)
(* PerceptionCoordinator (coordinator.py) beside IngestionCoordinator: the *)
(* processes of Coordinator may also run perceptions.  A perception run    *)
(* recovers in a session of its own, computes its pages without the lock   *)
(* (module PerceptionRun), READS THE EXISTING RUN WITHOUT THE LOCK, and    *)
(* only then opens the session that writes; after that session it reads    *)
(* its graph back, again without the lock.  A run whose cancellation or    *)
(* deadline is noticed between two commit steps leaves everything to the   *)
(* next recovery, exactly as a crash does.                                 *)
(***************************************************************************)
EXTENDS Coordinator, PerceptionStore

CONSTANTS
    PerceptionRun,      \* the runs whose manifests perception derives
    RunObservations,    \* Run -> what its detector finds
    RunTracklets,       \* Run -> the tracklets its tracker completes
    RunSelections,      \* Run -> its intents, each with the crop that shows it
    Unread              \* no existing run has been read yet

ASSUME PerceptionRunTypes ==
    /\ PerceptionRun \subseteq Run
    /\ RunObservations \in [Run -> SUBSET Observation]
    /\ RunTracklets \in [Run -> SUBSET Tracklet]
    /\ \A r \in Run : RunSelections[r] \subseteq
          [tracklet : Tracklet, rank : 1..MaxRank, observation : Observation,
           evidence : Evidence \cup {NoEvidence}]
    /\ \A r \in Run \ PerceptionRun : RunObservations[r] = {} /\ RunTracklets[r] = {}

(* What the page loop of a run hands over (PerceptionRun!HandedOverIsWhole). *)
ASSUME PerceptionRunsAreCoherent ==
    \A r \in PerceptionRun :
        /\ \A o \in RunObservations[r] : ObservationFrame[o] \in RunSamples[r]
        /\ UNION {TrackletPoints[t] : t \in RunTracklets[r]} = RunObservations[r]
        /\ \A s \in RunSelections[r] :
              s.tracklet \in RunTracklets[r] /\ s.observation \in TrackletPoints[s.tracklet]
        /\ \A s, u \in RunSelections[r] :
              s.tracklet = u.tracklet /\ s.rank = u.rank => s = u
        /\ {s.evidence : s \in RunSelections[r]} \ {NoEvidence} = RunEvidence[r]

VARIABLE existing   \* Process -> the state world.get returned, or Unread

pvars == <<vars, perceptionVars, existing>>

PInit ==
    /\ Init
    /\ PerceptionInit
    /\ existing = [p \in Process |-> Unread]

-----------------------------------------------------------------------------
(* Before the session. *)

(* world.get(run_id), after the pages and before the lock. *)
ReadExisting(p, r) ==
    /\ proc[p] = r /\ r \in PerceptionRun /\ owner # p
    /\ existing[p] = Unread
    /\ existing' = [existing EXCEPT ![p] = ExistingState(r)]
    /\ UNCHANGED <<vars, perceptionVars>>

(* The preflight counts the artifacts, not the directory they will be in. *)
ArtifactsFitInventory(r) == Cardinality(RunDigests(r)) <= MaxInventoryEntries

StartPerception(p, r) ==
    /\ proc[p] = r
    /\ existing[p] \in {"absent", "failed", "cancelled"}
    /\ ArtifactsFitInventory(r)
    /\ Enter(p, "ing_prepare", r)
    /\ existing' = [existing EXCEPT ![p] = Unread]
    /\ UNCHANGED <<worldVars, storeVars, proc, queue, discards, unlinks, perceptionVars>>

(* A preparing run is a conflict; too many artifacts are refused; a cancelled
   run, an expired one or one whose process dies stops here too. *)
GiveUp(p) ==
    /\ proc[p] \in PerceptionRun /\ owner # p
    /\ proc' = [proc EXCEPT ![p] = "idle"]
    /\ existing' = [existing EXCEPT ![p] = Unread]
    /\ UNCHANGED <<worldVars, storeVars, sessionVars, perceptionVars>>

-----------------------------------------------------------------------------
(* The session.  Its first steps are those of an ingestion. *)

ForPerception == owner # NoProcess /\ target \in PerceptionRun

Observations ==
    /\ At("per_observations")
    /\ \E B \in Batches(RunObservations[target] \ PerceptionOf(target)) :
          B # {} /\ CommitPerceptionForRun(target, B, {}, {})
    /\ UNCHANGED <<storeVars, proc, sessionVars>>

IntentsFor(r, t) ==
    {[tracklet |-> t, rank |-> s.rank, observation |-> s.observation] :
        s \in {u \in RunSelections[r] : u.tracklet = t}}

(* Slip: the intents follow in a transaction of their own. *)
TrackletsAlone ==
    /\ At("per_tracklets")
    /\ \E t \in RunTracklets[target] \ PerceptionOf(target) :
          CommitPerceptionForRun(target, {}, {t}, {})
    /\ UNCHANGED <<storeVars, proc, sessionVars>>

(* One tracklet with all its intents is one call. *)
Tracklets ==
    /\ At("per_tracklets")
    /\ \E t \in RunTracklets[target] \ PerceptionOf(target) :
          CommitPerceptionForRun(target, {}, {t}, IntentsFor(target, t))
    /\ UNCHANGED <<storeVars, proc, sessionVars>>

(* The links the materialized items give to the stored selections. *)
OpenLinks(r) ==
    {l \in SelectionsOf(r) \X RunSelections[r] :
        /\ l[1].tracklet = l[2].tracklet /\ l[1].rank = l[2].rank
        /\ l[1].evidence = NoEvidence /\ l[2].evidence # NoEvidence}

(* A batch of links is written one link at a time here; all of it is hidden. *)
Links ==
    /\ At("per_links")
    /\ \E l \in OpenLinks(target) : LinkSelectedEvidence(l[1], l[2].evidence, cas)
    /\ UNCHANGED <<storeVars, proc, sessionVars>>

(* finalize_run; the session ends and the graph will be read back. *)
Finalize ==
    /\ At("per_finalize")
    /\ FinalizePerceptionRun(target, {}, {}, cas)
    /\ existing' = [existing EXCEPT ![owner] = "committed"]
    /\ Leave(target)
    /\ UNCHANGED storeVars

(* A loop has nothing left. *)
PerceptionLoopDone ==
    \/ /\ pc \in {"ing_stage", "ing_intents", "ing_promote"}
       /\ IngestLoopDone
    \/ /\ \/ /\ At("ing_frames") /\ RunFrames(target) \subseteq OwnedBy(target)
             /\ Goto("per_observations")
          \/ /\ At("per_observations") /\ RunObservations[target] \subseteq PerceptionOf(target)
             /\ Goto("per_tracklets")
          \/ /\ At("per_tracklets") /\ RunTracklets[target] \subseteq PerceptionOf(target)
             /\ Goto("ing_evidence")
          \/ /\ At("ing_evidence") /\ RunEvidence[target] \subseteq OwnedBy(target)
             /\ Goto("per_links")
          \/ At("per_links") /\ OpenLinks(target) = {} /\ Goto("per_finalize")
       /\ UNCHANGED <<worldVars, storeVars>>

PerceptionSession ==
    /\ ForPerception
    /\ \/ /\ \/ IngestPrepare \/ IngestStage \/ IngestIntents \/ IngestPromote
             \/ IngestFrames \/ IngestEvidence \/ PerceptionLoopDone
          /\ UNCHANGED <<perceptionVars, existing>>
       \/ (Observations \/ Tracklets \/ Links) /\ UNCHANGED existing
       \/ Finalize

-----------------------------------------------------------------------------
(* After the session, or instead of it when the run was committed already. *)

(* _verify_persisted *)
GraphReadsBack(r) ==
    /\ r \notin Hidden /\ runState[r] = "committed"
    /\ RunFrames(r) \subseteq VisibleFrames
    /\ PerceptionOf(r) = RunObservations[r] \cup RunTracklets[r]
    /\ PerceptionOf(r) \subseteq VisiblePerception
    /\ {[tracklet |-> s.tracklet, rank |-> s.rank, observation |-> s.observation,
         evidence |-> s.evidence] : s \in SelectionsOf(r)} = RunSelections[r]
    /\ RunEvidence[r] \subseteq VisibleEvidence
    /\ RunDigests(r) \subseteq cas

(* It returns COMPLETE or raises, and changes nothing. *)
VerifyPersisted(p) ==
    /\ existing[p] = "committed" /\ owner # p
    /\ proc' = [proc EXCEPT ![p] = "idle"]
    /\ existing' = [existing EXCEPT ![p] = Unread]
    /\ UNCHANGED <<worldVars, storeVars, sessionVars, perceptionVars>>

-----------------------------------------------------------------------------
(* Recovery and deletion, with what they do to the tables of version 2. *)

ListPerceptionRuns ==
    /\ At("rec_deletions")
    /\ ActiveJobs = {}
    /\ pc' = "rec_runs" /\ queue' = ActionablePerceptionRuns
    /\ UNCHANGED <<worldVars, storeVars, proc, owner, target, discards, unlinks, handles,
                   perceptionVars>>

PerceptionRecovery ==
    \/ ListPerceptionRuns
    \/ FinishRun /\ FinishPerceptionCleanup(target)
    \/ /\ \/ \E d \in DeletionId : ResumePending(d) /\ PerceptionPlanLoads(d)
          \/ \E d \in DeletionId : ResumePurged(d)
          \/ \E r \in Run : PlanRun(r)
          \/ ScanStaging \/ EndRecover \/ DiscardOne \/ UnlinkOne
       /\ UNCHANGED perceptionVars

PerceptionDeletion ==
    \/ PurgeMetadata /\ PurgePerception(target, cas)
    \/ (RemoveFiles \/ Complete) /\ UNCHANGED perceptionVars

(* A step that raises. *)
PerceptionStuck ==
    \/ Stuck
    \/ /\ At("rec_deletions")
       /\ \E d \in DeletionId : jobState[d] = "pending" /\ ~PerceptionPlanLoads(d)
    \/ (At("rec_purge") \/ At("del_purge")) /\ ~PerceptionPlanLoads(target)
    \/ /\ At("per_observations")
       /\ \E B \in Batches(RunObservations[target] \ PerceptionOf(target)) :
             ~CanCommitPerception(target, B, {}, {})
    \/ /\ At("per_tracklets")
       /\ \E t \in RunTracklets[target] \ PerceptionOf(target) :
             ~CanCommitPerception(target, {}, {t}, IntentsFor(target, t))
    \/ /\ At("per_links")
       /\ \E l \in OpenLinks(target) : ~CanLink(l[1], l[2].evidence, cas)
    \/ /\ At("per_finalize")
       /\ ~CanFinalizePerception(target, {}, cas) \/ ~CanFinalizeRun(target, {}, {})

PerceptionRaise ==
    /\ PerceptionStuck
    /\ Leave("idle")
    /\ UNCHANGED <<worldVars, storeVars, perceptionVars>>

-----------------------------------------------------------------------------
PerceptionStart(p) ==
    \/ \E r \in PerceptionRun : ReadExisting(p, r) \/ StartPerception(p, r)
    \/ VerifyPersisted(p) \/ GiveUp(p)

OtherStart(p) ==
    \/ /\ \/ \E c \in Calls : StartRecover(p, c)
          \/ StartRepair(p)
          \/ \E r \in Run \ PerceptionRun : StartIngest(p, r) \/ RefuseIngest(p, r)
          \/ \E s \in Source, d \in DeletionId : RejoinDeletion(p, s, d) \/ RetryPurged(p, s, d)
       /\ UNCHANGED perceptionVars
    \/ \E s \in Source, d \in DeletionId : StartDeletion(p, s, d) /\ BeginPerceptionDeletion(s, d)

PerceptionFailure ==
    \/ Crash \/ CrashInside \/ CheckpointBusy
    \/ \E p \in Process : proc[p] \notin PerceptionRun /\ CrashBetween(p)

PNext ==
    \/ \E p \in Process : PerceptionStart(p)
    \/ PerceptionSession
    \/ /\ \/ \E p \in Process : OtherStart(p)
          \/ PerceptionRecovery \/ PerceptionDeletion \/ PerceptionRaise
          \/ ~ForPerception /\ (IngestStep \/ EndRepair) /\ UNCHANGED perceptionVars
          \/ PerceptionFailure /\ UNCHANGED perceptionVars
       /\ UNCHANGED existing

PSpec == PInit /\ [][PNext]_pvars

-----------------------------------------------------------------------------
(* What a reader may rely on: the graph of a published perception run is
   whole, readable and the run's own, whatever other runs share its frames,
   observations and crops, whatever was read before the lock, and wherever
   another process stopped. *)
PublishedGraphReadsBack == \A r \in Published \cap PerceptionRun : GraphReadsBack(r)

(* Nothing is seen of a run that is not published. *)
NothingElseIsPerceived ==
    VisiblePerception = UNION {RunObservations[r] \cup RunTracklets[r] : r \in Published}

(* A recovery that reaches its end leaves no trace of a run that did not
   commit, in the tables of version 2 neither. *)
RecoveryLeavesNoPerception ==
    At("rec_end") =>
        /\ \A p \in perceivedBy : runState[p[1]] = "committed"
        /\ \A s \in selected : runState[s.run] = "committed"
        /\ \A x \in observations \cup tracklets : PerceptionOwners(x) # {}

(* A session that goes on a run read before the lock never takes a published
   run back, nor changes what it perceived; only the deletion of its source
   withdraws it. *)
CommittedGraphStays ==
    [][\A r \in Run :
          runState[r] = "committed" /\ runState'[r] # "absent" =>
             /\ runState'[r] = "committed"
             /\ PerceptionOf(r)' = PerceptionOf(r) /\ SelectionsOf(r)' = SelectionsOf(r)]_pvars

(* What was published is there, whole and unchanged, at every moment and
   after every step of every process. *)
PublishedGraphIsKept ==
    [](PublishedGraphReadsBack /\ NothingElseIsPerceived) /\ CommittedGraphStays
================================================================================
