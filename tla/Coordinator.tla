------------------------------ MODULE Coordinator ------------------------------
(***************************************************************************)
(* IngestionCoordinator (coordinator.py): processes that ingest, recover,  *)
(* repair and delete over one store root.  Everything that writes happens  *)
(* in a writer session, which holds the exclusive writer.lock, so at most  *)
(* one process is inside a session: its program counter and its local      *)
(* variables are global here.  ingest and repair open TWO sessions, one to *)
(* recover and one to work; between the two the lock is free and any other *)
(* process may run.  A process may die, or an operation may raise, at any  *)
(* step: the kernel drops the lock and the tables and files stay.          *)
(***************************************************************************)
EXTENDS WorldStore, EvidenceStore

CONSTANTS
    Process, NoProcess, NoTarget,
    MaxBatch                    \* MAX_PORT_BATCH_ITEMS

ASSUME Identities ==
    /\ NoProcess \notin Process
    /\ NoTarget \notin Run \cup DeletionId
    /\ {"idle", "recover", "repair"} \cap Run = {}

(* A list of removals mixes handles of files with names of run directories. *)
ASSUME FilesAreNotRuns == Run \cap (StagedFile \cup IncompleteFile) = {}

ASSUME BatchSize == MaxBatch \in Nat \ {0}

VARIABLES
    proc,           \* Process -> the public call it is in, or "idle"
    owner,          \* the process that holds writer.lock
    pc,             \* the next step of its session
    target,         \* the run or the deletion job the session works on
    queue,          \* pending runs the recovery still has to clean
    discards,       \* staging entries still to be discarded
    unlinks,        \* artifacts still to be deleted
    handles         \* what this session staged

sessionVars == <<owner, pc, target, queue, discards, unlinks, handles>>
vars == <<worldVars, storeVars, proc, sessionVars>>

Calls == {"idle", "recover", "repair"} \cup Run
Steps == {"free",
          "rec_deletions", "rec_purge", "rec_complete", "rec_runs", "rec_finish",
          "rec_end", "rep_end",
          "ing_prepare", "ing_stage", "ing_intents", "ing_promote", "ing_frames",
          "ing_evidence", "ing_finalize", "ing_verify",
          "del_remove", "del_purge", "del_complete",
          (* The sessions of PerceptionCoordinator also stop at these. *)
          "per_observations", "per_tracklets", "per_links", "per_finalize"}

TypeOK ==
    /\ WorldTypeOK
    /\ StoreTypeOK
    /\ proc \in [Process -> Calls]
    /\ owner \in Process \cup {NoProcess}
    /\ pc \in Steps
    /\ target \in Run \cup DeletionId \cup {NoTarget}
    /\ queue \subseteq Run
    /\ discards \subseteq StagedFile \cup IncompleteFile \cup Run
    /\ unlinks \subseteq Digest
    /\ handles \subseteq StagedFile

Init ==
    /\ WorldInit
    /\ StoreInit
    /\ proc = [p \in Process |-> "idle"]
    /\ owner = NoProcess /\ pc = "free" /\ target = NoTarget
    /\ queue = {} /\ discards = {} /\ unlinks = {} /\ handles = {}

-----------------------------------------------------------------------------
(* Sessions. *)

(* The lock is free: p enters its session at step l on target t. *)
Enter(p, l, t) ==
    /\ owner = NoProcess
    /\ owner' = p /\ pc' = l /\ target' = t
    /\ UNCHANGED handles

(* The session ends and its process goes on with call c. *)
Leave(c) ==
    /\ owner' = NoProcess /\ pc' = "free" /\ target' = NoTarget
    /\ queue' = {} /\ discards' = {} /\ unlinks' = {} /\ handles' = {}
    /\ proc' = [proc EXCEPT ![owner] = c]

(* The session is at step l and no removal is left to do before it. *)
At(l) ==
    /\ owner # NoProcess
    /\ pc = l
    /\ discards = {} /\ unlinks = {}

(* On to step l, with nothing else of the session changed. *)
Goto(l) ==
    /\ pc' = l
    /\ UNCHANGED <<proc, owner, target, queue, discards, unlinks, handles>>

(* _batches cuts a tuple into slices of MaxBatch. *)
Batches(S) ==
    {B \in SUBSET S : Cardinality(B) = IF Cardinality(S) < MaxBatch
                                       THEN Cardinality(S) ELSE MaxBatch}

-----------------------------------------------------------------------------
(* The removals shared by recovery, repair and deletion.  Staging entries  *)
(* go first, then artifacts.                                               *)

(* Slip: only complete files are removed. *)
StagedOf(rs) == {h \in staged : h.run \in rs}

StagingOf(rs) ==
    {h \in staged : h.run \in rs} \cup {f \in incomplete : f.run \in rs}
    \cup (EmptyRuns \cap rs)

DiscardOne ==
    /\ \/ \E h \in discards \cap StagedFile :
             DiscardStage(h) /\ discards' = discards \ {h}
       \/ \E f \in discards \cap IncompleteFile :
             DiscardIncomplete(f) /\ discards' = discards \ {f}
       \/ \E r \in discards \cap Run :
             DiscardEmptyRun(r) /\ discards' = discards \ {r}
    /\ UNCHANGED <<worldVars, proc, owner, pc, target, queue, unlinks, handles>>

UnlinkOne ==
    /\ discards = {}
    /\ \E x \in unlinks : DeleteArtifact(x) /\ unlinks' = unlinks \ {x}
    /\ UNCHANGED <<worldVars, proc, owner, pc, target, queue, discards, handles>>

-----------------------------------------------------------------------------
(* recover: pending deletions, then pending runs, then staging remnants.   *)

(* Any call but delete_source starts with a recovery session. *)
StartRecover(p, c) ==
    /\ proc[p] = "idle"
    /\ c # "idle"
    /\ Enter(p, "rec_deletions", NoTarget)
    /\ proc' = [proc EXCEPT ![p] = c]
    /\ UNCHANGED <<worldVars, storeVars, queue, discards, unlinks>>

CanRemoveFiles(d) == PlanLoads(d) /\ CanScanStaging

(* get_deletion_plan and the scan of _remove_deletion_files. *)
ResumePending(d) ==
    /\ At("rec_deletions")
    /\ CanRemoveFiles(d)
    /\ discards' = StagingOf(closure[d] \cap Run)
    /\ unlinks' = required[d]
    /\ pc' = "rec_purge" /\ target' = d
    /\ UNCHANGED <<worldVars, storeVars, proc, owner, queue, handles>>

ResumePurged(d) ==
    /\ At("rec_deletions")
    /\ jobState[d] = "metadata_purged"
    /\ pc' = "rec_complete" /\ target' = d
    /\ UNCHANGED <<worldVars, storeVars, proc, owner, queue, discards, unlinks, handles>>

(* No deletion is left: _all_pending_runs. *)
ListRuns ==
    /\ At("rec_deletions")
    /\ ActiveJobs = {}
    /\ pc' = "rec_runs" /\ queue' = ActionableRuns
    /\ UNCHANGED <<worldVars, storeVars, proc, owner, target, discards, unlinks, handles>>

(* A listed run that is not preparing and owns no file is left as it is. *)
NothingToClean(r) ==
    /\ runState[r] # "preparing"
    /\ CleanupArtifacts(r) = {} /\ IntentsOf({r}) = {}

PlanRun(r) ==
    /\ At("rec_runs")
    /\ r \in queue
    /\ CanPlanCleanup(r)
    /\ queue' = queue \ {r}
    /\ IF NothingToClean(r)
       THEN UNCHANGED <<pc, target, discards, unlinks>>
       ELSE /\ pc' = "rec_finish" /\ target' = r
            /\ discards' = IntentsOf({r})
            /\ unlinks' = CleanupArtifacts(r)
    /\ UNCHANGED <<worldVars, storeVars, proc, owner, handles>>

FinishRun ==
    /\ At("rec_finish")
    /\ FinishRunCleanup(target)
    /\ pc' = "rec_runs"
    /\ UNCHANGED <<storeVars, proc, owner, target, queue, discards, unlinks, handles>>

(* The last scan: whatever is still in staging belongs to nobody. *)
ScanStaging ==
    /\ At("rec_runs")
    /\ queue = {}
    /\ CanScanStaging
    /\ discards' = staged \cup incomplete \cup EmptyRuns
    /\ pc' = "rec_end"
    /\ UNCHANGED <<worldVars, storeVars, proc, owner, target, queue, unlinks, handles>>

(* ingest and repair go on to their second session. *)
EndRecover ==
    /\ At("rec_end")
    /\ Leave(IF proc[owner] = "recover" THEN "idle" ELSE proc[owner])
    /\ UNCHANGED <<worldVars, storeVars>>

-----------------------------------------------------------------------------
(* repair: artifacts in the CAS that no evidence row refers to. *)

StartRepair(p) ==
    /\ proc[p] = "repair"
    /\ Enter(p, "rep_end", NoTarget)
    /\ unlinks' = UnreferencedArtifacts(cas)
    /\ UNCHANGED <<worldVars, storeVars, proc, queue, discards>>

EndRepair ==
    /\ At("rep_end")
    /\ Leave("idle")
    /\ UNCHANGED <<worldVars, storeVars>>

-----------------------------------------------------------------------------
(* ingest: prepare, stage, record intents, promote, record metadata,       *)
(* finalize and verify, in one session.                                    *)

(* world.get(run_id) does not see a run hidden by a pending deletion. *)
ExistingState(r) == IF r \in Hidden THEN "absent" ELSE runState[r]

(* Slip: the run's directory is not counted. *)
FilesFitInventory(r) == Cardinality(RunDigests(r)) <= MaxInventoryEntries

FitsInventory(r) ==
    RunDigests(r) # {} => Cardinality(RunDigests(r)) + 1 <= MaxInventoryEntries

(* A committed run is verified and returned; a run somebody left preparing
   is a conflict; anything else is (re)done. *)
StartIngest(p, r) ==
    /\ proc[p] = r
    /\ ExistingState(r) # "preparing"
    /\ IF ExistingState(r) = "committed"
       THEN Enter(p, "ing_verify", r)
       ELSE FitsInventory(r) /\ Enter(p, "ing_prepare", r)
    /\ UNCHANGED <<worldVars, storeVars, proc, queue, discards, unlinks>>

PrepareRun(r) == Commit({RunSource[r]}, {r}, "preparing", {}, {})

IngestPrepare ==
    /\ At("ing_prepare")
    /\ PrepareRun(target)
    /\ Goto("ing_stage")
    /\ UNCHANGED storeVars

FreshName(r, n) == n \notin UsedNames(r) \cup {i.name : i \in IntentsOf({r})}

IngestStage ==
    /\ At("ing_stage")
    /\ \E x \in RunDigests(target) \ {h.digest : h \in handles}, n \in StageName :
          /\ FreshName(target, n)
          /\ Stage(target, x, n)
          /\ handles' = handles \cup {[run |-> target, digest |-> x, name |-> n]}
    /\ UNCHANGED <<worldVars, proc, owner, pc, target, queue, discards, unlinks>>

IngestIntents ==
    /\ At("ing_intents")
    /\ \E B \in Batches(handles \ intents) :
          B # {} /\ RecordArtifactIntents(target, B)
    /\ UNCHANGED <<storeVars, proc, sessionVars>>

IngestPromote ==
    /\ At("ing_promote")
    /\ \E h \in handles \cap staged : CommitStage(h)
    /\ UNCHANGED <<worldVars, proc, sessionVars>>

IngestFrames ==
    /\ At("ing_frames")
    /\ \E B \in Batches(RunFrames(target) \ OwnedBy(target)) :
          B # {} /\ CommitForRun(target, B, {})
    /\ UNCHANGED <<storeVars, proc, sessionVars>>

IngestEvidence ==
    /\ At("ing_evidence")
    /\ \E B \in Batches(RunEvidence[target] \ OwnedBy(target)) :
          B # {} /\ CommitForRun(target, {}, B)
    /\ UNCHANGED <<storeVars, proc, sessionVars>>

(* A loop of the ingestion has nothing left: on to the next one. *)
LoopDone ==
    \/ /\ At("ing_stage")
       /\ RunDigests(target) = {h.digest : h \in handles}
       /\ Goto("ing_intents")
    \/ At("ing_intents") /\ handles \subseteq intents /\ Goto("ing_promote")
    \/ At("ing_promote") /\ handles \cap staged = {} /\ Goto("ing_frames")
    \/ /\ At("ing_frames")
       /\ RunFrames(target) \subseteq OwnedBy(target)
       /\ Goto("ing_evidence")
    \/ /\ At("ing_evidence")
       /\ RunEvidence[target] \subseteq OwnedBy(target)
       /\ Goto("ing_finalize")

IngestLoopDone == LoopDone /\ UNCHANGED <<worldVars, storeVars>>

IngestFinalize ==
    /\ At("ing_finalize")
    /\ FinalizeRun(target, {}, {})
    /\ Goto("ing_verify")
    /\ UNCHANGED storeVars

(* _verify_existing: the published run reads back and its files are valid. *)
Verifies(r) ==
    /\ r \notin Hidden /\ runState[r] = "committed"
    /\ RunFrames(r) \subseteq VisibleFrames
    /\ RunEvidence[r] \subseteq VisibleEvidence
    /\ RunDigests(r) \subseteq cas

(* It returns or raises; either way the session ends. *)
IngestVerify ==
    /\ At("ing_verify")
    /\ Leave("idle")
    /\ UNCHANGED <<worldVars, storeVars>>

-----------------------------------------------------------------------------
(* delete_source: begin or resume the job, remove files, purge, complete.  *)

(* A retry with the identifier of a purged job only completes it. *)
RetryPurged(p, s, d) ==
    /\ proc[p] = "idle"
    /\ jobState[d] = "metadata_purged"
    /\ s \notin sources \ Hidden
    /\ Enter(p, "del_complete", d)
    /\ UNCHANGED <<worldVars, storeVars, proc, queue, discards, unlinks>>

StartDeletion(p, s, d) ==
    /\ proc[p] = "idle"
    /\ BeginSourceDeletion(s, d)
    /\ Enter(p, "del_remove", d)
    /\ UNCHANGED <<storeVars, proc, queue, discards, unlinks>>

(* begin_source_deletion returns the plan of the pending job of the source,
   whatever identifier the caller chose. *)
RejoinDeletion(p, s, d) ==
    /\ proc[p] = "idle"
    /\ jobRoot[d] = s
    /\ PlanLoads(d)
    /\ Enter(p, "del_remove", d)
    /\ UNCHANGED <<worldVars, storeVars, proc, queue, discards, unlinks>>

RemoveFiles ==
    /\ At("del_remove")
    /\ CanScanStaging
    /\ discards' = StagingOf(closure[target] \cap Run)
    /\ unlinks' = required[target]
    /\ pc' = "del_purge"
    /\ UNCHANGED <<worldVars, storeVars, proc, owner, target, queue, handles>>

PurgeMetadata ==
    /\ \/ At("rec_purge") /\ pc' = "rec_complete"
       \/ At("del_purge") /\ pc' = "del_complete"
    /\ PurgeDeletionMetadata(target, cas)
    /\ UNCHANGED <<storeVars, proc, owner, target, queue, discards, unlinks, handles>>

Complete ==
    /\ \/ At("rec_complete") /\ Goto("rec_deletions")
       \/ At("del_complete") /\ Leave("idle")
    /\ CompleteDeletion(target)
    /\ UNCHANGED storeVars

(* The truncating checkpoint found a reader: TIMEOUT, the job stays purged. *)
CheckpointBusy ==
    /\ At("rec_complete") \/ At("del_complete")
    /\ Leave("idle")
    /\ UNCHANGED <<worldVars, storeVars>>

-----------------------------------------------------------------------------
(* Failures. *)

(* A step whose operation raises: no success of it is possible. *)
Stuck ==
    \/ /\ At("rec_deletions")
       /\ \E d \in DeletionId : jobState[d] = "pending" /\ ~CanRemoveFiles(d)
    \/ At("rec_purge") /\ ~CanPurge(target, cas)
    \/ At("rec_runs") /\ \E r \in queue : ~CanPlanCleanup(r)
    \/ At("rec_runs") /\ queue = {} /\ ~CanScanStaging
    \/ At("rec_finish") /\ ~CanFinishCleanup(target)
    \/ discards # {} /\ \E r \in discards \cap Run : ~CanDiscardEmptyRun(r)
    \/ /\ At("ing_prepare")
       /\ ~CanCommit({RunSource[target]}, {target}, "preparing", {}, {})
    \/ /\ At("ing_intents")
       /\ \E B \in Batches(handles \ intents) : ~CanRecordIntents(target, B)
    \/ /\ At("ing_frames")
       /\ \E B \in Batches(RunFrames(target) \ OwnedBy(target)) :
             ~CanCommitForRun(target, B, {})
    \/ /\ At("ing_evidence")
       /\ \E B \in Batches(RunEvidence[target] \ OwnedBy(target)) :
             ~CanCommitForRun(target, {}, B)
    \/ At("ing_finalize") /\ ~CanFinalizeRun(target, {}, {})
    \/ At("del_remove") /\ ~CanScanStaging
    \/ At("del_purge") /\ ~CanPurge(target, cas)

Raise ==
    /\ Stuck
    /\ Leave("idle")
    /\ UNCHANGED <<worldVars, storeVars>>

(* The second session of ingest raises before it changes anything. *)
RefuseIngest(p, r) ==
    /\ proc[p] = r
    /\ owner = NoProcess
    /\ \/ ExistingState(r) = "preparing"
       \/ ExistingState(r) # "committed" /\ ~FitsInventory(r)
    /\ proc' = [proc EXCEPT ![p] = "idle"]
    /\ UNCHANGED <<worldVars, storeVars, sessionVars>>

(* The session's process dies, or any of its calls raises an I/O error. *)
Crash ==
    /\ owner # NoProcess
    /\ Leave("idle")
    /\ UNCHANGED <<worldVars, storeVars>>

(* It dies inside an operation of the evidence store. *)
CrashInside ==
    /\ owner # NoProcess
    /\ \/ /\ At("ing_stage")
          /\ RunDigests(target) # {h.digest : h \in handles}
          /\ \E n \in StageName : FreshName(target, n) /\ StageInterrupted(target, n)
       \/ At("ing_promote") /\ \E h \in handles \cap staged : CommitStageInterrupted(h)
       \/ \E h \in discards \cap StagedFile : DiscardStageInterrupted(h)
       \/ \E f \in discards \cap IncompleteFile : DiscardIncompleteInterrupted(f)
    /\ Leave("idle")
    /\ UNCHANGED worldVars

(* A process dies, or its probe or sampler fails, between its sessions. *)
CrashBetween(p) ==
    /\ proc[p] # "idle" /\ owner # p
    /\ proc' = [proc EXCEPT ![p] = "idle"]
    /\ UNCHANGED <<worldVars, storeVars, sessionVars>>

-----------------------------------------------------------------------------
(* What the session does when nothing fails, and the whole system. *)

RecoverStep ==
    \/ \E d \in DeletionId : ResumePending(d) \/ ResumePurged(d)
    \/ ListRuns \/ (\E r \in Run : PlanRun(r)) \/ FinishRun
    \/ ScanStaging \/ EndRecover

IngestStep ==
    \/ IngestPrepare \/ IngestStage \/ IngestIntents \/ IngestPromote
    \/ IngestFrames \/ IngestEvidence \/ IngestLoopDone
    \/ IngestFinalize \/ IngestVerify

SessionStep ==
    \/ DiscardOne \/ UnlinkOne
    \/ RecoverStep \/ EndRepair \/ IngestStep
    \/ RemoveFiles \/ PurgeMetadata \/ Complete
    \/ Raise

Start(p) ==
    \/ \E c \in Calls : StartRecover(p, c)
    \/ StartRepair(p)
    \/ \E r \in Run : StartIngest(p, r) \/ RefuseIngest(p, r)
    \/ \E s \in Source, d \in DeletionId :
          StartDeletion(p, s, d) \/ RejoinDeletion(p, s, d) \/ RetryPurged(p, s, d)

(* p goes on from its recovery session to its working session. *)
Continue(p) ==
    StartRepair(p) \/ \E r \in Run : StartIngest(p, r) \/ RefuseIngest(p, r)

Failure ==
    \/ Crash \/ CrashInside \/ CheckpointBusy
    \/ \E p \in Process : CrashBetween(p)

Next == SessionStep \/ (\E p \in Process : Start(p)) \/ Failure

Spec == Init /\ [][Next]_vars

-----------------------------------------------------------------------------
(* What a reader of the world store may rely on. *)

(* An evidence reference that get or list_evidence returns has its artifact
   in the evidence store, whatever runs and sources share the artifact and
   whichever of them is being ingested, cleaned, repaired or deleted. *)
PublishedIsReadable == DigestsOf(VisibleEvidence) \subseteq cas

(* A run is seen whole or not at all: every record of a committed run that no
   deletion hides is visible, and every visible record belongs to one. *)
Published == {r \in Run \ Hidden : runState[r] = "committed"}

PublishedIsWhole ==
    /\ VisibleEvidence = UNION {RunEvidence[r] : r \in Published}
    /\ VisibleFrames = UNION {RunFrames(r) : r \in Published}

(* The verification that ends an ingestion, or that replaces it when the run
   was already committed, finds everything in its place. *)
VerifyNeverFails == At("ing_verify") => Verifies(target)

-----------------------------------------------------------------------------
(* What the owner of the store may rely on. *)

(* No private bytes without an owner in the tables: an artifact file is
   referred to by evidence or by an intent, and whatever is in staging is in
   the directory of a run that the runs table knows. *)
NoOrphanBytes ==
    /\ cas \subseteq DigestsOf(evidence) \cup {i.digest : i \in intents}
    /\ runDirs \subseteq Runs /\ FilesInDirs

(* A deletion forgets its source only after every file of it is gone: the
   staging of its runs, and the artifacts to which neither the evidence nor
   an intent of another source refers. *)
PurgedSources == {jobRoot[d] : d \in {j \in DeletionId :
                    jobState[j] = "pending" /\ jobState'[j] = "metadata_purged"}}

PurgeLeavesNoFile ==
    [][\A s \in PurgedSources :
          /\ \A r \in Run : RunSource[r] = s => r \notin runDirs
          /\ cas \subseteq DigestsOf(evidence') \cup {i.digest : i \in intents'}]_vars

(* A recovery that reaches its end leaves no incomplete run, no deletion, an
   empty staging area, and exactly the artifacts that evidence refers to. *)
RecoveryLeavesNothing ==
    At("rec_end") =>
        /\ runDirs = {} /\ intents = {} /\ ActiveJobs = {}
        /\ \A r \in Run : runState[r] # "preparing"
        /\ cas = DigestsOf(evidence)

(* The tables and the files agree throughout: a run is seen whole or not at
   all, its verification finds everything, no bytes are without an owner, and
   the catalog lists exactly the artifacts that somebody refers to. *)
StoreIsSound == PublishedIsWhole /\ VerifyNeverFails /\ NoOrphanBytes /\ CatalogIsTight

(* Recovery gets to its end: no state that a crash leaves makes one of its
   operations raise. *)
RecoveryNeverRaises ==
    pc \in {"rec_deletions", "rec_purge", "rec_complete", "rec_runs", "rec_finish", "rec_end"}
        => ~Stuck

(* The preflight of ingest leaves no more in staging than the inventory of
   the next recovery can list. *)
RecoveryScanFits == At("rec_runs") /\ queue = {} => CanScanStaging

(* Every pending deletion can be resumed: its frozen plan still loads. *)
PendingPlanLoads == \A d \in DeletionId : jobState[d] = "pending" => PlanLoads(d)

(* Seen from outside, every step of every process, its crashes included, is a
   publication of one run, a withdrawal of one source, or nothing. *)
P == INSTANCE Publication WITH
        published <- Published,
        shown <- {e \in VisibleEvidence : EvidenceDigest[e] \in cas}

ImplementsPublication == P!Spec
=============================================================================
