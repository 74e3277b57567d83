------------------------------ MODULE WorldStore ------------------------------
(***************************************************************************)
(* The coordination tables of LocalWorldStore (world_store.py).  Every     *)
(* operation below is one BEGIN IMMEDIATE transaction of the code: the     *)
(* guard Can... holds exactly when the operation commits, otherwise it     *)
(* raises a PortError and rolls back.  A client may call the operations    *)
(* in any order; modules that compose the store call them in the order the *)
(* coordinator does.                                                       *)
(***************************************************************************)
EXTENDS Identifiers

VARIABLES
    sources, frames, evidence,  \* rows; an evidence row carries its reference
    catalog,                    \* artifact_catalog
    runState,                   \* Run -> state column, or "absent"
    runRecords,                 \* run_records
    intents,                    \* artifact_intents
    jobState, jobRoot,          \* deletion_jobs
    closure,                    \* deletion_closure, per job
    required, retained          \* deletion_artifacts, per delete_required

recordVars == <<sources, frames, evidence, catalog, runRecords>>
jobVars == <<jobState, jobRoot, closure, required, retained>>
worldVars == <<recordVars, runState, intents, jobVars>>

RunStates == {"absent", "preparing", "committed", "failed", "cancelled"}
JobStates == {"none", "pending", "metadata_purged", "complete"}

WorldTypeOK ==
    /\ sources \subseteq Source
    /\ frames \subseteq Frame
    /\ evidence \subseteq Evidence
    /\ catalog \subseteq Digest
    /\ runState \in [Run -> RunStates]
    /\ runRecords \subseteq Run \X (Frame \cup Evidence)
    /\ intents \subseteq StagedFile
    /\ jobState \in [DeletionId -> JobStates]
    /\ jobRoot \in [DeletionId -> Source \cup {NoSource}]
    /\ closure \in [DeletionId -> SUBSET Record]
    /\ required \in [DeletionId -> SUBSET Digest]
    /\ retained \in [DeletionId -> SUBSET Digest]

WorldInit ==
    /\ sources = {} /\ frames = {} /\ evidence = {} /\ catalog = {}
    /\ runState = [r \in Run |-> "absent"]
    /\ runRecords = {} /\ intents = {}
    /\ jobState = [d \in DeletionId |-> "none"]
    /\ jobRoot = [d \in DeletionId |-> NoSource]
    /\ closure = [d \in DeletionId |-> {}]
    /\ required = [d \in DeletionId |-> {}]
    /\ retained = [d \in DeletionId |-> {}]

-----------------------------------------------------------------------------
(* What the tables say. *)

Runs == {r \in Run : runState[r] # "absent"}
DigestsOf(es) == {EvidenceDigest[e] : e \in es}
IntentsOf(rs) == {i \in intents : i.run \in rs}
OwnersOf(x) == {r \in Run : <<r, x>> \in runRecords}
OwnedBy(r) == {x \in Frame \cup Evidence : <<r, x>> \in runRecords}

(* Slip: a purged job no longer counts as unfinished. *)
ActiveJobsForgetPurged == {d \in DeletionId : jobState[d] = "pending"}

ActiveJobs == {d \in DeletionId : jobState[d] \in {"pending", "metadata_purged"}}
Hidden == UNION {closure[d] : d \in DeletionId}

(* Slip: ownership does not hide a record. *)
OwnershipIgnored(x) == TRUE

(* _record_visible: a record no run owns, or one a committed run owns. *)
OwnershipVisible(x) ==
    OwnersOf(x) # {} => \E r \in OwnersOf(x) : runState[r] = "committed"

(* The records get, list_frames and list_evidence return. *)
VisibleFrames == {f \in frames \ Hidden : OwnershipVisible(f)}
VisibleEvidence ==
    {e \in evidence \ Hidden :
        OwnershipVisible(e) /\ OwnershipVisible(EvidenceFrame[e])}

(* Slip: only a purged job stops writers. *)
SourceWritableWhilePending(s) ==
    \A d \in DeletionId : jobState[d] # "metadata_purged"

(* _guard_sources_writable: any purged job, or a pending job of the source. *)
SourceWritable(s) ==
    \A d \in DeletionId :
        /\ jobState[d] # "metadata_purged"
        /\ ~(jobState[d] = "pending" /\ jobRoot[d] = s)

SourceClosure(s) ==
    {s}
    \cup {f \in frames : FrameSource[f] = s}
    \cup {e \in evidence : FrameSource[EvidenceFrame[e]] = s}
    \cup {r \in Runs : RunSource[r] = s}

(* The digests a set of records refers to, through evidence or intents. *)
ClosureDigests(cl) ==
    DigestsOf(evidence \cap cl) \cup {i.digest : i \in IntentsOf(cl \cap Run)}

(* Somebody outside the set of records still refers to the digest. *)
SurvivesOutside(x, cl) ==
    \/ x \in DigestsOf(evidence \ cl)
    \/ \E i \in intents : i.digest = x /\ i.run \notin cl

(* _load_deletion_plan recomputes the frozen plan and accepts no change. *)
PlanLoads(d) ==
    /\ jobState[d] = "pending"
    /\ closure[d] = SourceClosure(jobRoot[d])
    /\ required[d] \cup retained[d] = ClosureDigests(closure[d])
    /\ \A x \in required[d] : ~SurvivesOutside(x, closure[d])
    /\ \A x \in retained[d] : SurvivesOutside(x, closure[d])

(* Catalog rows without a reference or an intent are dropped. *)
Unreferenced(xs, es, is) ==
    {x \in xs : x \notin DigestsOf(es) /\ \A i \in is : i.digest # x}

-----------------------------------------------------------------------------
(* commit and commit_for_run share the writing and the association of rows. *)

(* _write_records on frames and evidence: foreign keys must resolve. *)
CanWriteData(ss, fs, es) ==
    /\ \A f \in fs : FrameSource[f] \in ss
    /\ \A e \in es : EvidenceFrame[e] \in frames \cup fs

(* The sources a data batch touches: of its frames, and of the frames its
   evidence already finds in the table. *)
DataSources(fs, es) ==
    {FrameSource[f] : f \in fs}
    \cup {FrameSource[EvidenceFrame[e]] :
            e \in {ev \in es : EvidenceFrame[ev] \in frames}}

(* Slip: an evidence is owned without its frame. *)
CanAssociateWithoutFrame(r, fs, es) ==
    /\ \A f \in fs : FrameSource[f] = RunSource[r]
    /\ \A e \in es : FrameSource[EvidenceFrame[e]] = RunSource[r]

(* _associate_records: same source, and an evidence needs its frame owned. *)
CanAssociate(r, fs, es) ==
    /\ \A f \in fs : FrameSource[f] = RunSource[r]
    /\ \A e \in es :
          /\ FrameSource[EvidenceFrame[e]] = RunSource[r]
          /\ EvidenceFrame[e] \in OwnedBy(r) \cup fs

WriteData(fs, es) ==
    /\ frames' = frames \cup fs
    /\ evidence' = evidence \cup es
    /\ catalog' = catalog \cup DigestsOf(es)

(* Slip: a committed run can be marked failed. *)
RunTransitionReopening ==
    {<<"preparing", "committed">>, <<"preparing", "failed">>,
     <<"committed", "failed">>, <<"failed", "preparing">>}

(* _write_run: the transitions of the run state. *)
RunTransition ==
    {<<"preparing", "committed">>, <<"preparing", "failed">>,
     <<"preparing", "cancelled">>, <<"failed", "preparing">>,
     <<"cancelled", "preparing">>}

CanWriteRun(r, st) ==
    \/ runState[r] \in {"absent", st}
    \/ <<runState[r], st>> \in RunTransition

(* _guard_committed_retries: only an exact repetition of what is published. *)
CommittedRetry(r, fs, es) ==
    /\ runState[r] = "committed"
    /\ fs \subseteq frames /\ es \subseteq evidence
    /\ fs \cup es \subseteq OwnedBy(r)

(* commit: a batch of sources, at most one manifest, frames and evidence. *)
CanCommit(ss, rs, st, fs, es) ==
    /\ st = "committed" => \A r \in rs : CommittedRetry(r, fs, es)
    /\ \A s \in ss \cup {RunSource[r] : r \in rs} \cup DataSources(fs, es) :
          SourceWritable(s)
    /\ \A r \in rs : RunSource[r] \in sources \cup ss /\ CanWriteRun(r, st)
    /\ CanWriteData(sources \cup ss, fs, es)
    /\ \A r \in rs : CanAssociate(r, fs, es)

Commit(ss, rs, st, fs, es) ==
    /\ CanCommit(ss, rs, st, fs, es)
    /\ sources' = sources \cup ss
    /\ WriteData(fs, es)
    /\ runState' = [r \in Run |-> IF r \in rs THEN st ELSE runState[r]]
    /\ runRecords' = runRecords \cup (rs \X (fs \cup es))
    /\ UNCHANGED <<intents, jobVars>>

(* commit_for_run: one hidden batch of a preparing run. *)
CanCommitForRun(r, fs, es) ==
    /\ runState[r] = "preparing"
    /\ \A s \in {RunSource[r]} \cup DataSources(fs, es) : SourceWritable(s)
    /\ CanWriteData(sources, fs, es)
    /\ CanAssociate(r, fs, es)

CommitForRun(r, fs, es) ==
    /\ CanCommitForRun(r, fs, es)
    /\ WriteData(fs, es)
    /\ runRecords' = runRecords \cup ({r} \X (fs \cup es))
    /\ UNCHANGED <<sources, runState, intents, jobVars>>

(* record_artifact_intents; one intent per run and digest is a UNIQUE key. *)
CanRecordIntents(r, hs) ==
    /\ runState[r] = "preparing"
    /\ SourceWritable(RunSource[r])
    /\ \A h \in hs : h.run = r
    /\ \A h1, h2 \in intents \cup hs :
          h1.run = r /\ h2.run = r /\ (h1.digest = h2.digest \/ h1.name = h2.name)
              => h1 = h2

RecordArtifactIntents(r, hs) ==
    /\ CanRecordIntents(r, hs)
    /\ intents' = intents \cup hs
    /\ UNCHANGED <<recordVars, runState, jobVars>>

(* finalize_run: publish once every intent is referenced by an owned record
   and the run owns as many frames as its manifest counts. *)
CanFinalizeRun(r, fs, es) ==
    /\ SourceWritable(RunSource[r])
    /\ runState[r] \in {"preparing", "committed"}
    /\ runState[r] = "committed" => CommittedRetry(r, fs, es)
    /\ \A s \in DataSources(fs, es) : SourceWritable(s)
    /\ CanWriteData(sources, fs, es)
    /\ CanAssociate(r, fs, es)
    /\ \A i \in IntentsOf({r}) :
          i.digest \in DigestsOf((OwnedBy(r) \cap Evidence) \cup es)
    /\ Cardinality((OwnedBy(r) \cap Frame) \cup fs) = Cardinality(RunFrames(r))

FinalizeRun(r, fs, es) ==
    /\ CanFinalizeRun(r, fs, es)
    /\ WriteData(fs, es)
    /\ runRecords' = runRecords \cup ({r} \X (fs \cup es))
    /\ runState' = [runState EXCEPT ![r] = "committed"]
    /\ intents' = intents \ IntentsOf({r})
    /\ UNCHANGED <<sources, jobVars>>

-----------------------------------------------------------------------------
(* Recovery of a run that did not commit. *)

(* pending_runs(actionable_only): preparing, or failed with leftovers. *)
ActionableRuns ==
    {r \in Run \ Hidden :
        \/ runState[r] = "preparing"
        \/ /\ runState[r] \in {"failed", "cancelled"}
           /\ IntentsOf({r}) # {} \/ OwnedBy(r) # {}}

(* Slip: artifacts promoted but not yet recorded are forgotten. *)
CleanupDigestsOfRows(r) == DigestsOf(OwnedBy(r) \cap evidence)

CleanupDigests(r) ==
    {i.digest : i \in IntentsOf({r})} \cup DigestsOf(OwnedBy(r) \cap evidence)

(* run_cleanup_plan: the digests nobody but this run refers to. *)
CleanupArtifacts(r) ==
    {x \in CleanupDigests(r) :
        /\ \A e \in evidence : EvidenceDigest[e] = x => OwnersOf(e) = {r}
        /\ \A i \in intents : i.digest = x => i.run = r}

CanPlanCleanup(r) ==
    /\ r \notin Hidden
    /\ runState[r] \in {"preparing", "failed", "cancelled"}

(* finish_run_cleanup: drop what only this run owns, keep a failed marker. *)
OnlyOwned(r) == {x \in OwnedBy(r) : OwnersOf(x) = {r}}
CleanupEvidence(r) == OnlyOwned(r) \cap Evidence
CleanupFrames(r) ==
    {f \in OnlyOwned(r) \cap Frame :
        \A e \in evidence : EvidenceFrame[e] = f => e \in CleanupEvidence(r)}

CanFinishCleanup(r) ==
    /\ runState[r] \in {"preparing", "failed", "cancelled"}
    /\ SourceWritable(RunSource[r])

FinishRunCleanup(r) ==
    /\ CanFinishCleanup(r)
    /\ evidence' = evidence \ CleanupEvidence(r)
    /\ frames' = frames \ CleanupFrames(r)
    /\ intents' = intents \ IntentsOf({r})
    /\ runRecords' = {o \in runRecords : o[1] # r}
    /\ catalog' = catalog \ Unreferenced(CleanupDigests(r), evidence', intents')
    /\ runState' = [runState EXCEPT ![r] = IF @ = "preparing" THEN "failed" ELSE @]
    /\ UNCHANGED <<sources, jobVars>>

(* Slip: looks at intents, not at references. *)
UnintendedArtifacts(xs) == {x \in xs : \A i \in intents : i.digest # x}

(* unreferenced_artifacts looks at references, not at intents. *)
UnreferencedArtifacts(xs) == xs \ DigestsOf(evidence)

-----------------------------------------------------------------------------
(* Source deletion. *)

(* begin_source_deletion on a source that has no pending job yet. *)
CanBeginDeletion(s, d) ==
    /\ ActiveJobs = {}
    /\ jobState[d] = "none"
    /\ s \in sources
    /\ s \notin Hidden

BeginSourceDeletion(s, d) ==
    LET cl == SourceClosure(s)
        kept == {x \in ClosureDigests(cl) : SurvivesOutside(x, cl)}
    IN  /\ CanBeginDeletion(s, d)
        /\ jobState' = [jobState EXCEPT ![d] = "pending"]
        /\ jobRoot' = [jobRoot EXCEPT ![d] = s]
        /\ closure' = [closure EXCEPT ![d] = cl]
        /\ required' = [required EXCEPT ![d] = ClosureDigests(cl) \ kept]
        /\ retained' = [retained EXCEPT ![d] = kept]
        /\ UNCHANGED <<recordVars, runState, intents>>

(* purge_deletion_metadata: the required files must be gone; deleting the
   source row cascades to its frames, evidence, runs, ownership and intents. *)
CanPurge(d, present) ==
    /\ PlanLoads(d)
    /\ required[d] \cap present = {}
    /\ jobRoot[d] \in sources

PurgeDeletionMetadata(d, present) ==
    LET s == jobRoot[d]
        kept == {r \in Runs : RunSource[r] # s}
    IN  /\ CanPurge(d, present)
        /\ sources' = sources \ {s}
        /\ frames' = {f \in frames : FrameSource[f] # s}
        /\ evidence' = {e \in evidence : EvidenceFrame[e] \in frames'}
        /\ runState' = [r \in Run |-> IF r \in kept THEN runState[r] ELSE "absent"]
        /\ runRecords' = {o \in runRecords : o[1] \in kept}
        /\ intents' = IntentsOf(kept)
        /\ catalog' = catalog \ Unreferenced(required[d], evidence', intents')
        /\ jobState' = [jobState EXCEPT ![d] = "metadata_purged"]
        /\ jobRoot' = [jobRoot EXCEPT ![d] = NoSource]
        /\ closure' = [closure EXCEPT ![d] = {}]
        /\ required' = [required EXCEPT ![d] = {}]
        /\ retained' = [retained EXCEPT ![d] = {}]

CompleteMisspelt(d) ==
    /\ jobState[d] = "metadata_purged"
    /\ jobState' = [jobState EXCEPT ![d] = "completed"]
    /\ UNCHANGED <<recordVars, runState, intents, jobRoot, closure, required, retained>>

(* complete_deletion after a truncating checkpoint that no reader blocked. *)
CompleteDeletion(d) ==
    /\ jobState[d] = "metadata_purged"
    /\ jobState' = [jobState EXCEPT ![d] = "complete"]
    /\ UNCHANGED <<recordVars, runState, intents, jobRoot, closure, required, retained>>

-----------------------------------------------------------------------------
(* What the tables promise under every client. *)

(* The catalog keeps every digest evidence refers to, and after a cleanup or
   a purge no digest that nothing refers to. *)
CatalogIsTight ==
    /\ DigestsOf(evidence) \subseteq catalog
    /\ Unreferenced(catalog, evidence, intents) = {}

(* The ownership edges verify() checks: a run owns records that exist and
   belong to its source, and with an evidence it owns the evidence's frame. *)
OwnershipIsSound ==
    \A o \in runRecords :
        /\ o[1] \in Runs
        /\ o[2] \in frames \cup evidence
        /\ o[2] \in Frame => FrameSource[o[2]] = RunSource[o[1]]
        /\ o[2] \in Evidence =>
              /\ FrameSource[EvidenceFrame[o[2]]] = RunSource[o[1]]
              /\ <<o[1], EvidenceFrame[o[2]]>> \in runRecords

(* The intents verify() accepts: those of runs that are not published. *)
IntentsAreOpen ==
    \A i \in intents : runState[i.run] \in {"preparing", "failed", "cancelled"}

(* Until its files and rows are gone, a pending deletion's closure is exactly
   what its source owns: nothing is added to it or escapes from it. *)
ClosureIsFrozen ==
    \A d \in DeletionId :
        jobState[d] = "pending" => closure[d] = SourceClosure(jobRoot[d])
=============================================================================
