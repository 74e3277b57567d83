-------------------------- MODULE CoordinatorProofs --------------------------
(***************************************************************************)
(* Proofs about IngestionCoordinator for any number of processes, sources, *)
(* runs and artifacts, any batch size and any inventory limit: the types,  *)
(* the frozen closures and that published evidence is always readable;     *)
(* then that tables and files agree: a run is seen whole or not at all, no *)
(* bytes are without an owner, a purge leaves no file, a finished recovery *)
(* leaves nothing; and that the whole system implements the atomic         *)
(* publications and withdrawals of Publication.  The last part is about    *)
(* PerceptionCoordinator beside it: tables and files stay as sound, and a  *)
(* published perception run reads back whole and is kept.                  *)
(***************************************************************************)
EXTENDS PerceptionCoordinator, PerceptionStoreProofs, FiniteSetTheorems

IngestSteps == {"ing_prepare", "ing_stage", "ing_intents", "ing_promote",
                "ing_frames", "ing_evidence", "ing_finalize", "ing_verify",
                "per_observations", "per_tracklets", "per_links", "per_finalize"}
RemovalSteps == {"rec_purge", "del_purge", "rec_finish", "rep_end"}
DeletionSteps == {"rec_purge", "rec_complete", "del_remove", "del_purge", "del_complete"}

(* What the session holds at each of its steps. *)
SessionShape ==
    /\ owner = NoProcess => pc = "free"
    /\ pc \in IngestSteps \cup {"rec_finish"} => target \in Run
    /\ pc \in DeletionSteps => target \in DeletionId
    /\ pc \notin IngestSteps => handles = {}
    /\ pc \notin RemovalSteps => unlinks = {}
    /\ pc \notin RemovalSteps \cup {"rec_end"} => discards = {}

(* Artifacts are in the CAS before the first row that refers to them. *)
IngestInv ==
    /\ \A h \in handles : h \in staged \/ h.digest \in cas
    /\ pc \in IngestSteps \ {"ing_prepare", "ing_verify"} => runState[target] = "preparing"
    /\ pc \in {"ing_intents", "ing_promote"} =>
          RunDigests(target) = {h.digest : h \in handles}
    /\ pc \in {"ing_frames", "ing_evidence", "ing_finalize",
              "per_observations", "per_tracklets", "per_links", "per_finalize"} =>
          RunDigests(target) \subseteq cas

(* No artifact is on the list of removals while evidence that a reader could
   see refers to it. *)
RemovalInv ==
    /\ pc \in {"rec_purge", "del_purge", "del_remove"} =>
          /\ jobState[target] = "pending"
          /\ \A e \in evidence : EvidenceDigest[e] \in required[target] => e \in closure[target]
    /\ pc \in {"rec_purge", "del_purge"} => unlinks \subseteq required[target]
    /\ pc = "rec_finish" =>
          /\ runState[target] # "committed"
          /\ \A e \in evidence : EvidenceDigest[e] \in unlinks => OwnersOf(e) = {target}
    /\ pc = "rep_end" => \A e \in evidence : EvidenceDigest[e] \notin unlinks

(* A run owns only what its manifest derives, and nothing once it failed. *)
RunsOwnTheirOwn ==
    \A r \in Run :
        /\ OwnedBy(r) \subseteq RunFrames(r) \cup RunEvidence[r]
        /\ OwnedBy(r) # {} => runState[r] \in {"preparing", "committed"}

(* An evidence row without its artifact is hidden, by a deletion or because
   every run that owns it is still preparing. *)
LostIsInvisible ==
    \A e \in evidence :
        \/ EvidenceDigest[e] \in cas
        \/ e \in Hidden
        \/ OwnersOf(e) # {} /\ \A r \in OwnersOf(e) : runState[r] = "preparing"

Inv ==
    /\ TypeOK /\ WorldInv
    /\ RunsOwnTheirOwn /\ LostIsInvisible
    /\ SessionShape /\ IngestInv /\ RemovalInv

-----------------------------------------------------------------------------
(* The evidence store keeps its types. *)
LEMMA StoreTypes ==
    ASSUME StoreTypeOK, NEW h \in StagedFile, NEW f \in IncompleteFile,
           NEW r \in Run, NEW x \in Digest, NEW n \in StageName,
           \/ Stage(r, x, n) \/ StageInterrupted(r, n)
           \/ CommitStage(h) \/ CommitStageInterrupted(h)
           \/ DiscardStage(h) \/ DiscardStageInterrupted(h)
           \/ DiscardIncomplete(f) \/ DiscardIncompleteInterrupted(f)
           \/ DiscardEmptyRun(r) \/ DeleteArtifact(x)
    PROVE  StoreTypeOK'
<1> USE DEF StoreTypeOK, StagedFile, IncompleteFile
<1>1. ASSUME Stage(r, x, n) \/ StageInterrupted(r, n) PROVE StoreTypeOK'
  BY <1>1 DEF Stage, StageInterrupted
<1>2. ASSUME CommitStage(h) \/ CommitStageInterrupted(h) PROVE StoreTypeOK'
  BY <1>2 DEF CommitStage, CommitStageInterrupted, DirsWithout
<1>3. ASSUME DiscardStage(h) \/ DiscardStageInterrupted(h) PROVE StoreTypeOK'
  BY <1>3 DEF DiscardStage, DiscardStageInterrupted, DirsWithout
<1>4. ASSUME DiscardIncomplete(f) \/ DiscardIncompleteInterrupted(f) PROVE StoreTypeOK'
  BY <1>4 DEF DiscardIncomplete, DiscardIncompleteInterrupted, DirsWithout
<1>5. ASSUME DiscardEmptyRun(r) \/ DeleteArtifact(x) PROVE StoreTypeOK'
  BY <1>5 DEF DiscardEmptyRun, DeleteArtifact
<1> QED BY <1>1, <1>2, <1>3, <1>4, <1>5

(* The part of TypeOK about the session. *)
SessionTypeOK ==
    /\ proc \in [Process -> Calls]
    /\ owner \in Process \cup {NoProcess}
    /\ pc \in Steps
    /\ target \in Run \cup DeletionId \cup {NoTarget}
    /\ queue \subseteq Run
    /\ discards \subseteq StagedFile \cup IncompleteFile \cup Run
    /\ unlinks \subseteq Digest
    /\ handles \subseteq StagedFile

(* TypeOK is said of the tables, of the files and of the session. *)
LEMMA TypeParts == TypeOK <=> WorldTypeOK /\ StoreTypeOK /\ SessionTypeOK
BY DEF TypeOK, SessionTypeOK

(* What is said of the tables and the artifacts. *)
DataInv == WorldInv /\ StoreTypeOK /\ RunsOwnTheirOwn /\ LostIsInvisible

(* What is said of the session. *)
SessionInv == SessionTypeOK /\ SessionShape /\ IngestInv /\ RemovalInv

(* The invariant is said of the data and of the session. *)
LEMMA InvParts == Inv <=> DataInv /\ SessionInv
BY TypeParts DEF Inv, DataInv, SessionInv, WorldInv

(* The same for the next state. *)
LEMMA InvPartsNext == DataInv' /\ SessionInv' => Inv'
BY DEF Inv, DataInv, SessionInv, WorldInv, TypeOK, SessionTypeOK

(* The invariant holds before the first call. *)
LEMMA InitialInv == Init => Inv
<1> SUFFICES ASSUME Init PROVE Inv
  OBVIOUS
<1>1. WorldInv
  BY InitInv DEF Init
<1>2. StoreTypeOK
  BY DEF Init, StoreInit, StoreTypeOK
<1>3. SessionInv
  BY DEF Init, SessionInv, SessionTypeOK, SessionShape, IngestInv, RemovalInv, Calls, Steps,
      IngestSteps, RemovalSteps, DeletionSteps
<1>4. RunsOwnTheirOwn /\ LostIsInvisible
  BY DEF Init, WorldInit, RunsOwnTheirOwn, LostIsInvisible, OwnedBy
<1> QED BY <1>1, <1>2, <1>3, <1>4, InvParts DEF DataInv

-----------------------------------------------------------------------------
(* Steps that leave the tables alone and delete no artifact. *)
LEMMA QuietData ==
    ASSUME DataInv, UNCHANGED worldVars, cas \subseteq cas', StoreTypeOK'
    PROVE  DataInv'
<1>1. WorldInv'
  BY StutterInv DEF DataInv
<1>2. RunsOwnTheirOwn'
  BY DEF DataInv, RunsOwnTheirOwn, OwnedBy, worldVars, recordVars
<1>3. LostIsInvisible'
  BY DEF DataInv, LostIsInvisible, Hidden, OwnersOf, worldVars, recordVars, jobVars
<1> QED BY <1>1, <1>2, <1>3 DEF DataInv

(* A session that ends has nothing left to be said about. *)
LEMMA LeaveSession ==
    ASSUME SessionInv, owner # NoProcess, NEW c \in Calls, Leave(c)
    PROVE  SessionInv'
BY DEF SessionInv, Leave, SessionTypeOK, SessionShape, IngestInv, RemovalInv, Calls, Steps,
    IngestSteps, RemovalSteps, DeletionSteps

(* Every failed call ends idle. *)
LEMMA IdleIsACall == "idle" \in Calls
BY DEF Calls

(* Steps that only move the session along: the tables and the files stay. *)
LEMMA QuietStep ==
    ASSUME Inv, UNCHANGED <<worldVars, storeVars>>, SessionInv' PROVE Inv'
<1>1. StoreTypeOK' /\ cas \subseteq cas'
  BY DEF Inv, TypeOK, StoreTypeOK, storeVars
<1>2. UNCHANGED worldVars
  OBVIOUS
<1> QED BY <1>1, <1>2, QuietData, InvParts, InvPartsNext

-----------------------------------------------------------------------------
(* Only a session can be stuck: a free lock has nothing to remove. *)
LEMMA StuckIsInSession ==
    ASSUME SessionInv, Stuck PROVE owner # NoProcess
BY DEF SessionInv, SessionShape, Stuck, At, RemovalSteps

(* The ends of sessions, expected or not. *)
LEMMA EndStep ==
    ASSUME Inv,
           \/ EndRecover \/ EndRepair \/ IngestVerify
           \/ CheckpointBusy \/ Crash \/ Raise
    PROVE  Inv'
<1>1. owner # NoProcess /\ UNCHANGED <<worldVars, storeVars>>
  BY StuckIsInSession, InvParts
    DEF EndRecover, EndRepair, IngestVerify, CheckpointBusy, Crash, Raise, At
<1>2. owner \in Process
  BY <1>1 DEF Inv, TypeOK
<1>3. \E c \in Calls : Leave(c)
  <2>1. CASE EndRecover
    <3>1. proc[owner] \in Calls
      BY <1>2 DEF Inv, TypeOK
    <3> QED BY <2>1, <3>1, IdleIsACall DEF EndRecover
  <2>2. CASE EndRepair \/ IngestVerify \/ CheckpointBusy \/ Crash \/ Raise
    BY <2>2, IdleIsACall DEF EndRepair, IngestVerify, CheckpointBusy, Crash, Raise
  <2> QED BY <2>1, <2>2
<1>4. SessionInv'
  BY <1>1, <1>3, LeaveSession, InvParts
<1> QED BY <1>1, <1>4, QuietStep


(* A process dies inside an operation of the evidence store. *)
LEMMA CrashInsideStep == ASSUME Inv, CrashInside PROVE Inv'
<1>1. owner # NoProcess /\ Leave("idle") /\ UNCHANGED worldVars
  BY DEF CrashInside
<1>2. SessionInv'
  BY <1>1, LeaveSession, InvParts, IdleIsACall
<1>3. StoreTypeOK' /\ cas \subseteq cas'
  <2> USE DEF Inv, TypeOK, StoreTypeOK
  <2>1. ASSUME NEW n \in StageName, At("ing_stage"), StageInterrupted(target, n)
        PROVE  StoreTypeOK' /\ cas \subseteq cas'
    <3>1. target \in Run
      BY <2>1 DEF SessionShape, IngestSteps, At
    <3> QED BY <2>1, <3>1 DEF StageInterrupted, IncompleteFile
  <2>2. ASSUME NEW h \in handles, CommitStageInterrupted(h)
        PROVE  StoreTypeOK' /\ cas \subseteq cas'
    BY <2>2 DEF CommitStageInterrupted, StagedFile
  <2>3. ASSUME NEW h, DiscardStageInterrupted(h)
        PROVE  StoreTypeOK' /\ cas \subseteq cas'
    BY <2>3 DEF DiscardStageInterrupted
  <2>4. ASSUME NEW f, DiscardIncompleteInterrupted(f)
        PROVE  StoreTypeOK' /\ cas \subseteq cas'
    BY <2>4 DEF DiscardIncompleteInterrupted
  <2> QED BY <2>1, <2>2, <2>3, <2>4 DEF CrashInside
<1> QED BY <1>1, <1>2, <1>3, QuietData, InvParts, InvPartsNext

(* Only a process without the lock changes what it is doing. *)
LEMMA OutsideInv ==
    ASSUME Inv, UNCHANGED <<worldVars, storeVars, sessionVars>>, proc' \in [Process -> Calls]
    PROVE  Inv'
<1>1. SessionTypeOK'
  BY InvParts DEF SessionInv, SessionTypeOK, sessionVars
<1>2. SessionInv'
  BY <1>1, InvParts DEF SessionInv, SessionShape, IngestInv, RemovalInv, sessionVars,
      worldVars, recordVars, jobVars, storeVars, OwnersOf
<1> QED BY <1>2, QuietStep

(* A process that holds no lock goes away, or is refused. *)
LEMMA OutsideStep ==
    ASSUME Inv, NEW p \in Process, CrashBetween(p) \/ \E r \in Run : RefuseIngest(p, r)
    PROVE  Inv'
<1>1. /\ UNCHANGED <<worldVars, storeVars, sessionVars>>
      /\ proc' = [proc EXCEPT ![p] = "idle"]
  BY DEF CrashBetween, RefuseIngest
<1>2. proc' \in [Process -> Calls]
  BY <1>1, IdleIsACall DEF Inv, TypeOK
<1> QED BY <1>1, <1>2, OutsideInv

-----------------------------------------------------------------------------
(* The free lock is taken by a session that has removed nothing yet. *)
LEMMA FreeSession ==
    ASSUME SessionInv, owner = NoProcess
    PROVE  pc = "free" /\ handles = {} /\ discards = {} /\ unlinks = {}
BY DEF SessionInv, SessionShape, IngestSteps, RemovalSteps

(* p enters at a step l that has removed nothing and written nothing yet. *)
LEMMA EnterSession ==
    ASSUME SessionInv, NEW p \in Process, NEW l \in Steps \ RemovalSteps, NEW t, Enter(p, l, t),
           l \notin IngestSteps \cup DeletionSteps => t = NoTarget,
           l \in IngestSteps => t \in Run /\ l \in {"ing_prepare", "ing_verify"},
           l \in DeletionSteps => t \in DeletionId,
           l = "del_remove" => /\ jobState'[t] = "pending"
                               /\ \A e \in evidence' : EvidenceDigest[e] \in required'[t]
                                                          => e \in closure'[t],
           l # "rec_finish",
           proc' \in [Process -> Calls], UNCHANGED <<queue, discards, unlinks>>
    PROVE  SessionInv'
<1>1. /\ pc' = l /\ target' = t /\ owner' = p
      /\ handles' = {} /\ discards' = {} /\ unlinks' = {}
  BY FreeSession DEF Enter
<1>2. SessionTypeOK'
  BY <1>1 DEF SessionInv, SessionTypeOK
<1>3. SessionShape'
  BY <1>1, Identities DEF SessionShape
<1>4. IngestInv'
  BY <1>1 DEF IngestInv, IngestSteps
<1>5. RemovalInv'
  BY <1>1 DEF RemovalInv, RemovalSteps
<1> QED BY <1>2, <1>3, <1>4, <1>5 DEF SessionInv

(* recover, and the first session of ingest and repair. *)
LEMMA StartRecoverStep ==
    ASSUME Inv, NEW p \in Process, NEW c \in Calls, StartRecover(p, c)
    PROVE  Inv'
<1>1. proc' \in [Process -> Calls]
  BY DEF StartRecover, Inv, TypeOK
<1>2. Enter(p, "rec_deletions", NoTarget) /\ UNCHANGED <<queue, discards, unlinks>>
  BY DEF StartRecover
<1>3. /\ "rec_deletions" \in Steps \ RemovalSteps
      /\ "rec_deletions" \notin IngestSteps \cup DeletionSteps
  BY DEF Steps, RemovalSteps, IngestSteps, DeletionSteps
<1>4. SessionInv
  BY InvParts
<1>5. SessionInv'
  BY <1>1, <1>2, <1>3, <1>4, EnterSession
<1> QED BY <1>5, QuietStep DEF StartRecover

(* The second session of repair lists only what no evidence refers to. *)
LEMMA StartRepairStep ==
    ASSUME Inv, NEW p \in Process, StartRepair(p)
    PROVE  Inv'
<1>1. \A e \in evidence : EvidenceDigest[e] \notin unlinks'
  BY DEF StartRepair, UnreferencedArtifacts, DigestsOf
<1>2. unlinks' \subseteq Digest
  BY DEF StartRepair, UnreferencedArtifacts, Inv, TypeOK, StoreTypeOK
<1>3. /\ UNCHANGED <<worldVars, storeVars, proc, queue, discards>>
      /\ owner = NoProcess /\ owner' = p /\ pc' = "rep_end" /\ target' = NoTarget
      /\ handles' = handles
  BY DEF StartRepair, Enter
<1>4. handles' = {} /\ discards' = {}
  BY <1>3, FreeSession, InvParts
<1>5. SessionTypeOK'
  BY <1>2, <1>3, InvParts DEF SessionInv, SessionTypeOK, Steps
<1>6. SessionShape' /\ IngestInv' /\ RemovalInv'
  BY <1>1, <1>3, <1>4, Identities
  DEF SessionShape, IngestInv, RemovalInv, IngestSteps, RemovalSteps,
      DeletionSteps, worldVars, recordVars
<1> QED BY <1>3, <1>5, <1>6, QuietStep DEF SessionInv

(* The second session of ingest. *)
LEMMA StartIngestStep ==
    ASSUME Inv, NEW p \in Process, NEW r \in Run, StartIngest(p, r)
    PROVE  Inv'
<1>1. UNCHANGED <<worldVars, storeVars, proc, queue, discards, unlinks>>
  BY DEF StartIngest
<1>2. proc' \in [Process -> Calls]
  BY <1>1 DEF Inv, TypeOK
<1>3. PICK l \in {"ing_verify", "ing_prepare"} : Enter(p, l, r)
  BY DEF StartIngest
<1>4. l \in (Steps \ RemovalSteps) \cap IngestSteps /\ l \notin DeletionSteps
  BY DEF Steps, RemovalSteps, IngestSteps, DeletionSteps
<1>5. SessionInv
  BY InvParts
<1>6. SessionInv'
  BY <1>1, <1>2, <1>3, <1>4, <1>5, EnterSession
<1> QED BY <1>1, <1>6, QuietStep

(* delete_source on a purged job. *)
LEMMA RetryPurgedStep ==
    ASSUME Inv, NEW p \in Process, NEW s \in Source, NEW d \in DeletionId, RetryPurged(p, s, d)
    PROVE  Inv'
<1>1. /\ UNCHANGED <<worldVars, storeVars, proc, queue, discards, unlinks>>
      /\ Enter(p, "del_complete", d)
  BY DEF RetryPurged
<1>2. proc' \in [Process -> Calls]
  BY <1>1 DEF Inv, TypeOK
<1>3. SessionInv'
  BY <1>1, <1>2, EnterSession, InvParts DEF Steps, RemovalSteps, IngestSteps, DeletionSteps
<1> QED BY <1>1, <1>3, QuietStep

(* A job whose plan loads: the artifacts it must remove are referred to from
   inside its closure only. *)
LEMMA LoadedPlan ==
    ASSUME NEW d \in DeletionId, PlanLoads(d)
    PROVE  /\ jobState[d] = "pending"
           /\ \A e \in evidence : EvidenceDigest[e] \in required[d] => e \in closure[d]
BY DEF PlanLoads, SurvivesOutside, DigestsOf

(* delete_source on a pending job loads its plan. *)
LEMMA RejoinDeletionStep ==
    ASSUME Inv, NEW p \in Process, NEW s \in Source, NEW d \in DeletionId,
           RejoinDeletion(p, s, d)
    PROVE  Inv'
<1>1. /\ UNCHANGED <<worldVars, storeVars, proc, queue, discards, unlinks>>
      /\ Enter(p, "del_remove", d)
  BY DEF RejoinDeletion
<1>2. proc' \in [Process -> Calls]
  BY <1>1 DEF Inv, TypeOK
<1>3. /\ jobState'[d] = "pending"
      /\ \A e \in evidence' : EvidenceDigest[e] \in required'[d] => e \in closure'[d]
  BY <1>1, LoadedPlan DEF RejoinDeletion, worldVars, recordVars, jobVars
<1>4. SessionInv'
  BY <1>1, <1>2, <1>3, EnterSession, InvParts DEF Steps, RemovalSteps, IngestSteps, DeletionSteps
<1> QED BY <1>1, <1>4, QuietStep

-----------------------------------------------------------------------------
(* Steps inside a session that only read the tables and the files. *)
LEMMA ResumePendingStep ==
    ASSUME Inv, NEW d \in DeletionId, ResumePending(d)
    PROVE  Inv'
<1>1. UNCHANGED <<worldVars, storeVars>>
  BY DEF ResumePending
<1>2. /\ jobState[d] = "pending"
      /\ \A e \in evidence : EvidenceDigest[e] \in required[d] => e \in closure[d]
  BY LoadedPlan DEF ResumePending, CanRemoveFiles
<1>3. discards' \subseteq StagedFile \cup IncompleteFile \cup Run /\ unlinks' \subseteq Digest
  BY DEF ResumePending, StagingOf, EmptyRuns, Inv, TypeOK, StoreTypeOK, WorldTypeOK
<1>4. SessionInv'
  BY <1>1, <1>2, <1>3, InvParts
    DEF ResumePending, At, SessionInv, SessionTypeOK, SessionShape, IngestInv, RemovalInv,
        Steps, IngestSteps, RemovalSteps, DeletionSteps, worldVars, recordVars, jobVars, storeVars
<1> QED BY <1>1, <1>4, QuietStep

(* delete_source on its way to remove the files of its plan. *)
LEMMA RemoveFilesStep ==
    ASSUME Inv, RemoveFiles PROVE Inv'
<1>1. UNCHANGED <<worldVars, storeVars>>
  BY DEF RemoveFiles
<1>2. target \in DeletionId
  BY InvParts DEF RemoveFiles, At, SessionInv, SessionShape, DeletionSteps
<1>3. discards' \subseteq StagedFile \cup IncompleteFile \cup Run /\ unlinks' \subseteq Digest
  BY <1>2 DEF RemoveFiles, StagingOf, EmptyRuns, Inv, TypeOK, StoreTypeOK, WorldTypeOK
<1>4. SessionInv'
  BY <1>1, <1>2, <1>3, InvParts
    DEF RemoveFiles, At, SessionInv, SessionTypeOK, SessionShape, IngestInv, RemovalInv,
        Steps, IngestSteps, RemovalSteps, DeletionSteps, worldVars, recordVars, jobVars, storeVars
<1> QED BY <1>1, <1>4, QuietStep

(* The runs to clean are listed once no deletion is left; a recovery may list
   more runs than ListRuns does. *)
ListsRuns ==
    /\ At("rec_deletions") /\ ActiveJobs = {}
    /\ pc' = "rec_runs" /\ ActionableRuns \subseteq queue' /\ queue' \subseteq Run
    /\ UNCHANGED <<worldVars, storeVars, proc, owner, target, discards, unlinks, handles>>

(* Listing the runs, with the removal of what no run owns, keeps the invariant. *)
LEMMA ListsRunsStep == ASSUME Inv, ListsRuns PROVE Inv'
<1>1. SessionInv'
  BY InvParts
    DEF ListsRuns, At, SessionInv, SessionTypeOK, SessionShape, IngestInv, RemovalInv,
        Steps, IngestSteps, RemovalSteps, DeletionSteps, storeVars
<1> QED BY <1>1, QuietStep DEF ListsRuns

(* The steps of recover that only choose what comes next. *)
LEMMA RecoverReadStep ==
    ASSUME Inv, (\E d \in DeletionId : ResumePurged(d)) \/ ListRuns \/ ScanStaging
    PROVE  Inv'
<1>1. UNCHANGED <<worldVars, storeVars>>
  BY DEF ResumePurged, ListRuns, ScanStaging
<1>2. CASE \E d \in DeletionId : ResumePurged(d)
  <2>1. SessionInv'
    BY <1>2, <1>1, InvParts
      DEF ResumePurged, At, SessionInv, SessionTypeOK, SessionShape, IngestInv, RemovalInv,
          Steps, IngestSteps, RemovalSteps, DeletionSteps, storeVars
  <2> QED BY <2>1, <1>1, QuietStep
<1>3. CASE ListRuns
  BY <1>3, ListsRunsStep DEF ListRuns, ListsRuns, ActionableRuns
<1>4. CASE ScanStaging
  <2>1. discards' \subseteq StagedFile \cup IncompleteFile \cup Run
    BY <1>4 DEF ScanStaging, EmptyRuns, Inv, TypeOK, StoreTypeOK
  <2>2. SessionInv'
    BY <1>4, <2>1, <1>1, InvParts
      DEF ScanStaging, At, SessionInv, SessionTypeOK, SessionShape, IngestInv, RemovalInv,
          Steps, IngestSteps, RemovalSteps, DeletionSteps, storeVars
  <2> QED BY <2>2, <1>1, QuietStep
<1> QED BY <1>2, <1>3, <1>4

(* run_cleanup_plan lists an artifact only if no other run's evidence refers
   to it. *)
LEMMA PlanRunStep ==
    ASSUME Inv, NEW r \in Run, PlanRun(r)
    PROVE  Inv'
<1>1. UNCHANGED <<worldVars, storeVars>>
  BY DEF PlanRun
<1>2. CASE NothingToClean(r)
  <2>1. SessionInv'
    BY <1>1, <1>2, InvParts
      DEF PlanRun, At, SessionInv, SessionTypeOK, SessionShape, IngestInv, RemovalInv,
          IngestSteps, RemovalSteps, DeletionSteps, storeVars
  <2> QED BY <2>1, <1>1, QuietStep
<1>3. CASE ~NothingToClean(r)
  <2>1. /\ pc' = "rec_finish" /\ target' = r
        /\ discards' = IntentsOf({r}) /\ unlinks' = CleanupArtifacts(r)
        /\ queue' = queue \ {r} /\ UNCHANGED <<proc, owner, handles>>
    BY <1>3 DEF PlanRun
  <2>2. discards' \subseteq StagedFile /\ unlinks' \subseteq Digest
    BY <2>1, RecordTypes DEF IntentsOf, CleanupArtifacts, CleanupDigests, DigestsOf, StagedFile,
        Inv, TypeOK, WorldTypeOK
  <2>3. \A e \in evidence : EvidenceDigest[e] \in unlinks' => OwnersOf(e) = {r}
    BY <2>1 DEF CleanupArtifacts
  <2>4. runState[r] # "committed"
    BY DEF PlanRun, CanPlanCleanup
  <2>5. owner # NoProcess /\ pc = "rec_runs"
    BY DEF PlanRun, At
  <2>6. SessionInv'
    BY <2>1, <2>2, <2>3, <2>4, <2>5, <1>1, InvParts
      DEF SessionInv, SessionTypeOK, SessionShape, IngestInv, RemovalInv, Steps, IngestSteps,
          RemovalSteps, DeletionSteps, storeVars, worldVars, recordVars, OwnersOf
  <2> QED BY <2>6, <1>1, QuietStep
<1> QED BY <1>2, <1>3

-----------------------------------------------------------------------------
(* Steps that change files. *)

(* Discarding staging entries: a session that discards has no handles. *)
LEMMA DiscardOneStep == ASSUME Inv, DiscardOne PROVE Inv'
<1>1. /\ UNCHANGED <<worldVars, proc, owner, pc, target, queue, unlinks, handles>>
      /\ discards' \subseteq discards
  BY DEF DiscardOne
<1>2. handles = {}
  BY InvParts DEF DiscardOne, SessionInv, SessionShape, IngestSteps, RemovalSteps
<1>3. StoreTypeOK' /\ cas' = cas
  <2> USE DEF Inv, TypeOK
  <2>1. ASSUME NEW h \in StagedFile, DiscardStage(h) PROVE StoreTypeOK' /\ cas' = cas
    BY <2>1 DEF DiscardStage, DirsWithout, StoreTypeOK
  <2>2. ASSUME NEW f \in IncompleteFile, DiscardIncomplete(f) PROVE StoreTypeOK' /\ cas' = cas
    BY <2>2 DEF DiscardIncomplete, DirsWithout, StoreTypeOK
  <2>3. ASSUME NEW r \in Run, DiscardEmptyRun(r) PROVE StoreTypeOK' /\ cas' = cas
    BY <2>3 DEF DiscardEmptyRun, StoreTypeOK
  <2> QED BY <2>1, <2>2, <2>3 DEF DiscardOne
<1>4. DataInv'
  BY <1>1, <1>3, QuietData, InvParts
<1>5. SessionTypeOK'
  BY <1>1, InvParts DEF SessionInv, SessionTypeOK
<1>6. SessionShape'
  BY <1>1, InvParts DEF SessionInv, SessionShape
<1>7. IngestInv'
  BY <1>1, <1>2, <1>3, InvParts DEF SessionInv, IngestInv, worldVars
<1>8. RemovalInv'
  BY <1>1, InvParts DEF SessionInv, RemovalInv, worldVars, recordVars, jobVars, OwnersOf
<1> QED BY <1>4, <1>5, <1>6, <1>7, <1>8, InvPartsNext DEF SessionInv

(* Deleting an artifact: whatever evidence refers to it is invisible. *)
LEMMA UnlinkOneStep == ASSUME Inv, UnlinkOne PROVE Inv'
<1>1. PICK x \in unlinks : cas' = cas \ {x} /\ unlinks' = unlinks \ {x}
  BY DEF UnlinkOne, DeleteArtifact
<1>2. UNCHANGED <<worldVars, proc, owner, pc, target, queue, discards, handles,
                  staged, incomplete, runDirs>>
  BY DEF UnlinkOne, DeleteArtifact
<1>3. pc \in RemovalSteps /\ handles = {}
  BY <1>1, InvParts DEF SessionInv, SessionShape, IngestSteps, RemovalSteps
<1>4. ASSUME NEW e \in evidence, EvidenceDigest[e] = x
      PROVE  \/ e \in Hidden
             \/ OwnersOf(e) # {} /\ \A r \in OwnersOf(e) : runState[r] = "preparing"
  <2>1. CASE pc \in {"rec_purge", "del_purge"}
    <3>1. target \in DeletionId /\ e \in closure[target]
      BY <1>1, <1>4, <2>1, InvParts
        DEF SessionInv, SessionShape, RemovalInv, DeletionSteps
    <3> QED BY <3>1 DEF Hidden
  <2>2. CASE pc = "rec_finish"
    <3>1. /\ target \in Run /\ OwnersOf(e) = {target} /\ runState[target] # "committed"
      BY <1>1, <1>4, <2>2, InvParts DEF SessionInv, SessionShape, RemovalInv
    <3>2. e \in OwnedBy(target)
      BY <3>1 DEF OwnersOf, OwnedBy, Inv, TypeOK, WorldTypeOK
    <3> QED BY <3>1, <3>2 DEF Inv, RunsOwnTheirOwn
  <2>3. CASE pc = "rep_end"
    BY <1>1, <1>4, <2>3, InvParts DEF SessionInv, RemovalInv
  <2> QED BY <1>3, <2>1, <2>2, <2>3 DEF RemovalSteps
<1>5. WorldInv'
  BY <1>2, StutterInv DEF Inv
<1>6. RunsOwnTheirOwn'
  BY <1>2 DEF Inv, RunsOwnTheirOwn, OwnedBy, worldVars, recordVars
<1>7. LostIsInvisible'
  BY <1>1, <1>2, <1>4 DEF Inv, LostIsInvisible, Hidden, OwnersOf, worldVars, recordVars, jobVars
<1>8. StoreTypeOK'
  BY <1>1, <1>2 DEF Inv, TypeOK, StoreTypeOK
<1>9. SessionTypeOK' /\ SessionShape'
  BY <1>1, <1>2, InvParts DEF SessionInv, SessionTypeOK, SessionShape
<1>10. IngestInv'
  BY <1>2, <1>3 DEF IngestInv, RemovalSteps, IngestSteps
<1>11. RemovalInv'
  BY <1>1, <1>2, InvParts DEF SessionInv, RemovalInv, worldVars, recordVars, jobVars, OwnersOf
<1> QED BY <1>5, <1>6, <1>7, <1>8, <1>9, <1>10, <1>11, InvPartsNext DEF DataInv, SessionInv

(* Staging one artifact of the run. *)
LEMMA IngestStageStep == ASSUME Inv, IngestStage PROVE Inv'
<1>1. PICK x \in RunDigests(target), n \in StageName :
         /\ Stage(target, x, n)
         /\ handles' = handles \cup {[run |-> target, digest |-> x, name |-> n]}
  BY DEF IngestStage
<1>2. /\ UNCHANGED <<worldVars, proc, owner, pc, target, queue, discards, unlinks>>
      /\ pc = "ing_stage"
  BY DEF IngestStage, At
<1>3. target \in Run /\ x \in Digest
  <2>1. target \in Run
    BY <1>2, InvParts DEF SessionInv, SessionShape, IngestSteps
  <2> QED BY <2>1, RecordTypes DEF RunDigests
<1>4. [run |-> target, digest |-> x, name |-> n] \in StagedFile
  BY <1>3 DEF StagedFile
<1>5. /\ staged' = staged \cup {[run |-> target, digest |-> x, name |-> n]}
      /\ cas' = cas /\ StoreTypeOK'
  BY <1>1, <1>3, <1>4 DEF Stage, Inv, TypeOK, StoreTypeOK
<1>6. DataInv'
  BY <1>2, <1>5, QuietData, InvParts
<1>7. SessionTypeOK' /\ SessionShape'
  BY <1>1, <1>2, <1>4, InvParts
    DEF SessionInv, SessionTypeOK, SessionShape, IngestSteps, RemovalSteps
<1>8. IngestInv'
  BY <1>1, <1>2, <1>5, InvParts DEF SessionInv, IngestInv, IngestSteps, worldVars
<1>9. RemovalInv'
  BY <1>2 DEF RemovalInv
<1> QED BY <1>6, <1>7, <1>8, <1>9, InvPartsNext DEF SessionInv

(* Promoting one artifact. *)
LEMMA IngestPromoteStep == ASSUME Inv, IngestPromote PROVE Inv'
<1>1. PICK h \in handles : CommitStage(h)
  BY DEF IngestPromote
<1>2. /\ UNCHANGED <<worldVars, proc, sessionVars>>
      /\ pc = "ing_promote"
  BY DEF IngestPromote, At
<1>3. h \in StagedFile /\ h.run \in Run /\ h.digest \in Digest
  BY DEF Inv, TypeOK, StagedFile
<1>4. /\ staged' = staged \ {h} /\ cas' = cas \cup {h.digest}
      /\ StoreTypeOK'
  BY <1>1, <1>3 DEF CommitStage, DirsWithout, Inv, TypeOK, StoreTypeOK
<1>5. DataInv'
  BY <1>2, <1>4, QuietData, InvParts
<1>6. SessionTypeOK' /\ SessionShape'
  BY <1>2, InvParts DEF SessionInv, SessionTypeOK, SessionShape, sessionVars
<1>7. IngestInv'
  BY <1>2, <1>4, InvParts DEF SessionInv, IngestInv, IngestSteps, worldVars, sessionVars
<1>8. RemovalInv'
  BY <1>2 DEF RemovalInv, sessionVars
<1> QED BY <1>5, <1>6, <1>7, <1>8, InvPartsNext DEF SessionInv

(* The loops of the ingestion end with what the next one relies on. *)
LEMMA LoopDoneStep == ASSUME Inv, IngestLoopDone PROVE Inv'
<1>1. /\ UNCHANGED <<worldVars, storeVars>>
      /\ UNCHANGED <<proc, owner, target, queue, discards, unlinks, handles>>
      /\ owner # NoProcess
      /\ \/ /\ pc = "ing_stage" /\ pc' = "ing_intents"
            /\ RunDigests(target) = {h.digest : h \in handles}
         \/ pc = "ing_intents" /\ pc' = "ing_promote"
         \/ pc = "ing_promote" /\ pc' = "ing_frames" /\ handles \cap staged = {}
         \/ pc = "ing_frames" /\ pc' = "ing_evidence"
         \/ pc = "ing_evidence" /\ pc' = "ing_finalize"
  BY DEF IngestLoopDone, LoopDone, At, Goto
<1>2. SessionTypeOK' /\ SessionShape'
  BY <1>1, InvParts
    DEF SessionInv, SessionTypeOK, SessionShape, Steps, IngestSteps, RemovalSteps, DeletionSteps
<1>3. IngestInv'
  BY <1>1, InvParts DEF SessionInv, IngestInv, IngestSteps, worldVars, storeVars
<1>4. RemovalInv'
  BY <1>1 DEF RemovalInv
<1> QED BY <1>1, <1>2, <1>3, <1>4, QuietStep DEF SessionInv

-----------------------------------------------------------------------------
(* Steps that change the tables.  Each works in the session of its target. *)
LEMMA IngestTarget ==
    ASSUME Inv, pc \in IngestSteps
    PROVE  /\ target \in Run /\ unlinks = {} /\ discards = {}
           /\ pc \notin {"ing_prepare", "ing_verify"} => runState[target] = "preparing"
BY InvParts DEF SessionInv, SessionShape, IngestInv, IngestSteps, RemovalSteps

(* The run becomes preparing again; it owns nothing yet. *)
LEMMA IngestPrepareStep == ASSUME Inv, IngestPrepare PROVE Inv'
<1>1. /\ pc = "ing_prepare" /\ pc' = "ing_stage"
      /\ UNCHANGED <<storeVars, proc, owner, target, queue, discards, unlinks, handles>>
      /\ Commit({RunSource[target]}, {target}, "preparing", {}, {})
  BY DEF IngestPrepare, At, Goto, PrepareRun
<1>2. target \in Run /\ RunSource[target] \in Source
  BY <1>1, IngestTarget, RecordTypes DEF IngestSteps
<1>3. WorldInv'
  <2>1. /\ {RunSource[target]} \in SUBSET Source /\ {target} \in SUBSET Run
        /\ "preparing" \in RunStates \ {"absent"}
    BY <1>2 DEF RunStates
  <2> QED BY <1>1, <2>1, CommitInv DEF Inv
<1>4. /\ runState' = [runState EXCEPT ![target] = "preparing"]
      /\ runRecords' = runRecords /\ evidence' = evidence
      /\ UNCHANGED jobVars
  BY <1>1, <1>2 DEF Commit, WriteData, Inv, TypeOK, WorldTypeOK
<1>5. RunsOwnTheirOwn'
  BY <1>2, <1>4 DEF Inv, TypeOK, WorldTypeOK, RunsOwnTheirOwn, OwnedBy
<1>6. LostIsInvisible'
  <2>1. \A e : OwnersOf(e)' = OwnersOf(e) /\ OwnersOf(e) \subseteq Run
    BY <1>4 DEF OwnersOf
  <2>2. Hidden' = Hidden
    BY <1>4 DEF Hidden, jobVars
  <2>3. \A r \in Run : runState[r] = "preparing" => runState'[r] = "preparing"
    BY <1>4 DEF Inv, TypeOK, WorldTypeOK
  <2> QED BY <1>1, <1>4, <2>1, <2>2, <2>3 DEF Inv, LostIsInvisible, storeVars
<1>7. StoreTypeOK'
  BY <1>1 DEF Inv, TypeOK, StoreTypeOK, storeVars
<1>8. SessionTypeOK' /\ SessionShape'
  BY <1>1, InvParts
    DEF SessionInv, SessionTypeOK, SessionShape, Steps, IngestSteps, RemovalSteps, DeletionSteps
<1>9. IngestInv' /\ RemovalInv'
  BY <1>1, <1>2, <1>4, InvParts
    DEF SessionInv, IngestInv, RemovalInv, IngestSteps, storeVars, Inv, TypeOK, WorldTypeOK
<1> QED BY <1>3, <1>5, <1>6, <1>7, <1>8, <1>9, InvPartsNext DEF DataInv, SessionInv

(* Intents concern neither visibility nor files. *)
LEMMA IngestIntentsStep == ASSUME Inv, IngestIntents PROVE Inv'
<1>1. PICK B \in SUBSET handles : RecordArtifactIntents(target, B)
  BY DEF IngestIntents, Batches
<1>2. /\ UNCHANGED <<storeVars, proc, sessionVars>>
      /\ UNCHANGED <<recordVars, runState, jobVars>>
      /\ pc = "ing_intents"
  BY <1>1 DEF IngestIntents, At, RecordArtifactIntents
<1>3. WorldInv'
  <2>1. B \in SUBSET StagedFile
    BY DEF Inv, TypeOK
  <2> QED BY <1>1, <2>1, RecordIntentsInv DEF Inv
<1>4. RunsOwnTheirOwn' /\ LostIsInvisible'
  BY <1>2 DEF Inv, RunsOwnTheirOwn, OwnedBy, LostIsInvisible, OwnersOf, Hidden,
      recordVars, jobVars, storeVars
<1>5. StoreTypeOK'
  BY <1>2 DEF Inv, TypeOK, StoreTypeOK, storeVars
<1>6. SessionTypeOK' /\ SessionShape'
  BY <1>2, InvParts DEF SessionInv, SessionTypeOK, SessionShape, sessionVars
<1>7. IngestInv' /\ RemovalInv'
  BY <1>2, InvParts DEF SessionInv, IngestInv, RemovalInv, storeVars, sessionVars
<1> QED BY <1>3, <1>4, <1>5, <1>6, <1>7, InvPartsNext DEF DataInv, SessionInv

(* Hidden batches: their rows refer to artifacts that were promoted. *)
LEMMA IngestBatchStep == ASSUME Inv, IngestFrames \/ IngestEvidence PROVE Inv'
<1>1. /\ UNCHANGED <<storeVars, proc, sessionVars>>
      /\ pc \in {"ing_frames", "ing_evidence"}
  BY DEF IngestFrames, IngestEvidence, At
<1>2. /\ target \in Run /\ runState[target] = "preparing"
      /\ RunDigests(target) \subseteq cas
  BY <1>1, IngestTarget, InvParts DEF IngestSteps, SessionInv, IngestInv
<1>3. RunFrames(target) \subseteq Frame /\ RunEvidence[target] \subseteq Evidence
  BY <1>2, RecordTypes DEF RunFrames
<1>4. PICK fs \in SUBSET RunFrames(target), es \in SUBSET RunEvidence[target] :
         CommitForRun(target, fs, es)
  <2>1. ASSUME IngestFrames
        PROVE  \E fs \in SUBSET RunFrames(target) : CommitForRun(target, fs, {})
    BY <2>1 DEF IngestFrames, Batches
  <2>2. ASSUME IngestEvidence
        PROVE  \E es \in SUBSET RunEvidence[target] : CommitForRun(target, {}, es)
    BY <2>2 DEF IngestEvidence, Batches
  <2>3. {} \in SUBSET RunFrames(target) /\ {} \in SUBSET RunEvidence[target]
    OBVIOUS
  <2> QED BY <2>1, <2>2, <2>3
<1>5. WorldInv'
  <2>1. fs \in SUBSET Frame /\ es \in SUBSET Evidence
    BY <1>3
  <2> QED BY <1>2, <1>4, <2>1, CommitForRunInv DEF Inv
<1>6. /\ evidence' = evidence \cup es
      /\ runRecords' = runRecords \cup ({target} \X (fs \cup es))
      /\ UNCHANGED <<runState, jobVars>>
  BY <1>4 DEF CommitForRun, WriteData
<1>7. RunsOwnTheirOwn'
  BY <1>2, <1>6 DEF Inv, RunsOwnTheirOwn, OwnedBy
<1>8. LostIsInvisible'
  <2>1. \A e \in es : EvidenceDigest[e] \in cas'
    BY <1>1, <1>2 DEF RunDigests, storeVars
  <2>2. \A e \in evidence : OwnersOf(e) \subseteq OwnersOf(e)' /\ OwnersOf(e)' \subseteq OwnersOf(e) \cup {target}
    BY <1>6 DEF OwnersOf
  <2>3. Hidden' = Hidden
    BY <1>6 DEF Hidden, jobVars
  <2> QED BY <1>1, <1>2, <1>6, <2>1, <2>2, <2>3 DEF Inv, LostIsInvisible, storeVars
<1>9. StoreTypeOK'
  BY <1>1 DEF Inv, TypeOK, StoreTypeOK, storeVars
<1>10. SessionTypeOK' /\ SessionShape'
  BY <1>1, InvParts DEF SessionInv, SessionTypeOK, SessionShape, sessionVars
<1>11. IngestInv' /\ RemovalInv'
  BY <1>1, <1>6, InvParts DEF SessionInv, IngestInv, RemovalInv, storeVars, sessionVars
<1> QED BY <1>5, <1>7, <1>8, <1>9, <1>10, <1>11, InvPartsNext DEF DataInv, SessionInv

(* Publication: everything the run owns has its artifact. *)
LEMMA FinalizeData ==
    ASSUME Inv, pc \in {"ing_finalize", "per_finalize"}, FinalizeRun(target, {}, {}),
           UNCHANGED storeVars
    PROVE  DataInv'
<1>1. target \in Run /\ RunDigests(target) \subseteq cas
  BY IngestTarget, InvParts DEF IngestSteps, SessionInv, IngestInv
<1>2. WorldInv'
  BY <1>1, FinalizeRunInv DEF Inv
<1>3. /\ runState' = [runState EXCEPT ![target] = "committed"]
      /\ runRecords' = runRecords /\ evidence' = evidence
      /\ UNCHANGED jobVars
  BY DEF FinalizeRun, WriteData
<1>4. RunsOwnTheirOwn'
  BY <1>1, <1>3 DEF Inv, TypeOK, WorldTypeOK, RunsOwnTheirOwn, OwnedBy
<1>5. LostIsInvisible'
  <2>1. \A e \in evidence : target \in OwnersOf(e) => EvidenceDigest[e] \in cas
    <3> SUFFICES ASSUME NEW e \in evidence, target \in OwnersOf(e)
                 PROVE  EvidenceDigest[e] \in cas
      OBVIOUS
    <3>1. e \in RunFrames(target) \cup RunEvidence[target]
      BY <1>1 DEF OwnersOf, OwnedBy, Inv, TypeOK, WorldTypeOK, RunsOwnTheirOwn
    <3>2. e \notin RunFrames(target)
      BY <1>1, RecordTypes, RecordKinds DEF RunFrames, Inv, TypeOK, WorldTypeOK
    <3> QED BY <1>1, <3>1, <3>2 DEF RunDigests
  <2>2. \A e : OwnersOf(e)' = OwnersOf(e)
    BY <1>3 DEF OwnersOf
  <2>3. Hidden' = Hidden
    BY <1>3 DEF Hidden, jobVars
  <2> QED BY <1>1, <1>3, <2>1, <2>2, <2>3
        DEF Inv, TypeOK, WorldTypeOK, LostIsInvisible, storeVars, OwnersOf
<1>6. StoreTypeOK'
  BY DEF Inv, TypeOK, StoreTypeOK, storeVars
<1> QED BY <1>2, <1>4, <1>5, <1>6 DEF DataInv

(* The ingestion goes on to verify what it published. *)
LEMMA IngestFinalizeStep == ASSUME Inv, IngestFinalize PROVE Inv'
<1>1. /\ pc = "ing_finalize" /\ pc' = "ing_verify"
      /\ UNCHANGED <<storeVars, proc, owner, target, queue, discards, unlinks, handles>>
      /\ FinalizeRun(target, {}, {})
  BY DEF IngestFinalize, At, Goto
<1>2. DataInv'
  BY <1>1, FinalizeData
<1>3. /\ runState' = [runState EXCEPT ![target] = "committed"]
      /\ runRecords' = runRecords /\ evidence' = evidence
      /\ UNCHANGED jobVars
  BY <1>1 DEF FinalizeRun, WriteData
<1>4. SessionTypeOK' /\ SessionShape'
  BY <1>1, InvParts
    DEF SessionInv, SessionTypeOK, SessionShape, Steps, IngestSteps, RemovalSteps, DeletionSteps
<1>5. IngestInv' /\ RemovalInv'
  BY <1>1, <1>3, InvParts DEF SessionInv, IngestInv, RemovalInv, IngestSteps, storeVars
<1> QED BY <1>2, <1>4, <1>5, InvPartsNext DEF SessionInv

(* The cleanup of a run: its rows go, shared evidence keeps its other owners. *)
LEMMA FinishRunStep == ASSUME Inv, FinishRun PROVE Inv'
<1>1. /\ pc = "rec_finish" /\ pc' = "rec_runs" /\ owner # NoProcess
      /\ unlinks = {} /\ discards = {}
      /\ UNCHANGED <<storeVars, proc, owner, target, queue, discards, unlinks, handles>>
      /\ FinishRunCleanup(target)
  BY DEF FinishRun, At
<1>2. target \in Run
  BY <1>1, InvParts DEF SessionInv, SessionShape
<1>3. WorldInv'
  BY <1>1, <1>2, FinishRunCleanupInv DEF Inv
<1>4. /\ evidence' = evidence \ CleanupEvidence(target)
      /\ runRecords' = {o \in runRecords : o[1] # target}
      /\ \A r \in Run \ {target} : runState'[r] = runState[r]
      /\ UNCHANGED jobVars
  BY <1>1 DEF FinishRunCleanup, Inv, TypeOK, WorldTypeOK
<1>5. RunsOwnTheirOwn'
  BY <1>4 DEF Inv, RunsOwnTheirOwn, OwnedBy
<1>6. LostIsInvisible'
  <2>1. \A e : OwnersOf(e)' = OwnersOf(e) \ {target}
    BY <1>4 DEF OwnersOf
  <2>2. \A e \in evidence' : OwnersOf(e) # {target}
    <3> SUFFICES ASSUME NEW e \in evidence, OwnersOf(e) = {target}
                 PROVE  e \in CleanupEvidence(target)
      BY <1>4
    <3> QED BY DEF CleanupEvidence, OnlyOwned, OwnedBy, OwnersOf, Inv, TypeOK, WorldTypeOK
  <2>3. Hidden' = Hidden
    BY <1>4 DEF Hidden, jobVars
  <2>4. \A e \in evidence' : OwnersOf(e) # {} => OwnersOf(e)' # {}
    BY <2>1, <2>2
  <2> QED BY <1>1, <1>4, <2>1, <2>3, <2>4 DEF Inv, LostIsInvisible, storeVars, OwnersOf
<1>7. StoreTypeOK'
  BY <1>1 DEF Inv, TypeOK, StoreTypeOK, storeVars
<1>8. SessionTypeOK' /\ SessionShape'
  BY <1>1, InvParts
    DEF SessionInv, SessionTypeOK, SessionShape, Steps, IngestSteps, RemovalSteps, DeletionSteps
<1>9. IngestInv' /\ RemovalInv'
  BY <1>1, InvParts DEF SessionInv, SessionShape, IngestInv, RemovalInv, IngestSteps
<1> QED BY <1>3, <1>5, <1>6, <1>7, <1>8, <1>9, InvPartsNext DEF DataInv, SessionInv

(* A new deletion hides more and loses nothing. *)
LEMMA StartDeletionStep ==
    ASSUME Inv, NEW p \in Process, NEW s \in Source, NEW d \in DeletionId, StartDeletion(p, s, d)
    PROVE  Inv'
<1>1. /\ BeginSourceDeletion(s, d) /\ Enter(p, "del_remove", d)
      /\ UNCHANGED <<storeVars, proc, queue, discards, unlinks>>
  BY DEF StartDeletion
<1>2. WorldInv'
  BY <1>1, BeginSourceDeletionInv DEF Inv
<1>3. /\ jobState[d] = "none" /\ jobState'[d] = "pending"
      /\ closure' = [closure EXCEPT ![d] = SourceClosure(s)]
      /\ closure'[d] = SourceClosure(s)
      /\ required'[d] = ClosureDigests(SourceClosure(s))
                          \ {x \in ClosureDigests(SourceClosure(s)) :
                                SurvivesOutside(x, SourceClosure(s))}
      /\ UNCHANGED <<recordVars, runState>>
  BY <1>1 DEF BeginSourceDeletion, CanBeginDeletion, Inv, TypeOK, WorldTypeOK
<1>4. RunsOwnTheirOwn'
  BY <1>3 DEF Inv, RunsOwnTheirOwn, OwnedBy, recordVars
<1>5. LostIsInvisible'
  <2>1. closure[d] = {}
    BY <1>3 DEF Inv, WorldInv, OnlyPendingHides
  <2>2. Hidden \subseteq Hidden'
    BY <1>3, <2>1 DEF Hidden, Inv, TypeOK, WorldTypeOK
  <2>3. \A e : OwnersOf(e)' = OwnersOf(e)
    BY <1>3 DEF OwnersOf, recordVars
  <2> QED BY <1>1, <1>3, <2>2, <2>3 DEF Inv, LostIsInvisible, recordVars, storeVars
<1>6. StoreTypeOK'
  BY <1>1 DEF Inv, TypeOK, StoreTypeOK, storeVars
<1>7. \A e \in evidence' : EvidenceDigest[e] \in required'[d] => e \in closure'[d]
  <2> SUFFICES ASSUME NEW e \in evidence, EvidenceDigest[e] \in required'[d]
               PROVE  e \in SourceClosure(s)
    BY <1>3 DEF recordVars
  <2>1. ~SurvivesOutside(EvidenceDigest[e], SourceClosure(s))
    BY <1>3
  <2> QED BY <2>1 DEF SurvivesOutside, DigestsOf
<1>8. SessionInv'
  <2>1. proc' \in [Process -> Calls]
    BY <1>1 DEF Inv, TypeOK
  <2>2. /\ "del_remove" \in (Steps \ RemovalSteps) \cap DeletionSteps
        /\ "del_remove" \notin IngestSteps
    BY DEF Steps, RemovalSteps, IngestSteps, DeletionSteps
  <2>3. SessionInv
    BY InvParts
  <2> QED BY <1>1, <1>3, <1>7, <2>1, <2>2, <2>3, EnterSession
<1> QED BY <1>2, <1>4, <1>5, <1>6, <1>8, InvPartsNext DEF DataInv

(* The purge takes the hidden rows together with the closure that hid them. *)
LEMMA PurgeMetadataStep == ASSUME Inv, PurgeMetadata PROVE Inv'
<1> DEFINE s == jobRoot[target]
           kept == {r \in Runs : RunSource[r] # s}
<1>1. /\ \/ pc = "rec_purge" /\ pc' = "rec_complete"
         \/ pc = "del_purge" /\ pc' = "del_complete"
      /\ owner # NoProcess /\ discards = {} /\ unlinks = {}
      /\ UNCHANGED <<storeVars, proc, owner, target, queue, discards, unlinks, handles>>
      /\ PurgeDeletionMetadata(target, cas)
  BY DEF PurgeMetadata, At
<1>2. target \in DeletionId
  BY <1>1, InvParts DEF SessionInv, SessionShape, DeletionSteps
<1>3. WorldInv'
  BY <1>1, <1>2, PurgeInv DEF Inv
<1>4. /\ jobState[target] = "pending" /\ s \in sources
      /\ frames' = {f \in frames : FrameSource[f] # s}
      /\ evidence' = {e \in evidence : EvidenceFrame[e] \in frames'}
      /\ runState' = [r \in Run |-> IF r \in kept THEN runState[r] ELSE "absent"]
      /\ runRecords' = {o \in runRecords : o[1] \in kept}
      /\ closure' = [closure EXCEPT ![target] = {}]
  BY <1>1 DEF PurgeDeletionMetadata, CanPurge, PlanLoads
<1>5. RunsOwnTheirOwn'
  BY <1>4 DEF Inv, RunsOwnTheirOwn, OwnedBy, Runs
<1>6. LostIsInvisible'
  <2> SUFFICES ASSUME NEW e \in evidence'
               PROVE  \/ EvidenceDigest[e] \in cas
                      \/ e \in Hidden'
                      \/ OwnersOf(e)' # {} /\ \A r \in OwnersOf(e)' : runState'[r] = "preparing"
    BY <1>1 DEF LostIsInvisible, storeVars
  <2>1. e \in evidence /\ e \in Evidence /\ FrameSource[EvidenceFrame[e]] # s
    BY <1>4 DEF Inv, TypeOK, WorldTypeOK
  <2>2. \A r \in OwnersOf(e) : r \in kept
    BY <2>1 DEF OwnersOf, Inv, WorldInv, OwnershipIsSound, Runs
  <2>3. OwnersOf(e)' = OwnersOf(e) /\ \A r \in OwnersOf(e) : runState'[r] = runState[r]
    BY <1>4, <2>2 DEF OwnersOf
  <2>4. e \in Hidden => e \in Hidden'
    <3> SUFFICES ASSUME NEW d \in DeletionId, e \in closure[d]
                 PROVE  d # target /\ closure'[d] = closure[d]
      BY DEF Hidden
    <3>1. e \notin closure[target]
      <4>1. closure[target] = SourceClosure(s)
        BY <1>2, <1>4 DEF Inv, WorldInv, ClosureIsFrozen
      <4>2. e # s /\ e \notin frames /\ e \notin Runs
        BY <1>4, <2>1, RecordKinds DEF Inv, TypeOK, WorldTypeOK, Runs
      <4> QED BY <2>1, <4>1, <4>2 DEF SourceClosure
    <3> QED BY <1>4, <3>1 DEF Inv, TypeOK, WorldTypeOK
  <2> QED BY <2>1, <2>3, <2>4 DEF Inv, LostIsInvisible
<1>7. StoreTypeOK'
  BY <1>1 DEF Inv, TypeOK, StoreTypeOK, storeVars
<1>8. SessionTypeOK' /\ SessionShape'
  BY <1>1, InvParts
    DEF SessionInv, SessionTypeOK, SessionShape, Steps, IngestSteps, RemovalSteps, DeletionSteps
<1>9. IngestInv' /\ RemovalInv'
  BY <1>1, InvParts DEF SessionInv, SessionShape, IngestInv, RemovalInv, IngestSteps
<1> QED BY <1>3, <1>5, <1>6, <1>7, <1>8, <1>9, InvPartsNext DEF DataInv, SessionInv

(* A job that hides nothing any more is marked complete. *)
LEMMA CompleteStep == ASSUME Inv, Complete PROVE Inv'
<1>1. /\ \/ pc = "rec_complete" /\ Goto("rec_deletions")
         \/ pc = "del_complete" /\ Leave("idle")
      /\ owner # NoProcess /\ discards = {} /\ unlinks = {}
      /\ UNCHANGED storeVars
      /\ CompleteDeletion(target)
  BY DEF Complete, At
<1>2. target \in DeletionId
  BY <1>1, InvParts DEF SessionInv, SessionShape, DeletionSteps
<1>3. WorldInv'
  BY <1>1, <1>2, CompleteDeletionInv DEF Inv
<1>4. UNCHANGED <<recordVars, runState, closure>>
  BY <1>1 DEF CompleteDeletion
<1>5. RunsOwnTheirOwn' /\ LostIsInvisible'
  BY <1>1, <1>4 DEF Inv, RunsOwnTheirOwn, OwnedBy, LostIsInvisible, OwnersOf, Hidden,
      recordVars, storeVars
<1>6. StoreTypeOK'
  BY <1>1 DEF Inv, TypeOK, StoreTypeOK, storeVars
<1>7. SessionInv'
  <2>1. CASE pc = "rec_complete" /\ Goto("rec_deletions")
    <3>1. /\ pc' = "rec_deletions"
          /\ UNCHANGED <<proc, owner, target, queue, discards, unlinks, handles>>
      BY <2>1 DEF Goto
    <3>2. handles = {}
      BY <2>1, InvParts DEF SessionInv, SessionShape, IngestSteps
    <3>3. SessionTypeOK'
      BY <3>1, InvParts DEF SessionInv, SessionTypeOK, Steps
    <3>4. SessionShape'
      BY <3>1, <3>2, <1>1 DEF SessionShape, IngestSteps, RemovalSteps, DeletionSteps
    <3>5. IngestInv' /\ RemovalInv'
      BY <3>1, <3>2 DEF IngestInv, RemovalInv, IngestSteps
    <3> QED BY <3>3, <3>4, <3>5 DEF SessionInv
  <2>2. CASE Leave("idle")
    BY <2>2, <1>1, LeaveSession, InvParts, IdleIsACall
  <2> QED BY <1>1, <2>1, <2>2
<1> QED BY <1>3, <1>5, <1>6, <1>7, InvPartsNext DEF DataInv

-----------------------------------------------------------------------------
(* Every step preserves the invariant, and nothing happens in a stutter. *)
LEMMA StepInv == ASSUME Inv, [Next]_vars PROVE Inv'
<1>1. CASE RecoverStep
  BY <1>1, ResumePendingStep, RecoverReadStep, PlanRunStep, FinishRunStep, EndStep
    DEF RecoverStep
<1>2. CASE IngestStep
  BY <1>2, IngestPrepareStep, IngestStageStep, IngestIntentsStep, IngestPromoteStep,
     IngestBatchStep, LoopDoneStep, IngestFinalizeStep, EndStep
    DEF IngestStep
<1>3. CASE SessionStep
  BY <1>1, <1>2, <1>3, DiscardOneStep, UnlinkOneStep, EndStep, RemoveFilesStep,
     PurgeMetadataStep, CompleteStep
    DEF SessionStep
<1>4. ASSUME NEW p \in Process, Start(p) PROVE Inv'
  BY <1>4, StartRecoverStep, StartRepairStep, StartIngestStep, OutsideStep,
     StartDeletionStep, RejoinDeletionStep, RetryPurgedStep
    DEF Start
<1>5. CASE Failure
  BY <1>5, EndStep, CrashInsideStep, OutsideStep DEF Failure
<1>6. CASE UNCHANGED vars
  <2>1. UNCHANGED <<worldVars, storeVars>> /\ UNCHANGED <<proc, sessionVars>>
    BY <1>6 DEF vars
  <2>2. SessionInv'
    BY <2>1, InvParts
      DEF SessionInv, SessionTypeOK, SessionShape, IngestInv, RemovalInv, sessionVars,
          worldVars, recordVars, jobVars, storeVars, OwnersOf
  <2> QED BY <2>1, <2>2, QuietStep
<1> QED BY <1>3, <1>4, <1>5, <1>6 DEF Next

(* The invariant of the whole system. *)
THEOREM Invariant == Spec => []Inv
<1>1. Init => Inv
  BY InitialInv
<1>2. Inv /\ [Next]_vars => Inv'
  BY StepInv
<1> QED BY <1>1, <1>2, PTL DEF Spec

(* Every variable of every process, crashed or not, keeps its type. *)
THEOREM Types == Spec => []TypeOK
BY Invariant, PTL DEF Inv

(* No interleaving of ingestions, recoveries, repairs and crashes adds to what
   a pending deletion is about to delete, or takes anything out of it. *)
THEOREM FrozenClosure == Spec => []ClosureIsFrozen
BY Invariant, PTL DEF Inv, WorldInv

(* What a reader sees is neither hidden nor owned by preparing runs only. *)
LEMMA InvReadable == Inv => PublishedIsReadable
<1> SUFFICES ASSUME Inv, NEW e \in VisibleEvidence PROVE EvidenceDigest[e] \in cas
  BY DEF PublishedIsReadable, DigestsOf
<1>1. e \in evidence /\ e \notin Hidden /\ OwnershipVisible(e)
  BY DEF VisibleEvidence
<1> QED BY <1>1 DEF Inv, LostIsInvisible, OwnershipVisible

(* An evidence reference a reader can see always has its artifact in the
   store: for any number of processes that ingest, clean up, repair and delete
   runs and sources that share artifacts, frames and evidence, and that die at
   any step. *)
THEOREM Readable == Spec => []PublishedIsReadable
BY Invariant, InvReadable, PTL

-----------------------------------------------------------------------------
(* The coordinator writes a row together with the edge that owns it, so, as
   against any client of the store, it never leaves a row without an owner. *)
RowsAreOwned == \A x \in frames \cup evidence : OwnersOf(x) # {}

(* What a published run owns is its whole manifest. *)
CommittedOwnAll ==
    \A r \in Run : runState[r] = "committed" => RunFrames(r) \cup RunEvidence[r] \subseteq OwnedBy(r)

(* How far the session that ingests has come. *)
IngestOwns ==
    /\ pc = "ing_promote" => handles \subseteq intents
    /\ pc \in {"ing_evidence", "ing_finalize",
              "per_observations", "per_tracklets", "per_links", "per_finalize"} =>
          RunFrames(target) \subseteq OwnedBy(target)
    /\ pc \in {"ing_finalize", "per_links", "per_finalize"} =>
          RunEvidence[target] \subseteq OwnedBy(target)
    /\ pc = "ing_verify" => target \in Published

(* A removal session still lists every file it found that is still there. *)
RemovalsAreListed ==
    /\ pc \in {"rec_purge", "del_purge"} => StagingOf(closure[target] \cap Run) \subseteq discards
    /\ pc = "rec_finish" => CleanupArtifacts(target) \cap cas \subseteq unlinks
    /\ pc = "rec_end" => StagingOf(Run) \subseteq discards

(* A recovery that lists runs has no deletion left, and every run with
   something to clean is still on its list or is the one being cleaned. *)
ToClean == {r \in Run : runState[r] = "preparing" \/ IntentsOf({r}) # {}}

RecoveryInv ==
    /\ pc \in {"rec_runs", "rec_finish", "rec_end"} => ActiveJobs = {}
    /\ pc = "rec_runs" => ToClean \subseteq queue
    /\ pc = "rec_finish" => ToClean \subseteq queue \cup {target}
    /\ pc = "rec_end" => ToClean = {}

(* The tables and the files. *)
FilesInv ==
    /\ AuditInv
    /\ RowsAreOwned /\ CommittedOwnAll
    /\ NoOrphanBytes

(* The session's progress. *)
ProgressInv == IngestOwns /\ RemovalsAreListed /\ RecoveryInv

SoundInv == Inv /\ FilesInv /\ ProgressInv

-----------------------------------------------------------------------------
(* Neither tables nor files, before the first call. *)
LEMMA InitialSound == Init => SoundInv
<1> SUFFICES ASSUME Init PROVE SoundInv
  OBVIOUS
<1>1. Inv
  BY InitialInv
<1>2. AuditInv
  BY InitAudit DEF Init
<1>3. RowsAreOwned /\ CommittedOwnAll /\ NoOrphanBytes
  BY DEF Init, WorldInit, StoreInit, RowsAreOwned, CommittedOwnAll, NoOrphanBytes, FilesInDirs
<1>4. ProgressInv
  BY DEF Init, ProgressInv, IngestOwns, RemovalsAreListed, RecoveryInv
<1> QED BY <1>1, <1>2, <1>3, <1>4 DEF SoundInv, FilesInv

(* The parts that only read the tables. *)
LEMMA QuietTables ==
    ASSUME FilesInv, UNCHANGED worldVars, NoOrphanBytes'
    PROVE  FilesInv'
<1>1. AuditInv'
  BY StutterAudit DEF FilesInv
<1>2. RowsAreOwned' /\ CommittedOwnAll'
  BY DEF FilesInv, RowsAreOwned, CommittedOwnAll, OwnersOf, OwnedBy, worldVars, recordVars
<1> QED BY <1>1, <1>2 DEF FilesInv

(* Steps that only move the session along. *)
LEMMA QuietFiles ==
    ASSUME FilesInv, UNCHANGED <<worldVars, storeVars>>
    PROVE  FilesInv'
<1>1. NoOrphanBytes'
  BY DEF FilesInv, NoOrphanBytes, FilesInDirs, Runs, DigestsOf, worldVars, recordVars, storeVars
<1> QED BY <1>1, QuietTables

(* The steps at which something is said of the session's progress. *)
ProgressSteps == {"ing_promote", "ing_evidence", "ing_finalize", "ing_verify", "rec_purge",
                  "del_purge", "rec_finish", "rec_end", "rec_runs",
                  "per_observations", "per_tracklets", "per_links", "per_finalize"}

(* At the other steps `ProgressInv` says nothing. *)
LEMMA NothingToSay == pc' \notin ProgressSteps => ProgressInv'
BY DEF ProgressSteps, ProgressInv, IngestOwns, RemovalsAreListed, RecoveryInv

(* Every step after which the session is over or stands where nothing is said
   of its progress. *)
LEMMA QuietSound ==
    ASSUME FilesInv, UNCHANGED <<worldVars, storeVars>>, pc' \notin ProgressSteps
    PROVE  FilesInv' /\ ProgressInv'
BY QuietFiles, NothingToSay

-----------------------------------------------------------------------------
(* What the operations of the evidence store leave behind. *)

(* A file is staged in the directory of a run that the tables know. *)
LEMMA StageOrphans ==
    ASSUME NoOrphanBytes, UNCHANGED worldVars, NEW r \in Runs, NEW x, NEW n,
           Stage(r, x, n) \/ StageInterrupted(r, n)
    PROVE  NoOrphanBytes'
<1>1. Runs' = Runs /\ UNCHANGED <<evidence, intents, cas>>
  BY DEF Stage, StageInterrupted, worldVars, recordVars, Runs
<1>2. runDirs' = runDirs \cup {r}
  BY DEF Stage, StageInterrupted
<1>3. /\ \A h \in staged' : h \in staged \/ h.run = r
      /\ \A f \in incomplete' : f \in incomplete \/ f.run = r
  BY DEF Stage, StageInterrupted
<1> QED BY <1>1, <1>2, <1>3 DEF NoOrphanBytes, FilesInDirs, DigestsOf

(* A promoted file is one that an intent announces. *)
LEMMA PromoteOrphans ==
    ASSUME NoOrphanBytes, UNCHANGED worldVars, NEW h \in intents,
           CommitStage(h) \/ CommitStageInterrupted(h)
    PROVE  NoOrphanBytes'
<1>1. Runs' = Runs /\ UNCHANGED <<evidence, intents>>
  BY DEF worldVars, recordVars, Runs
<1>2. /\ cas' = cas \cup {h.digest} /\ staged' = staged \ {h} /\ incomplete' = incomplete
      /\ runDirs' = runDirs \/ runDirs' = DirsWithout(h.run, staged', incomplete)
  BY DEF CommitStage, CommitStageInterrupted
<1>3. FilesInDirs' /\ runDirs' \subseteq runDirs
  BY <1>2 DEF NoOrphanBytes, FilesInDirs, DirsWithout
<1> QED BY <1>1, <1>2, <1>3 DEF NoOrphanBytes, DigestsOf

(* What is removed leaves less behind. *)
LEMMA RemoveOrphans ==
    ASSUME NoOrphanBytes, UNCHANGED worldVars, NEW h, NEW f, NEW r, NEW x,
           \/ DiscardStage(h) \/ DiscardStageInterrupted(h)
           \/ DiscardIncomplete(f) \/ DiscardIncompleteInterrupted(f)
           \/ DiscardEmptyRun(r) \/ DeleteArtifact(x)
    PROVE  NoOrphanBytes'
<1>1. Runs' = Runs /\ UNCHANGED <<evidence, intents>>
  BY DEF worldVars, recordVars, Runs
<1>2. cas' \subseteq cas /\ staged' \subseteq staged /\ incomplete' \subseteq incomplete
  BY DEF DiscardStage, DiscardStageInterrupted, DiscardIncomplete,
      DiscardIncompleteInterrupted, DiscardEmptyRun, DeleteArtifact
<1>3. runDirs' \subseteq runDirs
  BY DEF DiscardStage, DiscardStageInterrupted, DiscardIncomplete,
      DiscardIncompleteInterrupted, DiscardEmptyRun, DeleteArtifact, DirsWithout
<1>4. FilesInDirs'
  <2> USE DEF NoOrphanBytes, FilesInDirs, DirsWithout
  <2>1. CASE DiscardStage(h) \/ DiscardStageInterrupted(h)
    BY <2>1 DEF DiscardStage, DiscardStageInterrupted
  <2>2. CASE DiscardIncomplete(f) \/ DiscardIncompleteInterrupted(f)
    BY <2>2 DEF DiscardIncomplete, DiscardIncompleteInterrupted
  <2>3. CASE DiscardEmptyRun(r)
    BY <2>3 DEF DiscardEmptyRun, CanDiscardEmptyRun
  <2>4. CASE DeleteArtifact(x)
    BY <2>4 DEF DeleteArtifact
  <2> QED BY <2>1, <2>2, <2>3, <2>4
<1> QED BY <1>1, <1>2, <1>3, <1>4 DEF NoOrphanBytes, DigestsOf

(* A session that discards staging entries still lists what is left. *)
LEMMA DiscardListed ==
    ASSUME StoreTypeOK, DiscardOne, NEW rs, StagingOf(rs) \subseteq discards
    PROVE  /\ \A h \in staged' : h.run \in rs => h \in discards'
           /\ \A f \in incomplete' : f.run \in rs => f \in discards'
           /\ \A r \in EmptyRuns' \cap rs : r \in discards'
<1>0. \A h \in StagedFile, f \in IncompleteFile : h # f
  <2> SUFFICES ASSUME NEW h \in StagedFile, NEW f \in IncompleteFile PROVE h # f
    OBVIOUS
  <2>1. DOMAIN h = {"run", "digest", "name"} /\ DOMAIN f = {"run", "name"}
    BY DEF StagedFile, IncompleteFile
  <2> QED BY <2>1
<1>1. /\ \A h \in StagedFile : h \notin Run
      /\ \A f \in IncompleteFile : f \notin Run
  BY FilesAreNotRuns
<1>2. /\ \A h \in staged : h \in StagedFile /\ (h.run \in rs => h \in discards)
      /\ \A f \in incomplete : f \in IncompleteFile /\ (f.run \in rs => f \in discards)
      /\ \A r \in runDirs : r \in Run
      /\ \A r \in runDirs \cap rs : CanDiscardEmptyRun(r) => r \in discards
  BY DEF StagingOf, StoreTypeOK, EmptyRuns
<1>3. SUFFICES /\ \A h \in staged' : h.run \in rs => h \in discards'
               /\ \A f \in incomplete' : f.run \in rs => f \in discards'
               /\ \A r \in runDirs' \cap rs : CanDiscardEmptyRun(r)' => r \in discards'
  BY DEF EmptyRuns
<1>4. ASSUME NEW h \in StagedFile, DiscardStage(h), discards' = discards \ {h}
      PROVE  /\ \A g \in staged' : g.run \in rs => g \in discards'
             /\ \A f \in incomplete' : f.run \in rs => f \in discards'
             /\ \A r \in runDirs' \cap rs : CanDiscardEmptyRun(r)' => r \in discards'
  <2>1. /\ staged' = staged \ {h} /\ incomplete' = incomplete
        /\ runDirs' = DirsWithout(h.run, staged', incomplete)
    BY <1>4 DEF DiscardStage
  <2>2. /\ \A g \in staged' : g.run \in rs => g \in discards'
        /\ \A f \in incomplete' : f.run \in rs => f \in discards'
    BY <2>1, <1>4, <1>0, <1>2
  <2>3. ASSUME NEW r \in runDirs' \cap rs, CanDiscardEmptyRun(r)'
        PROVE  r \in discards'
    <3>1. r # h.run /\ r \in runDirs
      BY <2>1, <2>3 DEF DirsWithout, CanDiscardEmptyRun
    <3>2. CanDiscardEmptyRun(r)
      BY <2>1, <2>3, <3>1 DEF CanDiscardEmptyRun
    <3> QED BY <3>1, <3>2, <2>3, <1>1, <1>2, <1>4
  <2> QED BY <2>2, <2>3
<1>5. ASSUME NEW f \in IncompleteFile, DiscardIncomplete(f), discards' = discards \ {f}
      PROVE  /\ \A h \in staged' : h.run \in rs => h \in discards'
             /\ \A g \in incomplete' : g.run \in rs => g \in discards'
             /\ \A r \in runDirs' \cap rs : CanDiscardEmptyRun(r)' => r \in discards'
  <2>1. /\ incomplete' = incomplete \ {f} /\ staged' = staged
        /\ runDirs' = DirsWithout(f.run, staged, incomplete')
    BY <1>5 DEF DiscardIncomplete
  <2>2. /\ \A h \in staged' : h.run \in rs => h \in discards'
        /\ \A g \in incomplete' : g.run \in rs => g \in discards'
    BY <2>1, <1>5, <1>0, <1>2
  <2>3. ASSUME NEW r \in runDirs' \cap rs, CanDiscardEmptyRun(r)'
        PROVE  r \in discards'
    <3>1. r # f.run /\ r \in runDirs
      BY <2>1, <2>3 DEF DirsWithout, CanDiscardEmptyRun
    <3>2. CanDiscardEmptyRun(r)
      BY <2>1, <2>3, <3>1 DEF CanDiscardEmptyRun
    <3> QED BY <3>1, <3>2, <2>3, <1>1, <1>2, <1>5
  <2> QED BY <2>2, <2>3
<1>6. ASSUME NEW q \in Run, DiscardEmptyRun(q), discards' = discards \ {q}
      PROVE  /\ \A h \in staged' : h.run \in rs => h \in discards'
             /\ \A f \in incomplete' : f.run \in rs => f \in discards'
             /\ \A r \in runDirs' \cap rs : CanDiscardEmptyRun(r)' => r \in discards'
  BY <1>6, <1>1, <1>2 DEF DiscardEmptyRun, CanDiscardEmptyRun
<1> QED BY <1>4, <1>5, <1>6 DEF DiscardOne

-----------------------------------------------------------------------------
(* Sessions that begin, end or fail, and steps that only choose what is next. *)

LEMMA EndSound ==
    ASSUME SoundInv,
           \/ EndRecover \/ EndRepair \/ IngestVerify
           \/ CheckpointBusy \/ Crash \/ Raise
    PROVE  FilesInv' /\ ProgressInv'
<1>1. UNCHANGED <<worldVars, storeVars>> /\ pc' = "free"
  BY DEF EndRecover, EndRepair, IngestVerify, CheckpointBusy, Crash, Raise, Leave
<1> QED BY <1>1, QuietSound DEF SoundInv, ProgressSteps

(* A process dies inside an operation: it leaves at most a file or an empty
   directory of a run that is known, or an artifact with an intent. *)
LEMMA CrashInsideSound ==
    ASSUME SoundInv, CrashInside PROVE FilesInv' /\ ProgressInv'
<1>1. pc' = "free" /\ UNCHANGED worldVars
  BY DEF CrashInside, Leave
<1>2. NoOrphanBytes
  BY DEF SoundInv, FilesInv
<1>3. NoOrphanBytes'
  <2>1. ASSUME NEW n, At("ing_stage"), StageInterrupted(target, n) PROVE NoOrphanBytes'
    <3>1. target \in Runs
      BY <2>1 DEF SoundInv, Inv, IngestInv, SessionShape, IngestSteps, At, Runs
    <3> QED BY <1>1, <1>2, <2>1, <3>1, StageOrphans
  <2>2. ASSUME NEW h \in handles, At("ing_promote"), CommitStageInterrupted(h)
        PROVE  NoOrphanBytes'
    <3>1. h \in intents
      BY <2>2 DEF SoundInv, ProgressInv, IngestOwns, At
    <3> QED BY <1>1, <1>2, <2>2, <3>1, PromoteOrphans
  <2> QED BY <1>1, <1>2, <2>1, <2>2, RemoveOrphans DEF CrashInside
<1> QED BY <1>1, <1>3, QuietTables, NothingToSay DEF SoundInv, ProgressSteps

(* A process without the lock goes away, or is refused. *)
LEMMA OutsideSound ==
    ASSUME SoundInv, UNCHANGED <<worldVars, storeVars, sessionVars>>
    PROVE  FilesInv' /\ ProgressInv'
<1>1. IngestOwns'
  BY DEF SoundInv, ProgressInv, IngestOwns, OwnedBy, Published, Hidden, sessionVars,
      worldVars, recordVars, jobVars
<1>2. RemovalsAreListed'
  BY DEF SoundInv, ProgressInv, RemovalsAreListed, StagingOf, EmptyRuns, CanDiscardEmptyRun,
      CleanupArtifacts, CleanupDigests, IntentsOf, DigestsOf, OwnedBy, OwnersOf, sessionVars,
      storeVars, worldVars, recordVars, jobVars
<1>3. RecoveryInv'
  BY DEF SoundInv, ProgressInv, RecoveryInv, ActiveJobs, ToClean, IntentsOf, sessionVars,
      worldVars, recordVars, jobVars
<1> QED BY <1>1, <1>2, <1>3, QuietFiles DEF SoundInv, ProgressInv

(* The sessions that begin where nothing is said of their progress. *)
LEMMA StartSound ==
    ASSUME SoundInv, NEW p, NEW l \in Steps \ ProgressSteps, NEW t, Enter(p, l, t),
           UNCHANGED <<worldVars, storeVars>>
    PROVE  FilesInv' /\ ProgressInv'
BY QuietSound DEF SoundInv, Enter

(* An ingestion that finds its run committed finds it published. *)
LEMMA StartIngestSound ==
    ASSUME SoundInv, NEW p, NEW r \in Run, StartIngest(p, r)
    PROVE  FilesInv' /\ ProgressInv'
<1>1. UNCHANGED <<worldVars, storeVars>>
  BY DEF StartIngest
<1>2. CASE ExistingState(r) = "committed"
  <2>1. pc' = "ing_verify" /\ target' = r
    BY <1>2 DEF StartIngest, Enter
  <2>2. r \in Published
    BY <1>2 DEF ExistingState, Published
  <2>3. Published' = Published
    BY <1>1 DEF Published, Hidden, worldVars, jobVars
  <2>4. ProgressInv'
    BY <2>1, <2>2, <2>3 DEF ProgressInv, IngestOwns, RemovalsAreListed, RecoveryInv
  <2> QED BY <1>1, <2>4, QuietFiles DEF SoundInv
<1>3. CASE ExistingState(r) # "committed"
  <2>1. Enter(p, "ing_prepare", r)
    BY <1>3 DEF StartIngest
  <2> QED BY <1>1, <2>1, StartSound DEF Steps, ProgressSteps
<1> QED BY <1>2, <1>3

(* The scan before the removal of a source's files lists all of them. *)
LEMMA RemovalStartsSound ==
    ASSUME SoundInv, RemoveFiles \/ \E d \in DeletionId : ResumePending(d)
    PROVE  FilesInv' /\ ProgressInv'
<1>1. /\ UNCHANGED <<worldVars, storeVars>>
      /\ pc' \in {"rec_purge", "del_purge"}
      /\ discards' = StagingOf(closure[target'] \cap Run)
  BY DEF RemoveFiles, ResumePending
<1>2. StagingOf(closure[target'] \cap Run) = StagingOf(closure[target] \cap Run)'
  BY <1>1 DEF StagingOf, EmptyRuns, CanDiscardEmptyRun, storeVars, worldVars, jobVars
<1>3. ProgressInv'
  BY <1>1, <1>2 DEF ProgressInv, IngestOwns, RemovalsAreListed, RecoveryInv
<1> QED BY <1>1, <1>3, QuietFiles DEF SoundInv

(* With no deletion left, nothing hides a run from the recovery, and a run
   with an intent is one the recovery acts on. *)
LEMMA NothingHidden == Inv /\ ActiveJobs = {} => Hidden = {}
BY DEF Inv, WorldInv, OnlyPendingHides, ActiveJobs, Hidden

LEMMA ListsRunsSound ==
    ASSUME SoundInv, ListsRuns PROVE FilesInv' /\ ProgressInv'
<1>1. /\ UNCHANGED <<worldVars, storeVars>>
      /\ pc' = "rec_runs" /\ ActiveJobs = {} /\ ActionableRuns \subseteq queue'
  BY DEF ListsRuns
<1>2. Hidden = {}
  BY <1>1, NothingHidden DEF SoundInv
<1>3. ToClean \subseteq ActionableRuns
  <2> SUFFICES ASSUME NEW r \in Run, runState[r] # "preparing", IntentsOf({r}) # {}
               PROVE  runState[r] \in {"failed", "cancelled"}
    BY <1>2 DEF ToClean, ActionableRuns
  <2>1. PICK i \in intents : i.run = r
    BY DEF IntentsOf
  <2> QED BY <2>1 DEF SoundInv, FilesInv, AuditInv, IntentsAreOpen
<1>4. ToClean' = ToClean /\ ActiveJobs' = ActiveJobs
  BY <1>1 DEF ToClean, IntentsOf, ActiveJobs, worldVars, jobVars
<1>5. ProgressInv'
  BY <1>1, <1>3, <1>4 DEF ProgressInv, IngestOwns, RemovalsAreListed, RecoveryInv
<1> QED BY <1>1, <1>5, QuietFiles DEF SoundInv

(* A run leaves the list when it has nothing to clean, or to be cleaned. *)
LEMMA PlanRunSound ==
    ASSUME SoundInv, NEW r \in Run, PlanRun(r) PROVE FilesInv' /\ ProgressInv'
<1>1. UNCHANGED <<worldVars, storeVars>> /\ pc = "rec_runs" /\ queue' = queue \ {r}
  BY DEF PlanRun, At
<1>2. /\ ToClean' = ToClean /\ ActiveJobs' = ActiveJobs /\ cas' = cas
      /\ CleanupArtifacts(r)' = CleanupArtifacts(r)
  BY <1>1 DEF ToClean, IntentsOf, ActiveJobs, CleanupArtifacts, CleanupDigests, DigestsOf,
      OwnedBy, OwnersOf, worldVars, recordVars, jobVars, storeVars
<1>3. ToClean \subseteq queue /\ ActiveJobs = {}
  BY <1>1 DEF SoundInv, ProgressInv, RecoveryInv
<1>4. CASE NothingToClean(r)
  <2>1. pc' = "rec_runs" /\ r \notin ToClean
    BY <1>1, <1>4 DEF PlanRun, NothingToClean, ToClean
  <2>2. ProgressInv'
    BY <1>1, <1>2, <1>3, <2>1 DEF ProgressInv, IngestOwns, RemovalsAreListed, RecoveryInv
  <2> QED BY <1>1, <2>2, QuietFiles DEF SoundInv
<1>5. CASE ~NothingToClean(r)
  <2>1. pc' = "rec_finish" /\ target' = r /\ unlinks' = CleanupArtifacts(r)
    BY <1>5 DEF PlanRun
  <2>2. CleanupArtifacts(target)' = CleanupArtifacts(r)
    BY <2>1, <1>1 DEF CleanupArtifacts, CleanupDigests, IntentsOf, DigestsOf,
        OwnedBy, OwnersOf, worldVars, recordVars
  <2>3. ProgressInv'
    BY <1>1, <1>2, <1>3, <2>1, <2>2
      DEF ProgressInv, IngestOwns, RemovalsAreListed, RecoveryInv
  <2> QED BY <1>1, <2>3, QuietFiles DEF SoundInv
<1> QED BY <1>4, <1>5

(* The last scan of the recovery lists whatever staging still holds. *)
LEMMA ScanStagingSound ==
    ASSUME SoundInv, ScanStaging PROVE FilesInv' /\ ProgressInv'
<1>1. /\ UNCHANGED <<worldVars, storeVars>>
      /\ pc = "rec_runs" /\ queue = {} /\ pc' = "rec_end"
      /\ discards' = staged \cup incomplete \cup EmptyRuns
  BY DEF ScanStaging, At
<1>2. ToClean' = ToClean /\ ActiveJobs' = ActiveJobs
  BY <1>1 DEF ToClean, IntentsOf, ActiveJobs, worldVars, jobVars
<1>3. StagingOf(Run)' \subseteq discards'
  BY <1>1 DEF StagingOf, EmptyRuns, CanDiscardEmptyRun, storeVars
<1>4. ProgressInv'
  BY <1>1, <1>2, <1>3 DEF SoundInv, ProgressInv, IngestOwns, RemovalsAreListed, RecoveryInv
<1> QED BY <1>1, <1>4, QuietFiles DEF SoundInv

-----------------------------------------------------------------------------
(* Steps that change files. *)

LEMMA DiscardOneSound ==
    ASSUME SoundInv, DiscardOne PROVE FilesInv' /\ ProgressInv'
<1>1. UNCHANGED <<worldVars, proc, owner, pc, target, queue, unlinks, handles>>
  BY DEF DiscardOne
<1>2. NoOrphanBytes'
  BY <1>1, RemoveOrphans DEF DiscardOne, SoundInv, FilesInv
<1>3. pc \in RemovalSteps \cup {"rec_end"} /\ cas' = cas
  BY DEF DiscardOne, DiscardStage, DiscardIncomplete, DiscardEmptyRun, SoundInv, Inv, SessionShape
<1>4. IngestOwns'
  BY <1>1, <1>3 DEF IngestOwns, RemovalSteps
<1>5. StoreTypeOK
  BY DEF SoundInv, Inv, TypeOK
<1>6. closure' = closure /\ CleanupArtifacts(target)' = CleanupArtifacts(target)
  BY <1>1 DEF CleanupArtifacts, CleanupDigests, IntentsOf, DigestsOf,
      OwnedBy, OwnersOf, worldVars, recordVars, jobVars
<1>7. ASSUME pc \in {"rec_purge", "del_purge"}
      PROVE  StagingOf(closure[target] \cap Run)' \subseteq discards'
  <2> DEFINE rs == closure[target] \cap Run
  <2>1. StagingOf(rs) \subseteq discards /\ rs' = rs
    BY <1>1, <1>6, <1>7 DEF SoundInv, ProgressInv, RemovalsAreListed
  <2> HIDE DEF rs
  <2>2. /\ \A h \in staged' : h.run \in rs => h \in discards'
        /\ \A f \in incomplete' : f.run \in rs => f \in discards'
        /\ \A r \in EmptyRuns' \cap rs : r \in discards'
    BY <2>1, <1>5, DiscardListed
  <2>3. StagingOf(rs)' \subseteq discards'
    BY <2>1, <2>2 DEF StagingOf
  <2> QED BY <2>3 DEF rs
<1>8. RemovalsAreListed'
  <2>1. ASSUME pc = "rec_end" PROVE StagingOf(Run)' \subseteq discards'
    <3>1. StagingOf(Run) \subseteq discards
      BY <2>1 DEF SoundInv, ProgressInv, RemovalsAreListed
    <3> QED BY <3>1, <1>5, DiscardListed DEF StagingOf
  <2> QED BY <2>1, <1>1, <1>3, <1>6, <1>7 DEF SoundInv, ProgressInv, RemovalsAreListed
<1>9. RecoveryInv'
  BY <1>1 DEF SoundInv, ProgressInv, RecoveryInv, ActiveJobs, ToClean, IntentsOf,
      worldVars, recordVars, jobVars
<1> QED BY <1>1, <1>2, <1>4, <1>8, <1>9, QuietTables DEF SoundInv, ProgressInv

(* An artifact is unlinked after everything in staging is gone. *)
LEMMA UnlinkOneSound ==
    ASSUME SoundInv, UnlinkOne PROVE FilesInv' /\ ProgressInv'
<1>1. PICK x \in unlinks : DeleteArtifact(x) /\ unlinks' = unlinks \ {x}
  BY DEF UnlinkOne
<1>2. /\ UNCHANGED <<worldVars, proc, owner, pc, target, queue, discards, handles,
                     staged, incomplete, runDirs>>
      /\ cas' = cas \ {x}
  BY <1>1 DEF UnlinkOne, DeleteArtifact
<1>3. NoOrphanBytes'
  BY <1>1, <1>2, RemoveOrphans DEF SoundInv, FilesInv
<1>4. pc \in RemovalSteps
  BY <1>1 DEF SoundInv, Inv, SessionShape
<1>5. IngestOwns'
  BY <1>2, <1>4 DEF IngestOwns, RemovalSteps
<1>6. /\ CleanupArtifacts(target)' = CleanupArtifacts(target)
      /\ StagingOf(closure[target] \cap Run)' = StagingOf(closure[target] \cap Run)
  BY <1>2 DEF CleanupArtifacts, CleanupDigests, IntentsOf, DigestsOf, OwnedBy, OwnersOf,
      StagingOf, EmptyRuns, CanDiscardEmptyRun, worldVars, recordVars, jobVars
<1>7. RemovalsAreListed'
  BY <1>1, <1>2, <1>4, <1>6 DEF SoundInv, ProgressInv, RemovalsAreListed, RemovalSteps
<1>8. RecoveryInv'
  BY <1>2 DEF SoundInv, ProgressInv, RecoveryInv, ActiveJobs, ToClean, IntentsOf,
      worldVars, recordVars, jobVars
<1> QED BY <1>2, <1>3, <1>5, <1>7, <1>8, QuietTables DEF SoundInv, ProgressInv

(* A file is staged for a run that is preparing. *)
LEMMA IngestStageSound ==
    ASSUME SoundInv, IngestStage PROVE FilesInv' /\ ProgressInv'
<1>1. /\ UNCHANGED worldVars /\ pc' = "ing_stage" /\ pc = "ing_stage"
      /\ \E x, n : Stage(target, x, n)
  BY DEF IngestStage, At
<1>2. target \in Runs
  BY <1>1 DEF SoundInv, Inv, IngestInv, SessionShape, IngestSteps, Runs
<1>3. NoOrphanBytes'
  BY <1>1, <1>2, StageOrphans DEF SoundInv, FilesInv
<1> QED BY <1>1, <1>3, QuietTables, NothingToSay DEF SoundInv, ProgressSteps

(* A file is promoted after its intent is recorded. *)
LEMMA IngestPromoteSound ==
    ASSUME SoundInv, IngestPromote PROVE FilesInv' /\ ProgressInv'
<1>1. PICK h \in handles : CommitStage(h)
  BY DEF IngestPromote
<1>2. UNCHANGED <<worldVars, sessionVars>> /\ pc = "ing_promote"
  BY DEF IngestPromote, At
<1>3. handles \subseteq intents
  BY <1>2 DEF SoundInv, ProgressInv, IngestOwns
<1>4. NoOrphanBytes'
  BY <1>1, <1>2, <1>3, PromoteOrphans DEF SoundInv, FilesInv
<1>5. ProgressInv'
  BY <1>2, <1>3
    DEF ProgressInv, IngestOwns, RemovalsAreListed, RecoveryInv, sessionVars, worldVars
<1> QED BY <1>2, <1>4, <1>5, QuietTables DEF SoundInv

(* A loop of the ingestion ends when nothing of it is left. *)
LEMMA LoopDoneSound ==
    ASSUME SoundInv, IngestLoopDone PROVE FilesInv' /\ ProgressInv'
<1>1. UNCHANGED <<worldVars, storeVars, target, handles>>
  BY DEF IngestLoopDone, LoopDone, Goto
<1>2. OwnedBy(target)' = OwnedBy(target) /\ intents' = intents
  BY <1>1 DEF OwnedBy, worldVars, recordVars
<1>3. \/ pc' \in {"ing_intents", "ing_frames"}
      \/ pc' = "ing_promote" /\ handles \subseteq intents
      \/ pc' = "ing_evidence" /\ RunFrames(target) \subseteq OwnedBy(target)
      \/ /\ pc = "ing_evidence" /\ pc' = "ing_finalize"
         /\ RunEvidence[target] \subseteq OwnedBy(target)
  BY DEF IngestLoopDone, LoopDone, Goto, At
<1>4. IngestOwns'
  BY <1>1, <1>2, <1>3 DEF SoundInv, ProgressInv, IngestOwns, RunFrames
<1>5. RemovalsAreListed' /\ RecoveryInv'
  BY <1>3 DEF RemovalsAreListed, RecoveryInv
<1> QED BY <1>1, <1>4, <1>5, QuietFiles DEF SoundInv, ProgressInv

-----------------------------------------------------------------------------
(* Steps that change the tables. *)

(* Rows are written together with the edges that own them. *)
LEMMA WriteOwned ==
    ASSUME RowsAreOwned, NEW rs, NEW fs, NEW es, WriteData(fs, es), rs \subseteq Run,
           runRecords' = runRecords \cup (rs \X (fs \cup es)),
           rs # {}
    PROVE  RowsAreOwned'
<1>1. /\ frames' = frames \cup fs /\ evidence' = evidence \cup es
  BY DEF WriteData
<1>2. \A x : OwnersOf(x) \subseteq OwnersOf(x)'
  BY DEF OwnersOf
<1>3. \A x \in fs \cup es : rs \subseteq OwnersOf(x)'
  BY DEF OwnersOf
<1> QED BY <1>1, <1>2, <1>3 DEF RowsAreOwned

(* Files are not touched, and the tables forget no run and no artifact. *)
LEMMA KeptOrphans ==
    ASSUME NoOrphanBytes, UNCHANGED storeVars, Runs \subseteq Runs', Referred \subseteq Referred'
    PROVE  NoOrphanBytes'
BY DEF NoOrphanBytes, FilesInDirs, Referred, storeVars

(* A run is prepared anew: it was not published. *)
LEMMA IngestPrepareSound ==
    ASSUME SoundInv, IngestPrepare PROVE FilesInv' /\ ProgressInv'
<1>1. /\ pc = "ing_prepare" /\ pc' = "ing_stage" /\ UNCHANGED storeVars
      /\ Commit({RunSource[target]}, {target}, "preparing", {}, {})
  BY DEF IngestPrepare, At, Goto, PrepareRun
<1>2. target \in Run
  BY <1>1, IngestTarget DEF SoundInv, IngestSteps
<1>3. AuditInv /\ WorldTypeOK
  BY DEF SoundInv, FilesInv, Inv, TypeOK
<1>4. IntentsAreOpen' /\ CatalogIsTight' /\ Referred \subseteq Referred'
  <2>1. {target} \in SUBSET Run /\ "preparing" \in RunStates \ {"absent"}
    BY <1>2 DEF RunStates
  <2> QED BY <1>1, <1>3, <2>1, CommitAudit
<1>5. /\ runState' = [runState EXCEPT ![target] = "preparing"]
      /\ runRecords' = runRecords
      /\ WriteData({}, {})
      /\ runState[target] # "committed"
  BY <1>1, <1>2, <1>3 DEF Commit, CanCommit, CanWriteRun, RunTransition, WorldTypeOK
<1>6. RowsAreOwned'
  BY <1>5 DEF WriteData, SoundInv, FilesInv, RowsAreOwned, OwnersOf
<1>7. CommittedOwnAll'
  BY <1>3, <1>5 DEF SoundInv, FilesInv, CommittedOwnAll, OwnedBy, WorldTypeOK
<1>8. NoOrphanBytes'
  <2>1. Runs \subseteq Runs'
    BY <1>3, <1>5 DEF Runs, WorldTypeOK
  <2> QED BY <1>1, <1>4, <2>1, KeptOrphans DEF SoundInv, FilesInv
<1>9. AuditInv'
  BY <1>4, IngestPrepareStep DEF AuditInv, SoundInv, Inv
<1> QED BY <1>1, <1>6, <1>7, <1>8, <1>9, NothingToSay DEF FilesInv, ProgressSteps

(* Intents are added for a run that is preparing. *)
LEMMA IngestIntentsSound ==
    ASSUME SoundInv, IngestIntents PROVE FilesInv' /\ ProgressInv'
<1>1. PICK B : RecordArtifactIntents(target, B)
  BY DEF IngestIntents
<1>2. UNCHANGED <<storeVars, sessionVars>> /\ pc = "ing_intents"
  BY DEF IngestIntents, At
<1>3. IntentsAreOpen' /\ CatalogIsTight' /\ Referred \subseteq Referred'
  BY <1>1, RecordIntentsAudit DEF SoundInv, FilesInv
<1>4. UNCHANGED <<recordVars, runState>>
  BY <1>1 DEF RecordArtifactIntents
<1>5. RowsAreOwned' /\ CommittedOwnAll' /\ Runs' = Runs
  BY <1>4 DEF SoundInv, FilesInv, RowsAreOwned, CommittedOwnAll, OwnersOf, OwnedBy, Runs, recordVars
<1>6. NoOrphanBytes'
  BY <1>2, <1>3, <1>5, KeptOrphans DEF SoundInv, FilesInv
<1>7. AuditInv'
  BY <1>3, IngestIntentsStep DEF AuditInv, SoundInv, Inv
<1>8. pc' \notin ProgressSteps
  BY <1>2 DEF sessionVars, ProgressSteps
<1> QED BY <1>5, <1>6, <1>7, <1>8, NothingToSay DEF FilesInv

(* Hidden batches add owned rows. *)
LEMMA IngestBatchSound ==
    ASSUME SoundInv, IngestFrames \/ IngestEvidence PROVE FilesInv' /\ ProgressInv'
<1>1. /\ UNCHANGED <<storeVars, sessionVars>>
      /\ pc \in {"ing_frames", "ing_evidence"}
      /\ \E fs, es : CommitForRun(target, fs, es)
  BY DEF IngestFrames, IngestEvidence, At
<1>2. PICK fs, es : CommitForRun(target, fs, es)
  BY <1>1
<1>3. target \in Run
  BY <1>1, IngestTarget DEF SoundInv, IngestSteps
<1>4. IntentsAreOpen' /\ CatalogIsTight' /\ Referred \subseteq Referred'
  BY <1>2, CommitForRunAudit DEF SoundInv, FilesInv
<1>5. /\ WriteData(fs, es) /\ runRecords' = runRecords \cup ({target} \X (fs \cup es))
      /\ UNCHANGED <<runState, intents, jobVars>>
  BY <1>2 DEF CommitForRun
<1>6. RowsAreOwned'
  <2>1. {target} \subseteq Run /\ {target} # {}
    BY <1>3
  <2> QED BY <1>5, <2>1, WriteOwned DEF SoundInv, FilesInv
<1>7. \A r : OwnedBy(r) \subseteq OwnedBy(r)'
  BY <1>5 DEF OwnedBy
<1>8. CommittedOwnAll'
  BY <1>5, <1>7 DEF SoundInv, FilesInv, CommittedOwnAll, RunFrames
<1>9. NoOrphanBytes'
  <2>1. Runs' = Runs
    BY <1>5 DEF Runs
  <2> QED BY <1>1, <1>4, <2>1, KeptOrphans DEF SoundInv, FilesInv
<1>10. AuditInv'
  BY <1>4, IngestBatchStep DEF AuditInv, SoundInv, Inv
<1>11. ProgressInv'
  <2>1. /\ pc' = pc /\ target' = target /\ OwnedBy(target) \subseteq OwnedBy(target)'
    BY <1>1, <1>5 DEF sessionVars, OwnedBy
  <2> QED BY <1>1, <2>1
        DEF SoundInv, ProgressInv, IngestOwns, RemovalsAreListed, RecoveryInv, RunFrames
<1> QED BY <1>6, <1>8, <1>9, <1>10, <1>11 DEF FilesInv

-----------------------------------------------------------------------------
(* finalize_run publishes a run that owns its whole manifest and that no
   deletion hides. *)
LEMMA FinalizeFiles ==
    ASSUME SoundInv, pc \in {"ing_finalize", "per_finalize"}, FinalizeRun(target, {}, {}),
           UNCHANGED storeVars
    PROVE  FilesInv' /\ target \in Published'
<1>1. target \in Run
  BY IngestTarget DEF SoundInv, IngestSteps
<1>2. IntentsAreOpen' /\ CatalogIsTight' /\ Referred \subseteq Referred'
  BY <1>1, FinalizeRunAudit DEF SoundInv, FilesInv
<1>3. /\ runState' = [runState EXCEPT ![target] = "committed"]
      /\ runState[target] # "absent"
      /\ runRecords' = runRecords /\ frames' = frames /\ evidence' = evidence
      /\ SourceWritable(RunSource[target])
      /\ UNCHANGED jobVars
  BY DEF FinalizeRun, CanFinalizeRun, WriteData
<1>4. WorldTypeOK /\ WorldInv
  BY DEF SoundInv, Inv, TypeOK
<1>5. RowsAreOwned'
  BY <1>3 DEF SoundInv, FilesInv, RowsAreOwned, OwnersOf
<1>6. CommittedOwnAll'
  <2>1. RunFrames(target) \cup RunEvidence[target] \subseteq OwnedBy(target)
    BY DEF SoundInv, ProgressInv, IngestOwns
  <2>2. \A r \in Run \ {target} : runState'[r] = runState[r]
    BY <1>3, <1>4 DEF WorldTypeOK
  <2> QED BY <2>1, <2>2, <1>3 DEF SoundInv, FilesInv, CommittedOwnAll, OwnedBy, RunFrames
<1>7. NoOrphanBytes'
  <2>1. Runs \subseteq Runs'
    BY <1>3, <1>4 DEF Runs, WorldTypeOK
  <2> QED BY <1>2, <2>1, KeptOrphans DEF SoundInv, FilesInv
<1>8. AuditInv'
  BY <1>2, FinalizeData DEF AuditInv, SoundInv, DataInv
<1>9. target \in Published'
  <2>1. target \in Runs
    BY <1>1, <1>3 DEF Runs
  <2>2. target \notin Hidden
    BY <1>3, <1>4, <2>1, HiddenBySource, WritableIsNotDeleted
  <2> QED BY <1>1, <1>3, <1>4, <2>2 DEF Published, Hidden, jobVars, WorldTypeOK
<1> QED BY <1>5, <1>6, <1>7, <1>8, <1>9 DEF FilesInv

LEMMA IngestFinalizeSound ==
    ASSUME SoundInv, IngestFinalize PROVE FilesInv' /\ ProgressInv'
<1>1. /\ pc = "ing_finalize" /\ pc' = "ing_verify"
      /\ UNCHANGED <<storeVars, target>>
      /\ FinalizeRun(target, {}, {})
  BY DEF IngestFinalize, At, Goto
<1>2. FilesInv' /\ target \in Published'
  BY <1>1, FinalizeFiles
<1> QED BY <1>1, <1>2 DEF ProgressInv, IngestOwns, RemovalsAreListed, RecoveryInv

(* finish_run_cleanup takes every row that only the run owns: a frame whose
   only owner it is has no evidence of another run. *)
LEMMA FinishRunSound ==
    ASSUME SoundInv, FinishRun PROVE FilesInv' /\ ProgressInv'
<1>1. /\ pc = "rec_finish" /\ pc' = "rec_runs" /\ unlinks = {}
      /\ UNCHANGED <<storeVars, queue>>
      /\ FinishRunCleanup(target)
  BY DEF FinishRun, At
<1>2. target \in Run
  BY <1>1 DEF SoundInv, Inv, SessionShape
<1>3. /\ IntentsAreOpen' /\ CatalogIsTight'
      /\ Referred \ CleanupArtifacts(target) \subseteq Referred'
  BY <1>1, <1>2, FinishRunCleanupAudit DEF SoundInv, FilesInv
<1>4. /\ evidence' = evidence \ CleanupEvidence(target)
      /\ frames' = frames \ CleanupFrames(target)
      /\ runRecords' = {o \in runRecords : o[1] # target}
      /\ runState' = [runState EXCEPT ![target] = IF @ = "preparing" THEN "failed" ELSE @]
      /\ runState[target] \in {"preparing", "failed", "cancelled"}
      /\ intents' = intents \ IntentsOf({target})
      /\ UNCHANGED jobVars
  BY <1>1 DEF FinishRunCleanup, CanFinishCleanup
<1>5. WorldTypeOK /\ WorldInv /\ RowsAreOwned
  BY DEF SoundInv, Inv, TypeOK, FilesInv
<1>6. RowsAreOwned'
  <2> SUFFICES ASSUME NEW x \in frames \cup evidence, OwnersOf(x) \subseteq {target}
               PROVE  x \notin frames' \cup evidence'
    BY <1>4 DEF RowsAreOwned, OwnersOf
  <2>1. OwnersOf(x) = {target} /\ x \in OnlyOwned(target)
    BY <1>5 DEF RowsAreOwned, OnlyOwned, OwnedBy, OwnersOf, WorldTypeOK
  <2>2. CASE x \in evidence
    BY <2>1, <2>2, <1>4, <1>5, RecordKinds DEF CleanupEvidence, WorldTypeOK
  <2>3. CASE x \in frames
    <3> SUFFICES ASSUME NEW e \in evidence, EvidenceFrame[e] = x
                 PROVE  e \in CleanupEvidence(target)
      BY <2>1, <2>3, <1>4, <1>5, RecordKinds DEF CleanupFrames, WorldTypeOK
    <3>1. OwnersOf(e) # {} /\ e \in Evidence
      BY <1>5 DEF RowsAreOwned, WorldTypeOK
    <3>2. OwnersOf(e) \subseteq OwnersOf(x)
      BY <1>5, <3>1 DEF OwnersOf, WorldInv, OwnershipIsSound
    <3>3. OwnersOf(e) = {target}
      BY <2>1, <3>1, <3>2
    <3> QED BY <3>1, <3>3 DEF CleanupEvidence, OnlyOwned, OwnedBy, OwnersOf
  <2> QED BY <2>2, <2>3
<1>7. CommittedOwnAll'
  BY <1>4, <1>5 DEF SoundInv, FilesInv, CommittedOwnAll, OwnedBy, WorldTypeOK
<1>8. NoOrphanBytes'
  <2>1. Runs' = Runs
    BY <1>4, <1>5 DEF Runs, WorldTypeOK
  <2>2. cas \cap CleanupArtifacts(target) = {}
    BY <1>1 DEF SoundInv, ProgressInv, RemovalsAreListed
  <2>3. cas \subseteq Referred
    BY DEF SoundInv, FilesInv, NoOrphanBytes, Referred
  <2>4. cas' \subseteq Referred'
    BY <1>1, <1>3, <2>2, <2>3 DEF storeVars
  <2> QED BY <1>1, <2>1, <2>4 DEF SoundInv, FilesInv, NoOrphanBytes, FilesInDirs, Referred, storeVars
<1>9. AuditInv'
  BY <1>3, FinishRunStep DEF AuditInv, SoundInv, Inv
<1>10. ProgressInv'
  <2>1. ToClean' \subseteq ToClean \ {target}
    BY <1>4, <1>5 DEF ToClean, IntentsOf, WorldTypeOK
  <2>2. ActiveJobs' = ActiveJobs
    BY <1>4 DEF ActiveJobs, jobVars
  <2> QED BY <1>1, <2>1, <2>2 DEF SoundInv, ProgressInv, IngestOwns, RemovalsAreListed, RecoveryInv
<1> QED BY <1>6, <1>7, <1>8, <1>9, <1>10 DEF FilesInv

(* A deletion begins or is completed: no row and no file is touched. *)
LEMMA DeletionMarksSound ==
    ASSUME SoundInv, NEW s, NEW d, BeginSourceDeletion(s, d) \/ CompleteDeletion(d),
           UNCHANGED storeVars, pc' \notin ProgressSteps, Inv'
    PROVE  FilesInv' /\ ProgressInv'
<1>1. IntentsAreOpen' /\ CatalogIsTight' /\ Referred' = Referred
  BY DeletionAudit DEF SoundInv, FilesInv
<1>2. UNCHANGED <<recordVars, runState>>
  BY DEF BeginSourceDeletion, CompleteDeletion
<1>3. RowsAreOwned' /\ CommittedOwnAll' /\ Runs' = Runs
  BY <1>2 DEF SoundInv, FilesInv, RowsAreOwned, CommittedOwnAll, OwnersOf, OwnedBy, Runs, recordVars
<1>4. NoOrphanBytes'
  BY <1>1, <1>3, KeptOrphans DEF SoundInv, FilesInv
<1>5. AuditInv'
  BY <1>1 DEF AuditInv, Inv
<1> QED BY <1>3, <1>4, <1>5, NothingToSay DEF FilesInv

LEMMA StartDeletionSound ==
    ASSUME SoundInv, NEW p \in Process, NEW s \in Source, NEW d \in DeletionId,
           StartDeletion(p, s, d)
    PROVE  FilesInv' /\ ProgressInv'
BY DeletionMarksSound, StartDeletionStep DEF StartDeletion, Enter, ProgressSteps, SoundInv

LEMMA CompleteSound ==
    ASSUME SoundInv, Complete PROVE FilesInv' /\ ProgressInv'
BY DeletionMarksSound, CompleteStep DEF Complete, Goto, Leave, ProgressSteps, SoundInv

(* The purge finds no file of its source: what its plan lists is gone, and what
   remains is of other sources or referred to by them. *)
LEMMA PurgeFindsNoFile ==
    ASSUME SoundInv, PurgeMetadata
    PROVE  /\ \A r \in runDirs : RunSource[r] # jobRoot[target]
           /\ cas \subseteq Referred'
           /\ target \in DeletionId /\ PurgeDeletionMetadata(target, cas)
<1>1. /\ pc \in {"rec_purge", "del_purge"} /\ discards = {}
      /\ PurgeDeletionMetadata(target, cas)
  BY DEF PurgeMetadata, At
<1>2. target \in DeletionId
  BY <1>1 DEF SoundInv, Inv, SessionShape, DeletionSteps
<1>3. \A r \in runDirs : RunSource[r] # jobRoot[target]
  <2> SUFFICES ASSUME NEW r \in runDirs, RunSource[r] = jobRoot[target] PROVE FALSE
    OBVIOUS
  <2>1. r \in Runs
    BY DEF SoundInv, FilesInv, NoOrphanBytes
  <2>2. r \in closure[target] \cap Run
    BY <1>1, <2>1 DEF PurgeDeletionMetadata, CanPurge, PlanLoads, SourceClosure, Runs
  <2>3. StagingOf(closure[target] \cap Run) = {}
    BY <1>1 DEF SoundInv, ProgressInv, RemovalsAreListed
  <2> QED BY <2>2, <2>3 DEF StagingOf, EmptyRuns, CanDiscardEmptyRun
<1>4. cas \subseteq Referred'
  <2>1. Referred \ required[target] \subseteq Referred'
    BY <1>1, <1>2, PurgeAudit DEF SoundInv, FilesInv
  <2>2. required[target] \cap cas = {}
    BY <1>1 DEF PurgeDeletionMetadata, CanPurge
  <2>3. cas \subseteq Referred
    BY DEF SoundInv, FilesInv, NoOrphanBytes, Referred
  <2> QED BY <2>1, <2>2, <2>3
<1> QED BY <1>1, <1>2, <1>3, <1>4

LEMMA PurgeMetadataSound ==
    ASSUME SoundInv, PurgeMetadata PROVE FilesInv' /\ ProgressInv'
<1> DEFINE s == jobRoot[target]
           kept == {r \in Runs : RunSource[r] # s}
<1>1. pc' \in {"rec_complete", "del_complete"} /\ UNCHANGED storeVars
  BY DEF PurgeMetadata
<1>2. /\ \A r \in runDirs : RunSource[r] # s
      /\ cas \subseteq Referred'
      /\ target \in DeletionId /\ PurgeDeletionMetadata(target, cas)
  BY PurgeFindsNoFile
<1>3. /\ frames' = {f \in frames : FrameSource[f] # s}
      /\ evidence' = {e \in evidence : EvidenceFrame[e] \in frames'}
      /\ runState' = [r \in Run |-> IF r \in kept THEN runState[r] ELSE "absent"]
      /\ runRecords' = {o \in runRecords : o[1] \in kept}
  BY <1>2 DEF PurgeDeletionMetadata
<1>4. IntentsAreOpen' /\ CatalogIsTight'
  BY <1>2, PurgeAudit DEF SoundInv, FilesInv
<1>5. WorldTypeOK /\ OwnershipIsSound /\ RowsAreOwned
  BY DEF SoundInv, Inv, WorldInv, TypeOK, FilesInv
<1>6. RowsAreOwned'
  <2> SUFFICES ASSUME NEW x \in frames' \cup evidence'
               PROVE  OwnersOf(x)' # {}
    BY DEF RowsAreOwned
  <2>1. PICK r \in Run : <<r, x>> \in runRecords
    BY <1>3, <1>5 DEF RowsAreOwned, OwnersOf
  <2>2. RunSource[r] # s /\ r \in Runs
    <3>1. /\ r \in Runs
          /\ x \in Frame => FrameSource[x] = RunSource[r]
          /\ x \in Evidence => FrameSource[EvidenceFrame[x]] = RunSource[r]
      BY <2>1, <1>5 DEF OwnershipIsSound
    <3>2. CASE x \in frames'
      BY <3>1, <3>2, <1>3, <1>5 DEF WorldTypeOK
    <3>3. CASE x \in evidence'
      BY <3>1, <3>3, <1>3, <1>5 DEF WorldTypeOK
    <3> QED BY <3>1, <3>2, <3>3
  <2> QED BY <2>1, <2>2, <1>3 DEF OwnersOf
<1>7. CommittedOwnAll'
  BY <1>3 DEF SoundInv, FilesInv, CommittedOwnAll, OwnedBy, Runs
<1>8. NoOrphanBytes'
  <2>1. \A r \in runDirs : r \in Runs'
    BY <1>2, <1>3 DEF SoundInv, FilesInv, NoOrphanBytes, Runs
  <2> QED BY <1>1, <1>2, <2>1
        DEF SoundInv, FilesInv, NoOrphanBytes, FilesInDirs, Referred, storeVars
<1>9. AuditInv'
  BY <1>4, PurgeMetadataStep DEF AuditInv, SoundInv, Inv
<1> QED BY <1>1, <1>6, <1>7, <1>8, <1>9, NothingToSay DEF FilesInv, ProgressSteps

-----------------------------------------------------------------------------
(* Every step preserves the invariant. *)
LEMMA StepSound == ASSUME SoundInv, [Next]_vars PROVE SoundInv'
<1>1. Inv'
  BY StepInv DEF SoundInv
<1>2. FilesInv' /\ ProgressInv'
  <2>1. CASE RecoverStep
    <3>1. ASSUME NEW d \in DeletionId, ResumePurged(d) PROVE FilesInv' /\ ProgressInv'
      BY <3>1, QuietSound DEF ResumePurged, SoundInv, ProgressSteps
    <3>2. ASSUME ListRuns PROVE FilesInv' /\ ProgressInv'
      BY <3>2, ListsRunsSound DEF ListRuns, ListsRuns, ActionableRuns
    <3> QED BY <2>1, <3>1, <3>2, RemovalStartsSound, PlanRunSound, FinishRunSound,
            ScanStagingSound, EndSound DEF RecoverStep
  <2>2. CASE IngestStep
    BY <2>2, IngestPrepareSound, IngestStageSound, IngestIntentsSound, IngestPromoteSound,
       IngestBatchSound, LoopDoneSound, IngestFinalizeSound, EndSound DEF IngestStep
  <2>3. CASE SessionStep
    BY <2>1, <2>2, <2>3, DiscardOneSound, UnlinkOneSound, EndSound, RemovalStartsSound,
       PurgeMetadataSound, CompleteSound DEF SessionStep
  <2>4. ASSUME NEW p \in Process, Start(p) PROVE FilesInv' /\ ProgressInv'
    <3>1. ASSUME NEW c, StartRecover(p, c) PROVE FilesInv' /\ ProgressInv'
      BY <3>1, StartSound DEF StartRecover, Steps, ProgressSteps
    <3>2. ASSUME StartRepair(p) PROVE FilesInv' /\ ProgressInv'
      BY <3>2, StartSound DEF StartRepair, Steps, ProgressSteps
    <3>3. ASSUME NEW s, NEW d, RejoinDeletion(p, s, d) \/ RetryPurged(p, s, d)
          PROVE  FilesInv' /\ ProgressInv'
      BY <3>3, StartSound DEF RejoinDeletion, RetryPurged, Steps, ProgressSteps
    <3>4. ASSUME NEW r, RefuseIngest(p, r) PROVE FilesInv' /\ ProgressInv'
      BY <3>4, OutsideSound DEF RefuseIngest
    <3> QED BY <2>4, <3>1, <3>2, <3>3, <3>4, StartIngestSound, StartDeletionSound DEF Start
  <2>5. ASSUME NEW p, CrashBetween(p) PROVE FilesInv' /\ ProgressInv'
    BY <2>5, OutsideSound DEF CrashBetween
  <2>6. CASE Failure
    BY <2>5, <2>6, EndSound, CrashInsideSound DEF Failure
  <2>7. CASE UNCHANGED vars
    BY <2>7, OutsideSound DEF vars
  <2> QED BY <2>3, <2>4, <2>6, <2>7 DEF Next
<1> QED BY <1>1, <1>2 DEF SoundInv

(* The invariant of the tables, the files and the session together. *)
THEOREM Soundness == Spec => []SoundInv
<1>1. Init => SoundInv
  BY InitialSound
<1>2. SoundInv /\ [Next]_vars => SoundInv'
  BY StepSound
<1> QED BY <1>1, <1>2, PTL DEF Spec

-----------------------------------------------------------------------------
(* What follows from the invariant. *)

(* A reader sees the manifests of the published runs and nothing else: a record
   of a published run is owned by it and hidden only together with it. *)
LEMMA WholeRuns == SoundInv => PublishedIsWhole
<1> SUFFICES ASSUME SoundInv PROVE PublishedIsWhole
  OBVIOUS
<1>1. WorldInv /\ WorldTypeOK /\ OwnershipIsSound
  BY DEF SoundInv, Inv, WorldInv
<1>2. /\ \A r \in Published : r \in Run /\ r \in Runs /\ runState[r] = "committed"
      /\ \A r \in Runs : runState[r] = "committed" /\ ~BeingDeleted(RunSource[r])
            => r \in Published
      /\ \A r \in Published : ~BeingDeleted(RunSource[r])
  BY <1>1, HiddenBySource DEF Published, Runs
<1>3. \A x \in frames \cup evidence : OwnershipVisible(x) =>
         \E r \in Runs : runState[r] = "committed" /\ <<r, x>> \in runRecords
  BY DEF SoundInv, FilesInv, RowsAreOwned, OwnershipVisible, OwnersOf, Runs
<1>4. \A r \in Runs : \A x \in Frame \cup Evidence : <<r, x>> \in runRecords =>
         x \in RunFrames(r) \cup RunEvidence[r]
  BY DEF SoundInv, Inv, RunsOwnTheirOwn, OwnedBy, Runs, RunFrames
<1>5. \A r \in Published : \A x \in RunFrames(r) \cup RunEvidence[r] :
         <<r, x>> \in runRecords /\ OwnershipVisible(x)
  BY <1>2 DEF SoundInv, FilesInv, CommittedOwnAll, OwnedBy, OwnershipVisible, OwnersOf, RunFrames
<1>6. \A r \in Run : RunFrames(r) \subseteq Frame /\ RunEvidence[r] \subseteq Evidence
  BY RecordTypes DEF RunFrames
<1>7. VisibleFrames = UNION {RunFrames(r) : r \in Published}
  <2>1. ASSUME NEW f \in VisibleFrames PROVE \E r \in Published : f \in RunFrames(r)
    <3>1. f \in frames /\ f \in Frame /\ f \notin Hidden /\ OwnershipVisible(f)
      BY <1>1 DEF VisibleFrames, WorldTypeOK
    <3>2. PICK r \in Runs : runState[r] = "committed" /\ <<r, f>> \in runRecords
      BY <3>1, <1>3
    <3>3. FrameSource[f] = RunSource[r]
      BY <3>1, <3>2, <1>1 DEF OwnershipIsSound
    <3>4. r \in Published
      BY <3>1, <3>2, <3>3, <1>1, <1>2, HiddenBySource
    <3> QED BY <3>1, <3>2, <3>4, <1>2, <1>4, <1>6, RecordKinds
  <2>2. ASSUME NEW r \in Published, NEW f \in RunFrames(r) PROVE f \in VisibleFrames
    <3>1. <<r, f>> \in runRecords /\ OwnershipVisible(f) /\ f \in Frame /\ r \in Run
      BY <2>2, <1>2, <1>5, <1>6
    <3>2. f \in frames /\ FrameSource[f] = RunSource[r]
      BY <3>1, <1>1, RecordKinds DEF OwnershipIsSound, WorldTypeOK
    <3>3. f \notin Hidden
      BY <3>2, <1>1, <1>2, HiddenBySource
    <3> QED BY <3>1, <3>2, <3>3 DEF VisibleFrames
  <2> QED BY <2>1, <2>2
<1>8. VisibleEvidence = UNION {RunEvidence[r] : r \in Published}
  <2>1. ASSUME NEW e \in VisibleEvidence PROVE \E r \in Published : e \in RunEvidence[r]
    <3>1. e \in evidence /\ e \in Evidence /\ e \notin Hidden /\ OwnershipVisible(e)
      BY <1>1 DEF VisibleEvidence, WorldTypeOK
    <3>2. PICK r \in Runs : runState[r] = "committed" /\ <<r, e>> \in runRecords
      BY <3>1, <1>3
    <3>3. FrameSource[EvidenceFrame[e]] = RunSource[r]
      BY <3>1, <3>2, <1>1 DEF OwnershipIsSound
    <3>4. r \in Published
      BY <3>1, <3>2, <3>3, <1>1, <1>2, HiddenBySource
    <3> QED BY <3>1, <3>2, <3>4, <1>2, <1>4, <1>6, RecordKinds
  <2>2. ASSUME NEW r \in Published, NEW e \in RunEvidence[r] PROVE e \in VisibleEvidence
    <3>1. <<r, e>> \in runRecords /\ OwnershipVisible(e) /\ e \in Evidence /\ r \in Run
      BY <2>2, <1>2, <1>5, <1>6
    <3>2. e \in evidence /\ FrameSource[EvidenceFrame[e]] = RunSource[r]
      BY <3>1, <1>1, RecordKinds DEF OwnershipIsSound, WorldTypeOK
    <3>3. e \notin Hidden
      BY <3>2, <1>1, <1>2, HiddenBySource
    <3>4. EvidenceFrame[e] \in RunFrames(r)
      BY <3>1, RunsAreCoherent DEF RunFrames
    <3>5. OwnershipVisible(EvidenceFrame[e])
      BY <3>4, <1>5
    <3> QED BY <3>1, <3>2, <3>3, <3>5 DEF VisibleEvidence
  <2> QED BY <2>1, <2>2
<1> QED BY <1>7, <1>8 DEF PublishedIsWhole

(* The verification of a run looks at one that is published, whole, readable. *)
LEMMA VerificationFinds == SoundInv => VerifyNeverFails
<1> SUFFICES ASSUME SoundInv, pc = "ing_verify" PROVE Verifies(target)
  BY DEF VerifyNeverFails, At
<1>1. target \in Published
  BY DEF SoundInv, ProgressInv, IngestOwns
<1>2. RunFrames(target) \subseteq VisibleFrames /\ RunEvidence[target] \subseteq VisibleEvidence
  BY <1>1, WholeRuns DEF PublishedIsWhole
<1>3. RunDigests(target) \subseteq cas
  BY <1>2, InvReadable DEF SoundInv, PublishedIsReadable, RunDigests, DigestsOf
<1> QED BY <1>1, <1>2, <1>3 DEF Verifies, Published

(* The tables and the files of the store agree after every step of every
   process: publication is all or nothing, the verification of a run never
   fails, no bytes are without an owner, and the catalog is tight. *)
THEOREM StoreSoundness == Spec => []StoreIsSound
<1>1. SoundInv => StoreIsSound
  BY WholeRuns, VerificationFinds DEF StoreIsSound, SoundInv, FilesInv, AuditInv
<1> QED BY <1>1, Soundness, PTL

(* At the end of a recovery nothing is left to clean, so every row is one that
   no run is still preparing and no deletion hides: its artifact is there. *)
LEMMA RecoveryEnds == SoundInv => RecoveryLeavesNothing
<1> SUFFICES ASSUME SoundInv, pc = "rec_end", discards = {}
             PROVE  /\ runDirs = {} /\ intents = {} /\ ActiveJobs = {}
                    /\ \A r \in Run : runState[r] # "preparing"
                    /\ cas = DigestsOf(evidence)
  BY DEF RecoveryLeavesNothing, At
<1>1. ActiveJobs = {} /\ ToClean = {} /\ StagingOf(Run) = {}
  BY DEF SoundInv, ProgressInv, RecoveryInv, RemovalsAreListed
<1>2. StoreTypeOK /\ WorldTypeOK
  BY DEF SoundInv, Inv, TypeOK
<1>3. runDirs = {}
  BY <1>1, <1>2 DEF StagingOf, EmptyRuns, CanDiscardEmptyRun, StoreTypeOK, StagedFile, IncompleteFile
<1>4. intents = {}
  <2> SUFFICES ASSUME NEW i \in intents PROVE FALSE
    OBVIOUS
  <2> QED BY <1>1, <1>2 DEF ToClean, IntentsOf, WorldTypeOK, StagedFile
<1>5. \A r \in Run : runState[r] # "preparing"
  BY <1>1 DEF ToClean
<1>6. Hidden = {}
  BY <1>1, NothingHidden DEF SoundInv
<1>7. cas \subseteq DigestsOf(evidence)
  BY <1>4 DEF SoundInv, FilesInv, NoOrphanBytes
<1>8. DigestsOf(evidence) \subseteq cas
  BY <1>5, <1>6 DEF SoundInv, Inv, LostIsInvisible, DigestsOf, OwnersOf
<1> QED BY <1>1, <1>3, <1>4, <1>5, <1>7, <1>8

(* Whatever crashed before it, a recovery that reaches its end has finished
   every deletion, cleaned every incomplete run, emptied the staging area and
   left exactly the artifacts that evidence refers to. *)
THEOREM Recovery == Spec => []RecoveryLeavesNothing
BY RecoveryEnds, Soundness, PTL

-----------------------------------------------------------------------------
(* The purge. *)

(* Only purge_deletion_metadata marks a job as purged. *)
LEMMA OnlyPurgePurges ==
    ASSUME Inv, [Next]_vars, PurgedSources # {}
    PROVE  PurgeMetadata
<1> DEFINE Quiet == \A d \in DeletionId : jobState[d] = "pending" => jobState'[d] # "metadata_purged"
<1>0. SUFFICES ASSUME ~PurgeMetadata PROVE Quiet
  BY DEF PurgedSources
<1>1. ASSUME UNCHANGED jobState PROVE Quiet
  BY <1>1
<1>2. ASSUME UNCHANGED worldVars PROVE Quiet
  BY <1>1, <1>2 DEF worldVars, jobVars
<1>3. ASSUME NEW s, NEW d, BeginSourceDeletion(s, d) \/ CompleteDeletion(d) PROVE Quiet
  BY <1>3 DEF BeginSourceDeletion, CompleteDeletion, Inv, TypeOK, WorldTypeOK
<1> HIDE DEF Quiet
<1>4. CASE RecoverStep
  BY <1>4, <1>1, <1>2 DEF RecoverStep, ResumePending, ResumePurged, ListRuns, PlanRun, FinishRun,
      FinishRunCleanup, jobVars, ScanStaging, EndRecover
<1>5. CASE IngestStep
  BY <1>5, <1>1, <1>2 DEF IngestStep, IngestPrepare, PrepareRun, Commit, IngestStage,
      IngestIntents, RecordArtifactIntents, IngestPromote, IngestFrames, IngestEvidence,
      CommitForRun, IngestLoopDone, IngestFinalize, FinalizeRun, IngestVerify, jobVars
<1>6. CASE SessionStep
  BY <1>0, <1>2, <1>3, <1>4, <1>5, <1>6 DEF SessionStep, DiscardOne, UnlinkOne, EndRepair,
      RemoveFiles, Complete, Raise
<1>7. ASSUME NEW p, Start(p) PROVE Quiet
  BY <1>7, <1>2, <1>3 DEF Start, StartRecover, StartRepair, StartIngest, RefuseIngest,
      StartDeletion, RejoinDeletion, RetryPurged
<1>8. CASE Failure
  BY <1>8, <1>2 DEF Failure, Crash, CrashInside, CheckpointBusy, CrashBetween
<1> QED BY <1>2, <1>6, <1>7, <1>8 DEF Next, vars

(* A deletion forgets its source only after the staging of its runs is empty
   and every artifact left is referred to by what remains: at every step that
   purges, whoever started or resumed the deletion and however often it died. *)
THEOREM CleanPurge == Spec => PurgeLeavesNoFile
<1> DEFINE Clean ==
        \A s \in PurgedSources :
          /\ \A r \in Run : RunSource[r] = s => r \notin runDirs
          /\ cas \subseteq DigestsOf(evidence') \cup {i.digest : i \in intents'}
<1>1. SoundInv /\ [Next]_vars => [Clean]_vars
  <2> SUFFICES ASSUME SoundInv, [Next]_vars, NEW s \in PurgedSources
               PROVE  /\ \A r \in Run : RunSource[r] = s => r \notin runDirs
                      /\ cas \subseteq DigestsOf(evidence') \cup {i.digest : i \in intents'}
    OBVIOUS
  <2>1. PurgeMetadata
    BY OnlyPurgePurges DEF SoundInv
  <2>2. /\ \A r \in runDirs : RunSource[r] # jobRoot[target]
        /\ cas \subseteq Referred'
        /\ target \in DeletionId /\ PurgeDeletionMetadata(target, cas)
    BY <2>1, PurgeFindsNoFile
  <2>3. s = jobRoot[target]
    <3>1. PICK d \in DeletionId : /\ jobState[d] = "pending" /\ jobState'[d] = "metadata_purged"
                                  /\ s = jobRoot[d]
      BY DEF PurgedSources
    <3>2. jobState' = [jobState EXCEPT ![target] = "metadata_purged"]
      BY <2>2 DEF PurgeDeletionMetadata
    <3> QED BY <3>1, <3>2 DEF SoundInv, Inv, TypeOK, WorldTypeOK
  <2> QED BY <2>2, <2>3 DEF Referred, DigestsOf
<1> QED BY <1>1, Soundness, PTL DEF Spec, PurgeLeavesNoFile

-----------------------------------------------------------------------------
(* The refinement. *)

Shown == {e \in VisibleEvidence : EvidenceDigest[e] \in cas}

(* What is published and shown follows from the states of the runs and the
   roots of the pending jobs. *)
SeenBySource ==
    /\ Published = {r \in Run : runState[r] = "committed" /\ ~BeingDeleted(RunSource[r])}
    /\ Shown = UNION {RunEvidence[r] : r \in Published}

(* What a reader sees, from the tables. *)
LEMMA WhatIsSeen == SoundInv => SeenBySource
<1> SUFFICES ASSUME SoundInv PROVE SeenBySource
  OBVIOUS
<1>1. Published = {r \in Run : runState[r] = "committed" /\ ~BeingDeleted(RunSource[r])}
  BY HiddenBySource DEF SoundInv, Inv, Published, Runs
<1>2. Shown = UNION {RunEvidence[r] : r \in Published}
  BY WholeRuns, InvReadable
    DEF SoundInv, PublishedIsWhole, PublishedIsReadable, Shown, DigestsOf
<1> QED BY <1>1, <1>2 DEF SeenBySource

(* finalize_run publishes one run with all its evidence. *)
LEMMA FinalizePublishes ==
    ASSUME SoundInv, SeenBySource, SeenBySource', IngestFinalize
    PROVE  /\ target \in Run /\ target \notin Published
           /\ Published' = Published \cup {target}
           /\ Shown' = Shown \cup RunEvidence[target]
<1>1. target \in Run /\ runState[target] = "preparing" /\ WorldTypeOK
  BY IngestTarget DEF IngestFinalize, At, IngestSteps, SoundInv, Inv, TypeOK
<1>2. /\ runState' = [runState EXCEPT ![target] = "committed"]
      /\ SourceWritable(RunSource[target])
      /\ UNCHANGED <<jobState, jobRoot>>
  BY DEF IngestFinalize, FinalizeRun, CanFinalizeRun, jobVars
<1>3. ~BeingDeleted(RunSource[target])
  BY <1>2, WritableIsNotDeleted
<1>4. Published' = Published \cup {target}
  BY <1>1, <1>2, <1>3 DEF SeenBySource, BeingDeleted, WorldTypeOK
<1> QED BY <1>1, <1>4 DEF SeenBySource

(* begin_source_deletion withdraws every run of its source, and no other. *)
LEMMA DeletionWithdraws ==
    ASSUME SoundInv, SeenBySource, SeenBySource',
           NEW s \in Source, NEW d \in DeletionId, BeginSourceDeletion(s, d)
    PROVE  /\ Published' = {r \in Published : RunSource[r] # s}
           /\ Shown' = {e \in Shown : FrameSource[EvidenceFrame[e]] # s}
<1>1. /\ jobState' = [jobState EXCEPT ![d] = "pending"] /\ jobState[d] = "none"
      /\ jobRoot' = [jobRoot EXCEPT ![d] = s] /\ runState' = runState
  BY DEF BeginSourceDeletion, CanBeginDeletion
<1>2. WorldTypeOK
  BY DEF SoundInv, Inv, TypeOK
<1>3. \A t : (\E c \in DeletionId : jobState'[c] = "pending" /\ jobRoot'[c] = t)
               <=> BeingDeleted(t) \/ t = s
  BY <1>1, <1>2 DEF BeingDeleted, WorldTypeOK
<1>4. Published' = {r \in Published : RunSource[r] # s}
  BY <1>1, <1>3 DEF SeenBySource, BeingDeleted
<1>5. \A r \in Published : \A e \in RunEvidence[r] : FrameSource[EvidenceFrame[e]] = RunSource[r]
  BY RunsAreCoherent DEF SeenBySource
<1> QED BY <1>4, <1>5 DEF SeenBySource

(* The purge removes only what its deletion withdrew when it began. *)
LEMMA PurgeWithdrawsNothing ==
    ASSUME SoundInv, SeenBySource, SeenBySource', PurgeMetadata
    PROVE  Published' = Published /\ Shown' = Shown
<1>1. target \in DeletionId /\ PurgeDeletionMetadata(target, cas)
  BY PurgeFindsNoFile
<1>2. WorldTypeOK /\ OneJobAtATime
  BY DEF SoundInv, Inv, TypeOK, WorldInv
<1>3. /\ jobState[target] = "pending"
      /\ jobState' = [jobState EXCEPT ![target] = "metadata_purged"]
      /\ \A r \in Run : RunSource[r] # jobRoot[target] => runState'[r] = runState[r]
      /\ \A r \in Run : RunSource[r] = jobRoot[target] => runState'[r] = "absent"
  BY <1>1 DEF PurgeDeletionMetadata, CanPurge, PlanLoads, Runs, RunStates, WorldTypeOK
<1>4. \A t : BeingDeleted(t) <=> t = jobRoot[target]
  BY <1>1, <1>2, <1>3 DEF BeingDeleted, OneJobAtATime, ActiveJobs
<1>5. \A c \in DeletionId : jobState'[c] # "pending"
  BY <1>1, <1>2, <1>3 DEF OneJobAtATime, ActiveJobs, WorldTypeOK
<1>6. Published' = Published
  BY <1>3, <1>4, <1>5 DEF SeenBySource, BeingDeleted
<1> QED BY <1>6 DEF SeenBySource

(* Every other step leaves what is seen as it is. *)
LEMMA UnseenStep ==
    ASSUME SeenBySource, SeenBySource',
           \A r \in Run : (runState[r] = "committed") = (runState'[r] = "committed"),
           \A d \in DeletionId : /\ (jobState[d] = "pending") = (jobState'[d] = "pending")
                                 /\ jobRoot'[d] = jobRoot[d]
    PROVE  Published' = Published /\ Shown' = Shown
<1>1. Published' = Published
  BY DEF SeenBySource, BeingDeleted
<1> QED BY <1>1 DEF SeenBySource

(* What one step does to what is seen. *)
SeenStep ==
    \/ \E r \in Run : /\ r \notin Published
                      /\ Published' = Published \cup {r}
                      /\ Shown' = Shown \cup RunEvidence[r]
    \/ \E s \in Source : /\ Published' = {r \in Published : RunSource[r] # s}
                         /\ Shown' = {e \in Shown : FrameSource[EvidenceFrame[e]] # s}
    \/ Published' = Published /\ Shown' = Shown

(* Every step of every process, its crashes included, is a publication of one
   run, a withdrawal of one source, or invisible. *)
LEMMA StepRefines ==
    ASSUME SoundInv, SeenBySource, SeenBySource', [Next]_vars
    PROVE  SeenStep
<1>0. WorldTypeOK
  BY DEF SoundInv, Inv, TypeOK
<1>1. ASSUME UNCHANGED <<runState, jobState, jobRoot>> PROVE SeenStep
  BY <1>1, UnseenStep DEF SeenStep
<1>2. ASSUME UNCHANGED worldVars PROVE SeenStep
  BY <1>1, <1>2 DEF worldVars, jobVars
<1>3. ASSUME IngestPrepare PROVE SeenStep
  <2>1. target \in Run
    BY <1>3, IngestTarget DEF IngestPrepare, At, IngestSteps, SoundInv
  <2>2. /\ runState' = [runState EXCEPT ![target] = "preparing"]
        /\ runState[target] # "committed" /\ UNCHANGED <<jobState, jobRoot>>
    BY <1>0, <1>3, <2>1 DEF IngestPrepare, PrepareRun, Commit, CanCommit, CanWriteRun,
        RunTransition, jobVars, WorldTypeOK
  <2> QED BY <1>0, <2>2, UnseenStep DEF SeenStep, WorldTypeOK
<1>4. ASSUME FinishRun PROVE SeenStep
  BY <1>0, <1>4, UnseenStep DEF SeenStep, FinishRun, FinishRunCleanup, CanFinishCleanup, jobVars, WorldTypeOK
<1>5. ASSUME NEW d, CompleteDeletion(d) PROVE SeenStep
  BY <1>0, <1>5, UnseenStep DEF SeenStep, CompleteDeletion, WorldTypeOK
<1>6. ASSUME NEW p, NEW s \in Source, NEW d \in DeletionId, StartDeletion(p, s, d) PROVE SeenStep
  BY <1>6, DeletionWithdraws DEF StartDeletion, SeenStep
<1>7. ASSUME IngestFinalize PROVE SeenStep
  BY <1>7, FinalizePublishes DEF SeenStep
<1>8. ASSUME PurgeMetadata PROVE SeenStep
  BY <1>8, PurgeWithdrawsNothing DEF SeenStep
<1>9. CASE RecoverStep
  BY <1>9, <1>2, <1>4 DEF RecoverStep, ResumePending, ResumePurged, ListRuns, PlanRun,
      ScanStaging, EndRecover
<1>10. CASE IngestStep
  BY <1>10, <1>1, <1>2, <1>3, <1>7 DEF IngestStep, IngestStage, IngestIntents,
      RecordArtifactIntents, IngestPromote, IngestFrames, IngestEvidence, CommitForRun,
      IngestLoopDone, IngestVerify, jobVars
<1>11. CASE SessionStep
  BY <1>2, <1>5, <1>8, <1>9, <1>10, <1>11 DEF SessionStep, DiscardOne, UnlinkOne, EndRepair,
      RemoveFiles, Complete, Raise
<1>12. ASSUME NEW p, Start(p) PROVE SeenStep
  BY <1>2, <1>6, <1>12 DEF Start, StartRecover, StartRepair, StartIngest, RefuseIngest,
      RejoinDeletion, RetryPurged
<1>13. CASE Failure
  BY <1>2, <1>13 DEF Failure, Crash, CrashInside, CheckpointBusy, CrashBetween
<1> QED BY <1>2, <1>11, <1>12, <1>13 DEF Next, vars

(* The coordinator implements Publication: whatever the interleaving of its
   processes and whenever they die, a reader sees runs appear whole and sources
   disappear whole, and nothing else. *)
THEOREM Refinement == Spec => ImplementsPublication
<1>1. Init => P!Init
  BY DEF Init, WorldInit, P!Init, Published, VisibleEvidence
<1>2. SoundInv /\ SoundInv' /\ [Next]_vars => [P!Next]_<<Published, Shown>>
  <2> SUFFICES ASSUME SoundInv, SeenBySource, SeenBySource', [Next]_vars
               PROVE  [P!Next]_<<Published, Shown>>
    BY WhatIsSeen, PTL
  <2> QED BY StepRefines DEF SeenStep, P!Next, P!Publish, P!Withdraw, Shown
<1> QED BY <1>1, <1>2, Soundness, PTL DEF Spec, ImplementsPublication, P!Spec, Shown
-----------------------------------------------------------------------------
(* When a recovery raises. *)

(* A run that recovery may clean. *)
Cleanable == {"preparing", "failed", "cancelled"}

(* The foreign keys to sources: of a pending job, and of a run. *)
SourcesAreThere ==
    /\ \A d \in DeletionId : jobState[d] = "pending" => jobRoot[d] \in sources
    /\ \A r \in Run : runState[r] # "absent" => RunSource[r] \in sources

(* What a session has planned to do can be done when it comes to it. *)
PlansCanBeDone ==
    /\ pc = "rec_purge" => PlanLoads(target)
    /\ pc \in {"rec_purge", "del_purge"} => required[target] \cap cas \subseteq unlinks
    /\ pc \in {"rec_runs", "rec_finish"} => \A r \in queue : runState[r] \in Cleanable
    /\ pc = "rec_finish" => runState[target] \in Cleanable
    /\ \A r \in discards \cap Run : CanDiscardEmptyRun(r)

ReadyInv == SourcesAreThere /\ PlansCanBeDone

(* The steps that write the tables. *)
Transaction ==
    \/ IngestPrepare \/ IngestIntents \/ IngestFrames \/ IngestEvidence \/ IngestFinalize
    \/ FinishRun \/ PurgeMetadata \/ Complete
    \/ \E p \in Process, s \in Source, d \in DeletionId : StartDeletion(p, s, d)

(* A step that is no transaction leaves the tables alone. *)
LEMMA QuietOrTransaction == ASSUME [Next]_vars PROVE UNCHANGED worldVars \/ Transaction
<1>1. CASE RecoverStep
  BY <1>1 DEF RecoverStep, Transaction, ResumePending, ResumePurged, ListRuns, PlanRun,
      ScanStaging, EndRecover
<1>2. CASE IngestStep
  BY <1>2 DEF IngestStep, Transaction, IngestStage, IngestPromote, IngestLoopDone, IngestVerify
<1>3. CASE SessionStep
  BY <1>1, <1>2, <1>3 DEF SessionStep, Transaction, DiscardOne, UnlinkOne, EndRepair,
      RemoveFiles, Raise
<1>4. ASSUME NEW p \in Process, Start(p) PROVE UNCHANGED worldVars \/ Transaction
  BY <1>4 DEF Start, Transaction, StartRecover, StartRepair, StartIngest, RefuseIngest,
      RejoinDeletion, RetryPurged
<1>5. CASE Failure
  BY <1>5 DEF Failure, Crash, CrashInside, CheckpointBusy, CrashBetween
<1> QED BY <1>3, <1>4, <1>5 DEF Next, vars

(* A source leaves with everything that refers to it. *)
LEMMA SourcesStay ==
    ASSUME SoundInv, ReadyInv, [Next]_vars PROVE SourcesAreThere'
<1>0. /\ WorldTypeOK /\ OneJobAtATime
      /\ \A d \in DeletionId : jobState[d] = "pending" => jobRoot[d] \in sources
      /\ \A r \in Run : runState[r] # "absent" => RunSource[r] \in sources
  BY DEF SoundInv, Inv, TypeOK, WorldInv, ReadyInv, SourcesAreThere
<1> USE DEF SourcesAreThere
<1>1. CASE UNCHANGED worldVars
  BY <1>0, <1>1 DEF worldVars, recordVars, jobVars
<1>2. CASE IngestPrepare
  <2>1. /\ sources' = sources \cup {RunSource[target]}
        /\ runState' = [r \in Run |-> IF r \in {target} THEN "preparing" ELSE runState[r]]
        /\ UNCHANGED jobVars
    BY <1>2 DEF IngestPrepare, PrepareRun, Commit
  <2> QED BY <2>1, <1>0 DEF jobVars
<1>3. CASE IngestIntents \/ IngestFrames \/ IngestEvidence
  <2>1. UNCHANGED <<sources, runState, jobVars>>
    BY <1>3 DEF IngestIntents, RecordArtifactIntents, IngestFrames, IngestEvidence,
        CommitForRun, recordVars
  <2> QED BY <2>1, <1>0 DEF jobVars
<1>4. CASE IngestFinalize
  <2>1. /\ UNCHANGED <<sources, jobVars>> /\ runState[target] # "absent"
        /\ runState' = [runState EXCEPT ![target] = "committed"]
    BY <1>4 DEF IngestFinalize, FinalizeRun, CanFinalizeRun
  <2> QED BY <2>1, <1>0 DEF jobVars, WorldTypeOK
<1>5. CASE FinishRun
  <2>1. /\ UNCHANGED <<sources, jobVars>> /\ runState[target] # "absent"
        /\ runState' = [runState EXCEPT ![target] = IF @ = "preparing" THEN "failed" ELSE @]
    BY <1>5 DEF FinishRun, FinishRunCleanup, CanFinishCleanup
  <2> QED BY <2>1, <1>0 DEF jobVars, WorldTypeOK
<1>6. CASE PurgeMetadata
  <2>1. /\ target \in DeletionId /\ jobState[target] = "pending"
        /\ sources' = sources \ {jobRoot[target]}
        /\ runState' = [r \in Run |-> IF r \in {q \in Runs : RunSource[q] # jobRoot[target]}
                                      THEN runState[r] ELSE "absent"]
        /\ jobState' = [jobState EXCEPT ![target] = "metadata_purged"]
        /\ jobRoot' = [jobRoot EXCEPT ![target] = NoSource]
    BY <1>6 DEF PurgeMetadata, PurgeDeletionMetadata, CanPurge, PlanLoads, SoundInv, Inv,
        SessionShape, DeletionSteps, At
  <2>2. \A d \in DeletionId : jobState'[d] # "pending"
    BY <2>1, <1>0 DEF OneJobAtATime, ActiveJobs, WorldTypeOK
  <2> QED BY <2>1, <2>2, <1>0 DEF Runs
<1>7. CASE Complete
  BY <1>0, <1>7 DEF Complete, CompleteDeletion, recordVars, WorldTypeOK
<1>8. ASSUME NEW p, NEW s \in Source, NEW d \in DeletionId, StartDeletion(p, s, d)
      PROVE  SourcesAreThere'
  BY <1>0, <1>8 DEF StartDeletion, BeginSourceDeletion, CanBeginDeletion, recordVars, WorldTypeOK
<1> QED BY <1>1, <1>2, <1>3, <1>4, <1>5, <1>6, <1>7, <1>8, QuietOrTransaction DEF Transaction

(* Where nothing has been planned. *)
LEMMA NothingPlanned ==
    ASSUME pc' \notin {"rec_purge", "del_purge", "rec_runs", "rec_finish"}, discards' = {}
    PROVE  PlansCanBeDone'
BY DEF PlansCanBeDone

(* The removals change no table, and put no file into an empty directory. *)
LEMMA RemovalsKeepPlans ==
    ASSUME SoundInv, ReadyInv, DiscardOne \/ UnlinkOne PROVE PlansCanBeDone'
<1>1. UNCHANGED <<worldVars, pc, target, queue>>
  BY DEF DiscardOne, UnlinkOne
<1>2. /\ pc = "rec_purge" => PlanLoads(target)'
      /\ pc \in {"rec_runs", "rec_finish"} => \A r \in queue : runState'[r] \in Cleanable
      /\ pc = "rec_finish" => runState'[target] \in Cleanable
  BY <1>1 DEF ReadyInv, PlansCanBeDone, PlanLoads, SourceClosure, Runs, ClosureDigests,
      SurvivesOutside, DigestsOf, IntentsOf, worldVars, recordVars, jobVars
<1>3. pc \in {"rec_purge", "del_purge"} => required'[target] \cap cas' \subseteq unlinks'
  <2>1. required' = required
    BY <1>1 DEF worldVars, jobVars
  <2>2. CASE DiscardOne
    BY <2>1, <2>2 DEF DiscardOne, DiscardStage, DiscardIncomplete, DiscardEmptyRun, ReadyInv, PlansCanBeDone
  <2>3. CASE UnlinkOne
    BY <2>1, <2>3 DEF UnlinkOne, DeleteArtifact, ReadyInv, PlansCanBeDone
  <2> QED BY <2>2, <2>3
<1>4. discards' \subseteq discards /\ staged' \subseteq staged /\ incomplete' \subseteq incomplete
  BY DEF DiscardOne, UnlinkOne, DiscardStage, DiscardIncomplete, DiscardEmptyRun, DeleteArtifact
<1>5. \A r \in discards' \cap Run : CanDiscardEmptyRun(r)'
  BY <1>4 DEF ReadyInv, PlansCanBeDone, CanDiscardEmptyRun
<1> QED BY <1>1, <1>2, <1>3, <1>5 DEF PlansCanBeDone

(* A process without the lock changes nothing that is planned. *)
LEMMA OutsideKeepsPlans ==
    ASSUME PlansCanBeDone, UNCHANGED <<worldVars, storeVars, sessionVars>> PROVE PlansCanBeDone'
BY DEF PlansCanBeDone, PlanLoads, SourceClosure, Runs, ClosureDigests, SurvivesOutside, DigestsOf,
    IntentsOf, CanDiscardEmptyRun, worldVars, recordVars, jobVars, storeVars, sessionVars

(* The plan of a recovery is made from what it has just read. *)
LEMMA PlansAreMade ==
    ASSUME SoundInv, ReadyInv,
           \/ RemoveFiles \/ ListRuns \/ FinishRun \/ ScanStaging
           \/ \E d \in DeletionId : ResumePending(d)
           \/ \E r \in Run : PlanRun(r)
    PROVE  PlansCanBeDone'
<1>0. /\ StoreTypeOK /\ WorldTypeOK
      /\ \A h \in StagedFile \cup IncompleteFile : h \notin Run
  BY FilesAreNotRuns DEF SoundInv, Inv, TypeOK
<1>1. \A rs : \A r \in StagingOf(rs) \cap Run : CanDiscardEmptyRun(r)
  BY <1>0 DEF StagingOf, EmptyRuns, StoreTypeOK
<1>2. CASE RemoveFiles
  <2>1. /\ UNCHANGED <<worldVars, storeVars, target>> /\ pc' = "del_purge"
        /\ discards' = StagingOf(closure[target] \cap Run) /\ unlinks' = required[target]
    BY <1>2 DEF RemoveFiles
  <2>2. \A r \in discards' \cap Run : CanDiscardEmptyRun(r)'
    BY <2>1, <1>1 DEF CanDiscardEmptyRun, storeVars
  <2> QED BY <2>1, <2>2 DEF PlansCanBeDone, worldVars, jobVars
<1>3. ASSUME NEW d \in DeletionId, ResumePending(d) PROVE PlansCanBeDone'
  <2>1. /\ UNCHANGED <<worldVars, storeVars>> /\ pc' = "rec_purge" /\ target' = d
        /\ discards' = StagingOf(closure[d] \cap Run) /\ unlinks' = required[d] /\ PlanLoads(d)
    BY <1>3 DEF ResumePending, CanRemoveFiles
  <2>2. \A r \in discards' \cap Run : CanDiscardEmptyRun(r)'
    BY <2>1, <1>1 DEF CanDiscardEmptyRun, storeVars
  <2>3. PlanLoads(target)'
    BY <2>1 DEF PlanLoads, SourceClosure, Runs, ClosureDigests, SurvivesOutside, DigestsOf,
        IntentsOf, worldVars, recordVars, jobVars
  <2> QED BY <2>1, <2>2, <2>3 DEF PlansCanBeDone, worldVars, jobVars
<1>4. CASE ListRuns
  <2>1. /\ UNCHANGED worldVars /\ pc' = "rec_runs" /\ queue' = ActionableRuns /\ discards' = {}
    BY <1>4 DEF ListRuns, At
  <2>2. \A r \in ActionableRuns : runState[r] \in Cleanable
    BY DEF ActionableRuns, Cleanable
  <2> QED BY <2>1, <2>2 DEF PlansCanBeDone, worldVars
<1>5. ASSUME NEW r \in Run, PlanRun(r) PROVE PlansCanBeDone'
  <2>1. /\ UNCHANGED <<worldVars, storeVars>> /\ pc = "rec_runs" /\ discards = {}
        /\ queue' \subseteq queue /\ runState[r] \in Cleanable
        /\ \/ pc' = "rec_runs" /\ discards' = discards
           \/ pc' = "rec_finish" /\ target' = r /\ discards' = IntentsOf({r})
    BY <1>5 DEF PlanRun, At, CanPlanCleanup, Cleanable
  <2>2. discards' \cap Run = {}
    BY <2>1, <1>0 DEF IntentsOf, WorldTypeOK
  <2>3. runState' = runState
    BY <2>1 DEF worldVars
  <2> QED BY <2>1, <2>2, <2>3 DEF PlansCanBeDone, ReadyInv
<1>6. CASE FinishRun
  <2>1. /\ pc = "rec_finish" /\ pc' = "rec_runs" /\ queue' = queue /\ discards' = {}
        /\ runState' = [runState EXCEPT ![target] = IF @ = "preparing" THEN "failed" ELSE @]
    BY <1>6 DEF FinishRun, FinishRunCleanup, At
  <2>2. \A r \in Run : runState[r] \in Cleanable => runState'[r] \in Cleanable
    BY <2>1, <1>0 DEF Cleanable, WorldTypeOK
  <2>3. queue \subseteq Run
    BY DEF SoundInv, Inv, TypeOK
  <2> QED BY <2>1, <2>2, <2>3 DEF PlansCanBeDone, ReadyInv
<1>7. CASE ScanStaging
  <2>1. /\ UNCHANGED storeVars /\ pc' = "rec_end"
        /\ discards' = staged \cup incomplete \cup EmptyRuns
    BY <1>7 DEF ScanStaging
  <2>2. \A r \in discards' \cap Run : CanDiscardEmptyRun(r)'
    BY <2>1, <1>0 DEF EmptyRuns, StoreTypeOK, CanDiscardEmptyRun, storeVars
  <2> QED BY <2>1, <2>2 DEF PlansCanBeDone
<1> QED BY <1>2, <1>3, <1>4, <1>5, <1>6, <1>7

(* Every other step stands where nothing has been planned. *)
LEMMA ReadyStep == ASSUME SoundInv, ReadyInv, [Next]_vars PROVE ReadyInv'
<1> SUFFICES PlansCanBeDone'
  BY SourcesStay DEF ReadyInv
<1>1. ASSUME Leave("idle") \/ (\E c : Leave(c)) PROVE PlansCanBeDone'
  BY <1>1, NothingPlanned DEF Leave
<1>2. ASSUME NEW p, NEW l, NEW t, Enter(p, l, t), UNCHANGED discards,
             l \notin {"rec_purge", "del_purge", "rec_runs", "rec_finish"}
      PROVE  PlansCanBeDone'
  BY <1>2, FreeSession, InvParts, NothingPlanned DEF Enter, SoundInv
<1>3. ASSUME NEW l, At(l), UNCHANGED discards,
             pc' \notin {"rec_purge", "del_purge", "rec_runs", "rec_finish"}
      PROVE  PlansCanBeDone'
  BY <1>3, NothingPlanned DEF At
<1>4. CASE RecoverStep
  <2>1. ASSUME NEW d, ResumePurged(d) PROVE PlansCanBeDone'
    BY <2>1, <1>3 DEF ResumePurged
  <2>2. ASSUME EndRecover PROVE PlansCanBeDone'
    BY <2>2, <1>1 DEF EndRecover
  <2> QED BY <1>4, <2>1, <2>2, PlansAreMade DEF RecoverStep
<1>5. CASE IngestStep
  <2>1. ASSUME IngestVerify PROVE PlansCanBeDone'
    BY <2>1, <1>1 DEF IngestVerify
  <2>2. ASSUME \/ IngestPrepare \/ IngestStage \/ IngestIntents \/ IngestPromote
               \/ IngestFrames \/ IngestEvidence \/ IngestFinalize
        PROVE  PlansCanBeDone'
    BY <2>2, <1>3 DEF IngestPrepare, IngestStage, IngestIntents, IngestPromote, IngestFrames,
        IngestEvidence, IngestFinalize, Goto, sessionVars, At
  <2>3. ASSUME IngestLoopDone PROVE PlansCanBeDone'
    BY <2>3, <1>3 DEF IngestLoopDone, LoopDone, Goto
  <2> QED BY <1>5, <2>1, <2>2, <2>3 DEF IngestStep
<1>6. CASE SessionStep
  <2>1. ASSUME EndRepair \/ Raise PROVE PlansCanBeDone'
    BY <2>1, <1>1 DEF EndRepair, Raise
  <2>2. ASSUME PurgeMetadata PROVE PlansCanBeDone'
    BY <2>2, <1>3 DEF PurgeMetadata
  <2>3. ASSUME Complete PROVE PlansCanBeDone'
    BY <2>3, <1>1, <1>3 DEF Complete, Goto
  <2> QED BY <1>4, <1>5, <1>6, <2>1, <2>2, <2>3, PlansAreMade, RemovalsKeepPlans DEF SessionStep
<1>7. ASSUME NEW p \in Process, Start(p) PROVE PlansCanBeDone'
  <2>1. ASSUME NEW r, RefuseIngest(p, r) PROVE PlansCanBeDone'
    BY <2>1, OutsideKeepsPlans DEF RefuseIngest, ReadyInv
  <2>2. ASSUME \/ \E c : StartRecover(p, c)
               \/ StartRepair(p) \/ \E r : StartIngest(p, r)
               \/ \E s, d : StartDeletion(p, s, d) \/ RejoinDeletion(p, s, d) \/ RetryPurged(p, s, d)
        PROVE  PlansCanBeDone'
    BY <2>2, <1>2 DEF StartRecover, StartRepair, StartIngest, StartDeletion, RejoinDeletion, RetryPurged
  <2> QED BY <1>7, <2>1, <2>2 DEF Start
<1>8. CASE Failure
  <2>1. ASSUME NEW p, CrashBetween(p) PROVE PlansCanBeDone'
    BY <2>1, OutsideKeepsPlans DEF CrashBetween, ReadyInv
  <2> QED BY <1>8, <2>1, <1>1 DEF Failure, Crash, CrashInside, CheckpointBusy
<1>9. CASE UNCHANGED vars
  BY <1>9, OutsideKeepsPlans DEF vars, ReadyInv
<1> QED BY <1>6, <1>7, <1>8, <1>9 DEF Next

(* What every session plans can be done. *)
THEOREM Readiness == Spec => []ReadyInv
<1>1. Init => ReadyInv
  BY DEF Init, WorldInit, StoreInit, ReadyInv, SourcesAreThere, PlansCanBeDone
<1>2. SoundInv /\ ReadyInv /\ [Next]_vars => ReadyInv'
  BY ReadyStep
<1> QED BY <1>1, <1>2, Soundness, PTL DEF Spec

RecoverySteps == {"rec_deletions", "rec_purge", "rec_complete", "rec_runs", "rec_finish", "rec_end"}

(* A recovery raises only where it looks what is to be done: at a deletion
   whose plan no longer loads, or at more staging entries than it can list. *)
RecoveryRaisesOnlyInListing ==
    pc \in RecoverySteps /\ Stuck =>
        \/ /\ At("rec_deletions")
           /\ \E d \in DeletionId : jobState[d] = "pending" /\ ~CanRemoveFiles(d)
        \/ At("rec_runs") /\ queue = {} /\ ~CanScanStaging

(* What a session at a step has to find. *)
LEMMA NothingLeftPending ==
    ASSUME ActiveJobs = {}, NEW s PROVE SourceWritable(s)
BY DEF ActiveJobs, SourceWritable

(* The later steps of a recovery find what the earlier ones have made sure of. *)
LEMMA ListingRaises == ASSUME SoundInv, ReadyInv PROVE RecoveryRaisesOnlyInListing
<1>1. ASSUME At("rec_purge") PROVE CanPurge(target, cas)
  <2>1. target \in DeletionId /\ PlanLoads(target) /\ required[target] \cap cas = {}
    BY <1>1 DEF At, SoundInv, Inv, SessionShape, DeletionSteps, ReadyInv, PlansCanBeDone
  <2> QED BY <2>1 DEF CanPurge, PlanLoads, ReadyInv, SourcesAreThere
<1>2. ASSUME At("rec_runs"), NEW r \in queue PROVE CanPlanCleanup(r)
  <2>1. Hidden = {}
    BY <1>2, NothingHidden DEF At, SoundInv, ProgressInv, RecoveryInv
  <2> QED BY <1>2, <2>1 DEF At, CanPlanCleanup, ReadyInv, PlansCanBeDone, Cleanable
<1>3. ASSUME At("rec_finish") PROVE CanFinishCleanup(target)
  <2>1. ActiveJobs = {}
    BY <1>3 DEF At, SoundInv, ProgressInv, RecoveryInv
  <2> QED BY <1>3, <2>1, NothingLeftPending DEF At, CanFinishCleanup, ReadyInv, PlansCanBeDone, Cleanable
<1>4. \A r \in discards \cap Run : CanDiscardEmptyRun(r)
  BY DEF ReadyInv, PlansCanBeDone
<1> QED BY <1>1, <1>2, <1>3, <1>4 DEF RecoveryRaisesOnlyInListing, RecoverySteps, Stuck, At

(* For any number of processes, whatever crashed or interleaved before. *)
THEOREM RecoveryRaises == Spec => []RecoveryRaisesOnlyInListing
BY ListingRaises, Soundness, Readiness, PTL
-----------------------------------------------------------------------------
(* A process that works alone: between the two sessions of its ingestion
   nobody writes, and its dead predecessors left what one ingestion can. *)

OneProcess == \A p, q \in Process : p = q

(* A manifest lists finitely many evidence records, and the budget is a number. *)
ManifestsAreFinite ==
    /\ MaxInventoryEntries \in Nat
    /\ \A r \in Run : IsFiniteSet(RunEvidence[r])

(* What the first session of an ingestion leaves to the second. *)
Clean ==
    /\ ActiveJobs = {} /\ intents = {} /\ \A r \in Run : runState[r] # "preparing"
    /\ runDirs = {} /\ staged = {} /\ incomplete = {}

CleanBetween == \A p \in Process : proc[p] \in Run /\ owner # p => Clean

StagingSteps == {"ing_prepare", "ing_stage", "ing_intents", "ing_promote"}
WorkSteps == StagingSteps \cup {"ing_frames", "ing_evidence", "ing_finalize"}

(* The ingestion meets no deletion, no intent and no file but its own, and
   stages each digest of its run once, under a name of its own. *)
WorksAlone ==
    /\ pc \in WorkSteps =>
          /\ ActiveJobs = {}
          /\ IntentsOf({target}) \subseteq handles
          /\ \A h \in handles : h.run = target /\ h.digest \in RunDigests(target)
          /\ \A g, h \in handles : g.digest = h.digest \/ g.name = h.name => g = h
    /\ pc = "ing_prepare" =>
          handles = {} /\ runState[target] \in {"absent", "failed", "cancelled"}
    /\ pc = "ing_stage" => handles \subseteq staged
    /\ pc \in StagingSteps =>
          /\ FitsInventory(target)
          /\ incomplete = {} /\ staged \subseteq handles /\ runDirs \subseteq {target}

(* What is in staging can be listed. *)
Room ==
    /\ IsFiniteSet(runDirs) /\ IsFiniteSet(staged) /\ IsFiniteSet(incomplete)
    /\ CanScanStaging

AloneInv == PendingPlanLoads /\ CleanBetween /\ WorksAlone /\ Room

(* A plan is made by the transaction that begins its deletion, and as long as
   it is pending nothing is written. *)
LEMMA PlansStay ==
    ASSUME SoundInv, AloneInv, [Next]_vars PROVE PendingPlanLoads'
<1>0. WorldTypeOK /\ OneJobAtATime
  BY DEF SoundInv, Inv, TypeOK, WorldInv
<1>1. CASE UNCHANGED worldVars
  BY <1>1 DEF AloneInv, PendingPlanLoads, PlanLoads, SourceClosure, Runs, ClosureDigests,
      SurvivesOutside, DigestsOf, IntentsOf, worldVars, recordVars, jobVars
<1>2. ASSUME ActiveJobs = {}, UNCHANGED jobVars PROVE PendingPlanLoads'
  BY <1>2 DEF PendingPlanLoads, ActiveJobs, jobVars
<1>3. CASE IngestPrepare \/ IngestIntents \/ IngestFrames \/ IngestEvidence \/ IngestFinalize
  <2>1. pc \in WorkSteps
    BY <1>3 DEF IngestPrepare, IngestIntents, IngestFrames, IngestEvidence, IngestFinalize, At,
        WorkSteps, StagingSteps
  <2>2. UNCHANGED jobVars
    BY <1>3 DEF IngestPrepare, PrepareRun, Commit, IngestIntents, RecordArtifactIntents,
        IngestFrames, IngestEvidence, CommitForRun, IngestFinalize, FinalizeRun
  <2> QED BY <2>1, <2>2, <1>2 DEF AloneInv, WorksAlone
<1>4. CASE FinishRun
  BY <1>2, <1>4 DEF FinishRun, FinishRunCleanup, At, SoundInv, ProgressInv, RecoveryInv
<1>5. CASE PurgeMetadata \/ Complete
  <2>1. /\ target \in ActiveJobs
        /\ \E st \in {"metadata_purged", "complete"} : jobState' = [jobState EXCEPT ![target] = st]
    <3>1. target \in DeletionId
      BY <1>5 DEF PurgeMetadata, Complete, At, SoundInv, Inv, SessionShape, DeletionSteps
    <3> QED BY <1>5, <3>1 DEF PurgeMetadata, PurgeDeletionMetadata, CanPurge, PlanLoads, Complete,
            CompleteDeletion, ActiveJobs
  <2>2. \A d \in DeletionId : jobState'[d] # "pending"
    BY <2>1, <1>0 DEF OneJobAtATime, ActiveJobs, WorldTypeOK
  <2> QED BY <2>2 DEF PendingPlanLoads
<1>6. ASSUME NEW p, NEW s \in Source, NEW d \in DeletionId, StartDeletion(p, s, d)
      PROVE  PendingPlanLoads'
  <2> DEFINE cl == SourceClosure(s)
             kept == {x \in ClosureDigests(cl) : SurvivesOutside(x, cl)}
  <2>1. /\ ActiveJobs = {} /\ UNCHANGED <<recordVars, runState, intents>>
        /\ jobState' = [jobState EXCEPT ![d] = "pending"]
        /\ jobRoot' = [jobRoot EXCEPT ![d] = s]
        /\ closure' = [closure EXCEPT ![d] = cl]
        /\ required' = [required EXCEPT ![d] = ClosureDigests(cl) \ kept]
        /\ retained' = [retained EXCEPT ![d] = kept]
    BY <1>6 DEF StartDeletion, BeginSourceDeletion, CanBeginDeletion
  <2>2. \A j \in DeletionId : jobState'[j] = "pending" => j = d
    BY <2>1, <1>0 DEF ActiveJobs, WorldTypeOK
  <2>3. /\ jobState'[d] = "pending" /\ jobRoot'[d] = s /\ closure'[d] = cl
        /\ required'[d] = ClosureDigests(cl) \ kept /\ retained'[d] = kept
    BY <2>1, <1>0 DEF WorldTypeOK
  <2>4. SourceClosure(jobRoot[d])' = cl
    BY <2>1, <2>3 DEF SourceClosure, Runs, recordVars
  <2>5. ClosureDigests(closure[d])' = ClosureDigests(cl)
    BY <2>1, <2>3 DEF ClosureDigests, DigestsOf, IntentsOf, recordVars
  <2>6. \A x : SurvivesOutside(x, closure[d])' = SurvivesOutside(x, cl)
    BY <2>1, <2>3 DEF SurvivesOutside, DigestsOf, recordVars
  <2>7. PlanLoads(d)'
    <3> HIDE DEF cl
    <3> QED BY <2>3, <2>4, <2>5, <2>6 DEF PlanLoads
  <2> QED BY <2>2, <2>7 DEF PendingPlanLoads
<1> QED BY <1>1, <1>3, <1>4, <1>5, <1>6, QuietOrTransaction DEF Transaction

(* Only the end of a recovery lets a call go on, and it leaves nothing. *)
LEMMA CleanStays ==
    ASSUME OneProcess, SoundInv, AloneInv, [Next]_vars PROVE CleanBetween'
<1> SUFFICES ASSUME NEW p \in Process, proc'[p] \in Run, owner' # p PROVE Clean'
  BY DEF CleanBetween
<1>0. /\ owner \in Process \cup {NoProcess} /\ NoProcess \notin Process /\ "idle" \notin Run
      /\ proc \in [Process -> Calls]
  BY Identities DEF SoundInv, Inv, TypeOK
<1>1. ASSUME owner # NoProcess PROVE owner = p
  BY <1>0, <1>1 DEF OneProcess
<1>2. owner' = owner => owner = NoProcess
  BY <1>1
<1>3. ASSUME owner # NoProcess, Leave("idle") PROVE FALSE
  BY <1>0, <1>1, <1>3 DEF Leave
<1>4. ASSUME NEW q \in Process, NEW l, NEW t, Enter(q, l, t) PROVE FALSE
  BY <1>4 DEF Enter, OneProcess
<1>5. ASSUME NEW q \in Process, proc' = [proc EXCEPT ![q] = "idle"] PROVE FALSE
  BY <1>0, <1>5 DEF OneProcess
<1>6. CASE EndRecover
  <2>1. At("rec_end") /\ UNCHANGED <<worldVars, storeVars>>
    BY <1>6 DEF EndRecover
  <2>2. Clean
    <3>1. /\ runDirs = {} /\ intents = {} /\ ActiveJobs = {}
          /\ \A r \in Run : runState[r] # "preparing"
      BY <2>1, RecoveryEnds DEF RecoveryLeavesNothing
    <3> QED BY <3>1 DEF Clean, SoundInv, FilesInv, NoOrphanBytes, FilesInDirs
  <2> QED BY <2>1, <2>2 DEF Clean, ActiveJobs, worldVars, jobVars, storeVars
<1>7. CASE RecoverStep
  BY <1>2, <1>6, <1>7 DEF RecoverStep, ResumePending, ResumePurged, ListRuns, PlanRun, FinishRun,
      ScanStaging, At
<1>8. CASE IngestStep
  <2>1. ~IngestVerify
    BY <1>3 DEF IngestVerify, At
  <2> QED BY <1>2, <1>8, <2>1 DEF IngestStep, IngestPrepare, IngestStage, IngestIntents,
          IngestPromote, IngestFrames, IngestEvidence, IngestLoopDone, LoopDone, IngestFinalize,
          At, Goto, sessionVars
<1>9. CASE SessionStep
  <2>1. ~EndRepair /\ ~Raise
    BY <1>3, StuckIsInSession, InvParts DEF EndRepair, Raise, At, SoundInv
  <2>2. ~Complete
    BY <1>2, <1>3 DEF Complete, At, Goto
  <2>3. DiscardOne \/ UnlinkOne => owner # NoProcess
    BY FreeSession, InvParts DEF DiscardOne, UnlinkOne, SoundInv
  <2>4. ~(DiscardOne \/ UnlinkOne)
    BY <2>3, <1>2 DEF DiscardOne, UnlinkOne
  <2> QED BY <1>2, <1>7, <1>8, <1>9, <2>1, <2>2, <2>4 DEF SessionStep, RemoveFiles, PurgeMetadata, At
<1>10. ASSUME NEW q \in Process, Start(q) PROVE Clean'
  BY <1>4, <1>5, <1>10 DEF Start, StartRecover, StartRepair, StartIngest, RefuseIngest,
      StartDeletion, RejoinDeletion, RetryPurged
<1>11. CASE Failure
  BY <1>3, <1>5, <1>11 DEF Failure, Crash, CrashInside, CheckpointBusy, CrashBetween, At
<1>12. CASE UNCHANGED vars
  BY <1>12 DEF vars, AloneInv, CleanBetween, Clean, ActiveJobs, sessionVars, worldVars, jobVars, storeVars
<1> QED BY <1>9, <1>10, <1>11, <1>12 DEF Next

(* Where no ingestion works. *)
LEMMA NobodyWorks == pc' \notin WorkSteps => WorksAlone'
BY DEF WorksAlone, WorkSteps, StagingSteps

(* The second session of an ingestion begins with a clean store. *)
LEMMA WorkBegins ==
    ASSUME SoundInv, AloneInv, NEW p \in Process, NEW r \in Run, StartIngest(p, r)
    PROVE  WorksAlone'
<1>1. CASE ExistingState(r) = "committed"
  BY <1>1, NobodyWorks DEF StartIngest, Enter, WorkSteps, StagingSteps
<1>2. CASE ExistingState(r) # "committed"
  <2>1. /\ proc[p] = r /\ owner = NoProcess /\ ExistingState(r) # "preparing"
        /\ pc' = "ing_prepare" /\ target' = r /\ handles' = handles /\ FitsInventory(r)
        /\ UNCHANGED <<worldVars, storeVars>>
    BY <1>2 DEF StartIngest, Enter
  <2>2. handles = {}
    BY <2>1, FreeSession, InvParts DEF SoundInv
  <2>3. Clean
    BY <2>1, Identities DEF AloneInv, CleanBetween
  <2>4. runState[r] \in {"absent", "failed", "cancelled"}
    <3>1. Hidden = {} /\ runState[r] \in RunStates
      BY <2>3, NothingHidden DEF Clean, SoundInv, Inv, TypeOK, WorldTypeOK
    <3> QED BY <1>2, <2>1, <3>1 DEF ExistingState, RunStates
  <2> QED BY <2>1, <2>2, <2>3, <2>4
        DEF WorksAlone, Clean, ActiveJobs, IntentsOf, FitsInventory, worldVars, jobVars, storeVars
<1> QED BY <1>1, <1>2

(* A file is staged under a name that no other file of the run has. *)
LEMMA StageAlone == ASSUME SoundInv, AloneInv, IngestStage PROVE WorksAlone'
<1>1. PICK x \in RunDigests(target) \ {h.digest : h \in handles}, n \in StageName :
         /\ FreshName(target, n) /\ Stage(target, x, n)
         /\ handles' = handles \cup {[run |-> target, digest |-> x, name |-> n]}
  BY DEF IngestStage
<1> DEFINE new == [run |-> target, digest |-> x, name |-> n]
<1>2. /\ pc = "ing_stage" /\ pc' = pc /\ target' = target /\ UNCHANGED worldVars
      /\ handles' = handles \cup {new} /\ staged' = staged \cup {new}
      /\ incomplete' = incomplete /\ runDirs' = runDirs \cup {target}
  BY <1>1 DEF IngestStage, At, Stage
<1>3. /\ ActiveJobs' = ActiveJobs /\ IntentsOf({target})' = IntentsOf({target})
      /\ FitsInventory(target)' = FitsInventory(target)
  BY <1>2 DEF ActiveJobs, IntentsOf, FitsInventory, worldVars, jobVars
<1>4. /\ ActiveJobs = {} /\ IntentsOf({target}) \subseteq handles
      /\ \A h \in handles : h.run = target /\ h.digest \in RunDigests(target)
      /\ \A g, h \in handles : g.digest = h.digest \/ g.name = h.name => g = h
      /\ handles \subseteq staged /\ FitsInventory(target)
      /\ incomplete = {} /\ staged \subseteq handles /\ runDirs \subseteq {target}
  BY <1>2 DEF AloneInv, WorksAlone, WorkSteps, StagingSteps
<1>5. new.run = target /\ new.digest = x /\ new.name = n
  OBVIOUS
<1>6. \A h \in handles : h.digest # x /\ h.name # n
  BY <1>1, <1>4 DEF FreshName, UsedNames
<1> HIDE DEF new
<1>7. \A g, h \in handles' : g.digest = h.digest \/ g.name = h.name => g = h
  BY <1>2, <1>4, <1>5, <1>6
<1>8. \A h \in handles' : h.run = target /\ h.digest \in RunDigests(target)
  BY <1>2, <1>4, <1>5, <1>1
<1> QED BY <1>2, <1>3, <1>4, <1>7, <1>8 DEF WorksAlone, WorkSteps, StagingSteps

(* The rest of the ingestion only uses up what it has staged. *)
LEMMA WorkGoesOn ==
    ASSUME SoundInv, AloneInv,
           \/ IngestPrepare \/ IngestIntents \/ IngestPromote \/ IngestFrames \/ IngestEvidence
           \/ IngestLoopDone
    PROVE  WorksAlone'
<1>1. /\ pc \in WorkSteps /\ UNCHANGED <<target, handles>>
      /\ ActiveJobs = {} /\ IntentsOf({target}) \subseteq handles
      /\ \A h \in handles : h.run = target /\ h.digest \in RunDigests(target)
      /\ \A g, h \in handles : g.digest = h.digest \/ g.name = h.name => g = h
  BY DEF IngestPrepare, IngestIntents, IngestPromote, IngestFrames, IngestEvidence,
      IngestLoopDone, LoopDone, Goto, At, sessionVars, AloneInv, WorksAlone, WorkSteps, StagingSteps
<1>2. /\ UNCHANGED jobVars
      /\ \/ UNCHANGED intents
         \/ IngestIntents /\ \E B \in SUBSET handles : intents' = intents \cup B
  BY DEF IngestPrepare, PrepareRun, Commit, IngestIntents, RecordArtifactIntents, Batches,
      IngestPromote, IngestFrames, IngestEvidence, CommitForRun, IngestLoopDone, worldVars
<1>3. ActiveJobs' = {} /\ IntentsOf({target})' \subseteq handles'
  BY <1>1, <1>2 DEF ActiveJobs, IntentsOf, jobVars
<1>4. /\ pc' # "ing_prepare"
      /\ pc' = "ing_stage" => pc = "ing_prepare" /\ handles = {}
      /\ pc' \in StagingSteps => pc \in StagingSteps
  BY DEF IngestPrepare, IngestIntents, IngestPromote, IngestFrames, IngestEvidence,
      IngestLoopDone, LoopDone, Goto, At, sessionVars, AloneInv, WorksAlone, StagingSteps
<1>5. staged' \subseteq staged /\ incomplete' = incomplete /\ runDirs' \subseteq runDirs
  <2>1. CASE IngestPromote
    BY <2>1 DEF IngestPromote, CommitStage, DirsWithout
  <2>2. CASE ~IngestPromote
    BY <2>2 DEF IngestPrepare, IngestIntents, IngestFrames, IngestEvidence, IngestLoopDone, storeVars
  <2> QED BY <2>1, <2>2
<1>6. pc' \in StagingSteps =>
         /\ FitsInventory(target)'
         /\ incomplete' = {} /\ staged' \subseteq handles' /\ runDirs' \subseteq {target'}
  BY <1>1, <1>4, <1>5 DEF AloneInv, WorksAlone, FitsInventory
<1>7. pc' = "ing_stage" => handles' \subseteq staged'
  BY <1>1, <1>4
<1>8. \A h \in handles' : h.run = target' /\ h.digest \in RunDigests(target')
  BY <1>1
<1>9. \A g, h \in handles' : g.digest = h.digest \/ g.name = h.name => g = h
  BY <1>1
<1> QED BY <1>3, <1>4, <1>6, <1>7, <1>8, <1>9 DEF WorksAlone

(* An ingestion that works alone still does after the step, or has ended. *)
LEMMA WorkStays == ASSUME SoundInv, AloneInv, [Next]_vars PROVE WorksAlone'
<1>1. ASSUME NEW c, Leave(c) PROVE WorksAlone'
  BY <1>1, NobodyWorks DEF Leave, WorkSteps, StagingSteps
<1>2. ASSUME UNCHANGED <<worldVars, storeVars, sessionVars>> PROVE WorksAlone'
  BY <1>2 DEF AloneInv, WorksAlone, ActiveJobs, IntentsOf, FitsInventory, worldVars, jobVars,
      storeVars, sessionVars
<1>3. CASE RecoverStep
  <2>1. ASSUME EndRecover PROVE WorksAlone'
    BY <2>1, <1>1 DEF EndRecover
  <2>2. pc' \in {"rec_deletions", "rec_purge", "rec_complete", "rec_runs", "rec_finish", "rec_end"}
        \/ EndRecover
    BY <1>3 DEF RecoverStep, ResumePending, ResumePurged, ListRuns, PlanRun, FinishRun,
        ScanStaging, At
  <2> QED BY <2>1, <2>2, NobodyWorks DEF WorkSteps, StagingSteps
<1>4. CASE IngestStep
  <2>1. ASSUME IngestVerify PROVE WorksAlone'
    BY <2>1, <1>1 DEF IngestVerify
  <2>2. ASSUME IngestFinalize PROVE WorksAlone'
    BY <2>2, NobodyWorks DEF IngestFinalize, Goto, WorkSteps, StagingSteps
  <2> QED BY <1>4, <2>1, <2>2, StageAlone, WorkGoesOn DEF IngestStep
<1>5. CASE SessionStep
  <2>1. ASSUME EndRepair \/ Raise PROVE WorksAlone'
    BY <2>1, <1>1 DEF EndRepair, Raise
  <2>2. ASSUME RemoveFiles \/ PurgeMetadata PROVE WorksAlone'
    BY <2>2, NobodyWorks DEF RemoveFiles, PurgeMetadata, WorkSteps, StagingSteps
  <2>3. ASSUME Complete PROVE WorksAlone'
    BY <2>3, <1>1, NobodyWorks DEF Complete, Goto, WorkSteps, StagingSteps
  <2>4. ASSUME DiscardOne \/ UnlinkOne PROVE WorksAlone'
    <3>1. discards # {} \/ unlinks # {}
      BY <2>4 DEF DiscardOne, UnlinkOne
    <3>2. pc' = pc /\ pc \in RemovalSteps \cup {"rec_end"}
      BY <2>4, <3>1 DEF DiscardOne, UnlinkOne, SoundInv, Inv, SessionShape
    <3> QED BY <3>2, NobodyWorks DEF RemovalSteps, WorkSteps, StagingSteps
  <2> QED BY <1>3, <1>4, <1>5, <2>1, <2>2, <2>3, <2>4 DEF SessionStep
<1>6. ASSUME NEW p \in Process, Start(p) PROVE WorksAlone'
  <2>1. ASSUME NEW r, RefuseIngest(p, r) PROVE WorksAlone'
    BY <2>1, <1>2 DEF RefuseIngest
  <2>2. ASSUME \/ \E c : StartRecover(p, c)
               \/ StartRepair(p)
               \/ \E s, d : StartDeletion(p, s, d) \/ RejoinDeletion(p, s, d) \/ RetryPurged(p, s, d)
        PROVE  WorksAlone'
    BY <2>2, NobodyWorks DEF StartRecover, StartRepair, StartDeletion, RejoinDeletion,
        RetryPurged, Enter, WorkSteps, StagingSteps
  <2> QED BY <1>6, <2>1, <2>2, WorkBegins DEF Start
<1>7. ASSUME NEW p, CrashBetween(p) PROVE WorksAlone'
  BY <1>2, <1>7 DEF CrashBetween
<1>8. CASE Failure
  BY <1>1, <1>7, <1>8 DEF Failure, Crash, CrashInside, CheckpointBusy
<1> QED BY <1>2, <1>5, <1>6, <1>8 DEF Next, vars

(* Files with different digests are no more than the digests. *)
LEMMA OneFilePerDigest ==
    ASSUME NEW D, IsFiniteSet(D), NEW H, \A h \in H : h.digest \in D,
           \A g, h \in H : g.digest = h.digest => g = h
    PROVE  IsFiniteSet(H) /\ Cardinality(H) <= Cardinality(D)
<1> DEFINE f == [h \in H |-> h.digest]
<1>1. f \in Injection(H, D)
  BY DEF Injection, IsInjective
<1> QED BY <1>1, FS_Injection

(* What an ingestion may stage passed its preflight: a directory and, for each
   of its digests, a file that is complete or one that is not. *)
LEMMA IngestionFits ==
    ASSUME ManifestsAreFinite, NEW r \in Run, FitsInventory(r),
           NEW D \in SUBSET RunDigests(r), RunDigests(r) # {},
           NEW H, \A h \in H : h.digest \in D, \A g, h \in H : g.digest = h.digest => g = h,
           runDirs' \subseteq {r}, staged' \subseteq H,
           \/ incomplete' = {}
           \/ D # RunDigests(r) /\ \E f : incomplete' = {f}
    PROVE  Room'
<1>1. /\ IsFiniteSet(RunDigests(r)) /\ Cardinality(RunDigests(r)) \in Nat
      /\ IsFiniteSet(D) /\ Cardinality(D) \in Nat /\ Cardinality(D) <= Cardinality(RunDigests(r))
      /\ D # RunDigests(r) => Cardinality(D) # Cardinality(RunDigests(r))
  <2> DEFINE f == [e \in RunEvidence[r] |-> EvidenceDigest[e]]
  <2>1. f \in Surjection(RunEvidence[r], RunDigests(r))
    BY DEF Surjection, RunDigests
  <2>2. IsFiniteSet(RunDigests(r))
    BY <2>1, FS_Surjection DEF ManifestsAreFinite
  <2>3. /\ IsFiniteSet(D) /\ Cardinality(D) <= Cardinality(RunDigests(r))
        /\ Cardinality(RunDigests(r)) = Cardinality(D) => RunDigests(r) = D
    BY <2>2, FS_Subset
  <2> QED BY <2>2, <2>3, FS_CardinalityType
<1>2. IsFiniteSet(staged') /\ Cardinality(staged') \in Nat /\ Cardinality(staged') <= Cardinality(D)
  <2>1. IsFiniteSet(H) /\ Cardinality(H) <= Cardinality(D)
    BY <1>1, OneFilePerDigest
  <2>2. /\ IsFiniteSet(staged') /\ Cardinality(staged') <= Cardinality(H)
        /\ Cardinality(staged') \in Nat /\ Cardinality(H) \in Nat
    BY <2>1, FS_Subset, FS_CardinalityType
  <2> QED BY <1>1, <2>1, <2>2
<1>3. IsFiniteSet(runDirs') /\ Cardinality(runDirs') \in Nat /\ Cardinality(runDirs') <= 1
  <2>1. runDirs' = {} \/ runDirs' = {r}
    OBVIOUS
  <2>2. CASE runDirs' = {}
    BY <2>2, FS_EmptySet
  <2>3. CASE runDirs' = {r}
    <3>1. IsFiniteSet({r}) /\ Cardinality({r}) = 1
      BY FS_Singleton
    <3> QED BY <2>3, <3>1
  <2> QED BY <2>1, <2>2, <2>3
<1>4. /\ IsFiniteSet(incomplete') /\ Cardinality(incomplete') \in Nat
      /\ Cardinality(incomplete') <= Cardinality(RunDigests(r)) - Cardinality(D)
  <2>1. CASE incomplete' = {}
    <3>1. IsFiniteSet(incomplete') /\ Cardinality(incomplete') = 0
      BY <2>1, FS_EmptySet
    <3> QED BY <3>1, <1>1
  <2>2. ASSUME D # RunDigests(r), NEW g, incomplete' = {g}
        PROVE  /\ IsFiniteSet(incomplete') /\ Cardinality(incomplete') \in Nat
               /\ Cardinality(incomplete') <= Cardinality(RunDigests(r)) - Cardinality(D)
    <3>1. IsFiniteSet(incomplete') /\ Cardinality(incomplete') = 1
      BY <2>2, FS_Singleton
    <3> QED BY <3>1, <2>2, <1>1
  <2> QED BY <2>1, <2>2
<1>5. Cardinality(RunDigests(r)) + 1 <= MaxInventoryEntries /\ MaxInventoryEntries \in Nat
  BY DEF FitsInventory, ManifestsAreFinite
<1>6. Cardinality(runDirs') + Cardinality(staged') + Cardinality(incomplete') <= MaxInventoryEntries
  BY <1>1, <1>2, <1>3, <1>4, <1>5
<1> QED BY <1>2, <1>3, <1>4, <1>6 DEF Room, CanScanStaging, StagingEntries

(* What leaves the staging area makes room. *)
LEMMA RoomIsMade ==
    ASSUME ManifestsAreFinite, Room, runDirs' \subseteq runDirs, staged' \subseteq staged,
           incomplete' \subseteq incomplete
    PROVE  Room'
<1>1. /\ IsFiniteSet(runDirs') /\ Cardinality(runDirs') <= Cardinality(runDirs)
      /\ IsFiniteSet(staged') /\ Cardinality(staged') <= Cardinality(staged)
      /\ IsFiniteSet(incomplete') /\ Cardinality(incomplete') <= Cardinality(incomplete)
  BY FS_Subset DEF Room
<1>2. /\ Cardinality(runDirs) \in Nat /\ Cardinality(runDirs') \in Nat
      /\ Cardinality(staged) \in Nat /\ Cardinality(staged') \in Nat
      /\ Cardinality(incomplete) \in Nat /\ Cardinality(incomplete') \in Nat
  BY <1>1, FS_CardinalityType DEF Room
<1>3. Cardinality(runDirs) + Cardinality(staged) + Cardinality(incomplete) <= MaxInventoryEntries
  BY DEF Room, CanScanStaging, StagingEntries
<1>4. Cardinality(runDirs') + Cardinality(staged') + Cardinality(incomplete') <= MaxInventoryEntries
  BY <1>1, <1>2, <1>3 DEF ManifestsAreFinite
<1> QED BY <1>1, <1>4 DEF Room, CanScanStaging, StagingEntries

(* Only an ingestion adds to staging, and what it adds fits. *)
LEMMA RoomStays ==
    ASSUME ManifestsAreFinite, SoundInv, AloneInv, WorksAlone', [Next]_vars PROVE Room'
<1>0. Room
  BY DEF AloneInv
<1>1. ASSUME UNCHANGED storeVars PROVE Room'
  BY <1>0, <1>1, RoomIsMade DEF storeVars
<1>2. CASE IngestStage
  <2>1. /\ pc' = "ing_stage" /\ target' = target /\ target \in Run /\ RunDigests(target) # {}
    BY <1>2, IngestTarget DEF IngestStage, At, SoundInv, IngestSteps
  <2>2. /\ FitsInventory(target)' /\ incomplete' = {} /\ staged' \subseteq handles'
        /\ runDirs' \subseteq {target}
        /\ \A h \in handles' : h.digest \in RunDigests(target)
        /\ \A g, h \in handles' : g.digest = h.digest => g = h
    BY <2>1 DEF WorksAlone, WorkSteps, StagingSteps
  <2>3. FitsInventory(target)
    BY <2>1, <2>2 DEF FitsInventory
  <2> QED BY <2>1, <2>2, <2>3, IngestionFits
<1>3. ASSUME NEW n \in StageName, At("ing_stage"), StageInterrupted(target, n),
             RunDigests(target) # {h.digest : h \in handles}
      PROVE  Room'
  <2>1. pc = "ing_stage" /\ target \in Run
    BY <1>3, IngestTarget DEF At, SoundInv, IngestSteps
  <2>2. /\ FitsInventory(target) /\ incomplete = {} /\ staged \subseteq handles
        /\ runDirs \subseteq {target}
        /\ \A h \in handles : h.digest \in RunDigests(target)
        /\ \A g, h \in handles : g.digest = h.digest => g = h
    BY <2>1 DEF AloneInv, WorksAlone, WorkSteps, StagingSteps
  <2> DEFINE D == {h.digest : h \in handles}
  <2>3. D \subseteq RunDigests(target) /\ D # RunDigests(target) /\ RunDigests(target) # {}
    BY <1>3, <2>2
  <2>4. /\ runDirs' \subseteq {target} /\ staged' \subseteq handles
        /\ incomplete' = {} \/ \E f : incomplete' = {f}
    BY <1>3, <2>2 DEF StageInterrupted
  <2>5. \A h \in handles : h.digest \in D
    OBVIOUS
  <2> HIDE DEF D
  <2> QED BY <2>1, <2>2, <2>3, <2>4, <2>5, IngestionFits
<1>4. CASE IngestPromote
  BY <1>0, <1>4, RoomIsMade DEF IngestPromote, CommitStage, DirsWithout
<1>5. CASE DiscardOne
  BY <1>0, <1>5, RoomIsMade
    DEF DiscardOne, DiscardStage, DiscardIncomplete, DiscardEmptyRun, DirsWithout
<1>6. CASE UnlinkOne
  BY <1>0, <1>6, RoomIsMade DEF UnlinkOne, DeleteArtifact
<1>7. CASE CrashInside
  <2>1. ASSUME \/ \E h \in handles \cap staged : CommitStageInterrupted(h)
               \/ \E h \in discards \cap StagedFile : DiscardStageInterrupted(h)
               \/ \E f \in discards \cap IncompleteFile : DiscardIncompleteInterrupted(f)
        PROVE  Room'
    BY <1>0, <2>1, RoomIsMade
      DEF CommitStageInterrupted, DiscardStageInterrupted, DiscardIncompleteInterrupted
  <2> QED BY <1>3, <1>7, <2>1 DEF CrashInside
<1>8. CASE RecoverStep
  BY <1>1, <1>8 DEF RecoverStep, ResumePending, ResumePurged, ListRuns, PlanRun, FinishRun,
      ScanStaging, EndRecover
<1>9. CASE IngestStep
  BY <1>1, <1>2, <1>4, <1>9 DEF IngestStep, IngestPrepare, IngestIntents, IngestFrames,
      IngestEvidence, IngestLoopDone, IngestFinalize, IngestVerify
<1>10. CASE SessionStep
  BY <1>1, <1>5, <1>6, <1>8, <1>9, <1>10 DEF SessionStep, EndRepair, RemoveFiles,
      PurgeMetadata, Complete, Raise
<1>11. ASSUME NEW p \in Process, Start(p) PROVE Room'
  BY <1>1, <1>11 DEF Start, StartRecover, StartRepair, StartIngest, RefuseIngest, StartDeletion,
      RejoinDeletion, RetryPurged
<1>12. CASE Failure
  BY <1>1, <1>7, <1>12 DEF Failure, Crash, CheckpointBusy, CrashBetween
<1> QED BY <1>1, <1>10, <1>11, <1>12 DEF Next, vars

(* The strengthening is inductive. *)
LEMMA AloneStep ==
    ASSUME OneProcess, ManifestsAreFinite, SoundInv, AloneInv, [Next]_vars PROVE AloneInv'
BY PlansStay, CleanStays, WorkStays, RoomStays DEF AloneInv

(* What the ingestion of a process that works alone asks of the tables is
   granted: nothing it needs has been taken and nothing was there before. *)
LEMMA IngestionIsGranted ==
    ASSUME SoundInv, ReadyInv, AloneInv
    PROVE  /\ At("ing_prepare") => CanCommit({RunSource[target]}, {target}, "preparing", {}, {})
           /\ At("ing_intents") => \A B \in SUBSET handles : CanRecordIntents(target, B)
           /\ At("ing_frames") => \A B \in SUBSET RunFrames(target) : CanCommitForRun(target, B, {})
           /\ At("ing_evidence") =>
                 \A B \in SUBSET RunEvidence[target] : CanCommitForRun(target, {}, B)
           /\ At("ing_finalize") => CanFinalizeRun(target, {}, {})
<1> SUFFICES ASSUME pc \in WorkSteps
             PROVE  /\ pc = "ing_prepare" =>
                          CanCommit({RunSource[target]}, {target}, "preparing", {}, {})
                    /\ pc = "ing_intents" => \A B \in SUBSET handles : CanRecordIntents(target, B)
                    /\ pc = "ing_frames" =>
                          \A B \in SUBSET RunFrames(target) : CanCommitForRun(target, B, {})
                    /\ pc = "ing_evidence" =>
                          \A B \in SUBSET RunEvidence[target] : CanCommitForRun(target, {}, B)
                    /\ pc = "ing_finalize" => CanFinalizeRun(target, {}, {})
  BY DEF At, WorkSteps, StagingSteps
<1>1. /\ target \in Run /\ WorldTypeOK
      /\ pc # "ing_prepare" => runState[target] = "preparing"
  BY IngestTarget DEF SoundInv, Inv, TypeOK, IngestSteps, WorkSteps, StagingSteps
<1>2. /\ \A s : SourceWritable(s)
      /\ IntentsOf({target}) \subseteq handles
      /\ \A h \in handles : h.run = target /\ h.digest \in RunDigests(target)
      /\ \A g, h \in handles : g.digest = h.digest \/ g.name = h.name => g = h
  BY NothingLeftPending DEF AloneInv, WorksAlone
<1>3. pc # "ing_prepare" => RunSource[target] \in sources
  BY <1>1 DEF ReadyInv, SourcesAreThere
<1>4. ASSUME pc = "ing_prepare"
      PROVE  CanCommit({RunSource[target]}, {target}, "preparing", {}, {})
  <2>1. CanWriteRun(target, "preparing")
    BY <1>4 DEF AloneInv, WorksAlone, CanWriteRun, RunTransition
  <2> QED BY <1>2, <2>1 DEF CanCommit, CanWriteData, CanAssociate
<1>5. ASSUME pc = "ing_intents", NEW B \in SUBSET handles PROVE CanRecordIntents(target, B)
  <2>1. \A h \in intents \cup B : h.run = target => h \in handles
    BY <1>2 DEF IntentsOf
  <2> QED BY <1>1, <1>2, <1>5, <2>1 DEF CanRecordIntents
<1>6. ASSUME pc = "ing_frames", NEW B \in SUBSET RunFrames(target)
      PROVE  CanCommitForRun(target, B, {})
  <2>1. \A f \in B : FrameSource[f] = RunSource[target]
    BY <1>1, RunsAreCoherent DEF RunFrames
  <2> QED BY <1>1, <1>2, <1>3, <1>6, <2>1 DEF CanCommitForRun, CanWriteData, CanAssociate
<1>7. ASSUME pc = "ing_evidence", NEW B \in SUBSET RunEvidence[target]
      PROVE  CanCommitForRun(target, {}, B)
  <2>1. ASSUME NEW e \in B
        PROVE  /\ EvidenceFrame[e] \in OwnedBy(target) /\ EvidenceFrame[e] \in frames
               /\ FrameSource[EvidenceFrame[e]] = RunSource[target]
    <3>1. EvidenceFrame[e] \in RunSamples[target] /\ EvidenceFrame[e] \in Frame
      BY <1>1, RunsAreCoherent, RecordTypes
    <3>2. <<target, EvidenceFrame[e]>> \in runRecords /\ EvidenceFrame[e] \in OwnedBy(target)
      BY <1>7, <3>1 DEF SoundInv, ProgressInv, IngestOwns, RunFrames, OwnedBy
    <3>3. EvidenceFrame[e] \in frames \cup evidence
      BY <3>2 DEF SoundInv, Inv, WorldInv, OwnershipIsSound
    <3> QED BY <1>1, <3>1, <3>2, <3>3, RunsAreCoherent, RecordKinds DEF WorldTypeOK
  <2> QED BY <1>1, <1>2, <1>7, <2>1 DEF CanCommitForRun, CanWriteData, CanAssociate
<1>8. ASSUME pc = "ing_finalize" PROVE CanFinalizeRun(target, {}, {})
  <2>1. RunFrames(target) \subseteq OwnedBy(target) /\ RunEvidence[target] \subseteq OwnedBy(target)
    BY <1>8 DEF SoundInv, ProgressInv, IngestOwns
  <2>2. \A i \in IntentsOf({target}) : i.digest \in DigestsOf((OwnedBy(target) \cap Evidence) \cup {})
    <3>1. RunDigests(target) \subseteq DigestsOf((OwnedBy(target) \cap Evidence) \cup {})
      BY <1>1, <2>1, RecordTypes DEF RunDigests, DigestsOf
    <3> QED BY <1>2, <3>1
  <2>3. (OwnedBy(target) \cap Frame) \cup {} = RunFrames(target)
    BY <1>1, <2>1, RecordTypes, RecordKinds DEF SoundInv, Inv, RunsOwnTheirOwn, RunFrames
  <2>4. CanWriteData(sources, {}, {}) /\ CanAssociate(target, {}, {})
    BY DEF CanWriteData, CanAssociate
  <2> QED BY <1>1, <1>2, <1>8, <2>2, <2>3, <2>4 DEF CanFinalizeRun
<1> QED BY <1>4, <1>5, <1>6, <1>7, <1>8

(* No step of a process that works alone finds its operation refused. *)
LEMMA AloneIsNeverStuck ==
    ASSUME SoundInv, ReadyInv, AloneInv PROVE ~Stuck /\ RecoveryNeverRaises /\ RecoveryScanFits
<1>1. CanScanStaging /\ \A d \in DeletionId : jobState[d] = "pending" => CanRemoveFiles(d)
  BY DEF AloneInv, Room, PendingPlanLoads, CanRemoveFiles
<1>2. pc \notin RecoverySteps \/ ~Stuck
  BY <1>1, ListingRaises DEF RecoveryRaisesOnlyInListing
<1>3. \A r \in discards \cap Run : CanDiscardEmptyRun(r)
  BY DEF ReadyInv, PlansCanBeDone
<1>4. At("del_purge") => CanPurge(target, cas)
  <2> SUFFICES ASSUME At("del_purge") PROVE CanPurge(target, cas)
    OBVIOUS
  <2>1. target \in DeletionId /\ jobState[target] = "pending" /\ required[target] \cap cas = {}
    BY DEF At, SoundInv, Inv, SessionShape, DeletionSteps, RemovalInv, ReadyInv, PlansCanBeDone
  <2> QED BY <2>1 DEF CanPurge, AloneInv, PendingPlanLoads, ReadyInv, SourcesAreThere
<1>5. \A S : \A B \in Batches(S) : B \in SUBSET S
  BY DEF Batches
<1>6. \A S, T : S \ T \subseteq S
  OBVIOUS
<1>7. ASSUME Stuck PROVE FALSE
  BY <1>1, <1>2, <1>3, <1>4, <1>5, <1>6, <1>7, IngestionIsGranted
    DEF Stuck, RecoverySteps, At
<1> QED BY <1>1, <1>7 DEF RecoveryNeverRaises, RecoveryScanFits

(* While one process at a time works on a store, no operation of any of its
   calls is refused, whatever its predecessors left when they died: a recovery
   always gets to its end, and finds no more in staging than it can list. *)
THEOREM AloneNothingRaises ==
    ASSUME OneProcess, ManifestsAreFinite
    PROVE  Spec => [](~Stuck /\ RecoveryNeverRaises /\ RecoveryScanFits)
<1>1. Init => AloneInv
  <2>1. IsFiniteSet({}) /\ Cardinality({}) = 0
    BY FS_EmptySet
  <2>2. ASSUME Init PROVE Room
    BY <2>1, <2>2 DEF Init, StoreInit, Room, CanScanStaging, StagingEntries, ManifestsAreFinite
  <2>3. ASSUME Init PROVE PendingPlanLoads /\ CleanBetween /\ WorksAlone
    BY <2>3, Identities DEF Init, WorldInit, PendingPlanLoads, CleanBetween, WorksAlone, WorkSteps, StagingSteps
  <2> QED BY <2>2, <2>3 DEF AloneInv
<1>2. SoundInv /\ AloneInv /\ [Next]_vars => AloneInv'
  BY AloneStep
<1>3. SoundInv /\ ReadyInv /\ AloneInv => ~Stuck /\ RecoveryNeverRaises /\ RecoveryScanFits
  BY AloneIsNeverStuck
<1> QED BY <1>1, <1>2, <1>3, Soundness, Readiness, PTL DEF Spec

---------------------------------------------------------------------------
(* Both coordinators, for any number of processes and runs of both kinds.  *)
(* The tables of version 1 and the files stay as sound as they are when    *)
(* only ingestions run; a published perception run reads back whole and is *)
(* kept as it was published; and a finished recovery leaves no trace of a  *)
(* run that did not commit.  What a session read before it took the lock   *)
(* is never used: each fact comes from the transactions that follow it.    *)

PerceptionSteps == {"per_observations", "per_tracklets", "per_links", "per_finalize"}

(* All a run has to perceive. *)
GraphOf(r) == RunObservations[r] \cup RunTracklets[r]

(* s is the row of the intent u. *)
IsIntent(s, u) == s.tracklet = u.tracklet /\ s.rank = u.rank /\ s.observation = u.observation

(* A run perceives only its own, and nothing once it failed. *)
RunsPerceiveTheirOwn ==
    \A r \in Run :
        /\ PerceptionOf(r) \subseteq GraphOf(r)
        /\ PerceptionOf(r) # {} => runState[r] \in {"preparing", "committed"}

(* Every selection is the row of an intent of its run, linked to the crop of
   that intent or not linked yet. *)
SelectionsAreIntents ==
    \A s \in selected : \E u \in RunSelections[s.run] :
        IsIntent(s, u) /\ s.evidence \in {NoEvidence, u.evidence}

(* A tracklet is stored together with its intents. *)
TrackletsHaveIntents ==
    \A r \in Run : \A u \in RunSelections[r] :
        u.tracklet \in PerceptionOf(r) => \E s \in SelectionsOf(r) : IsIntent(s, u)

(* A published perception is complete. *)
CommittedPerceivedAll ==
    \A r \in PerceptionRun :
        runState[r] = "committed" => GraphOf(r) \subseteq PerceptionOf(r) /\ OpenLinks(r) = {}

PerceivedInv ==
    /\ RunsPerceiveTheirOwn /\ SelectionsAreIntents
    /\ TrackletsHaveIntents /\ CommittedPerceivedAll

(* How far the session that perceives has come. *)
PerceptionProgress ==
    /\ pc \in PerceptionSteps => target \in PerceptionRun
    /\ pc = "per_tracklets" => RunObservations[target] \subseteq PerceptionOf(target)
    /\ pc \in {"ing_evidence", "per_links", "per_finalize"} /\ target \in PerceptionRun =>
          GraphOf(target) \subseteq PerceptionOf(target)
    /\ pc = "per_finalize" => OpenLinks(target) = {}

PerceptionInv == SoundInv /\ GraphInv /\ PerceivedInv /\ PerceptionProgress
-----------------------------------------------------------------------------
(* The tables of version 1, the files and the session: every step of either
   coordinator is one that CoordinatorProofs knows, or leaves them alone. *)

(* Whatever is stuck is inside a session, so a step that raises ends it just
   as a crash does. *)
LEMMA RaiseSound == ASSUME SoundInv, PerceptionRaise PROVE SoundInv'
<1>1. owner # NoProcess
  BY StuckIsInSession, InvParts DEF SoundInv, PerceptionRaise, PerceptionStuck, At
<1>2. Crash
  BY <1>1 DEF PerceptionRaise, Crash
<1> QED BY <1>2, EndStep, EndSound DEF SoundInv

(* A step that only changes the tables of version 2, or what a process
   outside the session is doing. *)
LEMMA ElsewhereSound ==
    ASSUME SoundInv, UNCHANGED <<worldVars, storeVars, sessionVars>>,
           proc' \in [Process -> Calls]
    PROVE  SoundInv'
BY OutsideInv, OutsideSound DEF SoundInv

(* A perception reads, gives up, verifies, or enters its writing session. *)
LEMMA PerceptionStartSound ==
    ASSUME SoundInv, NEW p \in Process, PerceptionStart(p) PROVE SoundInv'
<1>1. proc \in [Process -> Calls] /\ PerceptionRun \subseteq Run
  BY PerceptionRunTypes DEF SoundInv, Inv, TypeOK
<1>2. ASSUME NEW r \in PerceptionRun, StartPerception(p, r) PROVE SoundInv'
  <2>1. /\ UNCHANGED <<worldVars, storeVars, proc, queue, discards, unlinks>>
        /\ Enter(p, "ing_prepare", r) /\ r \in Run
    BY <1>1, <1>2 DEF StartPerception, Enter
  <2>2. SessionInv'
    BY <1>1, <2>1, EnterSession, InvParts
      DEF SoundInv, Steps, RemovalSteps, IngestSteps, DeletionSteps
  <2>3. Inv'
    BY <2>1, <2>2, QuietStep DEF SoundInv
  <2>4. FilesInv' /\ ProgressInv'
    BY <2>1, StartSound DEF Steps, ProgressSteps
  <2> QED BY <2>3, <2>4 DEF SoundInv
<1>3. ASSUME \/ \E r \in PerceptionRun : ReadExisting(p, r)
             \/ VerifyPersisted(p) \/ GiveUp(p)
      PROVE  SoundInv'
  <2>1. UNCHANGED <<worldVars, storeVars, sessionVars>> /\ proc' \in [Process -> Calls]
    BY <1>1, <1>3, IdleIsACall DEF ReadExisting, VerifyPersisted, GiveUp, vars
  <2> QED BY <2>1, ElsewhereSound
<1> QED BY <1>2, <1>3 DEF PerceptionStart

(* Every other call starts as it does without perception. *)
LEMMA OtherStartSound ==
    ASSUME SoundInv, NEW p \in Process, OtherStart(p) PROVE SoundInv'
<1>1. Start(p)
  BY DEF OtherStart, Start
<1> QED BY <1>1, StepSound DEF Next

(* The loops of a perception end with what the next one relies on. *)
LEMMA PerceptionLoopDoneSound ==
    ASSUME SoundInv, ForPerception, PerceptionLoopDone PROVE SoundInv'
<1>1. CASE IngestLoopDone
  BY <1>1, LoopDoneStep, LoopDoneSound DEF SoundInv
<1>2. CASE ~IngestLoopDone
  <2>1. /\ UNCHANGED <<worldVars, storeVars>>
        /\ UNCHANGED <<proc, owner, target, queue, discards, unlinks, handles>>
        /\ \/ /\ pc = "ing_frames" /\ RunFrames(target) \subseteq OwnedBy(target)
              /\ pc' = "per_observations"
           \/ pc = "per_observations" /\ pc' = "per_tracklets"
           \/ pc = "per_tracklets" /\ pc' = "ing_evidence"
           \/ /\ pc = "ing_evidence" /\ RunEvidence[target] \subseteq OwnedBy(target)
              /\ pc' = "per_links"
           \/ pc = "per_links" /\ pc' = "per_finalize"
    BY <1>2 DEF PerceptionLoopDone, At, Goto
  <2>2. owner # NoProcess
    BY DEF ForPerception
  <2>3. SessionTypeOK' /\ SessionShape'
    BY <2>1, <2>2, InvParts
      DEF SoundInv, SessionInv, SessionTypeOK, SessionShape, Steps, IngestSteps, RemovalSteps,
          DeletionSteps
  <2>4. IngestInv' /\ RemovalInv'
    BY <2>1, InvParts
      DEF SoundInv, SessionInv, IngestInv, RemovalInv, IngestSteps, worldVars, storeVars
  <2>5. Inv'
    BY <2>1, <2>3, <2>4, QuietStep DEF SoundInv, SessionInv
  <2>6. OwnedBy(target)' = OwnedBy(target) /\ RunFrames(target)' = RunFrames(target)
    BY <2>1 DEF OwnedBy, RunFrames, worldVars, recordVars
  <2>7. IngestOwns'
    BY <2>1, <2>6 DEF SoundInv, ProgressInv, IngestOwns
  <2>8. RemovalsAreListed' /\ RecoveryInv'
    BY <2>1 DEF RemovalsAreListed, RecoveryInv
  <2> QED BY <2>1, <2>5, <2>7, <2>8, QuietFiles DEF SoundInv, ProgressInv
<1> QED BY <1>1, <1>2

(* The session publishes and ends in one step. *)
LEMMA PublishSound == ASSUME SoundInv, Finalize PROVE SoundInv'
<1>1. /\ pc = "per_finalize" /\ owner # NoProcess
      /\ FinalizeRun(target, {}, {}) /\ UNCHANGED storeVars /\ Leave(target)
  BY DEF Finalize, At, FinalizePerceptionRun
<1>2. DataInv'
  BY <1>1, FinalizeData DEF SoundInv
<1>3. SessionInv'
  <2>1. target \in Calls
    BY <1>1, IngestTarget DEF SoundInv, IngestSteps, Calls
  <2> QED BY <1>1, <2>1, LeaveSession, InvParts DEF SoundInv
<1>4. FilesInv'
  BY <1>1, FinalizeFiles
<1>5. ProgressInv'
  BY <1>1, NothingToSay DEF Leave, ProgressSteps
<1> QED BY <1>2, <1>3, <1>4, <1>5, InvPartsNext DEF SoundInv

(* The session that perceives. *)
LEMMA PerceptionSessionSound == ASSUME SoundInv, PerceptionSession PROVE SoundInv'
<1>1. ASSUME Observations \/ Tracklets \/ Links PROVE SoundInv'
  <2>1. UNCHANGED <<worldVars, storeVars, sessionVars>> /\ proc' = proc
    BY <1>1 DEF Observations, Tracklets, Links, CommitPerceptionForRun, LinkSelectedEvidence
  <2> QED BY <2>1, ElsewhereSound DEF SoundInv, Inv, TypeOK
<1>2. ASSUME \/ IngestPrepare \/ IngestStage \/ IngestIntents \/ IngestPromote
             \/ IngestFrames \/ IngestEvidence
      PROVE  SoundInv'
  BY <1>2, StepSound DEF IngestStep, SessionStep, Next
<1> QED BY <1>1, <1>2, PerceptionLoopDoneSound, PublishSound DEF PerceptionSession

(* Recovery, deletion and repair are those of Coordinator; recovery may list
   more runs. *)
LEMMA OtherStepSound ==
    ASSUME SoundInv,
           \/ PerceptionRecovery \/ PerceptionDeletion \/ IngestStep \/ EndRepair
           \/ PerceptionFailure
    PROVE  SoundInv'
<1>1. ASSUME ListPerceptionRuns PROVE SoundInv'
  <2>1. ListsRuns
    BY <1>1 DEF ListPerceptionRuns, ListsRuns, ActionablePerceptionRuns, ActionableRuns
  <2> QED BY <2>1, ListsRunsStep, ListsRunsSound DEF SoundInv
<1>2. ASSUME PerceptionRecovery, ~ListPerceptionRuns PROVE SoundInv'
  <2>1. SessionStep
    BY <1>2 DEF PerceptionRecovery, SessionStep, RecoverStep
  <2> QED BY <2>1, StepSound DEF Next
<1>3. ASSUME PerceptionDeletion \/ IngestStep \/ EndRepair PROVE SoundInv'
  <2>1. SessionStep
    BY <1>3 DEF PerceptionDeletion, SessionStep
  <2> QED BY <2>1, StepSound DEF Next
<1>4. ASSUME PerceptionFailure PROVE SoundInv'
  <2>1. Failure
    BY <1>4 DEF PerceptionFailure, Failure
  <2> QED BY <2>1, StepSound DEF Next
<1> QED BY <1>1, <1>2, <1>3, <1>4

(* Every step of the two coordinators. *)
LEMMA PerceptionStepSound == ASSUME SoundInv, [PNext]_pvars PROVE SoundInv'
<1>1. ASSUME UNCHANGED pvars PROVE SoundInv'
  BY <1>1, StepSound DEF pvars
<1> QED BY <1>1, PerceptionStartSound, OtherStartSound, PerceptionSessionSound, OtherStepSound,
        RaiseSound DEF PNext

-----------------------------------------------------------------------------
(* The tables of version 2: every step is one of the operations of the store
   for which PerceptionStoreProofs has a lemma. *)

(* The steps that are quiet for the tables of version 2: nothing they do to
   those of version 1 takes a row, an owner or a run away. *)
QuietForPerception ==
    /\ UNCHANGED perceptionVars
    /\ \/ UNCHANGED worldVars
       \/ PrepareRun(target) /\ target \in Run
       \/ \E fs, es : CommitForRun(target, fs, es)
       \/ \E hs : RecordArtifactIntents(target, hs)
       \/ target \in DeletionId /\ CompleteDeletion(target)

LEMMA QuietStepGraph ==
    ASSUME WorldInv, GraphInv, QuietForPerception PROVE GraphInv'
<1>1. ASSUME PrepareRun(target), target \in Run PROVE GraphInv'
  <2>1. {target} \in SUBSET Run
    BY <1>1
  <2> QED BY <1>1, <2>1, CommitGraph DEF PrepareRun, QuietForPerception
<1>2. ASSUME NEW fs, NEW es, CommitForRun(target, fs, es) PROVE GraphInv'
  BY <1>2, CommitForRunGraph DEF QuietForPerception
<1>3. ASSUME \/ \E hs : RecordArtifactIntents(target, hs)
             \/ target \in DeletionId /\ CompleteDeletion(target)
             \/ UNCHANGED worldVars
      PROVE  GraphInv'
  BY <1>3, QuietGraph DEF QuietForPerception
<1> QED BY <1>1, <1>2, <1>3 DEF QuietForPerception

(* The target of a session is what its step works on. *)
LEMMA StepTarget ==
    ASSUME SoundInv
    PROVE  /\ pc \in IngestSteps \cup {"rec_finish"} => target \in Run
           /\ pc \in DeletionSteps => target \in DeletionId
BY DEF SoundInv, Inv, SessionShape

(* The steps an ingestion and a perception share. *)
LEMMA SharedIngestQuiet ==
    ASSUME SoundInv, UNCHANGED perceptionVars,
           \/ IngestPrepare \/ IngestStage \/ IngestIntents \/ IngestPromote
           \/ IngestFrames \/ IngestEvidence \/ IngestLoopDone \/ IngestVerify
    PROVE  QuietForPerception
<1>1. ASSUME IngestPrepare PROVE PrepareRun(target) /\ target \in Run
  BY <1>1, StepTarget DEF IngestPrepare, At, IngestSteps
<1> QED BY <1>1 DEF QuietForPerception, IngestStage, IngestIntents, IngestPromote, IngestFrames,
        IngestEvidence, IngestLoopDone, IngestVerify

(* The loops of a perception. *)
LEMMA PerceptionLoopDoneQuiet ==
    ASSUME UNCHANGED perceptionVars, PerceptionLoopDone PROVE QuietForPerception
BY DEF PerceptionLoopDone, IngestLoopDone, QuietForPerception

(* The parts of recovery and deletion that only read, or change files. *)
LEMMA OtherQuiet ==
    ASSUME SoundInv, UNCHANGED perceptionVars,
           \/ ListPerceptionRuns
           \/ \E d \in DeletionId : ResumePending(d) \/ ResumePurged(d)
           \/ \E r \in Run : PlanRun(r)
           \/ ScanStaging \/ EndRecover \/ DiscardOne \/ UnlinkOne
           \/ RemoveFiles \/ Complete \/ EndRepair
           \/ PerceptionFailure \/ PerceptionRaise
    PROVE  QuietForPerception
<1>1. ASSUME Complete PROVE target \in DeletionId /\ CompleteDeletion(target)
  BY <1>1, StepTarget DEF Complete, At, DeletionSteps
<1> QED BY <1>1 DEF QuietForPerception, ListPerceptionRuns, ResumePending, ResumePurged, PlanRun,
        ScanStaging, EndRecover, DiscardOne, UnlinkOne, RemoveFiles, EndRepair,
        PerceptionFailure, Crash, CrashInside, CheckpointBusy, CrashBetween, PerceptionRaise

(* Neither a call that starts nor one that ends outside a session writes. *)
LEMMA StartQuiet ==
    ASSUME NEW p \in Process,
           \/ PerceptionStart(p)
           \/ /\ OtherStart(p)
              /\ ~\E s \in Source, d \in DeletionId :
                    StartDeletion(p, s, d) /\ BeginPerceptionDeletion(s, d)
    PROVE  QuietForPerception
BY DEF QuietForPerception, PerceptionStart, OtherStart, ReadExisting, StartPerception,
    VerifyPersisted, GiveUp, StartRecover, StartRepair, StartIngest, RefuseIngest,
    RejoinDeletion, RetryPurged, vars, perceptionVars

(* The steps that are not quiet, each with the operation it is. *)
Writes ==
    \/ /\ Observations
       /\ \E os \in SUBSET RunObservations[target] :
             CommitPerceptionForRun(target, os, {}, {})
    \/ /\ Tracklets
       /\ \E t \in RunTracklets[target] \ PerceptionOf(target) :
             CommitPerceptionForRun(target, {}, {t}, IntentsFor(target, t))
    \/ /\ Links
       /\ \E l \in OpenLinks(target) : LinkSelectedEvidence(l[1], l[2].evidence, cas)
    \/ Finalize /\ FinalizePerceptionRun(target, {}, {}, cas)
    \/ /\ IngestFinalize /\ target \notin PerceptionRun
       /\ FinalizeRun(target, {}, {}) /\ UNCHANGED perceptionVars
    \/ FinishRun /\ FinishPerceptionCleanup(target)
    \/ PurgeMetadata /\ PurgePerception(target, cas)
    \/ \E p \in Process, s \in Source, d \in DeletionId :
          StartDeletion(p, s, d) /\ BeginPerceptionDeletion(s, d)

(* Every step is quiet or one of those. *)
LEMMA QuietOrWrites ==
    ASSUME SoundInv, [PNext]_pvars PROVE QuietForPerception \/ Writes
<1>1. ASSUME UNCHANGED pvars PROVE QuietForPerception
  BY <1>1 DEF pvars, vars, QuietForPerception
<1>2. ASSUME NEW p \in Process, PerceptionStart(p) \/ OtherStart(p)
      PROVE  QuietForPerception \/ Writes
  BY <1>2, StartQuiet DEF Writes
<1>3. ASSUME PerceptionSession PROVE QuietForPerception \/ Writes
  <2>1. ASSUME Observations \/ Tracklets \/ Links \/ Finalize PROVE Writes
    BY <2>1 DEF Observations, Tracklets, Links, Finalize, Batches, Writes
  <2> QED BY <1>3, <2>1, SharedIngestQuiet, PerceptionLoopDoneQuiet DEF PerceptionSession
<1>4. ASSUME PerceptionRecovery \/ PerceptionDeletion PROVE QuietForPerception \/ Writes
  BY <1>4, OtherQuiet DEF PerceptionRecovery, PerceptionDeletion, ListPerceptionRuns, Writes
<1>5. ASSUME ~ForPerception, IngestStep \/ EndRepair, UNCHANGED perceptionVars
      PROVE  QuietForPerception \/ Writes
  <2>1. ASSUME IngestFinalize PROVE Writes
    BY <1>5, <2>1 DEF ForPerception, IngestFinalize, At, Writes
  <2> QED BY <1>5, <2>1, SharedIngestQuiet, OtherQuiet DEF IngestStep
<1>6. ASSUME PerceptionRaise \/ (PerceptionFailure /\ UNCHANGED perceptionVars)
      PROVE  QuietForPerception
  BY <1>6, OtherQuiet DEF PerceptionRaise
<1> QED BY <1>1, <1>2, <1>3, <1>4, <1>5, <1>6 DEF PNext

(* A run that is not a perception's has no selection, as a selection is of a
   tracklet that its run perceived. *)
LEMMA NothingPerceived ==
    ASSUME GraphInv, PerceivedInv, NEW r \in Run \ PerceptionRun
    PROVE  PerceptionOf(r) = {} /\ SelectionsOf(r) = {}
<1>1. PerceptionOf(r) = {}
  BY PerceptionRunTypes DEF PerceivedInv, RunsPerceiveTheirOwn, GraphOf
<1> QED BY <1>1 DEF GraphInv, SelectionsAreSound, SelectionsOf

(* The intents of a run's tracklet are of that tracklet. *)
LEMMA IntentsOfTracklet ==
    ASSUME NEW r \in Run, NEW t \in Tracklet
    PROVE  IntentsFor(r, t) \in SUBSET Intent /\ \A i \in IntentsFor(r, t) : i.tracklet = t
BY PerceptionRunTypes DEF IntentsFor, Intent

(* What a run has to perceive is of the kinds the store knows. *)
LEMMA GraphTypes ==
    ASSUME NEW r \in Run
    PROVE  RunObservations[r] \subseteq Observation /\ RunTracklets[r] \subseteq Tracklet
BY PerceptionRunTypes

(* The session that writes perception works on a run. *)
LEMMA WriterTarget ==
    ASSUME SoundInv, Observations \/ Tracklets \/ Links \/ Finalize \/ IngestFinalize \/ FinishRun
    PROVE  target \in Run
BY StepTarget DEF Observations, Tracklets, Links, Finalize, IngestFinalize, FinishRun, At, IngestSteps

(* The graph of the store stays sound. *)
LEMMA GraphStep ==
    ASSUME SoundInv, GraphInv, PerceivedInv, QuietForPerception \/ Writes PROVE GraphInv'
<1>1. WorldInv
  BY DEF SoundInv, Inv
<1>2. ASSUME QuietForPerception PROVE GraphInv'
  BY <1>1, <1>2, QuietStepGraph
<1>3. ASSUME Observations, NEW os \in SUBSET RunObservations[target],
             CommitPerceptionForRun(target, os, {}, {})
      PROVE  GraphInv'
  <2>1. target \in Run /\ os \in SUBSET Observation
    BY <1>3, WriterTarget, GraphTypes
  <2>2. {} \in SUBSET Tracklet /\ {} \in SUBSET Intent
    OBVIOUS
  <2> QED BY <1>1, <1>3, <2>1, <2>2, CommitPerceptionGraph
<1>4. ASSUME Tracklets, NEW t \in RunTracklets[target],
             CommitPerceptionForRun(target, {}, {t}, IntentsFor(target, t))
      PROVE  GraphInv'
  <2>1. target \in Run /\ {t} \in SUBSET Tracklet /\ IntentsFor(target, t) \in SUBSET Intent
    BY <1>4, WriterTarget, GraphTypes, IntentsOfTracklet
  <2>2. {} \in SUBSET Observation
    OBVIOUS
  <2> QED BY <1>1, <1>4, <2>1, <2>2, CommitPerceptionGraph
<1>5. ASSUME Links, NEW l \in OpenLinks(target), LinkSelectedEvidence(l[1], l[2].evidence, cas)
      PROVE  GraphInv'
  <2>1. l[1] \in selected /\ l[2].evidence \in Evidence
    BY <1>5, WriterTarget, PerceptionRunTypes DEF OpenLinks, SelectionsOf
  <2> QED BY <1>1, <1>5, <2>1, LinkGraph
<1>6. ASSUME Finalize, FinalizePerceptionRun(target, {}, {}, cas) PROVE GraphInv'
  BY <1>1, <1>6, WriterTarget, FinalizeGraph
<1>7. ASSUME IngestFinalize, target \notin PerceptionRun,
             FinalizeRun(target, {}, {}), UNCHANGED perceptionVars
      PROVE  GraphInv'
  <2>1. target \in Run
    BY <1>7, WriterTarget
  <2>2. RanksAreContiguous(target)
    BY <1>7, <2>1, NothingPerceived DEF RanksAreContiguous
  <2>3. /\ frames \subseteq frames' /\ evidence \subseteq evidence'
        /\ runRecords \subseteq runRecords' /\ UNCHANGED <<jobState, jobRoot>>
        /\ runState' = [runState EXCEPT ![target] = "committed"]
    BY <1>7 DEF FinalizeRun, WriteData, jobVars
  <2>4. /\ \A q \in Run : runState'[q] = "committed" => RanksAreContiguous(q)
        /\ \A q \in Run : runState[q] # "absent" => runState'[q] # "absent"
    BY <1>1, <2>1, <2>2, <2>3 DEF GraphInv, SelectionsAreSound, WorldInv, WorldTypeOK
  <2> QED BY <1>7, <2>3, <2>4, GrowGraph
<1>8. ASSUME FinishRun, FinishPerceptionCleanup(target) PROVE GraphInv'
  BY <1>1, <1>8, WriterTarget, CleanupGraph
<1>9. ASSUME PurgeMetadata, PurgePerception(target, cas) PROVE GraphInv'
  <2>1. target \in DeletionId
    BY <1>9, StepTarget DEF PurgeMetadata, At, DeletionSteps
  <2> QED BY <1>1, <1>9, <2>1, PurgeGraph
<1>10. ASSUME NEW s \in Source, NEW d \in DeletionId, BeginPerceptionDeletion(s, d)
       PROVE  GraphInv'
  BY <1>1, <1>10, BeginDeletionGraph
<1> QED BY <1>2, <1>3, <1>4, <1>5, <1>6, <1>7, <1>8, <1>9, <1>10 DEF Writes

-----------------------------------------------------------------------------
(* What the runs perceived. *)

(* A step that leaves the tables of version 2 alone, takes no run that writes
   or is published to any other state, and publishes none. *)
LEMMA QuietPerceived ==
    ASSUME PerceivedInv, UNCHANGED perceptionVars,
           \A r \in Run : PerceptionOf(r) # {} /\ runState[r] \in {"preparing", "committed"} =>
                             runState'[r] \in {"preparing", "committed"},
           \A r \in PerceptionRun : runState'[r] = "committed" =>
                             GraphOf(r) \subseteq PerceptionOf(r) /\ OpenLinks(r) = {}
    PROVE  PerceivedInv'
<1>1. \A r : /\ PerceptionOf(r)' = PerceptionOf(r) /\ SelectionsOf(r)' = SelectionsOf(r)
             /\ OpenLinks(r)' = OpenLinks(r)
  BY DEF perceptionVars, PerceptionOf, SelectionsOf, OpenLinks
<1>2. RunsPerceiveTheirOwn' /\ CommittedPerceivedAll'
  BY <1>1 DEF PerceivedInv, RunsPerceiveTheirOwn, CommittedPerceivedAll, GraphOf
<1>3. SelectionsAreIntents' /\ TrackletsHaveIntents'
  BY <1>1 DEF PerceivedInv, SelectionsAreIntents, TrackletsHaveIntents, IsIntent, perceptionVars
<1> QED BY <1>2, <1>3 DEF PerceivedInv

(* The steps of the store that no lemma below is about. *)
LEMMA QuietStepPerceived ==
    ASSUME SoundInv, PerceivedInv, QuietForPerception PROVE PerceivedInv'
<1>1. /\ UNCHANGED perceptionVars
      /\ \/ UNCHANGED runState
         \/ runState' = [r \in Run |-> IF r \in {target} THEN "preparing" ELSE runState[r]]
  BY DEF QuietForPerception, PrepareRun, Commit, CommitForRun, RecordArtifactIntents,
      CompleteDeletion, worldVars
<1>2. /\ \A r \in Run : runState[r] \in {"preparing", "committed"} =>
                           runState'[r] \in {"preparing", "committed"}
      /\ \A r \in Run : runState'[r] = "committed" => runState[r] = "committed"
  BY <1>1
<1> QED BY <1>1, <1>2, QuietPerceived, PerceptionRunTypes DEF PerceivedInv, CommittedPerceivedAll

(* A batch of observations. *)
LEMMA ObservationsPerceived ==
    ASSUME SoundInv, PerceivedInv, target \in Run, NEW os \in SUBSET RunObservations[target],
           CommitPerceptionForRun(target, os, {}, {})
    PROVE  PerceivedInv'
<1>1. /\ perceivedBy' = perceivedBy \cup ({target} \X os)
      /\ selected' = selected /\ runState' = runState /\ runState[target] = "preparing"
  BY DEF CommitPerceptionForRun, CanCommitPerception, Unlinked, NewIntents, worldVars
<1>2. os \subseteq Observation /\ Observation \subseteq Perceived
  BY GraphTypes DEF Perceived
<1>3. \A r \in Run : PerceptionOf(r)' = IF r = target THEN PerceptionOf(r) \cup os ELSE PerceptionOf(r)
  BY <1>1, <1>2 DEF PerceptionOf
<1>4. \A r : SelectionsOf(r)' = SelectionsOf(r)
  BY <1>1 DEF SelectionsOf
<1>5. \A r : OpenLinks(r)' = OpenLinks(r)
  BY <1>4 DEF OpenLinks
<1>6. RunsPerceiveTheirOwn'
  BY <1>1, <1>3 DEF PerceivedInv, RunsPerceiveTheirOwn, GraphOf
<1>7. CommittedPerceivedAll'
  BY <1>1, <1>3, <1>5, PerceptionRunTypes DEF PerceivedInv, CommittedPerceivedAll, GraphOf
<1>8. SelectionsAreIntents'
  BY <1>1 DEF PerceivedInv, SelectionsAreIntents, IsIntent
<1>9. TrackletsHaveIntents'
  <2>1. \A r \in Run : \A u \in RunSelections[r] :
           u.tracklet \in PerceptionOf(r)' => u.tracklet \in PerceptionOf(r)
    BY <1>2, <1>3, PerceptionRunTypes, PerceptionTypes
  <2> QED BY <1>4, <2>1 DEF PerceivedInv, TrackletsHaveIntents, IsIntent
<1> QED BY <1>6, <1>7, <1>8, <1>9 DEF PerceivedInv

(* A tracklet with its intents: none of them is there yet, as the run did not
   own their tracklet. *)
LEMMA TrackletPerceived ==
    ASSUME SoundInv, GraphInv, PerceivedInv, target \in Run,
           NEW t \in RunTracklets[target] \ PerceptionOf(target),
           CommitPerceptionForRun(target, {}, {t}, IntentsFor(target, t))
    PROVE  PerceivedInv'
<1> DEFINE new == Unlinked(target, NewIntents(target, IntentsFor(target, t)))
<1>1. /\ perceivedBy' = perceivedBy \cup ({target} \X {t})
      /\ selected' = selected \cup new /\ runState' = runState /\ runState[target] = "preparing"
  BY DEF CommitPerceptionForRun, CanCommitPerception, worldVars
<1>2. t \in Tracklet /\ t \in Perceived
  BY GraphTypes DEF Perceived
<1>3. \A r \in Run : PerceptionOf(r)' = IF r = target THEN PerceptionOf(r) \cup {t} ELSE PerceptionOf(r)
  BY <1>1, <1>2 DEF PerceptionOf
<1>4. NewIntents(target, IntentsFor(target, t)) = IntentsFor(target, t)
  <2>1. \A s \in SelectionsOf(target) : s.tracklet # t
    BY DEF GraphInv, SelectionsAreSound, SelectionsOf
  <2> QED BY <1>2, <2>1, IntentsOfTracklet DEF NewIntents, SameKey
<1>5. \A s \in new : s.run = target
  BY DEF Unlinked
<1>6. \A r \in Run : /\ SelectionsOf(r) \subseteq SelectionsOf(r)'
                     /\ r # target => SelectionsOf(r)' = SelectionsOf(r)
  BY <1>1, <1>5 DEF SelectionsOf
<1>7. RunsPerceiveTheirOwn'
  BY <1>1, <1>3 DEF PerceivedInv, RunsPerceiveTheirOwn, GraphOf
<1>8. CommittedPerceivedAll'
  <2>1. \A r \in Run \ {target} : OpenLinks(r)' = OpenLinks(r)
    BY <1>6 DEF OpenLinks
  <2> QED BY <1>1, <1>3, <2>1, PerceptionRunTypes DEF PerceivedInv, CommittedPerceivedAll, GraphOf
<1>9. \A s \in new : \E u \in RunSelections[target] :
         IsIntent(s, u) /\ s.evidence = NoEvidence
  BY <1>4 DEF Unlinked, IntentsFor, IsIntent
<1>10. SelectionsAreIntents'
  BY <1>1, <1>5, <1>9 DEF PerceivedInv, SelectionsAreIntents, IsIntent
<1>11. ASSUME NEW u \in RunSelections[target], u.tracklet = t
       PROVE  \E s \in new : IsIntent(s, u)
  <2> DEFINE i == [tracklet |-> t, rank |-> u.rank, observation |-> u.observation]
             s == [run |-> target, tracklet |-> i.tracklet, rank |-> i.rank,
                   observation |-> i.observation, evidence |-> NoEvidence]
  <2>1. i \in IntentsFor(target, t)
    BY <1>11 DEF IntentsFor
  <2>2. s \in new
    BY <1>4, <2>1 DEF Unlinked
  <2>3. IsIntent(s, u)
    BY <1>11 DEF IsIntent
  <2> QED BY <2>2, <2>3
<1>12. TrackletsHaveIntents'
  <2> SUFFICES ASSUME NEW r \in Run, NEW u \in RunSelections[r], u.tracklet \in PerceptionOf(r)'
               PROVE  \E s \in SelectionsOf(r)' : IsIntent(s, u)
    BY DEF TrackletsHaveIntents, IsIntent
  <2>1. CASE u.tracklet \in PerceptionOf(r)
    BY <1>6, <2>1 DEF PerceivedInv, TrackletsHaveIntents
  <2>2. CASE u.tracklet \notin PerceptionOf(r)
    <3>1. r = target /\ u.tracklet = t
      BY <1>3, <2>2
    <3> QED BY <1>1, <1>5, <1>11, <3>1 DEF SelectionsOf
  <2> QED BY <2>1, <2>2
<1> QED BY <1>7, <1>8, <1>10, <1>12 DEF PerceivedInv

(* A link is to the crop of the very intent its selection is the row of: a run
   has one intent of a tracklet and a rank. *)
LEMMA LinkPerceived ==
    ASSUME SoundInv, GraphInv, PerceivedInv, target \in Run, NEW l \in OpenLinks(target),
           LinkSelectedEvidence(l[1], l[2].evidence, cas)
    PROVE  PerceivedInv'
<1> DEFINE n == [l[1] EXCEPT !.evidence = l[2].evidence]
<1>1. /\ UNCHANGED <<perceivedBy, runState>>
      /\ selected' = (selected \ {l[1]}) \cup {n}
      /\ runState[l[1].run] = "preparing"
  BY DEF LinkSelectedEvidence, CanLink, worldVars
<1>2. /\ l[1] \in Selection /\ l[1] \in selected /\ l[1].run = target
      /\ l[2] \in RunSelections[target]
      /\ l[1].tracklet = l[2].tracklet /\ l[1].rank = l[2].rank
  BY DEF OpenLinks, SelectionsOf, GraphInv, PerceptionTypeOK
<1>3. /\ n.run = target /\ n.evidence = l[2].evidence
      /\ n.tracklet = l[1].tracklet /\ n.rank = l[1].rank /\ n.observation = l[1].observation
  BY <1>2 DEF Selection
<1>4. target \in PerceptionRun
  <2>1. SelectionsOf(target) # {}
    BY <1>2 DEF SelectionsOf
  <2> QED BY <2>1, NothingPerceived
<1>5. IsIntent(l[1], l[2])
  <2>1. PICK u \in RunSelections[target] : IsIntent(l[1], u)
    BY <1>2 DEF PerceivedInv, SelectionsAreIntents
  <2>2. u.tracklet = l[2].tracklet /\ u.rank = l[2].rank
    BY <1>2, <2>1 DEF IsIntent
  <2>3. u = l[2]
    BY <1>2, <1>4, <2>2, PerceptionRunsAreCoherent
  <2> QED BY <2>1, <2>3
<1>6. \A r : PerceptionOf(r)' = PerceptionOf(r)
  BY <1>1 DEF PerceptionOf
<1>7. \A r : r # target => SelectionsOf(r)' = SelectionsOf(r)
  BY <1>1, <1>2, <1>3 DEF SelectionsOf
<1>8. RunsPerceiveTheirOwn'
  BY <1>1, <1>6 DEF PerceivedInv, RunsPerceiveTheirOwn, GraphOf
<1>9. CommittedPerceivedAll'
  <2>1. \A r : r # target => OpenLinks(r)' = OpenLinks(r)
    BY <1>7 DEF OpenLinks
  <2> QED BY <1>1, <1>2, <1>6, <2>1 DEF PerceivedInv, CommittedPerceivedAll, GraphOf
<1>10. SelectionsAreIntents'
  <2>1. IsIntent(n, l[2])
    BY <1>3, <1>5 DEF IsIntent
  <2> HIDE DEF n
  <2> QED BY <1>1, <1>2, <1>3, <2>1 DEF PerceivedInv, SelectionsAreIntents, IsIntent
<1>11. TrackletsHaveIntents'
  <2> SUFFICES ASSUME NEW r \in Run, NEW u \in RunSelections[r], u.tracklet \in PerceptionOf(r)
               PROVE  \E s \in SelectionsOf(r)' : IsIntent(s, u)
    BY <1>6 DEF TrackletsHaveIntents, IsIntent
  <2>1. PICK s \in SelectionsOf(r) : IsIntent(s, u)
    BY DEF PerceivedInv, TrackletsHaveIntents
  <2>2. CASE s = l[1]
    <3>1. IsIntent(n, u) /\ r = target
      BY <1>2, <1>3, <2>1, <2>2 DEF IsIntent, SelectionsOf
    <3>2. n \in SelectionsOf(r)'
      BY <1>1, <1>3, <3>1 DEF SelectionsOf
    <3> QED BY <3>1, <3>2
  <2>3. CASE s # l[1]
    BY <1>1, <2>1, <2>3 DEF SelectionsOf
  <2> QED BY <2>2, <2>3
<1> QED BY <1>8, <1>9, <1>10, <1>11 DEF PerceivedInv

(* The run that finalize_run publishes has perceived all it had to. *)
LEMMA FinalizePerceived ==
    ASSUME SoundInv, PerceivedInv, PerceptionProgress, target \in Run,
           FinalizeRun(target, {}, {}), UNCHANGED perceptionVars,
           pc = "per_finalize" \/ target \notin PerceptionRun
    PROVE  PerceivedInv'
<1>1. runState' = [runState EXCEPT ![target] = "committed"]
  BY DEF FinalizeRun
<1>2. \A r \in Run : runState'[r] = IF r = target THEN "committed" ELSE runState[r]
  BY <1>1 DEF SoundInv, Inv, TypeOK, WorldTypeOK
<1>3. target \in PerceptionRun => GraphOf(target) \subseteq PerceptionOf(target) /\ OpenLinks(target) = {}
  BY DEF PerceptionProgress
<1> QED BY <1>2, <1>3, QuietPerceived, PerceptionRunTypes DEF PerceivedInv, CommittedPerceivedAll

(* The cleanup of a run leaves nothing that the run perceived, and what other
   runs perceived as it is. *)
LEMMA CleanupPerceived ==
    ASSUME SoundInv, PerceivedInv, target \in Run, FinishPerceptionCleanup(target)
    PROVE  PerceivedInv'
<1>1. /\ perceivedBy' = {p \in perceivedBy : p[1] # target}
      /\ selected' = selected \ SelectionsOf(target)
      /\ runState' = [runState EXCEPT ![target] = IF @ = "preparing" THEN "failed" ELSE @]
      /\ runState[target] \in {"preparing", "failed", "cancelled"}
  BY DEF FinishPerceptionCleanup, FinishRunCleanup, CanFinishCleanup
<1>2. /\ \A r \in Run \ {target} : runState'[r] = runState[r]
      /\ runState'[target] # "committed"
  BY <1>1 DEF SoundInv, Inv, TypeOK, WorldTypeOK
<1>3. \A r : PerceptionOf(r)' = IF r = target THEN {} ELSE PerceptionOf(r)
  BY <1>1 DEF PerceptionOf
<1>4. \A r : r # target => SelectionsOf(r)' = SelectionsOf(r)
  BY <1>1 DEF SelectionsOf
<1>5. RunsPerceiveTheirOwn'
  BY <1>2, <1>3 DEF PerceivedInv, RunsPerceiveTheirOwn, GraphOf
<1>6. CommittedPerceivedAll'
  <2>1. \A r : r # target => OpenLinks(r)' = OpenLinks(r)
    BY <1>4 DEF OpenLinks
  <2> QED BY <1>2, <1>3, <2>1, PerceptionRunTypes DEF PerceivedInv, CommittedPerceivedAll, GraphOf
<1>7. SelectionsAreIntents'
  BY <1>1 DEF PerceivedInv, SelectionsAreIntents, IsIntent
<1>8. TrackletsHaveIntents'
  BY <1>3, <1>4 DEF PerceivedInv, TrackletsHaveIntents, IsIntent
<1> QED BY <1>5, <1>6, <1>7, <1>8 DEF PerceivedInv

(* A purge takes a run away with all it perceived. *)
LEMMA PurgePerceived ==
    ASSUME SoundInv, PerceivedInv, NEW d \in DeletionId, PurgePerception(d, cas)
    PROVE  PerceivedInv'
<1>1. /\ perceivedBy' = {p \in perceivedBy : runState'[p[1]] # "absent"}
      /\ selected' = {s \in selected : runState'[s.run] # "absent"}
      /\ \A r \in Run : runState'[r] \in {runState[r], "absent"}
  BY DEF PurgePerception, PurgeDeletionMetadata
<1>2. \A r : PerceptionOf(r)' = IF runState'[r] = "absent" THEN {} ELSE PerceptionOf(r)
  BY <1>1 DEF PerceptionOf
<1>3. \A r : SelectionsOf(r)' = IF runState'[r] = "absent" THEN {} ELSE SelectionsOf(r)
  BY <1>1 DEF SelectionsOf
<1>4. RunsPerceiveTheirOwn'
  BY <1>1, <1>2 DEF PerceivedInv, RunsPerceiveTheirOwn, GraphOf
<1>5. CommittedPerceivedAll'
  <2>1. \A r : runState'[r] # "absent" => OpenLinks(r)' = OpenLinks(r)
    BY <1>3 DEF OpenLinks
  <2> QED BY <1>1, <1>2, <2>1, PerceptionRunTypes DEF PerceivedInv, CommittedPerceivedAll, GraphOf
<1>6. SelectionsAreIntents'
  BY <1>1 DEF PerceivedInv, SelectionsAreIntents, IsIntent
<1>7. TrackletsHaveIntents'
  BY <1>2, <1>3 DEF PerceivedInv, TrackletsHaveIntents, IsIntent
<1> QED BY <1>4, <1>5, <1>6, <1>7 DEF PerceivedInv

(* Every step of the two coordinators keeps what the runs perceived. *)
LEMMA PerceivedStep ==
    ASSUME SoundInv, GraphInv, PerceivedInv, PerceptionProgress, QuietForPerception \/ Writes
    PROVE  PerceivedInv'
<1>1. ASSUME Finalize, FinalizePerceptionRun(target, {}, {}, cas) PROVE PerceivedInv'
  BY <1>1, WriterTarget, FinalizePerceived DEF Finalize, FinalizePerceptionRun, At
<1>2. ASSUME IngestFinalize, target \notin PerceptionRun,
             FinalizeRun(target, {}, {}), UNCHANGED perceptionVars
      PROVE  PerceivedInv'
  BY <1>2, WriterTarget, FinalizePerceived
<1>3. ASSUME PurgeMetadata, PurgePerception(target, cas) PROVE PerceivedInv'
  <2>1. target \in DeletionId
    BY <1>3, StepTarget DEF PurgeMetadata, At, DeletionSteps
  <2> QED BY <1>3, <2>1, PurgePerceived
<1>4. ASSUME NEW s \in Source, NEW d \in DeletionId, BeginPerceptionDeletion(s, d)
      PROVE  PerceivedInv'
  <2>1. UNCHANGED <<observations, tracklets, perceivedBy, selected, runState>>
    BY <1>4 DEF BeginPerceptionDeletion, BeginSourceDeletion
  <2>2. \A r : /\ PerceptionOf(r)' = PerceptionOf(r) /\ SelectionsOf(r)' = SelectionsOf(r)
               /\ OpenLinks(r)' = OpenLinks(r)
    BY <2>1 DEF PerceptionOf, SelectionsOf, OpenLinks
  <2>3. RunsPerceiveTheirOwn' /\ CommittedPerceivedAll'
    BY <2>1, <2>2 DEF PerceivedInv, RunsPerceiveTheirOwn, CommittedPerceivedAll, GraphOf
  <2>4. SelectionsAreIntents' /\ TrackletsHaveIntents'
    BY <2>1, <2>2 DEF PerceivedInv, SelectionsAreIntents, TrackletsHaveIntents, IsIntent
  <2> QED BY <2>3, <2>4 DEF PerceivedInv
<1> QED BY <1>1, <1>2, <1>3, <1>4, WriterTarget, QuietStepPerceived, ObservationsPerceived,
        TrackletPerceived, LinkPerceived, CleanupPerceived DEF Writes

-----------------------------------------------------------------------------
(* The session that perceives. *)

(* The steps after which nothing is said of a perception's progress. *)
LEMMA NoPerceptionProgress ==
    ASSUME \/ pc' \notin PerceptionSteps \cup {"ing_evidence"}
           \/ pc' \notin PerceptionSteps /\ target' \notin PerceptionRun
    PROVE  PerceptionProgress'
BY DEF PerceptionProgress, PerceptionSteps

(* A session that stays where it is keeps its progress when its run perceives
   no less and no link of it is opened. *)
LEMMA ProgressStays ==
    ASSUME PerceptionProgress, UNCHANGED <<pc, target>>,
           PerceptionOf(target) \subseteq PerceptionOf(target)',
           pc = "per_finalize" => OpenLinks(target)' = OpenLinks(target)
    PROVE  PerceptionProgress'
BY DEF PerceptionProgress, PerceptionSteps, GraphOf

(* The loops of a perception, each ending with what it was for. *)
LEMMA LoopDoneProgress ==
    ASSUME PerceptionProgress, ForPerception, PerceptionLoopDone, UNCHANGED perceptionVars
    PROVE  PerceptionProgress'
<1>1. UNCHANGED target /\ target \in PerceptionRun
  BY DEF PerceptionLoopDone, IngestLoopDone, LoopDone, Goto, ForPerception
<1>2. PerceptionOf(target)' = PerceptionOf(target) /\ OpenLinks(target)' = OpenLinks(target)
  BY <1>1 DEF perceptionVars, PerceptionOf, SelectionsOf, OpenLinks
<1>3. \/ pc' \notin PerceptionSteps \cup {"ing_evidence"}
      \/ pc' = "per_observations"
      \/ pc' = "per_tracklets" /\ RunObservations[target] \subseteq PerceptionOf(target)
      \/ /\ pc = "per_tracklets" /\ pc' = "ing_evidence"
         /\ RunTracklets[target] \subseteq PerceptionOf(target)
      \/ pc = "ing_evidence" /\ pc' = "per_links"
      \/ pc = "per_links" /\ pc' = "per_finalize" /\ OpenLinks(target) = {}
  BY DEF PerceptionLoopDone, IngestLoopDone, LoopDone, Goto, At, PerceptionSteps
<1> QED BY <1>1, <1>2, <1>3 DEF PerceptionProgress, PerceptionSteps, GraphOf

(* Every step of the two coordinators keeps the progress of the session, or
   ends it, or is of another kind of session. *)
LEMMA ProgressStep ==
    ASSUME SoundInv, GraphInv, PerceptionProgress, [PNext]_pvars
    PROVE  PerceptionProgress'
<1>1. ASSUME UNCHANGED <<pc, target, perceptionVars>> PROVE PerceptionProgress'
  <2>1. PerceptionOf(target)' = PerceptionOf(target) /\ OpenLinks(target)' = OpenLinks(target)
    BY <1>1 DEF perceptionVars, PerceptionOf, SelectionsOf, OpenLinks
  <2> QED BY <1>1, <2>1, ProgressStays
<1>2. ASSUME NEW p \in Process, PerceptionStart(p) \/ OtherStart(p) PROVE PerceptionProgress'
  <2>1. \/ UNCHANGED <<pc, target, perceptionVars>>
        \/ pc' \in {"ing_prepare", "ing_verify", "rec_deletions", "rep_end", "del_remove",
                    "del_complete"}
    BY <1>2 DEF PerceptionStart, OtherStart, ReadExisting, StartPerception, VerifyPersisted, GiveUp,
        StartRecover, StartRepair, StartIngest, RefuseIngest, RejoinDeletion, RetryPurged,
        StartDeletion, Enter, vars, sessionVars
  <2> QED BY <1>1, <2>1, NoPerceptionProgress DEF PerceptionSteps
<1>3. ASSUME ForPerception, Observations \/ Tracklets \/ Links PROVE PerceptionProgress'
  <2>1. /\ UNCHANGED <<pc, target>> /\ pc # "per_finalize"
        /\ perceivedBy \subseteq perceivedBy'
    BY <1>3 DEF Observations, Tracklets, Links, At, sessionVars, CommitPerceptionForRun,
        LinkSelectedEvidence
  <2>2. PerceptionOf(target) \subseteq PerceptionOf(target)'
    BY <2>1 DEF PerceptionOf
  <2> QED BY <2>1, <2>2, ProgressStays
<1>4. ASSUME UNCHANGED perceptionVars,
             \/ IngestPrepare \/ IngestStage \/ IngestIntents \/ IngestPromote
             \/ IngestFrames \/ IngestEvidence
      PROVE  PerceptionProgress'
  <2>1. \/ UNCHANGED <<pc, target, perceptionVars>>
        \/ pc' = "ing_stage"
    BY <1>4 DEF IngestPrepare, IngestStage, IngestIntents, IngestPromote, IngestFrames,
        IngestEvidence, Goto, sessionVars
  <2> QED BY <1>1, <2>1, NoPerceptionProgress DEF PerceptionSteps
<1>5. ASSUME PerceptionSession PROVE PerceptionProgress'
  <2>1. ASSUME Finalize PROVE PerceptionProgress'
    BY <2>1, NoPerceptionProgress DEF Finalize, Leave, PerceptionSteps
  <2> QED BY <1>3, <1>4, <1>5, <2>1, LoopDoneProgress DEF PerceptionSession
<1>6. ASSUME PerceptionRecovery \/ PerceptionDeletion PROVE PerceptionProgress'
  <2>1. \/ UNCHANGED <<pc, target, perceptionVars>>
        \/ pc' \in {"free", "rec_deletions", "rec_purge", "rec_complete", "rec_runs", "rec_finish",
                    "rec_end", "del_purge", "del_complete"}
    BY <1>6 DEF PerceptionRecovery, PerceptionDeletion, ListPerceptionRuns, FinishRun,
        ResumePending, ResumePurged, PlanRun, ScanStaging, EndRecover, DiscardOne, UnlinkOne,
        PurgeMetadata, RemoveFiles, Complete, Goto, Leave, At
  <2> QED BY <1>1, <2>1, NoPerceptionProgress DEF PerceptionSteps
<1>7. ASSUME ~ForPerception, IngestStep \/ EndRepair, UNCHANGED perceptionVars
      PROVE  PerceptionProgress'
  <2>1. ASSUME IngestStep, target' = target PROVE PerceptionProgress'
    <3>1. owner # NoProcess /\ pc' \notin PerceptionSteps
      BY <1>7, <2>1 DEF IngestStep, IngestPrepare, IngestStage, IngestIntents, IngestPromote,
          IngestFrames, IngestEvidence, IngestLoopDone, LoopDone, IngestFinalize, IngestVerify,
          Goto, Leave, At, sessionVars, PerceptionSteps
    <3> QED BY <1>7, <2>1, <3>1, NoPerceptionProgress DEF ForPerception
  <2>2. ASSUME IngestStep \/ EndRepair PROVE target' = target \/ pc' = "free"
    BY <2>2 DEF IngestStep, IngestPrepare, IngestStage, IngestIntents, IngestPromote,
        IngestFrames, IngestEvidence, IngestLoopDone, LoopDone, IngestFinalize, IngestVerify,
        EndRepair, Goto, Leave, sessionVars
  <2>3. ASSUME EndRepair PROVE pc' = "free"
    BY <2>3 DEF EndRepair, Leave
  <2>4. ASSUME pc' = "free" PROVE PerceptionProgress'
    BY <2>4, NoPerceptionProgress DEF PerceptionSteps
  <2> QED BY <1>7, <2>1, <2>2, <2>3, <2>4
<1>8. ASSUME PerceptionRaise \/ (PerceptionFailure /\ UNCHANGED perceptionVars)
      PROVE  PerceptionProgress'
  <2>1. \/ UNCHANGED <<pc, target, perceptionVars>>
        \/ pc' = "free"
    BY <1>8 DEF PerceptionRaise, PerceptionFailure, Crash, CrashInside, CheckpointBusy, CrashBetween,
        Leave, sessionVars
  <2> QED BY <1>1, <2>1, NoPerceptionProgress DEF PerceptionSteps
<1>9. ASSUME UNCHANGED pvars PROVE PerceptionProgress'
  BY <1>1, <1>9 DEF pvars, vars, sessionVars
<1> QED BY <1>2, <1>5, <1>6, <1>7, <1>8, <1>9 DEF PNext

-----------------------------------------------------------------------------
(* Before the first call nothing is perceived. *)
LEMMA InitialPerception == PInit => PerceptionInv
<1> SUFFICES ASSUME PInit PROVE PerceptionInv
  OBVIOUS
<1>1. SoundInv
  BY InitialSound DEF PInit
<1>2. GraphInv
  BY InitGraph DEF PInit, Init
<1>3. PerceivedInv
  BY PerceptionRunTypes DEF PInit, Init, WorldInit, PerceptionInit, PerceivedInv, RunsPerceiveTheirOwn, SelectionsAreIntents,
      TrackletsHaveIntents, CommittedPerceivedAll, PerceptionOf, GraphOf
<1>4. PerceptionProgress
  BY DEF PInit, Init, PerceptionProgress, PerceptionSteps
<1> QED BY <1>1, <1>2, <1>3, <1>4 DEF PerceptionInv

(* Every step of either coordinator, by any process, keeps the whole
   invariant. *)
LEMMA PerceptionStep == ASSUME PerceptionInv, [PNext]_pvars PROVE PerceptionInv'
<1>1. QuietForPerception \/ Writes
  BY QuietOrWrites DEF PerceptionInv
<1> QED BY <1>1, PerceptionStepSound, GraphStep, PerceivedStep, ProgressStep DEF PerceptionInv

(* The tables of both versions, the files and the session agree, whatever the
   processes of the two coordinators do. *)
THEOREM PerceptionInvariant == PSpec => []PerceptionInv
<1>1. PInit => PerceptionInv
  BY InitialPerception
<1>2. PerceptionInv /\ [PNext]_pvars => PerceptionInv'
  BY PerceptionStep
<1> QED BY <1>1, <1>2, PTL DEF PSpec

-----------------------------------------------------------------------------
(* What follows from the invariant. *)

(* The row of a selection, as _verify_persisted compares it. *)
Row(s) == [tracklet |-> s.tracklet, rank |-> s.rank, observation |-> s.observation,
           evidence |-> s.evidence]

(* A published selection is the row of an intent, linked as the intent says:
   what the intent links and the table does not would still be an open link. *)
LEMMA RowsAreIntents ==
    ASSUME PerceptionInv, NEW r \in PerceptionRun, runState[r] = "committed"
    PROVE  {Row(s) : s \in SelectionsOf(r)} = RunSelections[r]
<1>1. r \in Run /\ OpenLinks(r) = {} /\ RunTracklets[r] \subseteq PerceptionOf(r)
  BY PerceptionRunTypes DEF PerceptionInv, PerceivedInv, CommittedPerceivedAll, GraphOf
<1>2. ASSUME NEW s \in SelectionsOf(r), NEW u \in RunSelections[r], IsIntent(s, u),
             s.evidence \in {NoEvidence, u.evidence}
      PROVE  Row(s) = u
  <2>1. <<s, u>> \notin OpenLinks(r)
    BY <1>1
  <2>2. s.evidence = u.evidence
    BY <1>2, <2>1 DEF OpenLinks, IsIntent
  <2>3. u \in [tracklet : Tracklet, rank : 1..MaxRank, observation : Observation,
               evidence : Evidence \cup {NoEvidence}]
    BY <1>1, PerceptionRunTypes
  <2> QED BY <1>2, <2>2, <2>3 DEF IsIntent, Row
<1>3. \A s \in SelectionsOf(r) : \E u \in RunSelections[r] :
         IsIntent(s, u) /\ s.evidence \in {NoEvidence, u.evidence}
  BY DEF PerceptionInv, PerceivedInv, SelectionsAreIntents, SelectionsOf
<1>4. ASSUME NEW s \in SelectionsOf(r) PROVE Row(s) \in RunSelections[r]
  BY <1>2, <1>3
<1>5. ASSUME NEW u \in RunSelections[r] PROVE \E s \in SelectionsOf(r) : Row(s) = u
  <2>1. u.tracklet \in PerceptionOf(r)
    BY <1>1, PerceptionRunsAreCoherent
  <2>2. PICK s \in SelectionsOf(r) : IsIntent(s, u)
    BY <1>1, <2>1 DEF PerceptionInv, PerceivedInv, TrackletsHaveIntents
  <2>3. PICK v \in RunSelections[r] : IsIntent(s, v) /\ s.evidence \in {NoEvidence, v.evidence}
    BY <1>3
  <2>4. v.tracklet = u.tracklet /\ v.rank = u.rank
    BY <2>2, <2>3 DEF IsIntent
  <2>5. v = u
    <3>1. \A w, x \in RunSelections[r] : w.tracklet = x.tracklet /\ w.rank = x.rank => w = x
      BY PerceptionRunsAreCoherent
    <3> QED BY <2>4, <3>1
  <2> QED BY <1>2, <2>2, <2>3, <2>5
<1> QED BY <1>4, <1>5

(* What a published run perceived is visible: it is of the run's source, which
   no deletion is withdrawing. *)
LEMMA PublishedIsVisible ==
    ASSUME PerceptionInv, NEW r \in Published
    PROVE  PerceptionOf(r) \subseteq VisiblePerception
<1> SUFFICES ASSUME NEW x \in PerceptionOf(r) PROVE x \in VisiblePerception
  OBVIOUS
<1>1. r \in Run /\ runState[r] = "committed" /\ ~BeingDeleted(RunSource[r])
  BY WhatIsSeen DEF PerceptionInv, SeenBySource
<1>2. x \in observations \cup tracklets /\ PerceivedSource(x) = RunSource[r]
  BY <1>1, PerceivedInSource DEF PerceptionInv, SoundInv, Inv
<1>3. x \notin PerceptionHidden
  BY <1>1, <1>2, PerceptionHiddenBySource DEF PerceptionInv
<1>4. r \in PerceptionOwners(x)
  BY <1>1 DEF PerceptionOf, PerceptionOwners
<1> QED BY <1>1, <1>2, <1>3, <1>4 DEF VisiblePerception, BeingDeleted

(* _verify_persisted finds every published perception whole. *)
LEMMA GraphIsRead == ASSUME PerceptionInv PROVE PublishedGraphReadsBack
<1> SUFFICES ASSUME NEW r \in Published \cap PerceptionRun PROVE GraphReadsBack(r)
  BY DEF PublishedGraphReadsBack
<1>1. r \in Run /\ r \notin Hidden /\ runState[r] = "committed"
  BY DEF Published
<1>2. RunFrames(r) \subseteq VisibleFrames /\ RunEvidence[r] \subseteq VisibleEvidence
  BY WholeRuns DEF PerceptionInv, PublishedIsWhole
<1>3. RunDigests(r) \subseteq cas
  BY <1>2, InvReadable DEF PerceptionInv, SoundInv, PublishedIsReadable, RunDigests, DigestsOf
<1>4. PerceptionOf(r) = RunObservations[r] \cup RunTracklets[r]
  BY <1>1 DEF PerceptionInv, PerceivedInv, RunsPerceiveTheirOwn, CommittedPerceivedAll, GraphOf
<1>5. {[tracklet |-> s.tracklet, rank |-> s.rank, observation |-> s.observation,
        evidence |-> s.evidence] : s \in SelectionsOf(r)} = RunSelections[r]
  BY <1>1, RowsAreIntents DEF Row
<1> QED BY <1>1, <1>2, <1>3, <1>4, <1>5, PublishedIsVisible DEF GraphReadsBack

(* A reader sees the graphs of the published runs and nothing else. *)
LEMMA GraphIsAllThereIs == ASSUME PerceptionInv PROVE NothingElseIsPerceived
<1>1. \A r \in Published : PerceptionOf(r) = RunObservations[r] \cup RunTracklets[r]
  <2> SUFFICES ASSUME NEW r \in Published
               PROVE  PerceptionOf(r) = RunObservations[r] \cup RunTracklets[r]
    OBVIOUS
  <2>1. r \in Run /\ runState[r] = "committed"
    BY DEF Published
  <2>2. CASE r \in PerceptionRun
    BY <2>1, <2>2 DEF PerceptionInv, PerceivedInv, RunsPerceiveTheirOwn, CommittedPerceivedAll, GraphOf
  <2>3. CASE r \notin PerceptionRun
    BY <2>1, <2>3, NothingPerceived, PerceptionRunTypes DEF PerceptionInv
  <2> QED BY <2>2, <2>3
<1>2. ASSUME NEW x \in VisiblePerception PROVE \E r \in Published : x \in PerceptionOf(r)
  <2>1. PICK r \in PerceptionOwners(x) :
           runState[r] = "committed" /\ RunSource[r] = PerceivedSource(x)
    BY DEF VisiblePerception
  <2>2. r \in Run /\ x \in PerceptionOf(r)
    BY <2>1 DEF PerceptionOwners, PerceptionOf, PerceptionInv, GraphInv, PerceptionTypeOK
  <2>3. ~BeingDeleted(RunSource[r])
    BY <2>1 DEF VisiblePerception, BeingDeleted
  <2>4. r \in Published
    BY <2>1, <2>2, <2>3, WhatIsSeen DEF PerceptionInv, SeenBySource
  <2> QED BY <2>2, <2>4
<1> QED BY <1>1, <1>2, PublishedIsVisible DEF NothingElseIsPerceived

(* No step takes a published run back, but the purge that takes it away. *)
LEMMA CommittedStays ==
    ASSUME SoundInv, QuietForPerception \/ Writes,
           NEW r \in Run, runState[r] = "committed", runState'[r] # "absent"
    PROVE  runState'[r] = "committed"
<1>0. WorldTypeOK
  BY DEF SoundInv, Inv, TypeOK
<1>1. ASSUME UNCHANGED runState PROVE runState'[r] = "committed"
  BY <1>1
<1>2. ASSUME PrepareRun(target), target \in Run PROVE runState'[r] = "committed"
  BY <1>0, <1>2 DEF PrepareRun, Commit, CanCommit, CanWriteRun, RunTransition
<1>3. ASSUME NEW q \in Run, FinalizeRun(q, {}, {}) PROVE runState'[r] = "committed"
  BY <1>0, <1>3 DEF FinalizeRun, WorldTypeOK
<1>4. ASSUME NEW q \in Run, FinishPerceptionCleanup(q) PROVE runState'[r] = "committed"
  BY <1>0, <1>4 DEF FinishPerceptionCleanup, FinishRunCleanup, CanFinishCleanup, WorldTypeOK
<1>5. ASSUME NEW d, PurgePerception(d, cas) PROVE runState'[r] = "committed"
  BY <1>5 DEF PurgePerception, PurgeDeletionMetadata
<1>6. CASE QuietForPerception
  BY <1>1, <1>2, <1>6 DEF QuietForPerception, worldVars, CommitForRun, RecordArtifactIntents,
      CompleteDeletion
<1>7. CASE Writes
  BY <1>1, <1>3, <1>4, <1>5, <1>7, WriterTarget DEF Writes, CommitPerceptionForRun, worldVars,
      LinkSelectedEvidence, FinalizePerceptionRun, BeginPerceptionDeletion, BeginSourceDeletion
<1> QED BY <1>6, <1>7

(* Nor does any change what it perceived and selected. *)
LEMMA CommittedGraphStep ==
    ASSUME PerceptionInv, [PNext]_pvars,
           NEW r \in Run, runState[r] = "committed", runState'[r] # "absent"
    PROVE  /\ runState'[r] = "committed"
           /\ PerceptionOf(r)' = PerceptionOf(r) /\ SelectionsOf(r)' = SelectionsOf(r)
<1>1. SoundInv /\ GraphInv
  BY DEF PerceptionInv
<1>2. QuietForPerception \/ Writes
  BY <1>1, QuietOrWrites
<1>3. \/ UNCHANGED perceptionVars
      \/ \E q, os, ts, is : CommitPerceptionForRun(q, os, ts, is)
      \/ \E s, e, present : LinkSelectedEvidence(s, e, present)
      \/ \E q : FinishPerceptionCleanup(q)
      \/ \E s, d : BeginPerceptionDeletion(s, d)
      \/ \E d, present : PurgePerception(d, present)
  BY <1>2 DEF QuietForPerception, Writes, FinalizePerceptionRun
<1> QED BY <1>1, <1>2, <1>3, CommittedStays, PublishedGraphStep

(* A published perception run is found whole, readable and as it was
   published, at every moment and after every step: whatever other runs of
   either kind share its frames, observations and crops, whatever was read
   before the lock was taken, and wherever any process stopped. *)
THEOREM PublishedGraph == PSpec => PublishedGraphIsKept
<1> DEFINE Kept ==
        \A r \in Run :
          runState[r] = "committed" /\ runState'[r] # "absent" =>
             /\ runState'[r] = "committed"
             /\ PerceptionOf(r)' = PerceptionOf(r) /\ SelectionsOf(r)' = SelectionsOf(r)
<1>1. PerceptionInv => PublishedGraphReadsBack /\ NothingElseIsPerceived
  BY GraphIsRead, GraphIsAllThereIs
<1>2. PerceptionInv /\ [PNext]_pvars => [Kept]_pvars
  BY CommittedGraphStep
<1> QED BY <1>1, <1>2, PerceptionInvariant, PTL DEF PSpec, PublishedGraphIsKept, CommittedGraphStays

(* A recovery that reaches its end leaves, in the tables of version 2, nothing
   of a run that did not commit: every preparing run has been cleaned, a failed
   one perceives nothing, and a record lives no longer than its last owner. *)
THEOREM PerceptionRecoveryEnds == PSpec => []RecoveryLeavesNoPerception
<1>1. PerceptionInv => RecoveryLeavesNoPerception
  <2> SUFFICES ASSUME PerceptionInv, At("rec_end") PROVE RecoveryLeavesNoPerception
    BY DEF RecoveryLeavesNoPerception
  <2>1. \A r \in Run : runState[r] # "preparing"
    BY DEF PerceptionInv, SoundInv, ProgressInv, RecoveryInv, ToClean, At
  <2>2. ASSUME NEW p \in perceivedBy PROVE runState[p[1]] = "committed"
    <3>1. p \in Run \X Perceived
      BY DEF PerceptionInv, GraphInv, PerceptionTypeOK
    <3>2. p[1] \in Run /\ p[2] \in PerceptionOf(p[1])
      BY <3>1 DEF PerceptionOf
    <3> QED BY <2>1, <3>2 DEF PerceptionInv, PerceivedInv, RunsPerceiveTheirOwn
  <2>3. ASSUME NEW s \in selected PROVE runState[s.run] = "committed"
    <3>1. s.run \in Run /\ s.tracklet \in PerceptionOf(s.run)
      BY DEF PerceptionInv, GraphInv, PerceptionTypeOK, Selection, SelectionsAreSound
    <3> QED BY <2>1, <3>1 DEF PerceptionInv, PerceivedInv, RunsPerceiveTheirOwn
  <2>4. \A x \in observations \cup tracklets : PerceptionOwners(x) # {}
    BY DEF PerceptionInv, GraphInv, NoOrphanPerception
  <2> QED BY <2>2, <2>3, <2>4 DEF RecoveryLeavesNoPerception
<1> QED BY <1>1, PerceptionInvariant, PTL

(* Beside perceptions, too, the tables and the files agree: published evidence
   is readable, runs are seen whole or not at all, no bytes are without an
   owner, and a finished recovery leaves no incomplete run, no deletion and no
   file that nothing refers to. *)
THEOREM FilesBesidePerception ==
    PSpec => [](PublishedIsReadable /\ StoreIsSound /\ RecoveryLeavesNothing)
<1>1. PerceptionInv => PublishedIsReadable /\ StoreIsSound /\ RecoveryLeavesNothing
  BY InvReadable, WholeRuns, VerificationFinds, RecoveryEnds
    DEF PerceptionInv, SoundInv, FilesInv, AuditInv, StoreIsSound
<1> QED BY <1>1, PerceptionInvariant, PTL
===============================================================================
