--------------------------- MODULE WorldStoreProofs ---------------------------
(***************************************************************************)
(* What every operation of the world store preserves, for any sets of      *)
(* records, runs and jobs.  The modules that call these operations cite    *)
(* the lemmas: one per operation, each from the same invariant.            *)
(***************************************************************************)
EXTENDS WorldStore, TLAPS

(* begin_source_deletion refuses while any job is unfinished. *)
OneJobAtATime == \A d1, d2 \in ActiveJobs : d1 = d2

(* A pending job names its source, and a job that is not pending hides nothing:
   the purge empties its closure together with its root. *)
OnlyPendingHides ==
    \A d \in DeletionId :
        /\ jobState[d] = "pending" => jobRoot[d] \in Source
        /\ jobState[d] # "pending" => closure[d] = {}

(* The foreign key of an evidence row. *)
EvidenceHasFrame == \A e \in evidence : EvidenceFrame[e] \in frames

WorldInv ==
    /\ WorldTypeOK
    /\ EvidenceHasFrame
    /\ OwnershipIsSound
    /\ OneJobAtATime
    /\ OnlyPendingHides
    /\ ClosureIsFrozen

-----------------------------------------------------------------------------
(* The tables start empty. *)
LEMMA InitInv == WorldInit => WorldInv
BY RecordTypes DEF WorldInit, WorldInv, WorldTypeOK, EvidenceHasFrame, OwnershipIsSound,
    OneJobAtATime, OnlyPendingHides, ClosureIsFrozen, ActiveJobs, RunStates, JobStates

(* A step that touches no table preserves everything said of the tables. *)
LEMMA StutterInv == WorldInv /\ UNCHANGED worldVars => WorldInv'
BY DEF WorldInv, worldVars, recordVars, jobVars, WorldTypeOK, EvidenceHasFrame,
    OwnershipIsSound, Runs, OneJobAtATime, OnlyPendingHides, ClosureIsFrozen, ActiveJobs, SourceClosure

(* No pending job is rooted at a source that can be written. *)
LEMMA WritableIsNotRoot ==
    ASSUME NEW s, SourceWritable(s), NEW d \in DeletionId, jobState[d] = "pending"
    PROVE  jobRoot[d] # s
BY DEF SourceWritable

(* Writing data and ownership under the guards of commit, commit_for_run and
   finalize_run keeps ownership sound and every pending closure as it was. *)
LEMMA WriteInv ==
    ASSUME WorldInv,
           NEW rs \in SUBSET Run, NEW fs \in SUBSET Frame, NEW es \in SUBSET Evidence,
           NEW ss, \A f \in fs : FrameSource[f] \in ss,
           \A e \in es : EvidenceFrame[e] \in frames \cup fs,
           \A s \in DataSources(fs, es) : SourceWritable(s),
           \A r \in rs : SourceWritable(RunSource[r]),
           \A r \in rs : CanAssociate(r, fs, es),
           WriteData(fs, es),
           runRecords' = runRecords \cup (rs \X (fs \cup es)),
           runState' \in [Run -> RunStates],
           \A r \in Run \ rs : runState'[r] = runState[r],
           \A r \in rs : runState'[r] # "absent",
           UNCHANGED jobVars
    PROVE  /\ evidence' \subseteq Evidence /\ frames' \subseteq Frame
           /\ catalog' \subseteq Digest /\ EvidenceHasFrame'
           /\ runRecords' \subseteq Run \X (Frame \cup Evidence)
           /\ OwnershipIsSound' /\ OneJobAtATime' /\ OnlyPendingHides' /\ ClosureIsFrozen'
<1>1. /\ frames' = frames \cup fs /\ frames' \subseteq Frame
      /\ evidence' = evidence \cup es /\ evidence' \subseteq Evidence
      /\ runRecords' \subseteq Run \X (Frame \cup Evidence)
  BY DEF WriteData, WorldInv, WorldTypeOK
<1>2. catalog' \subseteq Digest
  BY RecordTypes DEF WriteData, WorldInv, WorldTypeOK, DigestsOf
<1>3. OwnershipIsSound'
  <2> SUFFICES ASSUME NEW o \in runRecords'
               PROVE  /\ runState'[o[1]] # "absent" /\ o[1] \in Run
                      /\ o[2] \in frames' \cup evidence'
                      /\ o[2] \in Frame => FrameSource[o[2]] = RunSource[o[1]]
                      /\ o[2] \in Evidence =>
                            /\ FrameSource[EvidenceFrame[o[2]]] = RunSource[o[1]]
                            /\ <<o[1], EvidenceFrame[o[2]]>> \in runRecords'
    BY DEF OwnershipIsSound, Runs
  <2>1. CASE o \in runRecords
    BY <2>1, <1>1 DEF WorldInv, WorldTypeOK, OwnershipIsSound, Runs
  <2>2. CASE o \in rs \X (fs \cup es)
    <3>1. o[1] \in rs /\ o[2] \in fs \cup es /\ CanAssociate(o[1], fs, es)
      BY <2>2
    <3>2. ASSUME o[2] \in Frame
          PROVE  FrameSource[o[2]] = RunSource[o[1]]
      BY <3>1, <3>2, RecordKinds DEF CanAssociate
    <3>3. ASSUME o[2] \in Evidence
          PROVE  /\ FrameSource[EvidenceFrame[o[2]]] = RunSource[o[1]]
                 /\ <<o[1], EvidenceFrame[o[2]]>> \in runRecords'
      BY <3>1, <3>3, RecordKinds DEF CanAssociate, OwnedBy
    <3> QED BY <3>1, <3>2, <3>3, <1>1
  <2> QED BY <2>1, <2>2
<1>4. OneJobAtATime' /\ OnlyPendingHides'
  BY DEF WorldInv, OneJobAtATime, OnlyPendingHides, ActiveJobs, jobVars
<1>5. ClosureIsFrozen'
  <2> SUFFICES ASSUME NEW d \in DeletionId, jobState[d] = "pending"
               PROVE  SourceClosure(jobRoot[d])' = SourceClosure(jobRoot[d])
    BY DEF WorldInv, ClosureIsFrozen, jobVars
  <2>1. \A f \in fs : FrameSource[f] # jobRoot[d]
    BY WritableIsNotRoot DEF DataSources
  <2>2. \A e \in es : FrameSource[EvidenceFrame[e]] # jobRoot[d]
    BY <2>1, WritableIsNotRoot DEF DataSources
  <2>3. \A r \in rs : RunSource[r] # jobRoot[d]
    BY WritableIsNotRoot
  <2>4. {r \in Runs' : RunSource[r] = jobRoot[d]} = {r \in Runs : RunSource[r] = jobRoot[d]}
    BY <2>3 DEF Runs
  <2>5. /\ {f \in frames' : FrameSource[f] = jobRoot[d]}
             = {f \in frames : FrameSource[f] = jobRoot[d]}
        /\ {e \in evidence' : FrameSource[EvidenceFrame[e]] = jobRoot[d]}
             = {e \in evidence : FrameSource[EvidenceFrame[e]] = jobRoot[d]}
    BY <2>1, <2>2, <1>1
  <2> QED BY <2>4, <2>5 DEF SourceClosure, jobVars
<1>6. EvidenceHasFrame'
  BY <1>1 DEF WorldInv, EvidenceHasFrame
<1> QED BY <1>1, <1>2, <1>3, <1>4, <1>5, <1>6

(* commit preserves the invariant. *)
LEMMA CommitInv ==
    ASSUME WorldInv, NEW ss \in SUBSET Source, NEW rs \in SUBSET Run,
           NEW st \in RunStates \ {"absent"},
           NEW fs \in SUBSET Frame, NEW es \in SUBSET Evidence,
           Commit(ss, rs, st, fs, es)
    PROVE  WorldInv'
<1>1. /\ runState' \in [Run -> RunStates]
      /\ \A r \in Run \ rs : runState'[r] = runState[r]
      /\ \A r \in rs : runState'[r] # "absent"
  BY DEF Commit, WorldInv, WorldTypeOK, RunStates
<1>2. /\ \A f \in fs : FrameSource[f] \in sources \cup ss
      /\ \A e \in es : EvidenceFrame[e] \in frames \cup fs
      /\ \A s \in DataSources(fs, es) : SourceWritable(s)
      /\ \A r \in rs : SourceWritable(RunSource[r])
      /\ \A r \in rs : CanAssociate(r, fs, es)
      /\ WriteData(fs, es)
      /\ runRecords' = runRecords \cup (rs \X (fs \cup es))
      /\ UNCHANGED jobVars
  BY DEF Commit, CanCommit, CanWriteData
<1>3. /\ evidence' \subseteq Evidence /\ frames' \subseteq Frame /\ catalog' \subseteq Digest
      /\ runRecords' \subseteq Run \X (Frame \cup Evidence) /\ EvidenceHasFrame'
      /\ OwnershipIsSound' /\ OneJobAtATime' /\ OnlyPendingHides' /\ ClosureIsFrozen'
  BY <1>1, <1>2, WriteInv
<1>4. WorldTypeOK'
  BY <1>1, <1>3 DEF Commit, WorldInv, WorldTypeOK, jobVars
<1> QED BY <1>3, <1>4 DEF WorldInv

(* commit_for_run preserves the invariant. *)
LEMMA CommitForRunInv ==
    ASSUME WorldInv, NEW r \in Run,
           NEW fs \in SUBSET Frame, NEW es \in SUBSET Evidence,
           CommitForRun(r, fs, es)
    PROVE  WorldInv'
<1>1. /\ runState' \in [Run -> RunStates]
      /\ \A q \in Run \ {r} : runState'[q] = runState[q]
      /\ \A q \in {r} : runState'[q] # "absent"
  BY DEF CommitForRun, CanCommitForRun, WorldInv, WorldTypeOK
<1>2. /\ \A f \in fs : FrameSource[f] \in sources
      /\ \A e \in es : EvidenceFrame[e] \in frames \cup fs
      /\ \A s \in DataSources(fs, es) : SourceWritable(s)
      /\ \A q \in {r} : SourceWritable(RunSource[q])
      /\ \A q \in {r} : CanAssociate(q, fs, es)
      /\ WriteData(fs, es)
      /\ runRecords' = runRecords \cup ({r} \X (fs \cup es))
      /\ UNCHANGED jobVars
  BY DEF CommitForRun, CanCommitForRun, CanWriteData
<1>3. /\ evidence' \subseteq Evidence /\ frames' \subseteq Frame /\ catalog' \subseteq Digest
      /\ runRecords' \subseteq Run \X (Frame \cup Evidence) /\ EvidenceHasFrame'
      /\ OwnershipIsSound' /\ OneJobAtATime' /\ OnlyPendingHides' /\ ClosureIsFrozen'
  <2> DEFINE rs == {r}
  <2> rs \in SUBSET Run OBVIOUS
  <2> HIDE DEF rs
  <2>1. /\ \A q \in Run \ rs : runState'[q] = runState[q]
        /\ \A q \in rs : runState'[q] # "absent"
        /\ \A q \in rs : SourceWritable(RunSource[q])
        /\ \A q \in rs : CanAssociate(q, fs, es)
        /\ runRecords' = runRecords \cup (rs \X (fs \cup es))
    BY <1>1, <1>2 DEF rs
  <2> QED BY <1>1, <1>2, <2>1, WriteInv
<1>4. WorldTypeOK'
  BY <1>1, <1>3 DEF CommitForRun, WorldInv, WorldTypeOK, jobVars
<1> QED BY <1>3, <1>4 DEF WorldInv

(* record_artifact_intents touches only intents, of its own run. *)
LEMMA RecordIntentsInv ==
    ASSUME WorldInv, NEW r, NEW hs \in SUBSET StagedFile, RecordArtifactIntents(r, hs)
    PROVE  WorldInv'
BY DEF RecordArtifactIntents, WorldInv, recordVars, jobVars, WorldTypeOK,
    EvidenceHasFrame, OwnershipIsSound, Runs, OneJobAtATime, OnlyPendingHides, ClosureIsFrozen, ActiveJobs, SourceClosure

(* finalize_run preserves the invariant. *)
LEMMA FinalizeRunInv ==
    ASSUME WorldInv, NEW r \in Run,
           NEW fs \in SUBSET Frame, NEW es \in SUBSET Evidence,
           FinalizeRun(r, fs, es)
    PROVE  WorldInv'
<1> DEFINE rs == {r}
<1>1. /\ rs \in SUBSET Run
      /\ runState' \in [Run -> RunStates]
      /\ \A q \in Run \ rs : runState'[q] = runState[q]
      /\ \A q \in rs : runState'[q] # "absent"
  BY DEF FinalizeRun, WorldInv, WorldTypeOK, RunStates
<1>2. /\ \A f \in fs : FrameSource[f] \in sources
      /\ \A e \in es : EvidenceFrame[e] \in frames \cup fs
      /\ \A s \in DataSources(fs, es) : SourceWritable(s)
      /\ \A q \in rs : SourceWritable(RunSource[q])
      /\ \A q \in rs : CanAssociate(q, fs, es)
      /\ WriteData(fs, es)
      /\ runRecords' = runRecords \cup (rs \X (fs \cup es))
      /\ UNCHANGED jobVars
  BY DEF FinalizeRun, CanFinalizeRun, CanWriteData
<1> HIDE DEF rs
<1>3. /\ evidence' \subseteq Evidence /\ frames' \subseteq Frame /\ catalog' \subseteq Digest
      /\ runRecords' \subseteq Run \X (Frame \cup Evidence) /\ EvidenceHasFrame'
      /\ OwnershipIsSound' /\ OneJobAtATime' /\ OnlyPendingHides' /\ ClosureIsFrozen'
  BY <1>1, <1>2, WriteInv
<1>4. WorldTypeOK'
  BY <1>1, <1>3 DEF FinalizeRun, WorldInv, WorldTypeOK, jobVars
<1> QED BY <1>3, <1>4 DEF WorldInv

(* finish_run_cleanup drops only records that no other run owns, and only of
   a source that no pending job is about to delete. *)
LEMMA FinishRunCleanupInv ==
    ASSUME WorldInv, NEW r \in Run, FinishRunCleanup(r)
    PROVE  WorldInv'
<1>1. WorldTypeOK'
  BY DEF FinishRunCleanup, WorldInv, WorldTypeOK, RunStates, jobVars, IntentsOf
<1>2. OwnershipIsSound'
  <2> SUFFICES ASSUME NEW o \in runRecords'
               PROVE  /\ runState'[o[1]] # "absent" /\ o[1] \in Run
                      /\ o[2] \in frames' \cup evidence'
                      /\ o[2] \in Frame => FrameSource[o[2]] = RunSource[o[1]]
                      /\ o[2] \in Evidence =>
                            /\ FrameSource[EvidenceFrame[o[2]]] = RunSource[o[1]]
                            /\ <<o[1], EvidenceFrame[o[2]]>> \in runRecords'
    BY DEF OwnershipIsSound, Runs
  <2>1. o \in runRecords /\ o[1] # r /\ o = <<o[1], o[2]>>
    BY DEF FinishRunCleanup, WorldInv, WorldTypeOK
  <2>2. /\ o[1] \in Run /\ runState[o[1]] # "absent"
        /\ o[2] \in frames \cup evidence
        /\ o[2] \in Frame => FrameSource[o[2]] = RunSource[o[1]]
        /\ o[2] \in Evidence =>
              /\ FrameSource[EvidenceFrame[o[2]]] = RunSource[o[1]]
              /\ <<o[1], EvidenceFrame[o[2]]>> \in runRecords
    BY <2>1 DEF WorldInv, OwnershipIsSound, Runs
  <2>3. runState'[o[1]] # "absent"
    BY <2>1, <2>2 DEF FinishRunCleanup, WorldInv, WorldTypeOK
  <2>4. o[2] \notin OnlyOwned(r)
    BY <2>1, <2>2 DEF OnlyOwned, OwnersOf
  <2>5. o[2] \in frames' \cup evidence'
    BY <2>2, <2>4 DEF FinishRunCleanup, CleanupFrames, CleanupEvidence
  <2> QED BY <2>1, <2>2, <2>3, <2>5 DEF FinishRunCleanup
<1>3. OneJobAtATime' /\ OnlyPendingHides'
  BY DEF FinishRunCleanup, WorldInv, OneJobAtATime, OnlyPendingHides, ActiveJobs, jobVars
<1>5. EvidenceHasFrame'
  BY DEF FinishRunCleanup, WorldInv, EvidenceHasFrame, CleanupFrames
<1>4. ClosureIsFrozen'
  <2> SUFFICES ASSUME NEW d \in DeletionId, jobState[d] = "pending"
               PROVE  SourceClosure(jobRoot[d])' = SourceClosure(jobRoot[d])
    BY DEF FinishRunCleanup, WorldInv, ClosureIsFrozen, jobVars
  <2>1. RunSource[r] # jobRoot[d]
    BY WritableIsNotRoot DEF FinishRunCleanup, CanFinishCleanup
  <2>2. \A f \in CleanupFrames(r) : FrameSource[f] # jobRoot[d]
    BY <2>1 DEF WorldInv, OwnershipIsSound, CleanupFrames, OnlyOwned, OwnedBy
  <2>3. \A e \in CleanupEvidence(r) : FrameSource[EvidenceFrame[e]] # jobRoot[d]
    BY <2>1 DEF WorldInv, OwnershipIsSound, CleanupEvidence, OnlyOwned, OwnedBy
  <2>4. Runs' = Runs
    BY DEF FinishRunCleanup, CanFinishCleanup, Runs, WorldInv, WorldTypeOK
  <2> QED BY <2>2, <2>3, <2>4 DEF SourceClosure, FinishRunCleanup, jobVars
<1> QED BY <1>1, <1>2, <1>3, <1>4, <1>5 DEF WorldInv

(* begin_source_deletion freezes the closure it computes. *)
LEMMA BeginSourceDeletionInv ==
    ASSUME WorldInv, NEW s \in Source, NEW d \in DeletionId, BeginSourceDeletion(s, d)
    PROVE  WorldInv'
<1>1. /\ ActiveJobs = {} /\ jobState[d] = "none"
      /\ jobState' = [jobState EXCEPT ![d] = "pending"]
      /\ jobRoot' = [jobRoot EXCEPT ![d] = s]
      /\ closure' = [closure EXCEPT ![d] = SourceClosure(s)]
      /\ UNCHANGED <<recordVars, runState, intents>>
  BY DEF BeginSourceDeletion, CanBeginDeletion
<1>2. SourceClosure(s) \subseteq Record
  BY DEF SourceClosure, Record, WorldInv, WorldTypeOK, Runs
<1>3. /\ required' \in [DeletionId -> SUBSET Digest]
      /\ retained' \in [DeletionId -> SUBSET Digest]
  <2>1. ClosureDigests(SourceClosure(s)) \subseteq Digest
    BY RecordTypes DEF ClosureDigests, DigestsOf, IntentsOf, StagedFile, WorldInv, WorldTypeOK
  <2> QED BY <2>1 DEF BeginSourceDeletion, WorldInv, WorldTypeOK
<1>4. WorldTypeOK'
  BY <1>1, <1>2, <1>3 DEF WorldInv, WorldTypeOK, recordVars, JobStates
<1>5. OwnershipIsSound' /\ EvidenceHasFrame'
  BY <1>1 DEF WorldInv, OwnershipIsSound, EvidenceHasFrame, Runs, recordVars
<1>6. OneJobAtATime' /\ OnlyPendingHides'
  BY <1>1 DEF WorldInv, WorldTypeOK, OneJobAtATime, OnlyPendingHides, ActiveJobs
<1>7. ClosureIsFrozen'
  <2>1. \A t : SourceClosure(t)' = SourceClosure(t)
    BY <1>1 DEF SourceClosure, Runs, recordVars
  <2>2. \A c \in DeletionId : jobState'[c] = "pending" => c = d
    BY <1>1 DEF ActiveJobs, WorldInv, WorldTypeOK
  <2>3. closure'[d] = SourceClosure(s) /\ jobRoot'[d] = s
    BY <1>1 DEF WorldInv, WorldTypeOK
  <2> QED BY <2>1, <2>2, <2>3 DEF ClosureIsFrozen
<1> QED BY <1>4, <1>5, <1>6, <1>7 DEF WorldInv

(* purge_deletion_metadata takes the rows of one source and nothing of any
   other; the redacted job hides nothing any more. *)
LEMMA PurgeInv ==
    ASSUME WorldInv, NEW d \in DeletionId, NEW present, PurgeDeletionMetadata(d, present)
    PROVE  WorldInv'
<1> DEFINE s == jobRoot[d]
           kept == {r \in Runs : RunSource[r] # s}
<1>1. /\ jobState[d] = "pending"
      /\ sources' = sources \ {s}
      /\ frames' = {f \in frames : FrameSource[f] # s}
      /\ evidence' = {e \in evidence : EvidenceFrame[e] \in frames'}
      /\ runState' = [r \in Run |-> IF r \in kept THEN runState[r] ELSE "absent"]
      /\ runRecords' = {o \in runRecords : o[1] \in kept}
      /\ intents' = IntentsOf(kept)
      /\ catalog' \subseteq catalog
      /\ jobState' = [jobState EXCEPT ![d] = "metadata_purged"]
      /\ jobRoot' = [jobRoot EXCEPT ![d] = NoSource]
      /\ closure' = [closure EXCEPT ![d] = {}]
      /\ required' = [required EXCEPT ![d] = {}]
      /\ retained' = [retained EXCEPT ![d] = {}]
  BY DEF PurgeDeletionMetadata, CanPurge, PlanLoads
<1>2. WorldTypeOK'
  BY <1>1 DEF WorldInv, WorldTypeOK, RunStates, JobStates, IntentsOf
<1>3. OwnershipIsSound'
  <2> SUFFICES ASSUME NEW o \in runRecords'
               PROVE  /\ runState'[o[1]] # "absent" /\ o[1] \in Run
                      /\ o[2] \in frames' \cup evidence'
                      /\ o[2] \in Frame => FrameSource[o[2]] = RunSource[o[1]]
                      /\ o[2] \in Evidence =>
                            /\ FrameSource[EvidenceFrame[o[2]]] = RunSource[o[1]]
                            /\ <<o[1], EvidenceFrame[o[2]]>> \in runRecords'
    BY DEF OwnershipIsSound, Runs
  <2>1. /\ o \in runRecords /\ o[1] \in kept
        /\ o = <<o[1], o[2]>> /\ o[2] \in Frame \cup Evidence
    BY <1>1 DEF WorldInv, WorldTypeOK
  <2>2. /\ o[1] \in Run /\ runState[o[1]] # "absent" /\ RunSource[o[1]] # s
        /\ o[2] \in frames \cup evidence
        /\ o[2] \in Frame => FrameSource[o[2]] = RunSource[o[1]]
        /\ o[2] \in Evidence =>
              /\ FrameSource[EvidenceFrame[o[2]]] = RunSource[o[1]]
              /\ <<o[1], EvidenceFrame[o[2]]>> \in runRecords
    BY <2>1 DEF WorldInv, OwnershipIsSound, Runs
  <2>3. CASE o[2] \in Frame
    BY <2>1, <2>2, <2>3, <1>1, RecordKinds DEF WorldInv, WorldTypeOK
  <2>4. CASE o[2] \in Evidence
    <3>1. EvidenceFrame[o[2]] \in Frame
      BY <2>4, RecordTypes
    <3>2. EvidenceFrame[o[2]] \in frames
      BY <2>2, <2>4, <3>1, RecordKinds DEF WorldInv, OwnershipIsSound, WorldTypeOK
    <3>3. o[2] \in evidence /\ o[2] \notin Frame
      BY <2>2, <2>4, RecordKinds DEF WorldInv, WorldTypeOK
    <3> QED BY <2>1, <2>2, <2>4, <3>2, <3>3, <1>1
  <2> QED BY <2>1, <2>3, <2>4
<1>4. OneJobAtATime' /\ OnlyPendingHides'
  BY <1>1 DEF WorldInv, WorldTypeOK, OneJobAtATime, OnlyPendingHides, ActiveJobs
<1>5. ClosureIsFrozen'
  BY <1>1 DEF WorldInv, WorldTypeOK, OneJobAtATime, ActiveJobs, ClosureIsFrozen
<1>6. EvidenceHasFrame'
  BY <1>1 DEF EvidenceHasFrame
<1> QED BY <1>2, <1>3, <1>4, <1>5, <1>6 DEF WorldInv

(* complete_deletion only marks the job. *)
LEMMA CompleteDeletionInv ==
    ASSUME WorldInv, NEW d \in DeletionId, CompleteDeletion(d)
    PROVE  WorldInv'
<1>1. WorldTypeOK' /\ OwnershipIsSound' /\ EvidenceHasFrame'
  BY DEF CompleteDeletion, WorldInv, recordVars, WorldTypeOK, JobStates, OwnershipIsSound,
      EvidenceHasFrame, Runs
<1>2. OneJobAtATime' /\ OnlyPendingHides'
  BY DEF CompleteDeletion, WorldInv, WorldTypeOK, OneJobAtATime, OnlyPendingHides, ActiveJobs
<1>3. ClosureIsFrozen'
  BY DEF CompleteDeletion, WorldInv, recordVars, WorldTypeOK, ClosureIsFrozen, SourceClosure, Runs
<1> QED BY <1>1, <1>2, <1>3 DEF WorldInv

-----------------------------------------------------------------------------
(* What a pending deletion hides is what its source owns. *)
BeingDeleted(s) == \E d \in DeletionId : jobState[d] = "pending" /\ jobRoot[d] = s

LEMMA HiddenBySource ==
    ASSUME WorldInv
    PROVE  /\ \A r \in Runs : r \in Hidden <=> BeingDeleted(RunSource[r])
           /\ \A f \in frames : f \in Hidden <=> BeingDeleted(FrameSource[f])
           /\ \A e \in evidence : e \in Hidden <=> BeingDeleted(FrameSource[EvidenceFrame[e]])
<1>1. \A x : x \in Hidden <=>
         \E d \in DeletionId : jobState[d] = "pending" /\ x \in SourceClosure(jobRoot[d])
  BY DEF WorldInv, OnlyPendingHides, ClosureIsFrozen, Hidden
<1>2. \A d \in DeletionId : jobState[d] = "pending" => jobRoot[d] \in Source
  BY DEF WorldInv, OnlyPendingHides
<1>3. \A r \in Runs, s \in Source : r \in SourceClosure(s) <=> RunSource[r] = s
  BY RecordKinds DEF SourceClosure, Runs, WorldInv, WorldTypeOK
<1>4. \A f \in frames, s \in Source : f \in SourceClosure(s) <=> FrameSource[f] = s
  BY RecordKinds DEF SourceClosure, Runs, WorldInv, WorldTypeOK
<1>5. \A e \in evidence, s \in Source :
         e \in SourceClosure(s) <=> FrameSource[EvidenceFrame[e]] = s
  BY RecordKinds DEF SourceClosure, Runs, WorldInv, WorldTypeOK
<1> QED BY <1>1, <1>2, <1>3, <1>4, <1>5 DEF BeingDeleted

(* A source that can be written is not being deleted. *)
LEMMA WritableIsNotDeleted == ASSUME NEW s, SourceWritable(s) PROVE ~BeingDeleted(s)
BY WritableIsNotRoot DEF BeingDeleted

-----------------------------------------------------------------------------
(* The audit: what verify() accepts of intents and of the catalog, and which
   artifacts an operation may stop referring to. *)
AuditInv == WorldInv /\ IntentsAreOpen /\ CatalogIsTight

(* An artifact the tables still know of, by a row or by an intent. *)
Referred == DigestsOf(evidence) \cup {i.digest : i \in intents}

(* The catalog is tight when it is between the rows and everything known. *)
LEMMA TightParts ==
    CatalogIsTight <=> DigestsOf(evidence) \subseteq catalog /\ catalog \subseteq Referred
BY DEF CatalogIsTight, Unreferenced, Referred, DigestsOf

LEMMA TightPartsNext ==
    DigestsOf(evidence)' \subseteq catalog' /\ catalog' \subseteq Referred' => CatalogIsTight'
BY DEF CatalogIsTight, Unreferenced, Referred, DigestsOf

(* The tables start empty and in order. *)
LEMMA InitAudit == WorldInit => AuditInv
BY InitInv DEF AuditInv, WorldInit, IntentsAreOpen, CatalogIsTight, DigestsOf, Unreferenced

(* A step that touches no table keeps the audit. *)
LEMMA StutterAudit == AuditInv /\ UNCHANGED worldVars => AuditInv' /\ Referred' = Referred
BY StutterInv DEF AuditInv, worldVars, recordVars, IntentsAreOpen, CatalogIsTight,
    DigestsOf, Unreferenced, Referred

(* A batch of rows adds to the catalog what it refers to. *)
LEMMA WriteAudit ==
    ASSUME CatalogIsTight, NEW fs, NEW es, WriteData(fs, es), UNCHANGED intents
    PROVE  CatalogIsTight' /\ Referred \subseteq Referred'
<1>1. /\ evidence' = evidence \cup es /\ catalog' = catalog \cup DigestsOf(es)
      /\ intents' = intents
  BY DEF WriteData
<1>2. DigestsOf(evidence)' = DigestsOf(evidence) \cup DigestsOf(es)
  BY <1>1 DEF DigestsOf
<1>3. Referred' = Referred \cup DigestsOf(es)
  BY <1>1, <1>2 DEF Referred
<1> QED BY <1>1, <1>2, <1>3, TightParts, TightPartsNext

(* commit publishes nothing that was not published. *)
LEMMA CommitAudit ==
    ASSUME AuditInv, NEW ss, NEW rs \in SUBSET Run, NEW st \in RunStates \ {"absent"},
           NEW fs, NEW es, Commit(ss, rs, st, fs, es)
    PROVE  IntentsAreOpen' /\ CatalogIsTight' /\ Referred \subseteq Referred'
<1>1. /\ intents' = intents /\ WriteData(fs, es)
      /\ runState' = [r \in Run |-> IF r \in rs THEN st ELSE runState[r]]
      /\ st = "committed" => \A r \in rs : runState[r] = "committed"
  BY DEF Commit, CanCommit, CommittedRetry
<1>2. \A i \in intents : i.run \in Run
  BY DEF AuditInv, WorldInv, WorldTypeOK, StagedFile
<1>3. IntentsAreOpen'
  BY <1>1, <1>2 DEF AuditInv, IntentsAreOpen, RunStates
<1> QED BY <1>1, <1>3, WriteAudit DEF AuditInv

(* commit_for_run changes no run's state. *)
LEMMA CommitForRunAudit ==
    ASSUME AuditInv, NEW r, NEW fs, NEW es, CommitForRun(r, fs, es)
    PROVE  IntentsAreOpen' /\ CatalogIsTight' /\ Referred \subseteq Referred'
<1>1. intents' = intents /\ WriteData(fs, es) /\ runState' = runState
  BY DEF CommitForRun
<1>2. IntentsAreOpen'
  BY <1>1 DEF AuditInv, IntentsAreOpen
<1> QED BY <1>1, <1>2, WriteAudit DEF AuditInv

(* record_artifact_intents records intents of a preparing run. *)
LEMMA RecordIntentsAudit ==
    ASSUME AuditInv, NEW r, NEW hs, RecordArtifactIntents(r, hs)
    PROVE  IntentsAreOpen' /\ CatalogIsTight' /\ Referred \subseteq Referred'
BY DEF AuditInv, RecordArtifactIntents, CanRecordIntents, IntentsAreOpen, CatalogIsTight,
    Unreferenced, DigestsOf, Referred, recordVars

(* finalize_run drops an intent only when a row refers to its artifact. *)
LEMMA FinalizeRunAudit ==
    ASSUME AuditInv, NEW r \in Run, NEW fs, NEW es, FinalizeRun(r, fs, es)
    PROVE  IntentsAreOpen' /\ CatalogIsTight' /\ Referred \subseteq Referred'
<1>1. /\ evidence' = evidence \cup es /\ catalog' = catalog \cup DigestsOf(es)
      /\ intents' = intents \ IntentsOf({r})
      /\ runState' = [runState EXCEPT ![r] = "committed"]
      /\ \A i \in IntentsOf({r}) : i.digest \in DigestsOf((OwnedBy(r) \cap Evidence) \cup es)
  BY DEF FinalizeRun, CanFinalizeRun, WriteData
<1>2. (OwnedBy(r) \cap Evidence) \cup es \subseteq evidence'
  BY <1>1, RecordKinds DEF AuditInv, WorldInv, WorldTypeOK, OwnershipIsSound, OwnedBy
<1>3. \A i \in intents : i \in intents' \/ i.digest \in DigestsOf(evidence)'
  BY <1>1, <1>2 DEF DigestsOf
<1>4. DigestsOf(evidence)' = DigestsOf(evidence) \cup DigestsOf(es)
  BY <1>1 DEF DigestsOf
<1>5. Referred \subseteq Referred' /\ DigestsOf(es) \subseteq Referred'
  BY <1>3, <1>4 DEF Referred
<1>6. CatalogIsTight'
  BY <1>1, <1>4, <1>5, TightParts, TightPartsNext DEF AuditInv
<1>7. IntentsAreOpen'
  BY <1>1 DEF AuditInv, WorldInv, WorldTypeOK, IntentsAreOpen, IntentsOf, StagedFile
<1> QED BY <1>5, <1>6, <1>7

(* finish_run_cleanup forgets only artifacts on the list of its plan. *)
LEMMA FinishRunCleanupAudit ==
    ASSUME AuditInv, NEW r \in Run, FinishRunCleanup(r)
    PROVE  /\ IntentsAreOpen' /\ CatalogIsTight'
           /\ Referred \ CleanupArtifacts(r) \subseteq Referred'
<1>1. /\ evidence' = evidence \ CleanupEvidence(r)
      /\ intents' = intents \ IntentsOf({r})
      /\ catalog' = catalog \ Unreferenced(CleanupDigests(r), evidence', intents')
      /\ runState' = [runState EXCEPT ![r] = IF @ = "preparing" THEN "failed" ELSE @]
  BY DEF FinishRunCleanup
<1>2. Referred \ CleanupArtifacts(r) \subseteq Referred'
  <2> SUFFICES ASSUME NEW y \in Referred, y \notin CleanupArtifacts(r)
               PROVE  y \in Referred'
    OBVIOUS
  <2>1. /\ \A e \in CleanupEvidence(r) : OwnersOf(e) = {r} /\ e \in OwnedBy(r)
        /\ \A i \in IntentsOf({r}) : i.run = r
    BY DEF CleanupEvidence, OnlyOwned, IntentsOf
  <2>2. CASE y \in CleanupDigests(r)
    <3>1. \/ \E e \in evidence : EvidenceDigest[e] = y /\ OwnersOf(e) # {r}
          \/ \E i \in intents : i.digest = y /\ i.run # r
      BY <2>2 DEF CleanupArtifacts
    <3> QED BY <3>1, <2>1, <1>1 DEF Referred, DigestsOf
  <2>3. CASE y \notin CleanupDigests(r)
    <3>1. /\ \A e \in evidence : EvidenceDigest[e] = y => e \notin CleanupEvidence(r)
          /\ \A i \in intents : i.digest = y => i \notin IntentsOf({r})
      BY <2>1, <2>3 DEF CleanupDigests, DigestsOf
    <3> QED BY <3>1, <1>1 DEF Referred, DigestsOf
  <2> QED BY <2>2, <2>3
<1>3. \A y : y \in Referred' <=> \/ \E e \in evidence' : EvidenceDigest[e] = y
                                \/ \E i \in intents' : i.digest = y
  BY DEF Referred, DigestsOf
<1>4. Unreferenced(CleanupDigests(r), evidence', intents') = CleanupDigests(r) \ Referred'
  BY <1>3 DEF Unreferenced, DigestsOf
<1>5. CleanupArtifacts(r) \subseteq CleanupDigests(r)
  BY DEF CleanupArtifacts
<1>6. DigestsOf(evidence)' \subseteq DigestsOf(evidence) /\ DigestsOf(evidence)' \subseteq Referred'
  BY <1>1 DEF DigestsOf, Referred
<1>7. CatalogIsTight'
  BY <1>1, <1>2, <1>4, <1>5, <1>6, TightParts, TightPartsNext DEF AuditInv
<1>8. IntentsAreOpen'
  BY <1>1 DEF AuditInv, WorldInv, WorldTypeOK, IntentsAreOpen, IntentsOf, StagedFile
<1> QED BY <1>2, <1>7, <1>8

(* begin_source_deletion and complete_deletion touch only the jobs. *)
LEMMA DeletionAudit ==
    ASSUME AuditInv, NEW s, NEW d, BeginSourceDeletion(s, d) \/ CompleteDeletion(d)
    PROVE  IntentsAreOpen' /\ CatalogIsTight' /\ Referred' = Referred
<1>1. UNCHANGED <<recordVars, runState, intents>>
  BY DEF BeginSourceDeletion, CompleteDeletion
<1> QED BY <1>1 DEF AuditInv, recordVars, IntentsAreOpen, CatalogIsTight, Unreferenced,
        DigestsOf, Referred

(* purge_deletion_metadata forgets only artifacts its plan required gone: what
   the plan retained is still referred to from another source. *)
LEMMA PurgeAudit ==
    ASSUME AuditInv, NEW d \in DeletionId, NEW present, PurgeDeletionMetadata(d, present)
    PROVE  /\ IntentsAreOpen' /\ CatalogIsTight'
           /\ Referred \ required[d] \subseteq Referred'
<1> DEFINE s == jobRoot[d]
           cl == closure[d]
           kept == {r \in Runs : RunSource[r] # s}
<1>1. /\ frames' = {f \in frames : FrameSource[f] # s}
      /\ evidence' = {e \in evidence : EvidenceFrame[e] \in frames'}
      /\ intents' = IntentsOf(kept)
      /\ catalog' = catalog \ Unreferenced(required[d], evidence', intents')
      /\ runState' = [r \in Run |-> IF r \in kept THEN runState[r] ELSE "absent"]
  BY DEF PurgeDeletionMetadata
<1>2. /\ cl = SourceClosure(s)
      /\ required[d] \cup retained[d] = ClosureDigests(cl)
      /\ \A y \in retained[d] : SurvivesOutside(y, cl)
  BY DEF PurgeDeletionMetadata, CanPurge, PlanLoads
<1>3. \A e \in evidence : e \in cl \/ e \in evidence'
  BY <1>1, <1>2 DEF SourceClosure, AuditInv, WorldInv, EvidenceHasFrame
<1>4. \A i \in intents : i.run \in Runs /\ (i.run \in cl \cap Run \/ i \in intents')
  BY <1>1, <1>2 DEF SourceClosure, IntentsOf, Runs, AuditInv, WorldInv, WorldTypeOK,
      StagedFile, IntentsAreOpen
<1>5. \A e \in evidence \ cl : e \in evidence'
  BY <1>3
<1>6. \A i \in intents : i.run \notin cl => i \in intents'
  BY <1>4
<1>7. Referred \ required[d] \subseteq Referred'
  <2> SUFFICES ASSUME NEW y \in Referred, y \notin required[d] PROVE y \in Referred'
    OBVIOUS
  <2>1. CASE y \in retained[d]
    BY <2>1, <1>2, <1>5, <1>6 DEF SurvivesOutside, Referred, DigestsOf
  <2>2. CASE y \notin ClosureDigests(cl)
    <3>1. /\ \A e \in evidence : EvidenceDigest[e] = y => e \notin cl
          /\ \A i \in intents : i.digest = y => i.run \notin cl \cap Run
      BY <2>2 DEF ClosureDigests, DigestsOf, IntentsOf
    <3> QED BY <3>1, <1>3, <1>4 DEF Referred, DigestsOf
  <2> QED BY <2>1, <2>2, <1>2
<1>8. \A y : y \in Referred' <=> \/ \E e \in evidence' : EvidenceDigest[e] = y
                                \/ \E i \in intents' : i.digest = y
  BY DEF Referred, DigestsOf
<1>9. Unreferenced(required[d], evidence', intents') = required[d] \ Referred'
  BY <1>8 DEF Unreferenced, DigestsOf
<1>10. DigestsOf(evidence)' \subseteq DigestsOf(evidence) /\ DigestsOf(evidence)' \subseteq Referred'
  BY <1>1 DEF DigestsOf, Referred
<1>11. CatalogIsTight'
  BY <1>1, <1>7, <1>9, <1>10, TightParts, TightPartsNext DEF AuditInv
<1>12. IntentsAreOpen'
  BY <1>1 DEF AuditInv, WorldInv, WorldTypeOK, IntentsAreOpen, IntentsOf, Runs, StagedFile
<1> QED BY <1>7, <1>11, <1>12
===============================================================================
