----------------------------- MODULE WorldClients -----------------------------
(***************************************************************************)
(* LocalWorldStore under clients that call its public operations in any    *)
(* order and with any records, not only as the coordinator does: its port  *)
(* is public, and its own audit (verify) must accept every history.        *)
(***************************************************************************)
EXTENDS WorldStoreProofs

CONSTANT MaxItems               \* MAX_PORT_BATCH_ITEMS

ASSUME ItemLimit == MaxItems \in Nat

(* Batches of records that _select_records lets through. *)
Small(S) == {B \in SUBSET S : Cardinality(B) <= MaxItems}
Fits(ss, rs, fs, es) ==
    Cardinality(ss) + Cardinality(rs) + Cardinality(fs) + Cardinality(es) <= MaxItems

CommitAny ==
    \E ss \in Small(Source), fs \in Small(Frame), es \in Small(Evidence) :
        \/ Fits(ss, {}, fs, es) /\ Commit(ss, {}, "preparing", fs, es)
        \/ \E r \in Run, st \in RunStates \ {"absent"} :
              Fits(ss, {r}, fs, es) /\ Commit(ss, {r}, st, fs, es)

CommitForRunAny ==
    \E r \in Run, fs \in Small(Frame), es \in Small(Evidence) :
        Fits({}, {}, fs, es) /\ CommitForRun(r, fs, es)

RecordIntentAny == \E h \in StagedFile : RecordArtifactIntents(h.run, {h})

FinalizeAny ==
    \E r \in Run, fs \in Small(Frame), es \in Small(Evidence) :
        Fits({}, {}, fs, es) /\ FinalizeRun(r, fs, es)

CleanupAny == \E r \in Run : FinishRunCleanup(r)

BeginDeletionAny == \E s \in Source, d \in DeletionId : BeginSourceDeletion(s, d)

PurgeAny ==
    \E d \in DeletionId, present \in SUBSET Digest : PurgeDeletionMetadata(d, present)

CompleteAny == \E d \in DeletionId : CompleteDeletion(d)

Next ==
    \/ CommitAny \/ CommitForRunAny \/ RecordIntentAny \/ FinalizeAny
    \/ CleanupAny \/ BeginDeletionAny \/ PurgeAny \/ CompleteAny

Spec == WorldInit /\ [][Next]_worldVars

-----------------------------------------------------------------------------
(* A published run keeps exactly the records it published and stays committed
   until the metadata of its source is purged. *)
Purged(s) ==
    \E d \in DeletionId :
        jobState[d] = "pending" /\ jobRoot[d] = s /\ jobState'[d] = "metadata_purged"

PublishedRunsAreImmutable ==
    [][\A r \in Run :
          runState[r] = "committed" =>
             \/ Purged(RunSource[r])
             \/ /\ runState'[r] = "committed"
                /\ \A x \in Frame \cup Evidence :
                      (<<r, x>> \in runRecords) = (<<r, x>> \in runRecords')
      ]_worldVars

-----------------------------------------------------------------------------
(* Proofs: what the world store keeps under any client, for any number of  *)
(* records, runs, jobs and artifacts, and any batch limit.                 *)
(* A step of Next is one of the operations, called with a legal batch. *)
LEMMA NextIsOperation ==
    ASSUME Next
    PROVE  \/ \E ss \in SUBSET Source, rs \in SUBSET Run, st \in RunStates \ {"absent"},
                 fs \in SUBSET Frame, es \in SUBSET Evidence : Commit(ss, rs, st, fs, es)
           \/ \E r \in Run, fs \in SUBSET Frame, es \in SUBSET Evidence :
                 CommitForRun(r, fs, es)
           \/ \E h \in StagedFile : RecordArtifactIntents(h.run, {h})
           \/ \E r \in Run, fs \in SUBSET Frame, es \in SUBSET Evidence :
                 FinalizeRun(r, fs, es)
           \/ \E r \in Run : FinishRunCleanup(r)
           \/ \E s \in Source, d \in DeletionId : BeginSourceDeletion(s, d)
           \/ \E d \in DeletionId, present \in SUBSET Digest : PurgeDeletionMetadata(d, present)
           \/ \E d \in DeletionId : CompleteDeletion(d)
<1>1. ASSUME CommitAny
      PROVE  \E ss \in SUBSET Source, rs \in SUBSET Run, st \in RunStates \ {"absent"},
                fs \in SUBSET Frame, es \in SUBSET Evidence : Commit(ss, rs, st, fs, es)
  <2>1. PICK ss \in SUBSET Source, fs \in SUBSET Frame, es \in SUBSET Evidence :
           \/ Commit(ss, {}, "preparing", fs, es)
           \/ \E r \in Run, st \in RunStates \ {"absent"} : Commit(ss, {r}, st, fs, es)
    BY <1>1 DEF CommitAny, Small
  <2>2. CASE Commit(ss, {}, "preparing", fs, es)
    <3>1. {} \in SUBSET Run /\ "preparing" \in RunStates \ {"absent"}
      BY DEF RunStates
    <3> QED BY <2>2, <3>1
  <2>3. ASSUME NEW r \in Run, NEW st \in RunStates \ {"absent"}, Commit(ss, {r}, st, fs, es)
        PROVE  \E q \in SUBSET Run : Commit(ss, q, st, fs, es)
    <3>1. {r} \in SUBSET Run OBVIOUS
    <3> QED BY <2>3, <3>1
  <2> QED BY <2>1, <2>2, <2>3
<1>2. ASSUME CommitForRunAny
      PROVE  \E r \in Run, fs \in SUBSET Frame, es \in SUBSET Evidence : CommitForRun(r, fs, es)
  BY <1>2 DEF CommitForRunAny, Small
<1>3. ASSUME FinalizeAny
      PROVE  \E r \in Run, fs \in SUBSET Frame, es \in SUBSET Evidence : FinalizeRun(r, fs, es)
  BY <1>3 DEF FinalizeAny, Small
<1> QED BY <1>1, <1>2, <1>3 DEF Next, RecordIntentAny, CleanupAny, BeginDeletionAny,
        PurgeAny, CompleteAny

(* Every call keeps the intents open and the catalog tight. *)
LEMMA AuditStep ==
    ASSUME AuditInv, Next PROVE IntentsAreOpen' /\ CatalogIsTight'
BY NextIsOperation, CommitAudit, CommitForRunAudit, RecordIntentsAudit, FinalizeRunAudit,
   FinishRunCleanupAudit, DeletionAudit, PurgeAudit

(* Every call preserves the invariant of the tables. *)
LEMMA WorldStep ==
    ASSUME WorldInv, Next PROVE WorldInv'
<1>1. ASSUME NEW h \in StagedFile, RecordArtifactIntents(h.run, {h})
      PROVE  WorldInv'
  <2>1. {h} \in SUBSET StagedFile OBVIOUS
  <2> QED BY <1>1, <2>1, RecordIntentsInv
<1> QED BY <1>1, NextIsOperation, CommitInv, CommitForRunInv, FinalizeRunInv,
        FinishRunCleanupInv, BeginSourceDeletionInv, PurgeInv, CompleteDeletionInv

(* The invariant holds in every history of calls. *)
THEOREM Invariant == Spec => []AuditInv
<1>1. WorldInit => AuditInv
  BY InitAudit
<1>2. AuditInv /\ [Next]_worldVars => AuditInv'
  <2> SUFFICES ASSUME AuditInv, [Next]_worldVars PROVE AuditInv'
    OBVIOUS
  <2>1. CASE Next
    BY <2>1, WorldStep, AuditStep DEF AuditInv
  <2>2. CASE UNCHANGED worldVars
    BY <2>2, StutterAudit
  <2> QED BY <2>1, <2>2
<1> QED BY <1>1, <1>2, PTL DEF Spec

(* The tables keep their types under every client. *)
THEOREM Types == Spec => []WorldTypeOK
BY Invariant, PTL DEF AuditInv, WorldInv

(* What verify() accepts of ownership, intents and the catalog holds after
   every committed call, so the audit accepts every history. *)
THEOREM AuditAccepts == Spec => [](OwnershipIsSound /\ IntentsAreOpen /\ CatalogIsTight)
BY Invariant, PTL DEF AuditInv, WorldInv

(* Whatever is called between the start of a deletion and its purge, the
   closure the plan froze stays what the source owns. *)
THEOREM FrozenClosure == Spec => []ClosureIsFrozen
BY Invariant, PTL DEF AuditInv, WorldInv

-----------------------------------------------------------------------------
(* What one step does to a published run. *)
LEMMA PublishedStep ==
    ASSUME WorldInv, Next, NEW r \in Run, runState[r] = "committed"
    PROVE  \/ Purged(RunSource[r])
           \/ /\ runState'[r] = "committed"
              /\ \A x \in Frame \cup Evidence :
                    (<<r, x>> \in runRecords) = (<<r, x>> \in runRecords')
<1> DEFINE Kept == /\ runState'[r] = "committed"
                   /\ \A x \in Frame \cup Evidence :
                         (<<r, x>> \in runRecords) = (<<r, x>> \in runRecords')
<1> USE DEF WorldInv, WorldTypeOK
<1>1. ASSUME NEW ss, NEW rs \in SUBSET Run, NEW st,
             NEW fs \in SUBSET Frame, NEW es \in SUBSET Evidence, Commit(ss, rs, st, fs, es)
      PROVE  Kept
  <2>1. /\ runState' = [q \in Run |-> IF q \in rs THEN st ELSE runState[q]]
        /\ runRecords' = runRecords \cup (rs \X (fs \cup es))
        /\ r \in rs => CanWriteRun(r, st)
        /\ st = "committed" => \A q \in rs : CommittedRetry(q, fs, es)
    BY <1>1 DEF Commit, CanCommit
  <2>2. r \in rs => st = "committed"
    BY <2>1 DEF CanWriteRun, RunTransition
  <2>3. r \in rs => fs \cup es \subseteq OwnedBy(r)
    BY <2>1, <2>2 DEF CommittedRetry
  <2> QED BY <2>1, <2>2, <2>3 DEF OwnedBy
<1>2. ASSUME NEW q \in Run, NEW fs, NEW es, CommitForRun(q, fs, es)
      PROVE  Kept
  BY <1>2 DEF CommitForRun, CanCommitForRun
<1>3. ASSUME NEW q \in Run, NEW fs, NEW es, FinalizeRun(q, fs, es)
      PROVE  Kept
  BY <1>3 DEF FinalizeRun, CanFinalizeRun, CommittedRetry, OwnedBy
<1>4. ASSUME NEW q \in Run, FinishRunCleanup(q)
      PROVE  Kept
  BY <1>4 DEF FinishRunCleanup, CanFinishCleanup
<1>5. ASSUME NEW d \in DeletionId, NEW present, PurgeDeletionMetadata(d, present)
      PROVE  Kept \/ Purged(RunSource[r])
  <2>1. /\ jobState[d] = "pending" /\ jobState'[d] = "metadata_purged"
        /\ RunSource[r] # jobRoot[d] =>
              /\ runState'[r] = runState[r]
              /\ \A x : (<<r, x>> \in runRecords) = (<<r, x>> \in runRecords')
    BY <1>5 DEF PurgeDeletionMetadata, CanPurge, PlanLoads, Runs
  <2> QED BY <2>1 DEF Purged
<1>6. ASSUME NEW h, RecordArtifactIntents(h.run, {h})
      PROVE  Kept
  BY <1>6 DEF RecordArtifactIntents, recordVars
<1>7. ASSUME NEW s, NEW d, BeginSourceDeletion(s, d)
      PROVE  Kept
  BY <1>7 DEF BeginSourceDeletion, recordVars
<1>8. ASSUME NEW d, CompleteDeletion(d)
      PROVE  Kept
  BY <1>8 DEF CompleteDeletion, recordVars
<1> HIDE DEF Kept, WorldInv, WorldTypeOK
<1>9. Kept \/ Purged(RunSource[r])
  BY <1>1, <1>2, <1>3, <1>4, <1>5, <1>6, <1>7, <1>8, NextIsOperation
<1> QED BY <1>9 DEF Kept

(* A published run is immutable for every client, until its source goes. *)
THEOREM Immutability == Spec => PublishedRunsAreImmutable
<1> DEFINE Immutable ==
        \A r \in Run :
          runState[r] = "committed" =>
             \/ Purged(RunSource[r])
             \/ /\ runState'[r] = "committed"
                /\ \A x \in Frame \cup Evidence :
                      (<<r, x>> \in runRecords) = (<<r, x>> \in runRecords')
<1>1. WorldInv /\ [Next]_worldVars => [Immutable]_worldVars
  BY PublishedStep
<1>2. Spec => []WorldInv
  BY Invariant, PTL DEF AuditInv
<1> QED BY <1>1, <1>2, PTL DEF Spec, PublishedRunsAreImmutable
===============================================================================
