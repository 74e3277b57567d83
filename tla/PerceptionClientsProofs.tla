------------------------ MODULE PerceptionClientsProofs ------------------------
(***************************************************************************)
(* What the version 2 tables keep under any client, for any number of      *)
(* frames, observations, tracklets, runs and jobs.                         *)
(***************************************************************************)
EXTENDS PerceptionClients, WorldReads, PerceptionStoreProofs, FiniteSetTheorems

(* A step of Next is one of the operations on both versions' tables. *)
LEMMA OperationKeeps ==
    ASSUME WorldInv, GraphInv, Next PROVE WorldInv' /\ GraphInv'
<1>1. ASSUME CommitAny PROVE WorldInv' /\ GraphInv'
  <2>1. UNCHANGED perceptionVars
    BY <1>1 DEF CommitAny
  <2>2. ASSUME NEW s \in Source, Commit({s}, {}, "preparing", {}, {})
        PROVE  WorldInv' /\ GraphInv'
    <3>1. {s} \in SUBSET Source /\ {} \in SUBSET Run /\ {} \in SUBSET Frame
          /\ {} \in SUBSET Evidence /\ "preparing" \in RunStates \ {"absent"}
      BY DEF RunStates
    <3> QED BY <2>1, <2>2, <3>1, CommitInv, CommitGraph
  <2>3. ASSUME NEW r \in Run, NEW st \in {"preparing", "failed"}, Commit({}, {r}, st, {}, {})
        PROVE  WorldInv' /\ GraphInv'
    <3>1. {r} \in SUBSET Run /\ {} \in SUBSET Source /\ {} \in SUBSET Frame
          /\ {} \in SUBSET Evidence /\ st \in RunStates \ {"absent"}
      BY DEF RunStates
    <3> QED BY <2>1, <2>3, <3>1, CommitInv, CommitGraph
  <2>4. ASSUME NEW r \in Run, NEW fs \in SUBSET Frame, NEW es \in SUBSET Evidence,
               CommitForRun(r, fs, es)
        PROVE  WorldInv' /\ GraphInv'
    BY <2>1, <2>4, CommitForRunInv, CommitForRunGraph
  <2>5. \A f \in Frame, e \in Evidence : {f} \in SUBSET Frame /\ {e} \in SUBSET Evidence
        /\ {} \in SUBSET Frame /\ {} \in SUBSET Evidence
    OBVIOUS
  <2> QED BY <1>1, <2>2, <2>3, <2>4, <2>5 DEF CommitAny
<1>2. ASSUME RecordIntentAny PROVE WorldInv' /\ GraphInv'
  <2>1. PICK h \in StagedFile : RecordArtifactIntents(h.run, {h})
    BY <1>2 DEF RecordIntentAny
  <2>2. {h} \in SUBSET StagedFile /\ UNCHANGED perceptionVars
    BY <1>2 DEF RecordIntentAny
  <2> QED BY <2>1, <2>2, RecordIntentsInv, QuietGraph
<1>3. ASSUME CommitPerceptionAny PROVE WorldInv' /\ GraphInv'
  <2>1. PICK r \in Run, os \in SUBSET Observation, ts \in SUBSET Tracklet, is \in SUBSET Intent :
           CommitPerceptionForRun(r, os, ts, is)
    <3>1. \A o \in Observation, t \in Tracklet, i \in Intent :
             /\ {o} \in SUBSET Observation /\ {t} \in SUBSET Tracklet /\ {i} \in SUBSET Intent
      OBVIOUS
    <3>2. {} \in SUBSET Observation /\ {} \in SUBSET Tracklet /\ {} \in SUBSET Intent
      OBVIOUS
    <3> QED BY <1>3, <3>1, <3>2 DEF CommitPerceptionAny
  <2> QED BY <2>1, CommitPerceptionGraph, StutterInv DEF CommitPerceptionForRun
<1>4. ASSUME LinkAny PROVE WorldInv' /\ GraphInv'
  BY <1>4, LinkGraph, StutterInv DEF LinkAny, LinkSelectedEvidence
<1>5. ASSUME FinalizeAny PROVE WorldInv' /\ GraphInv'
  <2>1. {} \in SUBSET Frame /\ {} \in SUBSET Evidence
    OBVIOUS
  <2> QED BY <1>5, <2>1, FinalizeGraph, FinalizeRunInv DEF FinalizeAny, FinalizePerceptionRun
<1>6. ASSUME CleanupAny PROVE WorldInv' /\ GraphInv'
  BY <1>6, CleanupGraph, FinishRunCleanupInv DEF CleanupAny, FinishPerceptionCleanup
<1>7. ASSUME BeginDeletionAny PROVE WorldInv' /\ GraphInv'
  BY <1>7, BeginDeletionGraph, BeginSourceDeletionInv DEF BeginDeletionAny, BeginPerceptionDeletion
<1>8. ASSUME PurgeAny PROVE WorldInv' /\ GraphInv'
  BY <1>8, PurgeGraph, PurgeInv DEF PurgeAny, PurgePerception
<1>9. ASSUME CompleteAny PROVE WorldInv' /\ GraphInv'
  BY <1>9, QuietGraph, CompleteDeletionInv DEF CompleteAny
<1> QED BY <1>1, <1>2, <1>3, <1>4, <1>5, <1>6, <1>7, <1>8, <1>9 DEF Next

(* Both versions' invariants hold in every history of calls. *)
THEOREM Invariant == Spec => [](WorldInv /\ GraphInv)
<1>1. Init => WorldInv /\ GraphInv
  BY InitInv, InitGraph DEF Init
<1>2. WorldInv /\ GraphInv /\ [Next]_vars => (WorldInv /\ GraphInv)'
  BY OperationKeeps, StutterInv, QuietGraph DEF vars
<1> QED BY <1>1, <1>2, PTL DEF Spec

(* What the store promises of its graph holds between any two transactions of
   any clients: foreign keys, ownership, selections, visibility, and the
   frozen plan of a deletion. *)
THEOREM GraphSoundness == Spec => []PerceptionGraphIsSound
<1>1. WorldInv /\ GraphInv => PerceptionGraphIsSound
  BY SoundGraph
<1> QED BY <1>1, Invariant, PTL

(* A published run keeps its graph, whatever becomes of the runs that share
   its frames and observations, until its source is purged. *)
THEOREM CommittedGraph == Spec => CommittedGraphIsKept
<1> DEFINE Kept == \A r \in Run :
          runState[r] = "committed" /\ runState'[r] # "absent" =>
             /\ SelectionsOf(r) = {s \in selected' : s.run = r}
             /\ PerceptionOf(r) = {x \in Perceived : <<r, x>> \in perceivedBy'}
             /\ PerceptionOf(r) \subseteq observations' \cup tracklets'
<1>1. WorldInv /\ GraphInv /\ (WorldInv /\ GraphInv)' /\ [Next]_vars => [Kept]_vars
  <2> SUFFICES ASSUME GraphInv, WorldInv', GraphInv', Next, NEW r \in Run,
                      runState[r] = "committed", runState'[r] # "absent"
               PROVE  /\ SelectionsOf(r) = {s \in selected' : s.run = r}
                      /\ PerceptionOf(r) = {x \in Perceived : <<r, x>> \in perceivedBy'}
                      /\ PerceptionOf(r) \subseteq observations' \cup tracklets'
    OBVIOUS
  <2>1. \/ UNCHANGED perceptionVars
        \/ \E q, os, ts, is : CommitPerceptionForRun(q, os, ts, is)
        \/ \E s, e, present : LinkSelectedEvidence(s, e, present)
        \/ \E q : FinishPerceptionCleanup(q)
        \/ \E s, d : BeginPerceptionDeletion(s, d)
        \/ \E d, present : PurgePerception(d, present)
    BY DEF Next, CommitAny, RecordIntentAny, CommitPerceptionAny, LinkAny, FinalizeAny,
        FinalizePerceptionRun, CleanupAny, BeginDeletionAny, PurgeAny, CompleteAny
  <2>2. PerceptionOf(r)' = PerceptionOf(r) /\ SelectionsOf(r)' = SelectionsOf(r)
    BY <2>1, PublishedGraphStep
  <2>3. \A x \in PerceptionOf(r)' : x \in observations' \cup tracklets'
    BY DEF GraphInv, PerceptionIsOwned, GraphIsOwned, PerceptionOf, Perceived
  <2> QED BY <2>2, <2>3 DEF PerceptionOf, SelectionsOf
<1> QED BY <1>1, Invariant, PTL DEF Spec, CommittedGraphIsKept

-----------------------------------------------------------------------------
(* Pages.  The rows of a finite set have the places 1..n when they are counted
   in order, so every place has its row and every row its place. *)

Rank(place, S) == [x \in S |-> Cardinality({y \in S : place[y] <= place[x]})]

LEMMA RankIsOneToOne ==
    ASSUME NEW S, IsFiniteSet(S), NEW place, \A x \in S : place[x] \in Nat,
           \A x, y \in S : place[x] = place[y] => x = y
    PROVE  /\ Cardinality(S) \in Nat
           /\ Rank(place, S) \in Bijection(S, 1..Cardinality(S))
<1> DEFINE before(x) == {y \in S : place[y] <= place[x]}
<1>1. \A x \in S : /\ IsFiniteSet(before(x)) /\ Cardinality(before(x)) \in Nat
                   /\ Cardinality(before(x)) <= Cardinality(S)
  <2> SUFFICES ASSUME NEW x \in S
               PROVE  /\ IsFiniteSet(before(x)) /\ Cardinality(before(x)) \in Nat
                      /\ Cardinality(before(x)) <= Cardinality(S)
    OBVIOUS
  <2>1. before(x) \in SUBSET S
    OBVIOUS
  <2> HIDE DEF before
  <2> QED BY <2>1, FS_Subset, FS_CardinalityType
<1>2. \A x \in S : Cardinality(before(x)) # 0
  <2> SUFFICES ASSUME NEW x \in S PROVE Cardinality(before(x)) # 0
    OBVIOUS
  <2>1. x \in before(x)
    OBVIOUS
  <2> HIDE DEF before
  <2> QED BY <1>1, <2>1, FS_EmptySet
<1>3. ASSUME NEW x \in S, NEW y \in S, place[x] < place[y]
      PROVE  Cardinality(before(x)) # Cardinality(before(y))
  <2>1. before(x) \in SUBSET before(y) /\ y \in before(y) /\ y \notin before(x)
    BY <1>3
  <2>2. IsFiniteSet(before(y))
    BY <1>1
  <2> HIDE DEF before
  <2> QED BY <2>1, <2>2, FS_Subset
<1>4. Cardinality(S) \in Nat
  BY FS_CardinalityType
<1>5. Rank(place, S) \in [S -> 1..Cardinality(S)]
  BY <1>1, <1>2, <1>4 DEF Rank
<1>6. Rank(place, S) \in Injection(S, 1..Cardinality(S))
  <2> SUFFICES ASSUME NEW x \in S, NEW y \in S, x # y,
                      Cardinality(before(x)) = Cardinality(before(y))
               PROVE  FALSE
    BY <1>5 DEF Injection, IsInjective, Rank
  <2>1. place[x] < place[y] \/ place[y] < place[x]
    OBVIOUS
  <2> HIDE DEF before
  <2> QED BY <1>3, <2>1
<1>7. IsFiniteSet(1..Cardinality(S)) /\ Cardinality(1..Cardinality(S)) = Cardinality(S)
  BY <1>4, FS_Interval
<1>8. Rank(place, S) \in Surjection(S, 1..Cardinality(S))
  BY <1>6, <1>7, FS_Injection
<1> QED BY <1>4, <1>6, <1>8 DEF Bijection

(* A page shows rows of its set, and all of them when there is room. *)
LEMMA PageItems ==
    ASSUME NEW S, IsFiniteSet(S), NEW place, \A x \in S : place[x] \in Nat \ {0},
           \A x, y \in S : place[x] = place[y] => x = y, NEW n \in Nat
    PROVE  /\ \A after : Range(PageBy(place, S, after, n)) \subseteq S
           /\ Cardinality(S) <= n => S \subseteq Range(PageBy(place, S, 0, n))
<1>1. ASSUME NEW R \in SUBSET S
      PROVE  /\ Cardinality(R) \in Nat
             /\ \A i \in 1..Cardinality(R) :
                   Nth(place, R, i) \in R /\ Rank(place, R)[Nth(place, R, i)] = i
             /\ \A x \in R : \E i \in 1..Cardinality(R) : Nth(place, R, i) = x
  <2>1. IsFiniteSet(R)
    BY FS_Subset
  <2>2. /\ Cardinality(R) \in Nat
        /\ Rank(place, R) \in Bijection(R, 1..Cardinality(R))
    BY <2>1, RankIsOneToOne
  <2>3. \A x \in R : Rank(place, R)[x] = Cardinality({y \in R : place[y] <= place[x]})
    BY DEF Rank
  <2>4. /\ \A i \in 1..Cardinality(R) : \E x \in R : Rank(place, R)[x] = i
        /\ \A x \in R : Rank(place, R)[x] \in 1..Cardinality(R)
        /\ \A x, y \in R : Rank(place, R)[x] = Rank(place, R)[y] => x = y
    BY <2>2 DEF Bijection, Injection, Surjection, IsInjective
  <2>5. \A i \in 1..Cardinality(R) :
           Nth(place, R, i) \in R /\ Rank(place, R)[Nth(place, R, i)] = i
    BY <2>3, <2>4 DEF Nth
  <2> QED BY <2>2, <2>4, <2>5
<1>2. ASSUME NEW after PROVE Range(PageBy(place, S, after, n)) \subseteq S
  <2> DEFINE rest == {x \in S : place[x] > after}
             size == IF Cardinality(rest) < n THEN Cardinality(rest) ELSE n
  <2>1. rest \in SUBSET S
    OBVIOUS
  <2>2. \A i \in 1..size : Nth(place, rest, i) \in rest
    <3> HIDE DEF rest
    <3> QED BY <1>1, <2>1
  <2> QED BY <2>2 DEF PageBy, Range
<1>3. ASSUME Cardinality(S) <= n, NEW x \in S PROVE x \in Range(PageBy(place, S, 0, n))
  <2>1. {y \in S : place[y] > 0} = S
    OBVIOUS
  <2>2. PICK i \in 1..Cardinality(S) : Nth(place, S, i) = x
    BY <1>1
  <2>3. i \in 1..(IF Cardinality(S) < n THEN Cardinality(S) ELSE n)
    BY <1>1, <1>3, <2>2
  <2> QED BY <2>1, <2>2, <2>3 DEF PageBy, Range
<1> QED BY <1>2, <1>3

-----------------------------------------------------------------------------
(* What the reads rest on besides the graph and the audit of version 1. *)

(* The foreign key of a frame. *)
FramesHaveSources == \A f \in frames : FrameSource[f] \in sources

(* finalize_run has counted the frames, and nothing adds to a published run. *)
PublishedRunsCount ==
    \A r \in Run : runState[r] = "committed" =>
        Cardinality(OwnedBy(r) \cap Frame) = Cardinality(RunFrames(r))

(* A pending deletion still has its source and decides about everything its
   closure refers to; a job that is not pending decides about nothing. *)
PlansAreWhole ==
    \A d \in DeletionId :
        IF jobState[d] = "pending"
        THEN jobRoot[d] \in sources /\ required[d] \cup retained[d] = ClosureDigests(closure[d])
        ELSE jobRoot[d] = NoSource /\ required[d] = {} /\ retained[d] = {}

ReadInv ==
    AuditInv /\ GraphInv /\ FramesHaveSources /\ PublishedRunsCount /\ PlansAreWhole

(* The closure of a pending deletion holds the evidence rows, and the runs, of
   its source and no others. *)
LEMMA ClosureParts ==
    ASSUME WorldInv, NEW d \in DeletionId, jobState[d] = "pending"
    PROVE  /\ evidence \cap closure[d] = closure[d] \cap Evidence
           /\ closure[d] \cap Run = {r \in Runs : RunSource[r] = jobRoot[d]}
           /\ jobRoot[d] \in closure[d]
BY RecordKinds DEF WorldInv, WorldTypeOK, OnlyPendingHides, ClosureIsFrozen, SourceClosure, Runs

(* A plan stays whole in a step that leaves the jobs and the intents of the
   runs of every pending deletion alone. *)
LEMMA PlansStayWhole ==
    ASSUME WorldInv, WorldInv', PlansAreWhole, sources \subseteq sources', UNCHANGED jobVars,
           \A i : \A d \in DeletionId :
              jobState[d] = "pending" /\ i.run \in closure[d] \cap Run =>
                 (i \in intents <=> i \in intents')
    PROVE  PlansAreWhole'
<1>1. UNCHANGED <<jobState, jobRoot, closure, required, retained>>
  BY DEF jobVars
<1>2. ASSUME NEW d \in DeletionId, jobState[d] = "pending"
      PROVE  ClosureDigests(closure[d])' = ClosureDigests(closure[d])
  <2>1. evidence \cap closure[d] = closure[d] \cap Evidence
    BY <1>2, ClosureParts
  <2>2. (evidence \cap closure[d])' = closure[d] \cap Evidence
    <3>1. WorldInv' /\ jobState'[d] = "pending" /\ closure' = closure
      BY <1>1, <1>2
    <3>2. WorldTypeOK' /\ ClosureIsFrozen'
      BY DEF WorldInv
    <3>3. closure'[d] = SourceClosure(jobRoot[d])'
      BY <3>1, <3>2, <1>1 DEF ClosureIsFrozen
    <3>4. jobRoot[d] \in Source
      BY <1>2 DEF WorldInv, OnlyPendingHides
    <3> QED BY <3>1, <3>2, <3>3, <3>4, <1>1, RecordKinds DEF WorldTypeOK, SourceClosure, Runs
  <2>3. IntentsOf(closure[d] \cap Run)' = IntentsOf(closure[d] \cap Run)
    BY <1>1, <1>2 DEF IntentsOf
  <2> QED BY <1>1, <2>1, <2>2, <2>3 DEF ClosureDigests, DigestsOf
<1> QED BY <1>1, <1>2 DEF PlansAreWhole

(* A run whose source can be written is in no closure. *)
LEMMA WritableRunIsOutside ==
    ASSUME WorldInv, NEW r, SourceWritable(RunSource[r]),
           NEW d \in DeletionId, jobState[d] = "pending"
    PROVE  r \notin closure[d] \cap Run
BY ClosureParts, WritableIsNotRoot

(* A step that keeps the jobs and the sources, and changes the intents of
   writable sources only, keeps what the reads rest on. *)
LEMMA StepReads ==
    ASSUME WorldInv, WorldInv', FramesHaveSources, PublishedRunsCount, PlansAreWhole,
           sources \subseteq sources', UNCHANGED jobVars,
           \A f \in frames' \ frames : FrameSource[f] \in sources',
           \A r \in Run : runState'[r] = "committed" =>
              \/ runState[r] = "committed" /\ OwnedBy(r)' = OwnedBy(r)
              \/ Cardinality(OwnedBy(r)' \cap Frame) = Cardinality(RunFrames(r)),
           \A i : (i \in intents <=> i \in intents') \/ SourceWritable(RunSource[i.run])
    PROVE  FramesHaveSources' /\ PublishedRunsCount' /\ PlansAreWhole'
<1>1. FramesHaveSources'
  BY DEF FramesHaveSources
<1>2. PublishedRunsCount'
  BY DEF PublishedRunsCount
<1>3. PlansAreWhole'
  <2>1. \A i : \A d \in DeletionId :
           jobState[d] = "pending" /\ i.run \in closure[d] \cap Run =>
              (i \in intents <=> i \in intents')
    BY WritableRunIsOutside
  <2> QED BY <2>1, PlansStayWhole
<1> QED BY <1>1, <1>2, <1>3

(* One operation of any client keeps it. *)
LEMMA OperationReads ==
    ASSUME ReadInv, WorldInv', Next
    PROVE  FramesHaveSources' /\ PublishedRunsCount' /\ PlansAreWhole'
<1>0. WorldInv /\ GraphInv /\ FramesHaveSources /\ PublishedRunsCount /\ PlansAreWhole
  BY DEF ReadInv, AuditInv
<1>1. ASSUME CommitAny PROVE FramesHaveSources' /\ PublishedRunsCount' /\ PlansAreWhole'
  <2>1. ASSUME NEW ss, NEW rs, NEW st \in {"preparing", "failed"}, Commit(ss, rs, st, {}, {})
        PROVE  FramesHaveSources' /\ PublishedRunsCount' /\ PlansAreWhole'
    <3>1. /\ sources' = sources \cup ss /\ frames' = frames /\ UNCHANGED <<intents, jobVars>>
          /\ runState' = [r \in Run |-> IF r \in rs THEN st ELSE runState[r]]
          /\ runRecords' = runRecords
      BY <2>1 DEF Commit, WriteData
    <3>2. \A r \in Run : runState'[r] = "committed" =>
             runState[r] = "committed" /\ OwnedBy(r)' = OwnedBy(r)
      BY <3>1 DEF OwnedBy
    <3> QED BY <1>0, <3>1, <3>2, StepReads
  <2>2. ASSUME NEW r \in Run, NEW fs \in SUBSET Frame, NEW es \in SUBSET Evidence,
               CommitForRun(r, fs, es)
        PROVE  FramesHaveSources' /\ PublishedRunsCount' /\ PlansAreWhole'
    <3>1. /\ sources' = sources /\ frames' = frames \cup fs /\ UNCHANGED <<intents, jobVars, runState>>
          /\ runRecords' = runRecords \cup ({r} \X (fs \cup es))
          /\ \A f \in fs : FrameSource[f] \in sources
          /\ runState[r] = "preparing"
      BY <2>2 DEF CommitForRun, CanCommitForRun, CanWriteData, WriteData
    <3>2. \A q \in Run : runState'[q] = "committed" =>
             runState[q] = "committed" /\ OwnedBy(q)' = OwnedBy(q)
      BY <3>1 DEF OwnedBy
    <3> QED BY <1>0, <3>1, <3>2, StepReads
  <2>3. \A f \in Frame, e \in Evidence : {f} \in SUBSET Frame /\ {e} \in SUBSET Evidence
        /\ {} \in SUBSET Frame /\ {} \in SUBSET Evidence
    OBVIOUS
  <2> QED BY <1>1, <2>1, <2>2, <2>3 DEF CommitAny
<1>2. ASSUME RecordIntentAny PROVE FramesHaveSources' /\ PublishedRunsCount' /\ PlansAreWhole'
  <2>1. PICK h \in StagedFile : RecordArtifactIntents(h.run, {h})
    BY <1>2 DEF RecordIntentAny
  <2>2. /\ intents' = intents \cup {h} /\ UNCHANGED <<recordVars, runState, jobVars>>
        /\ SourceWritable(RunSource[h.run])
    BY <2>1 DEF RecordArtifactIntents, CanRecordIntents
  <2>3. UNCHANGED <<sources, frames, runRecords>>
    BY <2>2 DEF recordVars
  <2>4. \A q \in Run : runState'[q] = "committed" =>
             runState[q] = "committed" /\ OwnedBy(q)' = OwnedBy(q)
    BY <2>2, <2>3 DEF OwnedBy
  <2> QED BY <1>0, <2>2, <2>3, <2>4, StepReads
<1>3. ASSUME UNCHANGED worldVars PROVE FramesHaveSources' /\ PublishedRunsCount' /\ PlansAreWhole'
  <2>1. UNCHANGED <<sources, frames, runRecords, runState, intents, jobVars>>
    BY <1>3 DEF worldVars, recordVars
  <2>2. \A q \in Run : runState'[q] = "committed" =>
             runState[q] = "committed" /\ OwnedBy(q)' = OwnedBy(q)
    BY <2>1 DEF OwnedBy
  <2> QED BY <1>0, <2>1, <2>2, StepReads
<1>4. ASSUME FinalizeAny PROVE FramesHaveSources' /\ PublishedRunsCount' /\ PlansAreWhole'
  <2>1. PICK r \in Run : FinalizeRun(r, {}, {})
    BY <1>4 DEF FinalizeAny, FinalizePerceptionRun
  <2>2. /\ sources' = sources /\ frames' = frames /\ runRecords' = runRecords
        /\ UNCHANGED jobVars /\ intents' = intents \ IntentsOf({r})
        /\ runState' = [runState EXCEPT ![r] = "committed"]
        /\ SourceWritable(RunSource[r])
        /\ Cardinality(OwnedBy(r) \cap Frame) = Cardinality(RunFrames(r))
    <3>1. (OwnedBy(r) \cap Frame) \cup {} = OwnedBy(r) \cap Frame
      OBVIOUS
    <3> QED BY <2>1, <3>1 DEF FinalizeRun, CanFinalizeRun, WriteData
  <2>3. \A q \in Run : OwnedBy(q)' = OwnedBy(q)
    BY <2>2 DEF OwnedBy
  <2>4. \A i : (i \in intents <=> i \in intents') \/ SourceWritable(RunSource[i.run])
    BY <2>2 DEF IntentsOf
  <2>5. \A q \in Run : runState'[q] = "committed" =>
              \/ runState[q] = "committed" /\ OwnedBy(q)' = OwnedBy(q)
              \/ Cardinality(OwnedBy(q)' \cap Frame) = Cardinality(RunFrames(q))
    BY <1>0, <2>2, <2>3 DEF WorldInv, WorldTypeOK
  <2> QED BY <1>0, <2>2, <2>4, <2>5, StepReads
<1>5. ASSUME CleanupAny PROVE FramesHaveSources' /\ PublishedRunsCount' /\ PlansAreWhole'
  <2>1. PICK r \in Run : FinishRunCleanup(r)
    BY <1>5 DEF CleanupAny, FinishPerceptionCleanup
  <2>2. /\ sources' = sources /\ frames' = frames \ CleanupFrames(r)
        /\ runRecords' = {o \in runRecords : o[1] # r}
        /\ UNCHANGED jobVars /\ intents' = intents \ IntentsOf({r})
        /\ runState' = [runState EXCEPT ![r] = IF @ = "preparing" THEN "failed" ELSE @]
        /\ SourceWritable(RunSource[r]) /\ runState[r] \in {"preparing", "failed", "cancelled"}
    BY <2>1 DEF FinishRunCleanup, CanFinishCleanup
  <2>3. \A q \in Run : runState'[q] = "committed" => q # r /\ runState[q] = "committed"
    BY <1>0, <2>2 DEF WorldInv, WorldTypeOK
  <2>4. \A q \in Run : q # r => OwnedBy(q)' = OwnedBy(q)
    BY <2>2 DEF OwnedBy
  <2>5. \A i : (i \in intents <=> i \in intents') \/ SourceWritable(RunSource[i.run])
    BY <2>2 DEF IntentsOf
  <2> QED BY <1>0, <2>2, <2>3, <2>4, <2>5, StepReads
<1>6. ASSUME BeginDeletionAny PROVE FramesHaveSources' /\ PublishedRunsCount' /\ PlansAreWhole'
  <2>1. PICK s \in Source, d \in DeletionId : BeginSourceDeletion(s, d)
    BY <1>6 DEF BeginDeletionAny, BeginPerceptionDeletion
  <2> DEFINE cl == SourceClosure(s)
  <2>2. /\ UNCHANGED <<sources, frames, evidence, runRecords, runState, intents>>
        /\ s \in sources /\ jobState[d] = "none"
        /\ jobState' = [jobState EXCEPT ![d] = "pending"]
        /\ jobRoot' = [jobRoot EXCEPT ![d] = s]
        /\ closure' = [closure EXCEPT ![d] = cl]
        /\ \E kept \in SUBSET ClosureDigests(cl) :
              /\ required' = [required EXCEPT ![d] = ClosureDigests(cl) \ kept]
              /\ retained' = [retained EXCEPT ![d] = kept]
    BY <2>1 DEF BeginSourceDeletion, CanBeginDeletion, recordVars
  <2>3. FramesHaveSources' /\ PublishedRunsCount'
    BY <1>0, <2>2 DEF FramesHaveSources, PublishedRunsCount, OwnedBy
  <2>4. PlansAreWhole'
    <3> SUFFICES ASSUME NEW c \in DeletionId
                 PROVE  IF jobState'[c] = "pending"
                        THEN /\ jobRoot'[c] \in sources'
                             /\ required'[c] \cup retained'[c] = ClosureDigests(closure[c])'
                        ELSE jobRoot'[c] = NoSource /\ required'[c] = {} /\ retained'[c] = {}
      BY DEF PlansAreWhole
    <3>1. CASE c = d
      <4>1. jobState'[c] = "pending" /\ jobRoot'[c] = s /\ closure'[c] = cl
        BY <1>0, <2>2, <3>1 DEF WorldInv, WorldTypeOK
      <4>2. required'[c] \cup retained'[c] = ClosureDigests(cl)
        BY <1>0, <2>2, <3>1 DEF WorldInv, WorldTypeOK
      <4>3. ClosureDigests(closure[c])' = ClosureDigests(cl)
        BY <2>2, <4>1 DEF ClosureDigests, DigestsOf, IntentsOf
      <4> QED BY <2>2, <4>1, <4>2, <4>3
    <3>2. CASE c # d
      <4>1. /\ jobState'[c] = jobState[c] /\ jobRoot'[c] = jobRoot[c] /\ closure'[c] = closure[c]
            /\ required'[c] = required[c] /\ retained'[c] = retained[c]
        BY <1>0, <2>2, <3>2 DEF WorldInv, WorldTypeOK
      <4>2. ClosureDigests(closure[c])' = ClosureDigests(closure[c])
        BY <2>2, <4>1 DEF ClosureDigests, DigestsOf, IntentsOf
      <4> QED BY <1>0, <2>2, <4>1, <4>2 DEF PlansAreWhole
    <3> QED BY <3>1, <3>2
  <2> QED BY <2>3, <2>4
<1>7. ASSUME PurgeAny PROVE FramesHaveSources' /\ PublishedRunsCount' /\ PlansAreWhole'
  <2>1. PICK d \in DeletionId, present \in SUBSET Digest : PurgeDeletionMetadata(d, present)
    BY <1>7 DEF PurgeAny, PurgePerception
  <2> DEFINE s == jobRoot[d]
  <2>2. /\ jobState[d] = "pending" /\ sources' = sources \ {s}
        /\ frames' = {f \in frames : FrameSource[f] # s}
        /\ runState' = [r \in Run |-> IF r \in {q \in Runs : RunSource[q] # s}
                                      THEN runState[r] ELSE "absent"]
        /\ runRecords' = {o \in runRecords : o[1] \in {q \in Runs : RunSource[q] # s}}
        /\ jobState' = [jobState EXCEPT ![d] = "metadata_purged"]
        /\ jobRoot' = [jobRoot EXCEPT ![d] = NoSource]
        /\ required' = [required EXCEPT ![d] = {}]
        /\ retained' = [retained EXCEPT ![d] = {}]
    BY <2>1 DEF PurgeDeletionMetadata, CanPurge, PlanLoads
  <2>3. FramesHaveSources'
    BY <1>0, <2>2 DEF FramesHaveSources
  <2>4. PublishedRunsCount'
    <3>1. \A q \in Run : runState'[q] = "committed" =>
             runState[q] = "committed" /\ OwnedBy(q)' = OwnedBy(q)
      BY <2>2 DEF OwnedBy
    <3> QED BY <1>0, <3>1 DEF PublishedRunsCount
  <2>5. PlansAreWhole'
    <3>1. \A c \in DeletionId : c # d => jobState[c] # "pending"
      BY <1>0, <2>2 DEF WorldInv, OneJobAtATime, ActiveJobs
    <3>2. \A c \in DeletionId : jobState'[c] # "pending"
      BY <1>0, <2>2, <3>1 DEF WorldInv, WorldTypeOK
    <3>3. \A c \in DeletionId :
             jobRoot'[c] = NoSource /\ required'[c] = {} /\ retained'[c] = {}
      BY <1>0, <2>2, <3>1 DEF WorldInv, WorldTypeOK, PlansAreWhole
    <3> QED BY <3>2, <3>3 DEF PlansAreWhole
  <2> QED BY <2>3, <2>4, <2>5
<1>8. ASSUME CompleteAny PROVE FramesHaveSources' /\ PublishedRunsCount' /\ PlansAreWhole'
  <2>1. PICK d \in DeletionId : CompleteDeletion(d)
    BY <1>8 DEF CompleteAny
  <2>2. /\ jobState[d] = "metadata_purged" /\ jobState' = [jobState EXCEPT ![d] = "complete"]
        /\ UNCHANGED <<sources, frames, evidence, runRecords, runState, intents>>
        /\ UNCHANGED <<jobRoot, closure, required, retained>>
    BY <2>1 DEF CompleteDeletion, recordVars
  <2>3. FramesHaveSources' /\ PublishedRunsCount'
    BY <1>0, <2>2 DEF FramesHaveSources, PublishedRunsCount, OwnedBy
  <2>4. \A c \in DeletionId : jobState'[c] = "pending" <=> jobState[c] = "pending"
    BY <1>0, <2>2 DEF WorldInv, WorldTypeOK
  <2>5. \A c \in DeletionId : ClosureDigests(closure[c])' = ClosureDigests(closure[c])
    BY <2>2 DEF ClosureDigests, DigestsOf, IntentsOf
  <2>6. PlansAreWhole'
    BY <1>0, <2>2, <2>4, <2>5 DEF PlansAreWhole
  <2> QED BY <2>3, <2>6
<1>9. ASSUME CommitPerceptionAny \/ LinkAny PROVE UNCHANGED worldVars
  BY <1>9 DEF CommitPerceptionAny, LinkAny, CommitPerceptionForRun, LinkSelectedEvidence
<1> QED BY <1>1, <1>2, <1>3, <1>4, <1>5, <1>6, <1>7, <1>8, <1>9 DEF Next

(* The intents stay open and the catalog tight: what this adds to version 1 is
   that the operations on version 2 touch neither. *)
LEMMA OperationAudit ==
    ASSUME ReadInv, Next PROVE IntentsAreOpen' /\ CatalogIsTight'
<1>0. AuditInv
  BY DEF ReadInv
<1>1. ASSUME CommitAny PROVE IntentsAreOpen' /\ CatalogIsTight'
  <2>1. \A s \in Source, r \in Run : {s} \in SUBSET Source /\ {r} \in SUBSET Run
        /\ {} \in SUBSET Source /\ {} \in SUBSET Run
    OBVIOUS
  <2>2. "preparing" \in RunStates \ {"absent"} /\ "failed" \in RunStates \ {"absent"}
    BY DEF RunStates
  <2>3. CASE \E s \in Source : Commit({s}, {}, "preparing", {}, {})
    BY <1>0, <2>1, <2>2, <2>3, CommitAudit
  <2>4. CASE \E r \in Run, st \in {"preparing", "failed"} : Commit({}, {r}, st, {}, {})
    BY <1>0, <2>1, <2>2, <2>4, CommitAudit
  <2>5. CASE \E r \in Run, f \in Frame, e \in Evidence :
                CommitForRun(r, {f}, {}) \/ CommitForRun(r, {}, {e})
    BY <1>0, <2>5, CommitForRunAudit
  <2> QED BY <1>1, <2>3, <2>4, <2>5 DEF CommitAny
<1>2. ASSUME RecordIntentAny PROVE IntentsAreOpen' /\ CatalogIsTight'
  BY <1>0, <1>2, RecordIntentsAudit DEF RecordIntentAny
<1>3. ASSUME CommitPerceptionAny \/ LinkAny PROVE IntentsAreOpen' /\ CatalogIsTight'
  <2>1. UNCHANGED worldVars
    BY <1>3 DEF CommitPerceptionAny, LinkAny, CommitPerceptionForRun, LinkSelectedEvidence
  <2> QED BY <1>0, <2>1, StutterAudit DEF AuditInv
<1>4. ASSUME FinalizeAny PROVE IntentsAreOpen' /\ CatalogIsTight'
  BY <1>0, <1>4, FinalizeRunAudit DEF FinalizeAny, FinalizePerceptionRun
<1>5. ASSUME CleanupAny PROVE IntentsAreOpen' /\ CatalogIsTight'
  BY <1>0, <1>5, FinishRunCleanupAudit DEF CleanupAny, FinishPerceptionCleanup
<1>6. ASSUME BeginDeletionAny PROVE IntentsAreOpen' /\ CatalogIsTight'
  BY <1>0, <1>6, DeletionAudit DEF BeginDeletionAny, BeginPerceptionDeletion
<1>7. ASSUME PurgeAny PROVE IntentsAreOpen' /\ CatalogIsTight'
  BY <1>0, <1>7, PurgeAudit DEF PurgeAny, PurgePerception
<1>8. ASSUME CompleteAny PROVE IntentsAreOpen' /\ CatalogIsTight'
  BY <1>0, <1>8, DeletionAudit DEF CompleteAny
<1> QED BY <1>1, <1>2, <1>3, <1>4, <1>5, <1>6, <1>7, <1>8 DEF Next

(* What the reads rest on holds in every history of calls. *)
LEMMA ReadInvariant == Spec => []ReadInv
<1>1. Init => ReadInv
  <2> SUFFICES ASSUME Init PROVE ReadInv
    OBVIOUS
  <2>1. AuditInv /\ GraphInv
    BY InitAudit, InitGraph DEF Init
  <2>2. FramesHaveSources /\ PublishedRunsCount /\ PlansAreWhole
    BY DEF Init, WorldInit, FramesHaveSources, PublishedRunsCount, PlansAreWhole
  <2> QED BY <2>1, <2>2 DEF ReadInv
<1>2. ReadInv /\ [Next]_vars => ReadInv'
  <2>1. ASSUME ReadInv, Next PROVE ReadInv'
    <3>1. WorldInv' /\ GraphInv'
      BY <2>1, OperationKeeps DEF ReadInv, AuditInv
    <3> QED BY <2>1, <3>1, OperationReads, OperationAudit DEF ReadInv, AuditInv
  <2>2. ASSUME ReadInv, UNCHANGED vars PROVE ReadInv'
    <3>1. UNCHANGED worldVars /\ UNCHANGED perceptionVars
      BY <2>2 DEF vars
    <3>2. AuditInv' /\ GraphInv'
      BY <2>2, <3>1, StutterAudit, QuietGraph DEF ReadInv, AuditInv
    <3>3. UNCHANGED <<sources, frames, evidence, runRecords, runState, intents>>
          /\ UNCHANGED <<jobState, jobRoot, closure, required, retained>>
      BY <3>1 DEF worldVars, recordVars, jobVars
    <3>4. FramesHaveSources' /\ PublishedRunsCount' /\ PlansAreWhole'
      BY <2>2, <3>3 DEF ReadInv, FramesHaveSources, PublishedRunsCount, PlansAreWhole, OwnedBy,
          ClosureDigests, DigestsOf, IntentsOf
    <3> QED BY <3>2, <3>4 DEF ReadInv
  <2> QED BY <2>1, <2>2
<1> QED BY <1>1, <1>2, PTL DEF Spec

-----------------------------------------------------------------------------
(* What the reads find. *)

(* Every row passes the projection checks. *)
LEMMA RowsRead ==
    ASSUME ReadInv
    PROVE  /\ \A f \in frames : FrameReads(f)
           /\ \A e \in evidence : EvidenceReads(e)
           /\ \A o \in observations : ObservationReads(o)
           /\ \A t \in tracklets : TrackletReads(t)
           /\ \A x \in observations \cup tracklets : PerceptionReads(x)
<1>1. /\ WorldInv /\ EvidenceHasFrame /\ DigestsOf(evidence) \subseteq catalog
      /\ ForeignKeysHold /\ FramesHaveSources /\ PerceptionTypeOK
  BY DEF ReadInv, AuditInv, WorldInv, CatalogIsTight, GraphInv
<1>2. \A f \in frames : FrameReads(f)
  BY <1>1 DEF FramesHaveSources, FrameReads
<1>3. \A e \in evidence : EvidenceReads(e)
  BY <1>1 DEF EvidenceReads, EvidenceHasFrame, DigestsOf
<1>4. \A o \in observations : ObservationReads(o)
  BY <1>1 DEF ForeignKeysHold, ObservationReads
<1>5. \A t \in tracklets : TrackletReads(t)
  BY <1>1, <1>4 DEF ForeignKeysHold, TrackletReads
<1>6. observations \subseteq Observation /\ \A t \in tracklets : t \notin Observation
  BY <1>1, PerceptionTypes DEF PerceptionTypeOK
<1> QED BY <1>2, <1>3, <1>4, <1>5, <1>6 DEF PerceptionReads

(* What a run owns and selects is sound, published or not. *)
LEMMA RunsRead ==
    ASSUME ReadInv, NEW r \in Run
    PROVE  /\ ObservationsAreOwned(r) /\ TrackletsAreOwned(r)
           /\ \A s \in SelectionsOf(r) : SelectionReads(s)
<1>1. /\ WorldInv /\ GraphInv /\ GraphIsOwned(r, OwnedBy(r)) /\ SelectionsAreSound
      /\ ForeignKeysHold /\ PerceptionTypeOK
  BY DEF ReadInv, AuditInv, GraphInv, PerceptionIsOwned
<1>2. \A x \in PerceptionOf(r) : PerceivedSource(x) = RunSource[r]
  BY <1>1, PerceivedInSource
<1>3. ObservationsAreOwned(r)
  BY <1>1, <1>2, PerceivedSourceCases DEF ObservationsAreOwned, GraphIsOwned
<1>4. TrackletsAreOwned(r)
  <2> SUFFICES ASSUME NEW t \in PerceptionOf(r) \cap Tracklet
               PROVE  /\ t \in tracklets /\ TrackletSource(t) = RunSource[r]
                      /\ \A o \in TrackletPoints[t] :
                            o \in PerceptionOf(r) /\ ObservationFrame[o] \in OwnedBy(r)
    BY DEF TrackletsAreOwned
  <2>1. t \in tracklets /\ TrackletPoints[t] \subseteq PerceptionOf(r)
    BY <1>1 DEF GraphIsOwned
  <2>2. TrackletSource(t) = RunSource[r]
    BY <1>2, PerceivedSourceCases
  <2>3. \A o \in TrackletPoints[t] : o \in Observation
    BY PerceptionTypes
  <2> QED BY <1>1, <2>1, <2>2, <2>3 DEF GraphIsOwned
<1>5. ASSUME NEW s \in SelectionsOf(r) PROVE SelectionReads(s)
  <2>1. /\ s \in selected /\ s.run = r /\ s \in Selection
        /\ s.tracklet \in Tracklet /\ s.observation \in Observation
    BY <1>1 DEF SelectionsOf, PerceptionTypeOK, Selection
  <2>2. /\ s.tracklet \in tracklets /\ s.observation \in observations
        /\ s.evidence \in evidence \cup {NoEvidence}
    BY <1>1, <2>1 DEF ForeignKeysHold
  <2>3. /\ {s.tracklet, s.observation} \subseteq PerceptionOf(s.run)
        /\ s.observation \in TrackletPoints[s.tracklet]
        /\ s.evidence # NoEvidence =>
              s.evidence \in OwnedBy(s.run) /\ <<s.evidence, s.observation>> \in Depicts
    BY <1>1, <2>1 DEF SelectionsAreSound
  <2>4. ObservationFrame[s.observation] \in OwnedBy(s.run)
    BY <1>1, <2>1, <2>3 DEF GraphIsOwned
  <2> QED BY <2>2, <2>3, <2>4, RowsRead DEF SelectionReads
<1> QED BY <1>3, <1>4, <1>5

(* The owners of a record are sound, so get_perception never complains. *)
LEMMA OwnersRead == ASSUME ReadInv, NEW x PROVE OwnersAreSound(x)
BY RunsRead DEF OwnersAreSound, PerceptionOwners

(* The audit accepts the tables, unless a plan was overtaken or a run that is
   not published has a gap in its ranks. *)
LEMMA AuditReads == ASSUME ReadInv PROVE AuditAcceptsWithoutGaps
<1> SUFFICES ASSUME PlansHold, \A r \in Run : RanksAreContiguous(r) PROVE Verify
  BY DEF AuditAcceptsWithoutGaps
<1>1. /\ WorldInv /\ GraphInv /\ OwnershipIsSound /\ NoOrphanPerception /\ IntentsAreOpen
      /\ WorldTypeOK /\ OneJobAtATime /\ OnlyPendingHides /\ ClosureIsFrozen
      /\ PerceptionIsOwned /\ PerceptionClosureIsFrozen /\ OnlyPendingHidesPerception
      /\ PlansAreWhole /\ DigestsOf(evidence) \subseteq catalog
  BY DEF ReadInv, AuditInv, WorldInv, GraphInv, CatalogIsTight
<1>2. ASSUME NEW r \in Runs PROVE RunPerceptionAudits(r)
  <2>1. r \in Run
    BY DEF Runs
  <2>2. \A x \in PerceptionOf(r) : x \in observations \cup tracklets
    BY <1>1, <2>1, PerceivedInSource
  <2> QED BY <1>1, <2>1, <2>2, RowsRead, RunsRead DEF RunPerceptionAudits, PerceptionIsOwned
<1>3. \A c, d \in DeletionId : c # d =>
          closure[c] \cap closure[d] = {} /\ perceptionClosure[c] \cap perceptionClosure[d] = {}
  <2> SUFFICES ASSUME NEW c \in DeletionId, NEW d \in DeletionId, c # d
               PROVE  /\ closure[c] \cap closure[d] = {}
                      /\ perceptionClosure[c] \cap perceptionClosure[d] = {}
    OBVIOUS
  <2>1. jobState[c] # "pending" \/ jobState[d] # "pending"
    BY <1>1 DEF OneJobAtATime, ActiveJobs
  <2> QED BY <1>1, <2>1 DEF OnlyPendingHides, OnlyPendingHidesPerception
<1>4. ASSUME NEW d \in DeletionId PROVE JobAudits(d)
  <2>1. CASE jobState[d] # "pending"
    BY <1>1, <2>1 DEF JobAudits, OnlyPendingHides, OnlyPendingHidesPerception, PlansAreWhole
  <2>2. CASE jobState[d] = "pending"
    <3>1. /\ closure[d] = SourceClosure(jobRoot[d]) /\ jobRoot[d] \in sources
          /\ required[d] \cup retained[d] = ClosureDigests(closure[d])
          /\ PerceptionPlanLoads(d)
      BY <1>1, <2>2 DEF ClosureIsFrozen, PlansAreWhole, PerceptionClosureIsFrozen
    <3>2. PlanLoads(d)
      BY <2>2, <3>1 DEF PlanLoads, PlansHold
    <3>3. jobRoot[d] \in closure[d] /\ closure[d] \subseteq sources \cup frames \cup evidence \cup Runs
      BY <3>1 DEF SourceClosure
    <3>4. perceptionClosure[d] \subseteq observations \cup tracklets
      BY <3>1 DEF PerceptionPlanLoads, PerceptionSourceClosure
    <3>5. ClosureDigests(closure[d]) \subseteq catalog \cup {i.digest : i \in intents}
      BY <1>1 DEF ClosureDigests, DigestsOf, IntentsOf
    <3> QED BY <2>2, <3>1, <3>2, <3>3, <3>4, <3>5 DEF JobAudits
  <2> QED BY <2>1, <2>2
<1>5. CoordinationAudits
  BY <1>1, <1>2, <1>3, <1>4 DEF CoordinationAudits
<1> QED BY <1>5, RowsRead DEF Verify

(* The rows a list ranges over. *)
FramesShown(s) == {f \in VisibleFrames : FrameSource[f] = s}
EvidenceShown(f) == {e \in VisibleEvidence : EvidenceFrame[e] = f}
ObservationsShown(r) == (PerceptionOf(r) \cap observations) \ PerceptionHidden
TrackletsShown(r) == (PerceptionOf(r) \cap tracklets) \ PerceptionHidden
SelectionsShown(r, t) == {s \in SelectionsOf(r) : s.tracklet = t}

(* A page of records shows records of its set, and a page of everything all of
   them. *)
LEMMA PageOfRecords ==
    ASSUME NEW K \in {Frame, Evidence, Observation, Tracklet}, NEW S \in SUBSET K
    PROVE  /\ \A i \in DOMAIN Page(S, 0, Everything) : Page(S, 0, Everything)[i] \in S
           /\ Range(Page(S, 0, Everything)) = S
<1>1. IsFiniteSet(Frame \cup Evidence \cup Perceived) /\ Everything \in Nat
  <2>1. IsFiniteSet(Frame \cup Evidence) /\ IsFiniteSet(Perceived)
    BY RecordsAreFinite, FS_Union DEF Perceived
  <2> QED BY <2>1, FS_Union, FS_CardinalityType DEF Everything
<1>2. IsFiniteSet(S) /\ Cardinality(S) <= Everything
  <2>1. S \in SUBSET (Frame \cup Evidence \cup Perceived)
    BY DEF Perceived
  <2> QED BY <1>1, <2>1, FS_Subset DEF Everything
<1>3. \A x, y \in S : Order[x] \in Nat \ {0} /\ (Order[x] = Order[y] => x = y)
  BY OrderIsTotal
<1>4. /\ Range(PageBy(Order, S, 0, Everything)) \subseteq S
      /\ S \subseteq Range(PageBy(Order, S, 0, Everything))
  BY <1>1, <1>2, <1>3, PageItems
<1> QED BY <1>4 DEF Page, Range

(* A page of selections shows selections of its set: the ranks of a tracklet
   of a run tell them apart. *)
LEMMA PageOfSelections ==
    ASSUME ReadInv, NEW r \in Run, NEW t
    PROVE  /\ \A i \in DOMAIN PageBy(Ranks, SelectionsShown(r, t), 0, MaxRank) :
                 PageBy(Ranks, SelectionsShown(r, t), 0, MaxRank)[i] \in SelectionsOf(r)
           /\ Range(PageBy(Ranks, SelectionsShown(r, t), 0, MaxRank)) \subseteq SelectionsOf(r)
<1> DEFINE S == SelectionsShown(r, t)
<1>1. selected \subseteq Selection /\ SelectionsAreSound /\ MaxRank \in Nat
  BY PerceptionTypes DEF ReadInv, GraphInv, PerceptionTypeOK
<1>2. S \subseteq selected /\ \A s \in S : Ranks[s] = s.rank /\ s.rank \in 1..MaxRank
  BY <1>1 DEF SelectionsShown, SelectionsOf, Ranks, Selection
<1>3. \A s, u \in S : Ranks[s] = Ranks[u] => s = u
  BY <1>1, <1>2 DEF SelectionsAreSound, SelectionsShown, SelectionsOf, SameKey
<1>4. IsFiniteSet(S)
  <2>1. [s \in S |-> Ranks[s]] \in Injection(S, 1..MaxRank)
    BY <1>2, <1>3 DEF Injection, IsInjective
  <2>2. IsFiniteSet(1..MaxRank)
    BY <1>1, FS_Interval
  <2> QED BY <2>1, <2>2, FS_Injection
<1>5. \A s \in S : Ranks[s] \in Nat \ {0}
  BY <1>1, <1>2
<1>6. Range(PageBy(Ranks, S, 0, MaxRank)) \subseteq S
  <2> HIDE DEF S
  <2> QED BY <1>1, <1>3, <1>4, <1>5, PageItems
<1> QED BY <1>6 DEF Range, SelectionsShown

(* What a published run owns is not hidden, and is of its source. *)
LEMMA PublishedIsShown ==
    ASSUME ReadInv, NEW r \in Run, Published(r)
    PROVE  /\ ~BeingDeleted(RunSource[r])
           /\ OwnedBy(r) \cap Frame = RunFrameRows(r)
           /\ OwnedBy(r) \cap Evidence = RunEvidenceRows(r)
           /\ RunFrameRows(r) \subseteq VisibleFrames
           /\ RunEvidenceRows(r) \subseteq VisibleEvidence
<1>1. /\ WorldInv /\ WorldTypeOK /\ OwnershipIsSound /\ EvidenceHasFrame
      /\ runState[r] = "committed" /\ r \in Runs /\ r \notin Hidden
  BY DEF ReadInv, AuditInv, WorldInv, Published, Runs
<1>2. ~BeingDeleted(RunSource[r])
  BY <1>1, HiddenBySource
<1>3. ASSUME NEW f \in OwnedBy(r) \cap Frame
      PROVE  /\ f \in frames /\ FrameSource[f] = RunSource[r] /\ f \notin Hidden
             /\ r \in OwnersOf(f)
  <2>1. f \in frames /\ FrameSource[f] = RunSource[r] /\ r \in OwnersOf(f)
    BY <1>1, RecordKinds DEF OwnershipIsSound, OwnedBy, OwnersOf, WorldTypeOK
  <2> QED BY <1>1, <1>2, <2>1, HiddenBySource
<1>4. ASSUME NEW e \in OwnedBy(r) \cap Evidence
      PROVE  /\ e \in evidence /\ EvidenceFrame[e] \in OwnedBy(r) \cap Frame
             /\ FrameSource[EvidenceFrame[e]] = RunSource[r] /\ e \notin Hidden
             /\ r \in OwnersOf(e)
  <2>1. /\ e \in evidence /\ <<r, EvidenceFrame[e]>> \in runRecords
        /\ FrameSource[EvidenceFrame[e]] = RunSource[r] /\ r \in OwnersOf(e)
    BY <1>1, RecordKinds DEF OwnershipIsSound, OwnedBy, OwnersOf, WorldTypeOK
  <2>2. EvidenceFrame[e] \in Frame
    BY RecordTypes
  <2> QED BY <1>1, <1>2, <2>1, <2>2, HiddenBySource DEF OwnedBy
<1>5. OwnedBy(r) \cap Frame = RunFrameRows(r)
  BY <1>1, <1>3 DEF RunFrameRows, WorldTypeOK
<1>6. OwnedBy(r) \cap Evidence = RunEvidenceRows(r)
  BY <1>1, <1>3, <1>4 DEF RunEvidenceRows, WorldTypeOK
<1>7. RunFrameRows(r) \subseteq VisibleFrames
  BY <1>1, <1>3, <1>5 DEF VisibleFrames, OwnershipVisible
<1>8. RunEvidenceRows(r) \subseteq VisibleEvidence
  BY <1>1, <1>3, <1>4, <1>6 DEF VisibleEvidence, OwnershipVisible
<1> QED BY <1>2, <1>5, <1>6, <1>7, <1>8

(* What a published run perceived is visible. *)
LEMMA PublishedIsVisible ==
    ASSUME ReadInv, NEW r \in Run, Published(r), NEW x \in PerceptionOf(r)
    PROVE  x \in VisiblePerception
<1>1. WorldInv /\ GraphInv /\ runState[r] = "committed"
  BY DEF ReadInv, AuditInv, Published
<1>2. x \in observations \cup tracklets /\ PerceivedSource(x) = RunSource[r]
  BY <1>1, PerceivedInSource
<1>3. ~BeingDeleted(PerceivedSource(x))
  BY <1>2, PublishedIsShown
<1>4. x \notin PerceptionHidden
  BY <1>1, <1>2, <1>3, PerceptionHiddenBySource
<1> QED BY <1>1, <1>2, <1>3, <1>4 DEF VisiblePerception, BeingDeleted, PerceptionOwners, PerceptionOf

(* The kinds of the records a page is about. *)
LEMMA PageKinds ==
    ASSUME ReadInv
    PROVE  /\ VisibleFrames \subseteq Frame /\ VisibleEvidence \subseteq Evidence
           /\ VisibleFrames \subseteq frames /\ VisibleEvidence \subseteq evidence
           /\ observations \subseteq Observation /\ tracklets \subseteq Tracklet
           /\ \A t \in Tracklet : TrackletPoints[t] \subseteq Observation
BY PerceptionTypes DEF ReadInv, AuditInv, WorldInv, WorldTypeOK, GraphInv, PerceptionTypeOK,
    VisibleFrames, VisibleEvidence

(* The lists of the tables: no row on a page is corrupt. *)
LEMMA TableListsRead ==
    ASSUME ReadInv
    PROVE  /\ \A s \in sources \ Hidden :
                 ListFrames(s, 0, Everything) = Ok(Page(FramesShown(s), 0, Everything))
           /\ \A f : ListEvidence(f, Everything) = Ok(Page(EvidenceShown(f), 0, Everything))
           /\ \A t \in VisiblePerception \cap Tracklet :
                 ListTrackletObservations(t, 0, Everything) = Ok(Page(TrackletPoints[t], 0, Everything))
<1>1. ASSUME NEW s \in sources \ Hidden
      PROVE  ListFrames(s, 0, Everything) = Ok(Page(FramesShown(s), 0, Everything))
  <2> DEFINE S == FramesShown(s)
  <2>1. S \in SUBSET Frame /\ \A f \in S : FrameReads(f)
    BY PageKinds, RowsRead DEF FramesShown
  <2>2. \A i \in DOMAIN Page(S, 0, Everything) : FrameReads(Page(S, 0, Everything)[i])
    <3> HIDE DEF S
    <3> QED BY <2>1, PageOfRecords
  <2> QED BY <2>2 DEF ListFrames, Checked, FramesShown
<1>2. ASSUME NEW f
      PROVE  ListEvidence(f, Everything) = Ok(Page(EvidenceShown(f), 0, Everything))
  <2> DEFINE S == EvidenceShown(f)
  <2>1. S \in SUBSET Evidence /\ \A e \in S : EvidenceReads(e)
    BY PageKinds, RowsRead DEF EvidenceShown
  <2>2. \A i \in DOMAIN Page(S, 0, Everything) : EvidenceReads(Page(S, 0, Everything)[i])
    <3> HIDE DEF S
    <3> QED BY <2>1, PageOfRecords
  <2> QED BY <2>2 DEF ListEvidence, Checked, EvidenceShown
<1>3. ASSUME NEW t \in VisiblePerception \cap Tracklet
      PROVE  ListTrackletObservations(t, 0, Everything) = Ok(Page(TrackletPoints[t], 0, Everything))
  <2> DEFINE S == TrackletPoints[t]
  <2>1. t \in tracklets
    BY PageKinds, PerceptionTypes DEF VisiblePerception
  <2>2. TrackletReads(t) /\ OwnersAreSound(t) /\ t \in VisiblePerception
    BY <2>1, RowsRead, OwnersRead
  <2>3. S \in SUBSET Observation /\ \A o \in S : ObservationReads(o)
    BY <2>2, PageKinds DEF TrackletReads
  <2>4. \A i \in DOMAIN Page(S, 0, Everything) : ObservationReads(Page(S, 0, Everything)[i])
    <3> HIDE DEF S
    <3> QED BY <2>3, PageOfRecords
  <2> QED BY <2>2, <2>4 DEF ListTrackletObservations, Checked
<1> QED BY <1>1, <1>2, <1>3

(* The lists of a published run show exactly what it owns, perceived and
   selected. *)
LEMMA RunListsRead ==
    ASSUME ReadInv, NEW r \in Run, Published(r)
    PROVE  /\ ListRunFrames(r, 0, Everything) = Ok(Page(RunFrameRows(r), 0, Everything))
           /\ ListRunEvidence(r, 0, Everything) = Ok(Page(RunEvidenceRows(r), 0, Everything))
           /\ ListRunObservations(r, 0, Everything) = Ok(Page(ObservationsShown(r), 0, Everything))
           /\ ListRunTracklets(r, 0, Everything) = Ok(Page(TrackletsShown(r), 0, Everything))
           /\ \A t \in Tracklet \cap PerceptionOf(r) :
                 ListSelectedEvidence(r, t, 0, MaxRank)
                   = Ok(PageBy(Ranks, SelectionsShown(r, t), 0, MaxRank))
<1>1. ListRunFrames(r, 0, Everything) = Ok(Page(RunFrameRows(r), 0, Everything))
  <2>1. /\ OwnedBy(r) \cap Frame = RunFrameRows(r)
        /\ Cardinality(OwnedBy(r) \cap Frame) = Cardinality(RunFrames(r))
    BY PublishedIsShown DEF ReadInv, PublishedRunsCount, Published
  <2>2. RunFrameRows(r) \in SUBSET Frame /\ \A f \in RunFrameRows(r) : FrameReads(f)
    BY PublishedIsShown, PageKinds, RowsRead
  <2>3. \A i \in DOMAIN Page(RunFrameRows(r), 0, Everything) :
           FrameReads(Page(RunFrameRows(r), 0, Everything)[i])
    BY <2>2, PageOfRecords
  <2> QED BY <2>1, <2>3 DEF ListRunFrames, Checked
<1>2. ListRunEvidence(r, 0, Everything) = Ok(Page(RunEvidenceRows(r), 0, Everything))
  <2>1. RunEvidenceRows(r) \in SUBSET Evidence /\ \A e \in RunEvidenceRows(r) : EvidenceReads(e)
    BY PublishedIsShown, PageKinds, RowsRead
  <2>2. \A i \in DOMAIN Page(RunEvidenceRows(r), 0, Everything) :
           EvidenceReads(Page(RunEvidenceRows(r), 0, Everything)[i])
    BY <2>1, PageOfRecords
  <2> QED BY <2>2, PublishedIsShown DEF ListRunEvidence, Checked
<1>3. ListRunObservations(r, 0, Everything) = Ok(Page(ObservationsShown(r), 0, Everything))
  <2> DEFINE S == ObservationsShown(r)
  <2>1. S \in SUBSET Observation /\ \A o \in S : ObservationReads(o)
    BY PageKinds, RowsRead DEF ObservationsShown
  <2>2. \A i \in DOMAIN Page(S, 0, Everything) : ObservationReads(Page(S, 0, Everything)[i])
    <3> HIDE DEF S
    <3> QED BY <2>1, PageOfRecords
  <2> QED BY <2>2, RunsRead DEF ListRunObservations, Checked, ObservationsShown
<1>4. ListRunTracklets(r, 0, Everything) = Ok(Page(TrackletsShown(r), 0, Everything))
  <2> DEFINE S == TrackletsShown(r)
  <2>1. S \in SUBSET Tracklet /\ \A t \in S : TrackletReads(t)
    BY PageKinds, RowsRead DEF TrackletsShown
  <2>2. \A i \in DOMAIN Page(S, 0, Everything) : TrackletReads(Page(S, 0, Everything)[i])
    <3> HIDE DEF S
    <3> QED BY <2>1, PageOfRecords
  <2> QED BY <2>2, RunsRead DEF ListRunTracklets, Checked, TrackletsShown
<1>5. ASSUME NEW t \in Tracklet \cap PerceptionOf(r)
      PROVE  ListSelectedEvidence(r, t, 0, MaxRank)
               = Ok(PageBy(Ranks, SelectionsShown(r, t), 0, MaxRank))
  <2> DEFINE items == PageBy(Ranks, SelectionsShown(r, t), 0, MaxRank)
  <2>1. TrackletReads(t)
    BY RunsRead, RowsRead DEF TrackletsAreOwned
  <2>2. \A i \in DOMAIN items : SelectionReads(items[i])
    <3>1. \A i \in DOMAIN items : items[i] \in SelectionsOf(r)
      BY PageOfSelections
    <3> HIDE DEF items
    <3> QED BY <3>1, RunsRead
  <2> QED BY <2>1, <2>2, RunsRead DEF ListSelectedEvidence, Checked, SelectionsShown
<1> QED BY <1>1, <1>2, <1>3, <1>4, <1>5

(* No answer of the store is CORRUPT. *)
LEMMA NothingIsCorrupt == ASSUME ReadInv PROVE ReadsAreNeverCorrupt
<1>1. ASSUME NEW x \in Record PROVE Get(x).code # "corrupt"
  <2>1. x \in Evidence /\ x \in sources \cup VisibleFrames \cup VisibleEvidence \cup Runs
        => x \in evidence
    BY RecordKinds, PageKinds DEF ReadInv, AuditInv, WorldInv, WorldTypeOK, Runs
  <2> QED BY <2>1, RowsRead DEF Get, Ok, Raised
<1>2. ASSUME NEW x \in Perceived PROVE GetPerception(x).code # "corrupt"
  BY RowsRead, OwnersRead DEF GetPerception, Ok, Raised
<1>3. ASSUME NEW s \in Source PROVE ListFrames(s, 0, Everything).code # "corrupt"
  <2>1. CASE s \in sources \ Hidden
    BY <2>1, TableListsRead DEF Ok
  <2>2. CASE s \notin sources \ Hidden
    BY <2>2 DEF ListFrames, Raised
  <2> QED BY <2>1, <2>2
<1>4. ASSUME NEW f \in Frame PROVE ListEvidence(f, Everything).code # "corrupt"
  BY TableListsRead DEF Ok
<1>5. ASSUME NEW r \in Run
      PROVE  /\ ListRunFrames(r, 0, Everything).code # "corrupt"
             /\ ListRunEvidence(r, 0, Everything).code # "corrupt"
             /\ ListRunObservations(r, 0, Everything).code # "corrupt"
             /\ ListRunTracklets(r, 0, Everything).code # "corrupt"
  <2>1. CASE Published(r)
    BY <2>1, RunListsRead DEF Ok
  <2>2. CASE ~Published(r)
    BY <2>2 DEF ListRunFrames, ListRunEvidence, ListRunObservations, ListRunTracklets, Raised
  <2> QED BY <2>1, <2>2
<1>6. ASSUME NEW t \in Tracklet
      PROVE  ListTrackletObservations(t, 0, Everything).code # "corrupt"
  <2>1. CASE t \in VisiblePerception
    BY <2>1, TableListsRead DEF Ok
  <2>2. CASE t \notin VisiblePerception
    BY <2>2 DEF ListTrackletObservations, Raised
  <2> QED BY <2>1, <2>2
<1>7. ASSUME NEW r \in Run, NEW t \in Tracklet
      PROVE  ListSelectedEvidence(r, t, 0, MaxRank).code # "corrupt"
  <2>1. CASE Published(r) /\ t \in PerceptionOf(r)
    BY <2>1, RunListsRead DEF Ok
  <2>2. CASE ~Published(r)
    BY <2>2 DEF ListSelectedEvidence, Raised
  <2>3. CASE Published(r) /\ t \notin PerceptionOf(r)
    BY <2>3, RunsRead DEF ListSelectedEvidence, Raised
  <2> QED BY <2>1, <2>2, <2>3
<1> QED BY <1>1, <1>2, <1>3, <1>4, <1>5, <1>6, <1>7 DEF ReadsAreNeverCorrupt, AllReads

(* What a run lists can be fetched. *)
LEMMA ListedCanBeGot == ASSUME ReadInv PROVE ListedIsGettable
<1> SUFFICES ASSUME NEW r \in Run
             PROVE  /\ \A x \in Range(ListRunFrames(r, 0, Everything).items)
                               \cup Range(ListRunEvidence(r, 0, Everything).items) :
                          Get(x) = Ok(<<x>>)
                    /\ Range(ListRunFrames(r, 0, Everything).items)
                         \subseteq Range(ListFrames(RunSource[r], 0, Everything).items)
                    /\ \A e \in Range(ListRunEvidence(r, 0, Everything).items) :
                          e \in Range(ListEvidence(EvidenceFrame[e], Everything).items)
                    /\ \A x \in Range(ListRunObservations(r, 0, Everything).items)
                                \cup Range(ListRunTracklets(r, 0, Everything).items) :
                          /\ GetPerception(x) = Ok(<<x>>)
                          /\ x \in Tracklet =>
                                ListTrackletObservations(x, 0, Everything).code = "ok"
                    /\ \A t \in Tracklet :
                          \A s \in Range(ListSelectedEvidence(r, t, 0, MaxRank).items) :
                             s.evidence # NoEvidence => Get(s.evidence) = Ok(<<s.evidence>>)
  BY DEF ListedIsGettable
<1>1. Range(<<>>) = {}
  BY DEF Range
<1>2. CASE ~Published(r)
  <2>1. /\ ListRunFrames(r, 0, Everything).items = <<>>
        /\ ListRunEvidence(r, 0, Everything).items = <<>>
        /\ ListRunObservations(r, 0, Everything).items = <<>>
        /\ ListRunTracklets(r, 0, Everything).items = <<>>
        /\ \A t : ListSelectedEvidence(r, t, 0, MaxRank).items = <<>>
    BY <1>2 DEF ListRunFrames, ListRunEvidence, ListRunObservations, ListRunTracklets,
        ListSelectedEvidence, Raised
  <2> QED BY <1>1, <2>1
<1>3. CASE Published(r)
  <2>1. /\ Range(ListRunFrames(r, 0, Everything).items) = RunFrameRows(r)
        /\ Range(ListRunEvidence(r, 0, Everything).items) = RunEvidenceRows(r)
        /\ Range(ListRunObservations(r, 0, Everything).items) = ObservationsShown(r)
        /\ Range(ListRunTracklets(r, 0, Everything).items) = TrackletsShown(r)
    <3>1. /\ RunFrameRows(r) \in SUBSET Frame /\ RunEvidenceRows(r) \in SUBSET Evidence
          /\ ObservationsShown(r) \in SUBSET Observation /\ TrackletsShown(r) \in SUBSET Tracklet
      BY <1>3, PublishedIsShown, PageKinds DEF ObservationsShown, TrackletsShown
    <3>2. /\ Range(Page(RunFrameRows(r), 0, Everything)) = RunFrameRows(r)
          /\ Range(Page(RunEvidenceRows(r), 0, Everything)) = RunEvidenceRows(r)
          /\ Range(Page(ObservationsShown(r), 0, Everything)) = ObservationsShown(r)
          /\ Range(Page(TrackletsShown(r), 0, Everything)) = TrackletsShown(r)
      BY <3>1, PageOfRecords
    <3> QED BY <1>3, <3>2, RunListsRead DEF Ok
  <2>2. ASSUME NEW x \in RunFrameRows(r) PROVE Get(x) = Ok(<<x>>)
    <3>1. x \in VisibleFrames /\ x \notin Hidden /\ x \notin Evidence
      BY <1>3, PublishedIsShown, PageKinds, RecordKinds DEF VisibleFrames
    <3> QED BY <3>1 DEF Get
  <2>3. ASSUME NEW x \in RunEvidenceRows(r) PROVE Get(x) = Ok(<<x>>)
    <3>1. x \in VisibleEvidence /\ x \notin Hidden /\ EvidenceReads(x)
      BY <1>3, PublishedIsShown, PageKinds, RowsRead DEF VisibleEvidence
    <3> QED BY <3>1 DEF Get
  <2>4. RunFrameRows(r) \subseteq Range(ListFrames(RunSource[r], 0, Everything).items)
    <3> SUFFICES ASSUME NEW f \in RunFrameRows(r)
                 PROVE  f \in Range(ListFrames(RunSource[r], 0, Everything).items)
      OBVIOUS
    <3>1. f \in FramesShown(RunSource[r]) /\ f \in frames
      BY <1>3, PublishedIsShown, PageKinds DEF FramesShown, RunFrameRows
    <3>2. RunSource[r] \in sources \ Hidden
      <4>1. RunSource[r] \in sources
        BY <3>1 DEF ReadInv, FramesHaveSources, FramesShown
      <4>2. RunSource[r] \notin Hidden
        <5>1. ~BeingDeleted(RunSource[r]) /\ RunSource[r] \in Source
          BY <1>3, PublishedIsShown, RecordTypes
        <5>2. \A d \in DeletionId : RunSource[r] \notin closure[d]
          BY <5>1, RecordKinds DEF BeingDeleted, ReadInv, AuditInv, WorldInv, WorldTypeOK,
              OnlyPendingHides, ClosureIsFrozen, SourceClosure, Runs
        <5> QED BY <5>2 DEF Hidden
      <4> QED BY <4>1, <4>2
    <3>3. Range(ListFrames(RunSource[r], 0, Everything).items) = FramesShown(RunSource[r])
      <4>1. FramesShown(RunSource[r]) \in SUBSET Frame
        BY PageKinds DEF FramesShown
      <4> QED BY <3>2, <4>1, TableListsRead, PageOfRecords DEF Ok
    <3> QED BY <3>1, <3>3
  <2>5. ASSUME NEW e \in RunEvidenceRows(r)
        PROVE  e \in Range(ListEvidence(EvidenceFrame[e], Everything).items)
    <3>1. e \in EvidenceShown(EvidenceFrame[e]) /\ EvidenceShown(EvidenceFrame[e]) \in SUBSET Evidence
      BY <1>3, PublishedIsShown, PageKinds DEF EvidenceShown
    <3> QED BY <3>1, TableListsRead, PageOfRecords DEF Ok
  <2>6. ASSUME NEW x \in ObservationsShown(r) \cup TrackletsShown(r)
        PROVE  /\ GetPerception(x) = Ok(<<x>>)
               /\ x \in Tracklet => ListTrackletObservations(x, 0, Everything).code = "ok"
    <3>1. x \in VisiblePerception /\ x \in observations \cup tracklets
      BY <1>3, PublishedIsVisible DEF ObservationsShown, TrackletsShown
    <3>2. PerceptionReads(x) /\ OwnersAreSound(x)
      BY <3>1, RowsRead, OwnersRead
    <3>3. GetPerception(x) = Ok(<<x>>)
      BY <3>1, <3>2 DEF GetPerception
    <3> QED BY <3>1, <3>3, TableListsRead DEF Ok
  <2>7. ASSUME NEW t \in Tracklet,
               NEW s \in Range(ListSelectedEvidence(r, t, 0, MaxRank).items),
               s.evidence # NoEvidence
        PROVE  Get(s.evidence) = Ok(<<s.evidence>>)
    <3>1. t \in PerceptionOf(r)
      BY <1>1, <1>3, RunsRead DEF ListSelectedEvidence, Raised
    <3>2. s \in SelectionsOf(r)
      BY <1>3, <3>1, RunListsRead, PageOfSelections DEF Ok
    <3>3. s.evidence \in OwnedBy(r) \cap Evidence
      <4>1. s \in selected /\ s.run = r /\ s \in Selection
        BY <3>2 DEF SelectionsOf, ReadInv, GraphInv, PerceptionTypeOK
      <4>2. s.evidence \in Evidence
        BY <2>7, <4>1 DEF Selection
      <4> QED BY <2>7, <4>1, <4>2 DEF ReadInv, GraphInv, SelectionsAreSound
    <3> QED BY <1>3, <2>3, <3>3, PublishedIsShown
  <2> QED BY <2>1, <2>2, <2>3, <2>4, <2>5, <2>6, <2>7
<1> QED BY <1>2, <1>3

(* A reader can rely on every answer of the store in every history of calls:
   the audit accepts it, no read reports CORRUPT, and what a run lists can be
   fetched. *)
THEOREM ReadSoundness == Spec => []ReadsAreSound
<1>1. ReadInv => ReadsAreSound
  BY AuditReads, NothingIsCorrupt, ListedCanBeGot DEF ReadsAreSound
<1> QED BY <1>1, ReadInvariant, PTL
===============================================================================
