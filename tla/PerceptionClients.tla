--------------------------- MODULE PerceptionClients ---------------------------
(***************************************************************************)
(* The version 2 operations of LocalWorldStore, and the ones of version 1  *)
(* they share tables with, called in any order by any client.              *)
(***************************************************************************)
EXTENDS PerceptionStore

CommitAny ==
    /\ \/ \E s \in Source : Commit({s}, {}, "preparing", {}, {})
       \/ \E r \in Run, st \in {"preparing", "failed"} : Commit({}, {r}, st, {}, {})
       \/ \E r \in Run, f \in Frame, e \in Evidence :
             \/ CommitForRun(r, {f}, {})
             \/ CommitForRun(r, {}, {e})
    /\ UNCHANGED perceptionVars

RecordIntentAny ==
    /\ \E h \in StagedFile : RecordArtifactIntents(h.run, {h})
    /\ UNCHANGED perceptionVars

CommitPerceptionAny ==
    \E r \in Run :
        \/ \E o \in Observation : CommitPerceptionForRun(r, {o}, {}, {})
        \/ \E t \in Tracklet : CommitPerceptionForRun(r, {}, {t}, {})
        \/ \E i \in Intent : CommitPerceptionForRun(r, {}, {}, {i})

LinkAny ==
    \E s \in selected, e \in Evidence, present \in SUBSET Digest :
        LinkSelectedEvidence(s, e, present)

FinalizeAny ==
    \E r \in Run, present \in SUBSET Digest : FinalizePerceptionRun(r, {}, {}, present)

CleanupAny == \E r \in Run : FinishPerceptionCleanup(r)

BeginDeletionAny == \E s \in Source, d \in DeletionId : BeginPerceptionDeletion(s, d)

PurgeAny == \E d \in DeletionId, present \in SUBSET Digest : PurgePerception(d, present)

CompleteAny == \E d \in DeletionId : CompleteDeletion(d) /\ UNCHANGED perceptionVars

Next ==
    \/ CommitAny \/ RecordIntentAny \/ CommitPerceptionAny \/ LinkAny \/ FinalizeAny
    \/ CleanupAny \/ BeginDeletionAny \/ PurgeAny \/ CompleteAny

vars == <<worldVars, perceptionVars>>

Init == WorldInit /\ PerceptionInit

Spec == Init /\ [][Next]_vars

-----------------------------------------------------------------------------
(* A committed run keeps the graph it published, whatever becomes of the runs
   that share its records, until the metadata of its source is purged. *)
CommittedGraphIsKept ==
    [][\A r \in Run :
          runState[r] = "committed" /\ runState'[r] # "absent" =>
             /\ SelectionsOf(r) = {s \in selected' : s.run = r}
             /\ PerceptionOf(r) = {x \in Perceived : <<r, x>> \in perceivedBy'}
             /\ PerceptionOf(r) \subseteq observations' \cup tracklets'
      ]_vars
=============================================================================
