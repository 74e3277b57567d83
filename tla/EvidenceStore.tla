----------------------------- MODULE EvidenceStore -----------------------------
(***************************************************************************)
(* What LocalEvidenceStore (storage.py) promises its callers: an immutable *)
(* content-addressed store with a staging area.  Each operation runs under *)
(* the exclusive writer lock and is one action here; a process that dies   *)
(* inside an operation leaves one of the states of the ...Interrupted      *)
(* actions.                                                                *)
(***************************************************************************)
EXTENDS Identifiers

CONSTANTS
    MaxInventoryEntries     \* max_inventory_entries of the store

IncompleteFile == [run : Run, name : StageName]

VARIABLES
    cas,            \* digests with a file under artifacts/v1/sha256
    staged,         \* complete .part files, mode 0400
    incomplete,     \* .part files whose writer died, mode 0600
    runDirs         \* directories under staging/v1

storeVars == <<cas, staged, incomplete, runDirs>>

StoreTypeOK ==
    /\ cas \subseteq Digest
    /\ staged \subseteq StagedFile
    /\ incomplete \subseteq IncompleteFile
    /\ runDirs \subseteq Run

StoreInit == cas = {} /\ staged = {} /\ incomplete = {} /\ runDirs = {}

(* Every file is in the directory of its run. *)
FilesInDirs ==
    /\ \A h \in staged : h.run \in runDirs
    /\ \A f \in incomplete : f.run \in runDirs

UsedNames(r) ==
    {h.name : h \in {s \in staged : s.run = r}}
    \cup {f.name : f \in {i \in incomplete : i.run = r}}

(* _remove_empty_run: the directory goes when no file is left in it. *)
DirsWithout(r, hs, is) ==
    IF \E f \in hs \cup is : f.run = r THEN runDirs ELSE runDirs \ {r}

-----------------------------------------------------------------------------
(* stage: a new run directory if needed, and a complete file in it. *)
Stage(r, x, n) ==
    /\ n \notin UsedNames(r)
    /\ staged' = staged \cup {[run |-> r, digest |-> x, name |-> n]}
    /\ runDirs' = runDirs \cup {r}
    /\ UNCHANGED <<cas, incomplete>>

(* The process dies while staging: only the directory, or a file still 0600. *)
StageInterrupted(r, n) ==
    /\ n \notin UsedNames(r)
    /\ \/ UNCHANGED incomplete
       \/ incomplete' = incomplete \cup {[run |-> r, name |-> n]}
    /\ runDirs' = runDirs \cup {r}
    /\ UNCHANGED <<cas, staged>>

(* commit_stage: PROMOTED or DEDUPLICATED, or ALREADY_COMMITTED when the
   staged file is gone and the artifact is there; NOT_FOUND otherwise. *)
CanCommitStage(h) == h \in staged \/ h.digest \in cas

CommitStage(h) ==
    /\ CanCommitStage(h)
    /\ staged' = staged \ {h}
    /\ cas' = cas \cup {h.digest}
    /\ runDirs' = DirsWithout(h.run, staged', incomplete)
    /\ UNCHANGED incomplete

(* It dies between the rename or unlink and the removal of the directory. *)
CommitStageInterrupted(h) ==
    /\ CanCommitStage(h)
    /\ staged' = staged \ {h}
    /\ cas' = cas \cup {h.digest}
    /\ UNCHANGED <<incomplete, runDirs>>

DiscardStage(h) ==
    /\ staged' = staged \ {h}
    /\ runDirs' = DirsWithout(h.run, staged', incomplete)
    /\ UNCHANGED <<cas, incomplete>>

DiscardStageInterrupted(h) ==
    /\ staged' = staged \ {h}
    /\ UNCHANGED <<cas, incomplete, runDirs>>

(* discard_incomplete on a partial file. *)
DiscardIncomplete(f) ==
    /\ incomplete' = incomplete \ {f}
    /\ runDirs' = DirsWithout(f.run, staged, incomplete')
    /\ UNCHANGED <<cas, staged>>

DiscardIncompleteInterrupted(f) ==
    /\ incomplete' = incomplete \ {f}
    /\ UNCHANGED <<cas, staged, runDirs>>

(* discard_incomplete on an empty run directory. *)
CanDiscardEmptyRun(r) == \A f \in staged \cup incomplete : f.run # r

DiscardEmptyRun(r) ==
    /\ CanDiscardEmptyRun(r)
    /\ runDirs' = runDirs \ {r}
    /\ UNCHANGED <<cas, staged, incomplete>>

DeleteArtifact(x) ==
    /\ cas' = cas \ {x}
    /\ UNCHANGED <<staged, incomplete, runDirs>>

-----------------------------------------------------------------------------
(* staging_inventory: an entry for each file and for each directory scanned. *)
(* Slip: directories without a file are not listed. *)
NoEmptyRuns == {}

EmptyRuns == {r \in runDirs : CanDiscardEmptyRun(r)}
StagingEntries == Cardinality(runDirs) + Cardinality(staged) + Cardinality(incomplete)
CanScanStaging == StagingEntries <= MaxInventoryEntries

-----------------------------------------------------------------------------
(* The store on its own, with callers that use it in any order. *)
StoreNext ==
    \/ \E r \in Run, n \in StageName :
          StageInterrupted(r, n) \/ \E x \in Digest : Stage(r, x, n)
    \/ \E h \in StagedFile :
          \/ CommitStage(h) \/ CommitStageInterrupted(h)
          \/ DiscardStage(h) \/ DiscardStageInterrupted(h)
    \/ \E f \in IncompleteFile :
          DiscardIncomplete(f) \/ DiscardIncompleteInterrupted(f)
    \/ \E r \in Run : DiscardEmptyRun(r)
    \/ \E x \in Digest : DeleteArtifact(x)

StoreSpec == StoreInit /\ [][StoreNext]_storeVars
=============================================================================
