------------------------------ MODULE Identifiers ------------------------------
(***************************************************************************)
(* The names the two stores share, and what each name stands for.  Records *)
(* carry content-derived identifiers (ingestion.py, perception.py): what a *)
(* record says of what its identifier names never changes (Records), so    *)
(* constants say it.                                                       *)
(***************************************************************************)
EXTENDS Naturals, FiniteSets

CONSTANTS
    Source, Frame, Evidence, Run,   \* record identifiers
    Digest,                         \* SHA-256 of artifacts
    StageName,                      \* names of .part files
    DeletionId,
    FrameSource,                    \* Frame -> Source
    EvidenceFrame,                  \* Evidence -> Frame
    EvidenceDigest,                 \* Evidence -> Digest
    RunSource,                      \* Run -> Source
    RunSamples,                     \* Run -> the frames it selects
    RunEvidence,                    \* Run -> the evidence its manifest derives
    NoSource                        \* the NULL root_id of a redacted job

ASSUME RecordTypes ==
    /\ FrameSource \in [Frame -> Source]
    /\ EvidenceFrame \in [Evidence -> Frame]
    /\ EvidenceDigest \in [Evidence -> Digest]
    /\ RunSource \in [Run -> Source]
    /\ RunSamples \in [Run -> SUBSET Frame]
    /\ RunEvidence \in [Run -> SUBSET Evidence]
    /\ NoSource \notin Source

(* Identifiers of different record types carry different prefixes. *)
ASSUME RecordKinds ==
    /\ Source \cap (Frame \cup Evidence \cup Run) = {}
    /\ Frame \cap (Evidence \cup Run) = {}
    /\ Evidence \cap Run = {}

(* A run selects frames of its own source and cuts its crops from them. *)
ASSUME RunsAreCoherent ==
    /\ \A r \in Run : \A f \in RunSamples[r] : FrameSource[f] = RunSource[r]
    /\ \A r \in Run : \A e \in RunEvidence[r] : EvidenceFrame[e] \in RunSamples[r]

RunFrames(r) == RunSamples[r]
RunDigests(r) == {EvidenceDigest[e] : e \in RunEvidence[r]}

Record == Source \cup Frame \cup Evidence \cup Run

(* StagedArtifact: a handle names a .part file by run, digest and name. *)
StagedFile == [run : Run, digest : Digest, name : StageName]
=============================================================================
