------------------------- MODULE MCCoordinatorLiveness -------------------------
(***************************************************************************)
(* What recovery gets done once failures stop: calm turns true when the    *)
(* last crash, I/O error or busy checkpoint has happened; from then on     *)
(* processes only do what their code does.  Small instances: "part"        *)
(* says which of them a behaviour is about: one source with two runs of    *)
(* the same frame, or with one run and two processes, both under fairness; *)
(* and two sources with a crop of the same bytes, one process, and hardly  *)
(* room for the inventory.                                                 *)
(***************************************************************************)
EXTENDS Naturals, TLC

CONSTANTS s1, s2, f1, f2, f3, e1, e2, e3, r1, r2, r3, x, y, n1, n2, d1, d2, p1, p2,
          NoSource, NoProcess, NoTarget

VARIABLES
    part, calm,
    sources, frames, evidence, catalog, runState, runRecords, intents, jobState, jobRoot,
    closure, required, retained, runDirs, staged, incomplete, cas,
    proc, owner, pc, target, queue, discards, unlinks, handles

OneFrame == [f \in {f1} |-> s1]
TwoCrops == [e \in {e1, e2} |-> f1]
TwoDigests == e1 :> x @@ e2 :> y

TwoRuns == INSTANCE Coordinator WITH
    Source <- {s1}, Frame <- {f1}, Evidence <- {e1, e2}, Run <- {r1, r2}, Digest <- {x, y},
    StageName <- {n1, n2}, DeletionId <- {d1, d2}, Process <- {p1},
    FrameSource <- OneFrame, EvidenceFrame <- TwoCrops, EvidenceDigest <- TwoDigests,
    RunSource <- [r \in {r1, r2} |-> s1], RunSamples <- [r \in {r1, r2} |-> {f1}],
    RunEvidence <- r1 :> {e1} @@ r2 :> {e2},
    MaxInventoryEntries <- 6, MaxBatch <- 1

TwoProcesses == INSTANCE Coordinator WITH
    Source <- {s1}, Frame <- {f1}, Evidence <- {e1, e2}, Run <- {r1}, Digest <- {x, y},
    StageName <- {n1, n2}, DeletionId <- {d1}, Process <- {p1, p2},
    FrameSource <- OneFrame, EvidenceFrame <- TwoCrops, EvidenceDigest <- TwoDigests,
    RunSource <- [r \in {r1} |-> s1], RunSamples <- [r \in {r1} |-> {f1}],
    RunEvidence <- [r \in {r1} |-> {e1}],
    MaxInventoryEntries <- 6, MaxBatch <- 1

(* The instance of MCCoordinator, with one process. *)
Sources == f1 :> s1 @@ f2 :> s2 @@ f3 :> s1
Crops == e1 :> f1 @@ e2 :> f2 @@ e3 :> f3
Digests == e1 :> x @@ e2 :> x @@ e3 :> y
Owners == r1 :> s1 @@ r2 :> s2 @@ r3 :> s1
Samples == r1 :> {f1} @@ r2 :> {f2} @@ r3 :> {f1, f3}
Cuts == r1 :> {e1} @@ r2 :> {e2} @@ r3 :> {e1, e3}

Tight == INSTANCE Coordinator WITH
    Source <- {s1, s2}, Frame <- {f1, f2, f3}, Evidence <- {e1, e2, e3}, Run <- {r1, r2, r3},
    Digest <- {x, y}, StageName <- {n1, n2}, DeletionId <- {d1}, Process <- {p1},
    FrameSource <- Sources, EvidenceFrame <- Crops, EvidenceDigest <- Digests,
    RunSource <- Owners, RunSamples <- Samples, RunEvidence <- Cuts,
    MaxInventoryEntries <- 2, MaxBatch <- 1

state == <<sources, frames, evidence, catalog, runState, runRecords, intents, jobState,
           jobRoot, closure, required, retained, runDirs, staged, incomplete, cas, proc,
           owner, pc, target, queue, discards, unlinks, handles>>

vars == <<part, calm, state>>

Init ==
    /\ calm = FALSE
    /\ \/ part = "two runs" /\ TwoRuns!Init
       \/ part = "two processes" /\ TwoProcesses!Init
       \/ part = "tight" /\ Tight!Init

CalmDown == ~calm /\ calm' = TRUE /\ UNCHANGED state

Next ==
    /\ part' = part
    /\ \/ part # "tight" /\ CalmDown
       \/ /\ calm' = calm
          /\ \/ /\ part = "two runs"
                /\ \/ TwoRuns!SessionStep \/ TwoRuns!Start(p1)
                   \/ ~calm /\ TwoRuns!Failure
             \/ /\ part = "two processes"
                /\ \/ TwoProcesses!SessionStep
                   \/ \E p \in {p1, p2} : TwoProcesses!Start(p)
                   \/ ~calm /\ TwoProcesses!Failure
             \/ part = "tight" /\ Tight!Next

(* A session that can go on does; a process waiting for the writer lock gets *)
(* it if the lock keeps becoming free; somebody keeps calling recover.       *)
Fairness ==
    /\ WF_vars(part = "two runs" /\ TwoRuns!SessionStep /\ UNCHANGED <<part, calm>>)
    /\ SF_vars(part = "two runs" /\ TwoRuns!Continue(p1) /\ UNCHANGED <<part, calm>>)
    /\ SF_vars(part = "two runs" /\ TwoRuns!StartRecover(p1, "recover")
                 /\ UNCHANGED <<part, calm>>)
    /\ WF_vars(part = "two processes" /\ TwoProcesses!SessionStep /\ UNCHANGED <<part, calm>>)
    /\ \A p \in {p1, p2} :
          /\ SF_vars(part = "two processes" /\ TwoProcesses!Continue(p)
                       /\ UNCHANGED <<part, calm>>)
          /\ SF_vars(part = "two processes" /\ TwoProcesses!StartRecover(p, "recover")
                       /\ UNCHANGED <<part, calm>>)

Spec == Init /\ [][Next]_vars /\ Fairness

-----------------------------------------------------------------------------
(* A deletion that was accepted is carried to its completion receipt, and a  *)
(* run that a crash left preparing is cleaned up or goes with its source     *)
(* (recover, once the crashes and errors are over).                          *)
Begun == {d \in DOMAIN jobState : jobState[d] \in {"pending", "metadata_purged"}}
Finished == {d \in DOMAIN jobState : jobState[d] = "complete"}
Preparing == {r \in DOMAIN runState : runState[r] = "preparing"}

RecoveryConverges ==
    /\ \A d \in {d1, d2} : (calm /\ d \in Begun) ~> (d \in Finished)
    /\ \A r \in {r1, r2} : (calm /\ r \in Preparing) ~> (r \notin Preparing)

(* While one process at a time works on a store, no state that a crash leaves *)
(* makes a step of its next recovery raise, and ingest leaves no more in      *)
(* staging than the inventory of that recovery can list (_preflight).         *)
RecoveryIsNeverStuck ==
    /\ part = "two runs" => TwoRuns!RecoveryNeverRaises
    /\ part = "tight" => Tight!RecoveryNeverRaises /\ Tight!RecoveryScanFits
===============================================================================
