------------------------ MODULE MCPerceptionCoordinator ------------------------
(***************************************************************************)
(* A small instance of PerceptionCoordinator.  r1 perceives two frames,    *)
(* joins what it found to one tracklet and cuts a crop of it; r2 perceives *)
(* the first frame only and keeps no pixels; i1 ingests the first frame.   *)
(***************************************************************************)
EXTENDS PerceptionCoordinator, TLC

CONSTANTS s1, f1, f2, e1, r1, r2, i1, x, o1, o2, t1, t2

MCFrameSource == [f \in Frame |-> s1]
MCEvidenceFrame == [e \in Evidence |-> f1]
MCEvidenceDigest == [e \in Evidence |-> x]
MCRunSource == [r \in Run |-> s1]
MCRunSamples == [r \in Run |-> IF r = r1 THEN {f1, f2} ELSE {f1}]
MCRunEvidence == [r \in Run |-> IF r = r1 THEN {e1} ELSE {}]
MCObservationFrame == o1 :> f1 @@ o2 :> f2
MCTrackletPoints == t1 :> {o1, o2} @@ t2 :> {o1}
MCDepicts == {<<e1, o1>>}
MCRunObservations ==
    [r \in Run |-> IF r = r1 THEN {o1, o2} ELSE IF r = r2 THEN {o1} ELSE {}]
MCRunTracklets == [r \in Run |-> IF r = r1 THEN {t1} ELSE IF r = r2 THEN {t2} ELSE {}]
Shown(t, e) == {[tracklet |-> t, rank |-> 1, observation |-> o1, evidence |-> e]}
MCRunSelections ==
    [r \in Run |-> IF r = r1 THEN Shown(t1, e1)
                   ELSE IF r = r2 THEN Shown(t2, NoEvidence) ELSE {}]

Symmetry == Permutations(Process) \cup Permutations(StageName)
================================================================================
