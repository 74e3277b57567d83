-------------------------- MODULE MCPerceptionClients --------------------------
(***************************************************************************)
(* A small instance of PerceptionClients: two runs perceive the same two   *)
(* observations; one of them joins both to a tracklet, and either may use  *)
(* the first for a tracklet of its own.  There is a crop of the first.     *)
(* Every state the clients reach is read.                                  *)
(***************************************************************************)
EXTENDS PerceptionClients, WorldReads, TLC

CONSTANTS s1, f1, f2, e1, r1, r2, x, o1, o2, t1, t2

MCFrameSource == [f \in Frame |-> s1]
MCEvidenceFrame == [e \in Evidence |-> f1]
MCEvidenceDigest == [e \in Evidence |-> x]
MCRunSource == [r \in Run |-> s1]
MCRunSamples == [r \in Run |-> Frame]
MCRunEvidence == [r \in Run |-> Evidence]
MCObservationFrame == o1 :> f1 @@ o2 :> f2
MCTrackletPoints == t1 :> {o1, o2} @@ t2 :> {o1}
MCDepicts == {<<e1, o1>>}
MCOrder == f1 :> 1 @@ f2 :> 2 @@ e1 :> 1 @@ o1 :> 1 @@ o2 :> 2 @@ t1 :> 1 @@ t2 :> 2

Symmetry == Permutations(Run)
================================================================================
