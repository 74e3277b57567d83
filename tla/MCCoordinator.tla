---------------------------- MODULE MCCoordinator ----------------------------
(***************************************************************************)
(* A small instance of Coordinator for TLC.  The sources s1 and s2 have a  *)
(* crop with the same bytes, x.  The runs r1 and r3 of s1 share the frame  *)
(* f1 and its evidence e1; r3 also cuts y from a frame of its own.         *)
(***************************************************************************)
EXTENDS Coordinator, TLC

CONSTANTS s1, s2, f1, f2, f3, e1, e2, e3, r1, r2, r3, x, y

MCFrameSource == f1 :> s1 @@ f2 :> s2 @@ f3 :> s1
MCEvidenceFrame == e1 :> f1 @@ e2 :> f2 @@ e3 :> f3
MCEvidenceDigest == e1 :> x @@ e2 :> x @@ e3 :> y
MCRunSource == r1 :> s1 @@ r2 :> s2 @@ r3 :> s1
MCRunSamples == r1 :> {f1} @@ r2 :> {f2} @@ r3 :> {f1, f3}
MCRunEvidence == r1 :> {e1} @@ r2 :> {e2} @@ r3 :> {e1, e3}

Symmetry == Permutations(Process) \cup Permutations(StageName) \cup Permutations(DeletionId)
===============================================================================
