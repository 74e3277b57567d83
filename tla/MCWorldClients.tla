---------------------------- MODULE MCWorldClients ----------------------------
(***************************************************************************)
(* A small instance of WorldClients: two runs of one source that share the *)
(* frame f1 and cut different crops of it, and an evidence of another      *)
(* source with the same bytes, which no run has to own.                    *)
(***************************************************************************)
EXTENDS WorldClients, TLC

CONSTANTS s1, s2, f1, f2, e1, e2, e3, r1, r2, x, y

MCFrameSource == f1 :> s1 @@ f2 :> s2
MCEvidenceFrame == e1 :> f1 @@ e2 :> f2 @@ e3 :> f1
MCEvidenceDigest == e1 :> x @@ e2 :> x @@ e3 :> y
MCRunSource == r1 :> s1 @@ r2 :> s1
MCRunSamples == r1 :> {f1} @@ r2 :> {f1}
MCRunEvidence == r1 :> {e1} @@ r2 :> {e3}
===============================================================================
