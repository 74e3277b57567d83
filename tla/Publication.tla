------------------------------ MODULE Publication ------------------------------
(***************************************************************************)
(* What ingestion and deletion promise a reader: a run appears with all    *)
(* its evidence in one step, a source disappears with all its runs in one  *)
(* step, and nothing else ever changes what is published.  `shown' is the  *)
(* evidence a reader finds AND can read the artifact of.                   *)
(***************************************************************************)
EXTENDS Identifiers

VARIABLES published, shown

Init == published = {} /\ shown = {}

Publish(r) ==
    /\ r \notin published
    /\ published' = published \cup {r}
    /\ shown' = shown \cup RunEvidence[r]

Withdraw(s) ==
    /\ published' = {r \in published : RunSource[r] # s}
    /\ shown' = {e \in shown : FrameSource[EvidenceFrame[e]] # s}

Next == (\E r \in Run : Publish(r)) \/ (\E s \in Source : Withdraw(s))

Spec == Init /\ [][Next]_<<published, shown>>
===============================================================================
