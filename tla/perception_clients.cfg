SPECIFICATION Spec
CONSTANTS
  s1 = s1 f1 = f1 f2 = f2 e1 = e1 r1 = r1 r2 = r2 x = x
  o1 = o1 o2 = o2 t1 = t1 t2 = t2
  Source = {s1}
  Frame = {f1, f2}
  Evidence = {e1}
  Run = {r1, r2}
  Digest = {x}
  StageName = {n1}
  DeletionId = {d1}
  FrameSource <- MCFrameSource
  EvidenceFrame <- MCEvidenceFrame
  EvidenceDigest <- MCEvidenceDigest
  RunSource <- MCRunSource
  RunSamples <- MCRunSamples
  RunEvidence <- MCRunEvidence
  NoSource = NoSource
  Observation = {o1, o2}
  Tracklet = {t1, t2}
  ObservationFrame <- MCObservationFrame
  TrackletPoints <- MCTrackletPoints
  Depicts <- MCDepicts
  MaxRank = 2
  NoEvidence = NoEvidence
  Order <- MCOrder
INVARIANTS PerceptionGraphIsSound ReadsAreSound
PROPERTY CommittedGraphIsKept
SYMMETRY Symmetry
