SPECIFICATION Spec
CONSTANTS
  s1 = s1 s2 = s2 f1 = f1 f2 = f2 e1 = e1 e2 = e2 e3 = e3
  r1 = r1 r2 = r2 x = x y = y
  Source = {s1, s2}
  Frame = {f1, f2}
  Evidence = {e1, e2, e3}
  Run = {r1, r2}
  Digest = {x, y}
  StageName = {n1}
  DeletionId = {d1}
  FrameSource <- MCFrameSource
  EvidenceFrame <- MCEvidenceFrame
  EvidenceDigest <- MCEvidenceDigest
  RunSource <- MCRunSource
  RunSamples <- MCRunSamples
  RunEvidence <- MCRunEvidence
  NoSource = NoSource
  MaxItems = 2
INVARIANT OwnershipIsSound
PROPERTY PublishedRunsAreImmutable
