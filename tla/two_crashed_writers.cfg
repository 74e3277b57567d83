SPECIFICATION Spec
CONSTANTS
  s1 = s1 s2 = s2 f1 = f1 f2 = f2 f3 = f3 e1 = e1 e2 = e2 e3 = e3
  r1 = r1 r2 = r2 r3 = r3 x = x y = y
  Source = {s1, s2}
  Frame = {f1, f2, f3}
  Evidence = {e1, e2, e3}
  Run = {r1, r2, r3}
  Digest = {x, y}
  StageName = {n1, n2, n3, n4}
  DeletionId = {d1}
  Process = {p1, p2}
  FrameSource <- MCFrameSource
  EvidenceFrame <- MCEvidenceFrame
  EvidenceDigest <- MCEvidenceDigest
  RunSource <- MCRunSource
  RunSamples <- MCRunSamples
  RunEvidence <- MCRunEvidence
  NoSource = NoSource NoProcess = NoProcess NoTarget = NoTarget
  MaxInventoryEntries = 3
  MaxBatch = 1
INVARIANT RecoveryScanFits
SYMMETRY Symmetry
