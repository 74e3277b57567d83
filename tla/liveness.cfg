SPECIFICATION Spec
CONSTANTS
  s1 = s1 s2 = s2 f1 = f1 f2 = f2 f3 = f3 e1 = e1 e2 = e2 e3 = e3
  r1 = r1 r2 = r2 r3 = r3 x = x y = y n1 = n1 n2 = n2 d1 = d1 d2 = d2
  p1 = p1 p2 = p2
  NoSource = NoSource NoProcess = NoProcess NoTarget = NoTarget
INVARIANT RecoveryIsNeverStuck
PROPERTY RecoveryConverges
