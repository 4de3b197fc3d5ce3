SPECIFICATION Spec
CONSTANTS
  Senders = {s1, s2, s3}
  Receivers = {r1, r2, r3}
  Borrowers = {}
  Uninit = uninit
  N = 2
  Stride = 7
  MaxItems = 1
  Spins = 0
  HandleLimit = 1
SYMMETRY HandleSymmetry
INVARIANTS MpmcInvariant HangUpByTheLast
PROPERTIES HangUpsAreFinal
