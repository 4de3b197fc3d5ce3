SPECIFICATION Spec
CONSTANTS
  Senders = {s1, s2}
  Receivers = {r1, r2}
  Borrowers = {r2}
  Uninit = uninit
  N = 2
  Stride = 7
  MaxItems = 2
  Spins = 0
  HandleLimit = 3
SYMMETRY HandleSymmetry
INVARIANTS TypeOK RaceFree ExactlyOnce SlotsPartitioned NoSleeperForgotten RequestsFitOffer HangUpByTheLast
PROPERTIES ImplementsBag
