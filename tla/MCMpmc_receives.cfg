SPECIFICATION FairSpec
CONSTANTS
  Senders = {s1, s2}
  Receivers = {r1, r2}
  Borrowers = {}
  Uninit = uninit
  N = 1
  Stride = 7
  MaxItems = 1
  Spins = 1
  HandleLimit = 2
PROPERTIES CommittedIsReceived
