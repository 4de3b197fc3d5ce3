SPECIFICATION FairSpec
CONSTANTS
  Senders = {s1, s2, s3}
  Receivers = {r1}
  Borrowers = {s3}
  Uninit = uninit
  N = 1
  Stride = 7
  MaxItems = 1
  Spins = 0
  HandleLimit = 2
PROPERTIES SendReturns LoneReaderIsWoken
