SPECIFICATION FairSpec
CONSTANTS
  Senders = {s1, s2}
  Receiver = rx
  Uninit = uninit
  MaxSends = 2
  Spins = 1
  X86 = TRUE
  HalfRange = 3
  AbortAt = 4
  HandleLimit = 2
PROPERTIES EverySleeperIsWoken
