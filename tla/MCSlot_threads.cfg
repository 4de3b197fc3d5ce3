SPECIFICATION FairSpec
CONSTANTS
  Senders = {s1, s2, s3}
  Receiver = rx
  Uninit = uninit
  MaxSends = 1
  Spins = 1
  X86 = TRUE
  HalfRange = 3
  AbortAt = 5
  HandleLimit = 2
INVARIANTS NoSleeperForgotten ReservationsStayBelowFlags
PROPERTIES ImplementsBag RecvReturns SendReturns
