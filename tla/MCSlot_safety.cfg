SPECIFICATION Spec
CONSTANTS
  Senders = {s1, s2, s3}
  Receiver = rx
  Uninit = uninit
  MaxSends = 2
  Spins = 1
  X86 = FALSE
  HalfRange = 3
  AbortAt = 4
  HandleLimit = 1
SYMMETRY SenderSymmetry
INVARIANTS TypeOK RaceFree ExactlyOnce SlotInvariant
PROPERTIES HangUpsAreFinal ImplementsBag
