SPECIFICATION Spec
CONSTANTS
  Types <- ClosureTypes
  HeaderSize = 32
  HeaderAlign = 8
  MaxLen = 3
  MaxInits = 3
  MaxPushes = 5
INVARIANTS ConsumedOnce TaskFits LeaksOnlyOnPanic
