SPECIFICATION Spec
CONSTANTS
  Types <- MixedTypes
  HeaderSize = 32
  HeaderAlign = 8
  MaxLen = 10
  MaxInits = 4
INVARIANTS DropReturns
