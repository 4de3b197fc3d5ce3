SPECIFICATION Spec
CONSTANTS
  N = 30
  Items <- RealItems
  Masks <- MixedMasks
INVARIANTS TypeOK RequestIsWindow ClearKeepsOneSide DrainVisitsAll
