SPECIFICATION Spec
CONSTANTS
  Inputs = {"x", "s"}
  Depth <- MCDepth
  Kind <- MCKind
  RandVals <- MCRandVals
  RandLens <- MCRandLens
  Half <- MCHalf
  Accesses <- InBounds
  Conds <- BoundedConds
  Side <- MCSide
  PreHolds <- MCPreHolds
  SolverInts <- MCSolverInts
  Half64 = 8
  MaxLen = 5
  NumTests = 1
INVARIANT ProperLengths
