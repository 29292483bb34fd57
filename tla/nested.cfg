SPECIFICATION Spec
CONSTANTS
  Inputs = {"b", "m"}
  Depth <- MCDepth
  Kind <- MCKind
  RandVals <- OneRandVal
  RandLens <- MCRandLens
  Half <- MCHalf
  Accesses <- MCAccesses
  Conds <- MCConds
  Side <- MCSide
  PreHolds <- MCPreHolds
  SolverInts <- MCSolverInts
  Half64 = 8
  MaxLen = 3
  NumTests = 2
INVARIANTS
  BoundInTree
  Faithful
  BranchHonoured
PROPERTY RefinesOracle
