SPECIFICATION FairSpec
CONSTANTS
  Inputs = {"x", "s"}
  Depth <- MCDepth
  Kind <- MCKind
  RandVals <- MCRandVals
  RandLens <- MCRandLens
  Half <- MCHalf
  Accesses <- MCAccesses
  Conds <- SafeConds
  Side <- MCSide
  PreHolds <- MCPreHolds
  SolverInts <- MCSolverInts
  Half64 = 8
  MaxLen = 5
  NumTests = 1
INVARIANTS
  TypeOK
  BoundInTree
  Faithful
  NoDangling
  UndefinedBelowZero
  BranchHonoured
PROPERTIES
  BindingsStick
  RefinesOracle
  CallbackReturns
