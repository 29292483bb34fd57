CONSTANTS
  Half <- MCHalf
  SolverInts <- MCSolverInts
  MaxLeaves = 4
SPECIFICATION Spec
INVARIANTS TypeOK Agree Arrives WellFormed Translatable
CHECK_DEADLOCK FALSE
