CONSTANTS
  Programs <- MCPrograms
  Slots <- MCSlots
  Blocks <- MCBlocks
  Lengths <- MCLengths
  Values <- MCValues
SPECIFICATION Spec
INVARIANTS TypeOK ContextFresh UndefinedOnlyAtRoot DecidedOnSame
CHECK_DEADLOCK FALSE
