SPECIFICATION FairSpec
CONSTANTS
  a1 = a1  a2 = a2  lit = lit  v1 = v1  v2 = v2  garbage = garbage
  Addrs <- TwoAddrs
  Literals <- OneLiteral
  LitLen <- MCLitLen
  Locals <- TwoLocals
  Lens <- Short
  Garbage <- garbage
INVARIANTS
  TypeOK
  HeapTracked
  LensKnown
  NoBadFree
PROPERTY NothingLeft
