SPECIFICATION Spec
CONSTANT Programs <- MCPrograms
INVARIANTS
  Connected
  OneTerminator
  Simulates
