SPECIFICATION Spec
CONSTANT Programs <- MCPrograms
INVARIANTS
  Lexical
  UsesReady
  ExpressionsTyped
  DeletedOnce
  AllDeleted
