SPECIFICATION Spec
CONSTANT Programs <- CountChars
INVARIANT DeletedOnce
