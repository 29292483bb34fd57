SPECIFICATION Spec
CONSTANT Programs <- ForContinue
INVARIANT Simulates
