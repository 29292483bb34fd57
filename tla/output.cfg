SPECIFICATION Spec
CONSTANTS
  Inputs <- MCInputs
  Depth <- MCDepth
  Kind <- MCKind
  RandVals <- MCRandVals
  RandLens <- MCRandLens
  Half <- MCHalf
  Programs <- MCPrograms
  Name <- MCName
  Texts <- MCTexts
  Chars <- MCChars
  Control <- MCControl
  KnownVals <- MCKnownVals
  Results <- MCResults
  CommandLines <- MCCommandLines
INVARIANTS TypeOK ReadsBack AllOrNothing
