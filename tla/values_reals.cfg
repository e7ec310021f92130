SPECIFICATION Spec
CONSTANTS
  WordBits = 17
  Block = 2
  UnsignedBits = 16
  Samples <- MCReals
INVARIANTS
  RealsSurvive
