SPECIFICATION Spec
CONSTANTS
  Texts <- MCTexts
  Types <- MCTypes
CHECK_DEADLOCK FALSE
INVARIANTS
  TakesElements
  AcceptsContainers
PROPERTIES
  Ends
