SPECIFICATION Spec
CONSTANTS
  Block = 4
  BigWord = 4
  SmallWord = 2
  Texts <- MCTexts
  Execs = {"constant", "runtime", "block", "strict"}
  Keys <- MCKeys
CHECK_DEADLOCK FALSE
INVARIANTS
  SkipsWholeItem
  EndsInText
  StopsAtToken
PROPERTIES
  Ends
