SPECIFICATION AnySpec
CONSTANTS
  Documents <- ValuesAndOthers
  Results = {"Continue", "SkipClassArray", "Complete"}
  Locations <- AllLocations
INVARIANTS
  DepthsCountStack
  TokenByToken
  AcceptsWholeValues
  StacksAgree
  FindsThePath
PROPERTIES
  NoEventAfterComplete
  Returns
