SPECIFICATION Spec
CONSTANTS
  Given <- Inputs
  Written <- Readable
INVARIANTS
  ArgumentsAtIndex
  AcceptsOwnArray
  RoundTrip
