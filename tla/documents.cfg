SPECIFICATION Spec
CONSTANTS
  Docs <- MCDocs
  Iterators = {"i", "j"}
CHECK_DEADLOCK FALSE
INVARIANTS
  GivesTheElements
  EqualAtSameElement
PROPERTIES
  Stream
  Opens
