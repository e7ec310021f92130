SPECIFICATION StateSpec
CONSTANTS
  Names = {"", "a", "b"}
  NoName = ""
  Containers <- AllContainers
  Indexes <- AllIndexes
  Hash <- CollidingHash
  SizeMax = 99
INVARIANTS
  LocationsArePrefix
PROPERTIES
  Promised
