SPECIFICATION Spec
CONSTANTS
  MemberCount = 3
  NameCount = 4
  Hash <- PartlyCollidingHash
  ForceFullNameCheck = FALSE
  Documents <- ObjectsWithoutNulls
  Enclosing <- OneOuter
  Mappings <- AllMappings
INVARIANTS
  FirstIsParsed
