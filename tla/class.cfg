SPECIFICATION Spec
CONSTANTS
  MemberCount = 3
  NameCount = 4
  Hash <- PartlyCollidingHash
  ForceFullNameCheck = FALSE
  Documents <- CheckedAndUnchecked
  Enclosing <- OneOuter
  Mappings <- AllMappings
INVARIANTS
  TypeOK
  CacheIsOwn
  StaysInsideClass
  
  ArgumentsAreOwnMembers
  FailuresHaveReasons
  ExactIsExact
PROPERTIES
  LookupSpec
