SPECIFICATION Spec
CONSTANTS
  Samples <- MCSamples
INVARIANTS
  WritesTheValue
  SchemaAccepts
  TagsInFront
  HonoursFormat
  ErrorHasReason
