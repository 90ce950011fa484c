SPECIFICATION Spec
CONSTANTS
  Databases <- MCDatabases
  Written <- MCWritten
  MaxWrites = 1
  Filters <- MCFilters
  NoTime <- NoTimeMC
  Modulus = 16
  MaxMessageBytes = 1
INVARIANTS MetadataSound EmptyIsRight
PROPERTY MergesStably
