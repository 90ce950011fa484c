SPECIFICATION ReaderSpec
CONSTANTS
  NoStatistics = NoStatistics
  Files <- AllFiles
  MaxChunkBytes = 6
  MaxBodyBytes = 2
  MaxMessageBytes = 3
  MaxIndexBytes = 6
  MaxTemporaryBytes = 6
  EntryBytes = 2
  Modulus = 16
  MaxCalls = 2
  Topic <- MCTopic
  Filters <- MCFilters
  NoTime <- NoTimeMC
INVARIANTS IndexBudgetHeld SpoolInBudget MetadataTrue AllOrNothing
PROPERTY MergesStably
