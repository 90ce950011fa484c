SPECIFICATION ReaderSpec
CONSTANTS
  Bags <- MCBags
  ChunkBytes = 2
  EntryBytes = 1
  MaxIndexBytes = 7
  MaxMessages = 4
  Modulus = 16
  MaxCalls = 2
  Topic <- MCTopic
  Filters <- MCFilters
  NoTime = 0
  HasBz2 = TRUE
  MaxChunkBytes = 8
  MaxMessageBytes = 1
INVARIANTS ChargesExact IndexBudgetHeld MetadataExact AllOrNothing OneChunkResident
PROPERTY MergesStably
