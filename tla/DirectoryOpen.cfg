SPECIFICATION FilesSpec
CONSTANTS
  NumFiles = 3
  MaxDecompressedFileBytes = 3
  MaxTemporaryBytes = 5
  MaxChunk = 2
  Modulus = 8
  MaxCalls = 3
INVARIANTS BudgetHeld BytesAccounted BackendsBacked AllOrNothing
