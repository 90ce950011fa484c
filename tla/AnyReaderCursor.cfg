SPECIFICATION FairSpec
CONSTANTS
  NumReaders = 3
  ConnCount <- MCConnCount
  Bags <- MCBags
  Corruptions <- MCCorruptions
  Filters <- MCFilters
INVARIANTS MergeTypeOK ReportsOwnConnection FaultsAreLazy
PROPERTIES MergesStably Terminates
