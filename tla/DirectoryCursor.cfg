SPECIFICATION Spec
CONSTANTS
  Directories <- MCDirectories
  MaxTime = 7
  Contents <- MCContents
  Faults <- MCFaults
  Filters <- MCFilters
  NoTime = 0
INVARIANTS WindowExact FaultsInOrder
PROPERTIES OpensExactly MergesStably
