SPECIFICATION OpenSpec
CONSTANTS
  States = {"a", "b", "r"}
  Inputs <- MCInputs
  Kind <- MCKind
  Cursors = {"x", "y"}
  MaxOpens = 3
  Paths <- MCPaths
  Stored <- MCStored
  Modulus = 8
INVARIANTS CursorsServed NothingLeaks DescribesInputs
