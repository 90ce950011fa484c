SPECIFICATION CompilerSpec
CONSTANTS
  Definitions <- MCDefinitions
  MaxFiles = 3
  Builtin = {5}
  BuiltinPackages = {4, 5}
  Primitive = 0
  Sanitized <- MCSanitized
INVARIANTS HeaderSound RefusesExactly FilesInStep
