SPECIFICATION CompilerSpec
CONSTANTS
  Definitions <- MCPackageDefinitions
  MaxFiles = 3
  Builtin = {5}
  BuiltinPackages = {4, 5}
  Primitive = 0
  Sanitized <- MCSanitized
INVARIANT
  NamedTypesExist
