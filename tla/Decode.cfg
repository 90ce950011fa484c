SPECIFICATION DecodeSpec
CONSTANTS
  Fields <- MCFields
  SizeOf <- MCSizeOf
  Uses <- MCUses
  StringSize = 4
  Lengths = {0, 1, 2, 3, 17, 200}
  Word = 1024
  MaxElements = 18
  MaxDecoded = 200
  MaxDepth = 5
INVARIANTS ReadsExactly StorageHeld DecodesAsRegistered
PROPERTY CountsCovered
