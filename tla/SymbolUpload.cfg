\* Types with every section; one unit of a table wrong, or two online changes.
CONSTANTS
  MaxStrLen = 25
  NoOffset = 99
  I32Max = 15
  ByteMod = 4
  Programs <- SomePrograms
  WrongUnits = {0, 1, 3, 9, 128}
  BufLen = 40
SPECIFICATION Spec
INVARIANTS
  UploadExact
  NoPartialEntries
  FlawContained
  ByNameAgrees
