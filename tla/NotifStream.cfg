\* Messages as a device encodes them, and any other.
CONSTANTS
  MaxStamps = 2
  MaxSamples = 2
  MaxUnits = 9
  MaxValue = 2
  Datas <- SomeDatas
SPECIFICATION Spec
INVARIANTS
  Delivered
  IterationSafe
  NothingLeft
