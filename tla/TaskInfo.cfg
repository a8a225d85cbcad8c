\* Two sampling threads, one change of the target's symbols, two generations.
CONSTANTS
  Threads = {t1, t2}
  Metas <- SomeMetas
  Changing <- SomeChanging
  PrefixSize = 2
  NameSize = 2
  CountSize = 2
  MaxSize = 8
  MaxIndex = 2
  MaxEpochs = 2
  MaxGen = 2
SYMMETRY Symmetry
SPECIFICATION Spec
INVARIANTS
  KeptIsCurrent
  AcceptedDecodes
