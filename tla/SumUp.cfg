\* Single requests and up to three in one; replies complete or cut anywhere, lengths right or wrong.
CONSTANTS
  MaxReqs = 3
  MaxLen = 2
  Ops = {"single", "exact", "read", "write", "write_read"}
SPECIFICATION Spec
INVARIANTS
  OwnData
  CopyInBounds
PROPERTY Terminates
