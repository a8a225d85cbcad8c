\* Timeouts, torn writes, replies to be rejected or not asked for, a reader
\* that panics.
CONSTANTS
  Callers = {c1, c2}
  IdMod = 3
  MaxRequests = 2
  MaxUnsolicited = 1
  ReadTimeout = TRUE
  WriteTimeout = TRUE
  PeerKinds = {"dup", "tinynotif", "bogus"}
  Bodies = {"good", "runt"}
SPECIFICATION LiveSpec
INVARIANTS
  TypeOK
  NoStrandedCaller
  SettleInv
PROPERTIES
  EveryRequestReturns
  ImplementsAdsCalls
