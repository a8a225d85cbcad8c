\* An idle connection with a read timeout.
CONSTANTS
  Callers = {c1}
  IdMod = 3
  MaxRequests = 1
  MaxUnsolicited = 0
  ReadTimeout = TRUE
  WriteTimeout = FALSE
  PeerKinds = {}
  Bodies = {"good"}
SPECIFICATION Spec
PROPERTY ReadTimeoutNeedsRequest
