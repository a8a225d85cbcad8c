\* Two threads, no timeouts, a peer that answers what it receives, once.
CONSTANTS
  Callers = {c1, c2}
  IdMod = 5
  MaxRequests = 3
  MaxUnsolicited = 2
  ReadTimeout = FALSE
  WriteTimeout = FALSE
  PeerKinds = {"skip", "notif", "invalid"}
  Bodies = {"good", "reject"}
SPECIFICATION AnsweringPeerSpec
INVARIANTS
  ReplyAnswersRequest
  PairingInv
  StreamInv
  OwnIdsAccepted
  NotificationsPrecedeReply
PROPERTIES
  EveryRequestReturns
  DropTerminates
