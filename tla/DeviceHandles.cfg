\* Notifications, files, symbol handles and listings of two threads; requests
\* may be refused, not sent, or fail on their way.
CONSTANTS
  Threads = {t1, t2}
  MaxHandle = 2
  MaxBatch = 2
  Reuse = FALSE
  Lossy = TRUE
  MaxOpen = 2
  MaxFailed = 2
  MaxOnWay = 2
  Directory <- TwoEntries
SPECIFICATION HandlesSpec
INVARIANTS
  DroppedMeansDeleted
  TrackingInv
  HeldIsOpen
  OwnershipInv
  ObjectsReleased
  ReleaseInv
  ListedWhole
SYMMETRY Symmetry
