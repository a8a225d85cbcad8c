\* A device that gives out the handles of deleted notifications again.
CONSTANTS
  Threads = {t1, t2}
  MaxHandle = 2
  MaxBatch = 1
  Reuse = TRUE
  Lossy = FALSE
SPECIFICATION Spec
INVARIANT DroppedMeansDeleted
