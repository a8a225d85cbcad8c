\* A write sum-up whose reply lacks part of the result list.
CONSTANTS
  MaxReqs = 2
  MaxLen = 1
  Ops = {"write"}
SPECIFICATION Spec
INVARIANT EnsuredWasWritten
