\* Two captures whose readable end may move, unreadable media and failing
\* storage, while the user starts, wakes and stops the worker.
SPECIFICATION Spec
CONSTANTS
  Captures = 2
  Boundaries <- TwoVersionBoundaries
  Chunk = 2
  MaxEpoch = 2
  TxnLimit = 7
  Retries = 1
  MaxGen = 3
  MaxKills = 0
  Silent = {2}
  Trouble = {"storage", "media"}
INVARIANTS RecoveryInv ClaimsHold
PROPERTIES WakeKept
CHECK_DEADLOCK FALSE
