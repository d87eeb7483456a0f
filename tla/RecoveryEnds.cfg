\* A source that needs several connections, which are slow, late or lost, one death of
\* the process, and once a readable end that moves to where a connection may not reach.
SPECIFICATION FairSpec
CONSTANTS
  Captures = 1
  Boundaries <- LongBoundaries
  Chunk = 2
  MaxEpoch = 2
  TxnLimit = 4
  Retries = 1
  MaxGen = 2
  MaxKills = 1
  Silent = {}
  Trouble = {"slow", "drops", "late", "overtake"}
INVARIANTS Lockstep
PROPERTIES PassEnds GivesUpForCause NeverShrinks
CHECK_DEADLOCK FALSE
