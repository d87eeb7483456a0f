\* Captures of up to three blocks, one of them warmup, a queue of one.
SPECIFICATION FairSpec
CONSTANTS
  Warmup = 1
  QueueSize = 1
  MaxRequests = 1
  MaxBlocks = 3
INVARIANTS AudioInv SwitchCutsPower FinalizedIsComplete
PROPERTIES CutIsInterrupted StopEnds
