\* Four blocks for a queue of two, so that every fault, also an empty slab, can
\* happen; each step may be refused whatever the hardware can refuse.
SPECIFICATION FairSpec
CONSTANTS
  b1 = b1
  b2 = b2
  b3 = b3
  b4 = b4
  None = None
  Buffer <- MCBuffer
  QueueSize = 2
  MaxBlocks = 4
  Error = {"overflow", "release", "prepare", "handoff", "start", "request", "clock", "unclock"}
INVARIANTS DriverInv
PROPERTIES StopSettles ImplementsDmic
