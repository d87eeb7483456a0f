\* Two captures, two callers that share one outbox, and any one fault: a death of an
\* import, a changed receiver database or a replaced outbox; the decoder is upgraded once.
SPECIFICATION Spec
CONSTANTS
  c1 = c1
  c2 = c2
  p1 = p1
  p2 = p2
  r1 = r1
  r2 = r2
  None = None
  Capture <- MCCapture
  File <- MCFile
  Caller <- MCCaller
  Request <- MCRequest
  MaxPackets = 1
  MaxDecoder = 2
  MaxFaults = 1
  MaxRequests = 2
SYMMETRY MCSymmetry
INVARIANTS CompanionInv ErasedIsCopied NeverWedged OpenIsNext
PROPERTIES SignedOverCopy
CHECK_DEADLOCK FALSE
