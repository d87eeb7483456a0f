\* Two captures, two receipts, two store objects, and any two deaths, power cuts and
\* damages.
SPECIFICATION Spec
CONSTANTS
  k1 = k1
  k2 = k2
  a1 = a1
  a2 = a2
  s1 = s1
  s2 = s2
  None = None
  Key <- MCKey
  Ack <- MCAck
  Store <- MCStore
  MaxFaults = 2
SYMMETRY MCSymmetry
INVARIANTS LibraryInv ListedStays
PROPERTIES NothingForgotten
