\* Two owners take turns; every residue of a cut, and any one page may be unreadable.
SPECIFICATION Spec
CONSTANTS
  Context = {"first", "second"}
  Value = {"empty", "full"}
  MaxBodies = 2
  Bodies <- MCBodies
  MaxGeneration = 3
  ReadFault <- OnePageFaults
  Residue = {"kept", "blank", "weak", "torn", "unreadable"}
INVARIANTS LedgerInv AuthoritySurvives
PROPERTIES SpareSlotOnly ImplementsRegister
