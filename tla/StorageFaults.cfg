\* Two captures, both released, on three blocks of which one is catalog, and any three steps fail or lose power.
SPECIFICATION Spec
CONSTANTS
  b1 = b1
  b2 = b2
  b3 = b3
  None = None
  Block <- MCBlock
  MaxGeneration = 2
  MaxRelease = 2
  MaxCatalog = 1
  MaxFaults = 3
  Damage = {"torn", "unreadable"}
  Opens = {TRUE, FALSE}
INVARIANTS StorageInv ReportedStaysWhole ReleaseNeverRefused
PROPERTIES GenerationUsedOnce ImplementsVault
CHECK_DEADLOCK FALSE
