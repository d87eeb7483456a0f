\* A capture during an authenticated session, with a well-behaved phone and radio.
SPECIFICATION Spec
CONSTANTS
  MaxConns = 1
  MaxGeneration = 6
  MaxTransaction = 1
  MaxDelivery = 2
  Fragments = 1
  TxRetries = 0
  DropRetries = 0
  MaxCaptures = 1
  Owners = {1}
  Trouble = {}
  MaxTroubles = 0
PROPERTIES CaptureKeepsSession
