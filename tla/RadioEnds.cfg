\* What must eventually happen when the owner's phone connects twice and follows
\* the protocol, the radio refuses a notification once or completes one
\* late or never, and a capture comes.
SPECIFICATION FairSpec
CONSTANTS
  MaxConns = 2
  MaxGeneration = 6
  MaxTransaction = 1
  MaxDelivery = 1
  Fragments = 1
  TxRetries = 0
  DropRetries = 0
  MaxCaptures = 1
  Owners = {1, 2}
  Trouble = {"radio", "late"}
  MaxTroubles = 1
PROPERTIES ClosedHangsUp ResponseEnds
