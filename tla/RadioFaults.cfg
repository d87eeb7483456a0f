\* The owner's phone, then one that does not hold the key; responses of two fragments,
\* completions that may be late, and any one trouble.
SPECIFICATION Spec
CONSTANTS
  MaxConns = 2
  MaxGeneration = 5
  MaxTransaction = 1
  MaxDelivery = 2
  Fragments = 2
  TxRetries = 1
  DropRetries = 1
  MaxCaptures = 0
  Owners = {1}
  Trouble = {"loss", "late", "command", "expire", "lock", "radio", "busy", "slow", "unsubscribe", "mtu", "stray"}
  MaxTroubles = 1
INVARIANTS RadioInv
PROPERTIES SentIsWhole
