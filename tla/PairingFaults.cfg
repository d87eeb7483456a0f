\* Two windows of two attempts, a connection that is made again or renewed, and two keys.
SPECIFICATION FairSpec
CONSTANTS
  c1 = c1
  k1 = k1
  k2 = k2
  None = None
  Conns <- MCConns
  Passkeys <- MCPasskeys
  AttemptsMax = 2
  EventsMax = 1
  MaxWindow = 2
  MaxGen = 2
  Renewals = TRUE
INVARIANTS PairingInv SpoiledIsHungUp
PROPERTIES ToldInOrder WindowEnds
