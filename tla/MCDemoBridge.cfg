SPECIFICATION FairSpec
CONSTANTS
  Wallet = {w1, w2}
  Hash = {h1, h2}
  Lookback = 1
  WordSize = 16
  MaxAttempts = 2
  MaxRange = 2
  MaxHead = 4
  MaxEvents = 3
  MaxBoots = 2
CHECK_DEADLOCK FALSE
INVARIANTS NoEventSkipped WrittenAsAnchored
PROPERTIES EventsAreHandled
