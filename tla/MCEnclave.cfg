SPECIFICATION Spec
CONSTANTS
  Hash = {h1}
  Wallet = {w1}
  NoWallet = noWallet
  Account = {k1}
  Tier = {0, 1}
  Fallback = fallback
  ImageDigest = digest
  OnHardware = TRUE
  Action = {x1, x2}
  QuoteHandler = {g1, g2}
  NoBlob = noBlob
  MaxBoots = 2
  MaxDeliveries = 2
INVARIANTS
  CiphertextIsSingleUse
  AttestedAsSealed
  SignedQuotesOpen
  CountIsExact
PROPERTIES
  ImplementsService
SYMMETRY Symmetry
