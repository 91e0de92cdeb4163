SPECIFICATION ContractsSpec
CONSTANTS
  a0 = a0
  a1 = a1
  a2 = a2
  n1 = n1
  n2 = n2
  zeroHash = zeroHash
  r1 = r1
  r2 = r2
  r3 = r3
  m1 = m1
  m2 = m2
  none = none
  Address <- MCAddress
  ZeroAddress = a0
  Nullifier <- MCNullifier
  ZeroHash = zeroHash
  Nonce <- MCNonce
  Measurement <- MCMeasurement
  Tier = {0, 2}
  Validity = {0, 1}
  MaxUint64 = 3
  MaxTime = 3
  NoCredit = none
  Deployer = a1
  MaxKnown = 2
SYMMETRY Symmetry
INVARIANTS
  TypeOK
  OneWalletPerAccount
  WhitelistIsEnumerable
  AttestedBuildsAreKnown
PROPERTIES
  CreditNeedsFreshAcceptedRequest
  RebindOnlyAfterExpiry
  ImplementsLedger
  EntriesAreStable
CHECK_DEADLOCK FALSE
