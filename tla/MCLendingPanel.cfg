SPECIFICATION PanelSpec
CONSTANTS
  a0 = a0
  a1 = a1
  a2 = a2
  Address <- MCAddress
  ZeroAddress = a0
  Nullifier = {n1}
  ZeroHash = zeroHash
  Nonce = {r1, r2}
  Measurement = {m1}
  Tier = {0, 2, 5}
  Validity = {1}
  MaxUint64 = 4
  MaxTime = 2
  Pool = pool
  Deployer = a1
  TierCap <- MCTierCap
  Amount = {1}
  FAUCET_AMOUNT = 1
  PoolFunds = 2
  MaxSupply = 3
  PageWallet = a1
  Slot = {s1}
  MaxResets = 1
SYMMETRY Symmetry
INVARIANTS
  LoanIsShown
  DebtBelowTopCap
  PoolIsWhole
PROPERTIES
  DebtNeedsBoundAccount
