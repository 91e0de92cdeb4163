SPECIFICATION PricingSpec
CONSTANTS
  Ticker <- MCTicker
  Underlying <- MCUnderlying
  Quantity = {0, 1, 2}
  Unparsable = unparsable
  UsdPrice <- MCPrice
  Feed = {"BTC", "ETH", "XRP", "LTC", "XTZ", "LDO"}
  MaxEntries = 2
  MaxStubbed = 1
INVARIANTS
  NeverOverstates
  RecognisedAccountsGetTheirBand
CHECK_DEADLOCK FALSE
