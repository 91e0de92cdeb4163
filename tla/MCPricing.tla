------------------------------- MODULE MCPricing -------------------------------
(***************************************************************************)
(* Accounts of up to two entries.  The tickers cover every case of both    *)
(* normalisations: listed ones, a prefix that is stripped, one stripped by *)
(* mistake (XTZ, LDO), two of one symbol, and one without a feed.  Prices  *)
(* put two units of a symbol exactly on the lower bound of each band.      *)
(***************************************************************************)
EXTENDS Pricing

MCTicker == [kraken  |-> {"XXBT", "XBT", "XETH", "XXRP", "XLTC", "ZEUR", "XTZ", "ZUSD"},
             binance |-> {"ETH", "BETH", "LDETH", "WBTC", "LDO"},
             other   |-> {}]

MCUnderlying ==
  [kraken  |-> [XXBT |-> "BTC", XBT |-> "BTC", XETH |-> "ETH", XXRP |-> "XRP",
                XLTC |-> "LTC", ZEUR |-> "EUR", XTZ |-> "XTZ", ZUSD |-> "USD"],
   binance |-> [ETH |-> "ETH", BETH |-> "ETH", LDETH |-> "ETH", WBTC |-> "BTC",
                LDO |-> "LDO"]]

MCPrice == [BTC |-> 125000, ETH |-> 5000, XRP |-> 500, LTC |-> 25000,
            EUR |-> 1, XTZ |-> 2, LDO |-> 600, USD |-> 1]
=============================================================================
