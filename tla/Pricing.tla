-------------------------------- MODULE Pricing --------------------------------
(***************************************************************************)
(* From an exchange account to a tier, inside the enclave                  *)
(* (extension/go/internal/vaultproof: exchange.go, kraken.go, binance.go,  *)
(* ftso.go, tier.go): query the endpoint, fold its entries into balances   *)
(* per symbol, price each symbol at FTSO and reduce the sum to a band.     *)
(*                                                                         *)
(* One valuation is followed.  Go iterates over maps in any order, so the  *)
(* entries and the symbols are taken in any order.  Quantities and prices  *)
(* are natural numbers of some unit; a quantity that does not parse is     *)
(* Unparsable.  Signing, HTTP and JSON are the failures of FetchFails.     *)
(***************************************************************************)
EXTENDS Integers, Sequences, FiniteSets, Functions

CONSTANTS Ticker,       \* exchange -> the asset tickers it uses
          Underlying,   \* external: exchange -> ticker -> the symbol it is worth
          Quantity,     \* numbers in an exchange's answer
          Unparsable,   \* a string that is no number
          UsdPrice,     \* external: symbol -> its USD price
          Feed,         \* external: symbols FTSO has a feed for
          MaxEntries,   \* bound on the entries of an account
          MaxStubbed    \* bound on the entries of a stub's answer

PricingAssumption ==
  /\ \A e \in DOMAIN Ticker : /\ IsFiniteSet(Ticker[e])
                              /\ \A t \in Ticker[e] : Underlying[e][t] \in DOMAIN UsdPrice
  /\ Quantity \subseteq Nat
  /\ Unparsable \notin Quantity
  /\ \A s \in DOMAIN UsdPrice : UsdPrice[s] \in Nat
  /\ Feed \cup {"USD"} \subseteq DOMAIN UsdPrice
  /\ UsdPrice["USD"] = 1
ASSUME PricingAssumption

VARIABLES exchange,     \* the exchange the credential names
          overridden,   \* an endpoint override is configured
          onHardware,   \* the launcher socket is there
          account,      \* external: what the user holds, entry by ticker
          phase,        \* "query", "value", "done" or "failed"
          entries,      \* entries of the answer not yet folded in
          balances,     \* symbol -> quantity
          skipped,      \* symbols whose price could not be read
          priced,       \* symbols added to the total
          total,        \* USD
          tier

environment == <<exchange, overridden, onHardware, account>>
pricingVars == <<environment, phase, entries, balances, skipped, priced, total, tier>>

SupportedExchanges == {"kraken", "binance"}

Parsed == Quantity \cup {Unparsable}

\* Kraken gives a number per ticker, Binance what is free and what is locked.
Entry(e) == IF e = "kraken" THEN Parsed ELSE [free : Parsed, locked : Parsed]

Accounts(e, n) ==
  UNION {[T -> Entry(e)] : T \in {S \in SUBSET Ticker[e] : Cardinality(S) <= n}}

Empty == [s \in {} |-> 0]

PricingTypeOK ==
  /\ exchange \in DOMAIN Ticker
  /\ {overridden, onHardware} \subseteq BOOLEAN
  /\ phase \in {"query", "value", "done", "failed"}
  /\ DOMAIN entries \subseteq Ticker[exchange]
  /\ \A s \in DOMAIN balances : balances[s] \in Nat \ {0}
  /\ skipped \cup priced \subseteq DOMAIN balances
  /\ skipped \cap priced = {}
  /\ total \in Nat
  /\ tier \in 0..4

PricingInit ==
  /\ exchange \in DOMAIN Ticker
  /\ overridden \in BOOLEAN
  /\ onHardware \in BOOLEAN
  /\ account \in Accounts(exchange, MaxEntries)
  /\ phase = "query"
  /\ entries = Empty
  /\ balances = Empty
  /\ skipped = {}
  /\ priced = {}
  /\ total = 0
  /\ tier = 0

-----------------------------------------------------------------------------
\* Query.

\* Variant: the override is looked at when the process starts, off hardware.
OverrideRefused_AtBoot == FALSE

\* exchangeOverrideError.
OverrideRefused == overridden /\ onHardware

\* FetchBalances up to the parsed answer.  The canonical endpoint answers with
\* the account; a stub behind an override answers with what it likes.
FetchBalances ==
  /\ phase = "query"
  /\ exchange \in SupportedExchanges
  /\ ~OverrideRefused
  /\ entries' \in IF overridden THEN Accounts(exchange, MaxStubbed) ELSE {account}
  /\ phase' = "value"
  /\ UNCHANGED <<environment, balances, skipped, priced, total, tier>>

\* An unsupported exchange, a refused override, a network error, a status that
\* is not 200, an answer that is not JSON or that rejects the credential.
FetchFails ==
  /\ phase = "query"
  /\ phase' = "failed"
  /\ UNCHANGED <<environment, entries, balances, skipped, priced, total, tier>>

-----------------------------------------------------------------------------
\* Fold the entries into balances.

TrimPrefix(s, prefix) ==
  IF Len(s) >= Len(prefix) /\ SubSeq(s, 1, Len(prefix)) = prefix
  THEN SubSeq(s, Len(prefix) + 1, Len(s))
  ELSE s

\* normaliseAsset.
normaliseAsset(asset) ==
  CASE asset \in {"XXBT", "XBT"} -> "BTC"
    [] asset = "XETH"            -> "ETH"
    [] asset \in {"ZUSD", "USD"} -> "USD"
    [] asset \in {"ZEUR", "EUR"} -> "EUR"
    [] asset = "XXRP"            -> "XRP"
    [] asset = "XLTC"            -> "LTC"
    [] OTHER                     -> TrimPrefix(TrimPrefix(asset, "X"), "Z")

\* normaliseBinanceAsset, of tickers that are upper case already.
normaliseBinanceAsset(asset) ==
  CASE asset \in {"BETH", "WBETH"} -> "ETH"
    [] asset \in {"WBTC", "BTCB"}  -> "BTC"
    [] OTHER -> IF Len(asset) > 2 THEN TrimPrefix(asset, "LD") ELSE asset

\* The symbol an adapter makes of a ticker.
Symbol(e, ticker) ==
  IF e = "kraken" THEN normaliseAsset(ticker) ELSE normaliseBinanceAsset(ticker)

\* balances with the symbol set to a quantity.
With(symbol, quantity) ==
  [s \in DOMAIN balances \cup {symbol} |->
     IF s = symbol THEN quantity ELSE balances[s]]

Held(symbol) == IF symbol \in DOMAIN balances THEN balances[symbol] ELSE 0

\* Kraken: zero and unparsable entries are passed over, and the entry replaces
\* what another ticker of the same symbol had put there.
KrakenFolded(ticker) ==
  IF entries[ticker] \in {0, Unparsable}
  THEN balances
  ELSE With(normaliseAsset(ticker), entries[ticker])

\* Variant: the entry replaces the earlier one, as on Kraken.
BinanceFolded_Replaces(ticker) ==
  LET e == entries[ticker]
  IN  IF Unparsable \in {e.free, e.locked} \/ e.free + e.locked = 0
      THEN balances
      ELSE With(normaliseBinanceAsset(ticker), e.free + e.locked)

\* Binance: free and locked count, and tickers of one symbol add up.
BinanceFolded(ticker) ==
  LET e == entries[ticker]
      symbol == normaliseBinanceAsset(ticker)
  IN  IF Unparsable \in {e.free, e.locked} \/ e.free + e.locked = 0
      THEN balances
      ELSE With(symbol, Held(symbol) + e.free + e.locked)

FoldEntry(ticker) ==
  /\ phase = "value"
  /\ ticker \in DOMAIN entries
  /\ entries' = Restrict(entries, DOMAIN entries \ {ticker})
  /\ balances' = IF exchange = "kraken" THEN KrakenFolded(ticker) ELSE BinanceFolded(ticker)
  /\ UNCHANGED <<environment, phase, skipped, priced, total, tier>>

-----------------------------------------------------------------------------
\* Price and reduce.

\* Every entry has been folded in and this symbol is next.
Valuing(symbol) ==
  /\ phase = "value"
  /\ DOMAIN entries = {}
  /\ symbol \in DOMAIN balances \ (skipped \cup priced)

\* PriceUSD answers 1 for dollars without a call.
HasPrice(symbol) == symbol \in Feed \cup {"USD"}

\* External: a symbol with a feed is what the ticker it was made of stands for.
\* The adapters' prefix rules do not guarantee it; that they never name the
\* feed of another asset is a fact about tickers and feeds.
ASSUME TickersAssumption ==
  \A e \in SupportedExchanges \cap DOMAIN Ticker : \A t \in Ticker[e] :
    HasPrice(Symbol(e, t)) => Symbol(e, t) = Underlying[e][t]

AddValue(symbol) ==
  /\ Valuing(symbol)
  /\ HasPrice(symbol)
  /\ total' = total + balances[symbol] * UsdPrice[symbol]
  /\ priced' = priced \cup {symbol}
  /\ UNCHANGED <<environment, phase, entries, balances, skipped, tier>>

\* ValueUSD passes over a symbol whose feed does not exist or whose call fails,
\* the deadline shared with the exchange query included.
SkipAsset(symbol) ==
  /\ Valuing(symbol)
  /\ symbol # "USD"
  /\ skipped' = skipped \cup {symbol}
  /\ UNCHANGED <<environment, phase, entries, balances, priced, total, tier>>

TierForUSD(usd) ==
  CASE usd < 1000                      -> 0
    [] usd >= 1000 /\ usd < 10000      -> 1
    [] usd >= 10000 /\ usd < 50000     -> 2
    [] usd >= 50000 /\ usd < 250000    -> 3
    [] usd >= 250000                   -> 4

Reduce ==
  /\ phase = "value"
  /\ DOMAIN entries = {}
  /\ DOMAIN balances = skipped \cup priced
  /\ tier' = TierForUSD(total)
  /\ phase' = "done"
  /\ UNCHANGED <<environment, entries, balances, skipped, priced, total>>

PricingNext ==
  \/ FetchBalances
  \/ FetchFails
  \/ \E ticker \in DOMAIN entries : FoldEntry(ticker)
  \/ \E symbol \in DOMAIN balances : AddValue(symbol) \/ SkipAsset(symbol)
  \/ Reduce

PricingSpec == PricingInit /\ [][PricingNext]_pricingVars

-----------------------------------------------------------------------------
\* What the account is worth, computed without the code's normalisation: each
\* entry at the price of what its ticker stands for.

Worth(ticker) ==
  LET e == account[ticker]
      amounts == IF exchange = "kraken" THEN <<e>> ELSE <<e.free, e.locked>>
  IN  IF Unparsable \in Range(amounts)
      THEN 0
      ELSE SumFunction(amounts) * UsdPrice[Underlying[exchange][ticker]]

AccountWorth == SumFunction([t \in DOMAIN account |-> Worth(t)])

\* The bands of web/lib/config/tiers.ts lines 14-20, by their lower bounds.
BandOf(usd) == Cardinality({floor \in {1000, 10000, 50000, 250000} : floor <= usd})

(***************************************************************************)
(* ftso.go lines 147-149: what cannot be priced may only understate a      *)
(* portfolio.  Whatever the order of the maps, the feeds that fail and the *)
(* tickers nobody recognises, the tier is never above the band of what the *)
(* account holds - unless a stub stands in for the exchange, which         *)
(* exchange.go lines 10-23 allow off hardware only.                        *)
(***************************************************************************)
NeverOverstates ==
  (onHardware \/ ~overridden) => tier <= BandOf(AccountWorth)

\* Every ticker of the account means what the adapter makes of it, no price was
\* missing, and on Kraken no two tickers are one symbol.
FullyRecognised ==
  LET symbol == [t \in DOMAIN account |-> Symbol(exchange, t)]
  IN  /\ ~overridden
      /\ skipped = {}
      /\ \A t \in DOMAIN account : symbol[t] = Underlying[exchange][t]
      /\ exchange = "kraken" => IsInjective(symbol)

(***************************************************************************)
(* And it is not understated for nothing: an account whose tickers are all *)
(* recognised, read while every feed answers, gets the band of its full    *)
(* worth.  Locked funds count, and staked and wrapped variants are folded  *)
(* onto their underlying (binance.go lines 109-111 and 129-136).           *)
(***************************************************************************)
RecognisedAccountsGetTheirBand ==
  phase = "done" /\ FullyRecognised => tier = BandOf(AccountWorth)

=============================================================================
