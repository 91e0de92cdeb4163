# VaultProof in TLA+

VaultProof lets the owner of an exchange account borrow on chain against a *solvency tier*: an
enclave reads the account with a sealed API credential, reduces what it holds to one of five bands
(0 to 4), and only the band is published. The repository also holds the scripts it started from, which
drive a smart account on Flare with XRPL payments. This directory models both in TLA+, checks them with
TLC, and proves with TLAPS the safety properties of every part: the contracts, the enclave and its
pricing, the bridge, the browser, the scripts and the preflight of minting limits.

A module follows the source file named in its header. `PROJECT.json` gives the lines behind each
definition (`map`), the runs, the mutants that each property is known to catch, the hazards the
properties are aimed at, and the theorems.

    cd tla
    tlc -config MCVaultProofContracts.cfg MCVaultProofContracts     # a run
    tlapm VaultProofContractsProofs.tla                             # proofs

## 1. The system

    browser  --(1) anchor hash-->  VaultProofInstructionSender --(2) instruction-->  Flare TEE machines
       |                                        ^    |
       |                    (5) deliverAttestation   +--submitAttestation--> SolvencyRegistry <--tierOf-- LendingPool
       |                                        |                                  |
       +--(3) ciphertext-->  enclave <--(4) action / answer-- executor      isWhitelisted
             GET /quote  <--   |                  (demo bridge)                    v
                               +--> exchange, FTSO feeds               TeeMeasurementRegistry

The browser fetches a quote from the enclave, checks it, seals the credential to the quote's key and
measurement, anchors the hash of the ciphertext on chain and only then posts the ciphertext. An
instruction for that hash makes the enclave open the ciphertext, query the exchange, price the
balances and answer with tier, nullifier and measurement; the executor writes the answer on chain.

Beside it, and not connected to it, `reference/flare-viem-starter` drives a *personal account* on Flare:

    script  --Payment with memo-->  XRPL  --proof (FDC)-->  AssetManagerFXRP  -->  personal account
       |                                        ^                                     nonce, holdings
       +--mints it itself, or waits for a relayer or the operator to do so

A memo carries a user operation for one nonce (FE, FF), tells the account to ignore an earlier payment
(E0) or raises the nonce (E1). A payment whose operation cannot run is stuck; two scripts recover it.

### 1.1 Components

| Component (source) | State | Operations | Talks to | What makes it correct |
|---|---|---|---|---|
| `SolvencyRegistry.sol` | attestation per wallet, wallet per nullifier, spent nonces | `submitAttestation`, `tierOf` | reads the whitelist; written by the sender; read by the pool | an exchange account backs one live wallet; a nonce is honoured once and only from an accepted build; an account is rebound only from a wallet without credit |
| `TeeMeasurementRegistry.sol` | owner, flag per build, append-only array | `list`, `delist`, `transferOwnership` | read by the registry and, through the array, by the browser | everything accepted can be enumerated; indices stay valid |
| `VaultProofInstructionSender.sol` | owner, executor, registry, two Flare registries, latched extension id | `submitRequest`, `deliverAttestation`, setters, `setExtensionId` | Flare's registries, SolvencyRegistry | an instruction is for an anchored request under an extension of this contract; with routing wired no anchor goes without one |
| `LendingPool.sol`, `MockUSDC.sol` | debts; balances, allowances | `borrow`, `repay`; `faucet`, `mint`, ERC-20 calls | reads `tierOf`, moves tokens | debt only against a live attestation of an account bound to the borrower, within the cap; the pool is whole |
| Enclave process (`extension/go/internal`) | key pair and nullifier secret per process, measurement, pending ciphertexts, counter, dialled feed | `/quote`, `/sealed`, `/action`, `/state` | launcher, exchange, chain | a ciphertext is used once; an attestation carries the identity it was sealed to; signed quotes stay good; the counter is exact |
| Exchange adapters and pricing (`vaultproof/{exchange,kraken,binance,ftso,tier}.go`) | none between calls | query, normalise, fold, price, reduce | exchange, FTSO | never overstates; a recognised account gets its band |
| Demo bridge (`cmd/demo-bridge`) | next block, seen hashes, attempts, all in memory | poll, call the enclave with retries, deliver | chain, enclave | no event passed over; what is written was anchored; no request blocks the queue |
| Browser pipeline (`web/lib/store`, `web/components/app`, `web/lib/adapters/live`) | one store, one ciphertext in a module variable, runs in flight, mounted components | the five stages, retries, start over, reset | wallet extension, enclave, chain | seals only to a quote it checked; ciphertext after its hash; hash anchored once; ciphertext dropped |
| Quote verification (`web/lib/attestation`) | the key set of the page and the fetch under way for it | quote shape, signature and claims, whitelist; verify again | Google's key set, the whitelist | what passes is genuine; a failed fetch fails only who waited for it |
| Lending panel (`LendingPanel.tsx`, borrow half of `live/chain.ts`) | debt and cap shown, hash of the loan, reads and loans under way | refresh, borrow; reset of the page | LendingPool | what it shows is no older than the loan |
| Smart account scripts (`reference/flare-viem-starter/src`, `utils/`) | none; locals of a run, the hashes it prints | pay with a memo, prove, mint, confirm, recover, fast-forward | XRPL, FDC, AssetManagerFXRP, relayer, operator, other minters | what a script reports happened; a recovery ends with its payment minted |
| Application scripts (`roulette`, `morpho`, `flare-lending`, `layer-zero`, `usdt0`, `fassets`, ... there) | none | sequences of the same steps, and contract calls | the personal account, bridges, vaults | the same; no loan is paid out twice |
| Direct minting limits (`fassets/direct-minting-limits.ts`) | none; replays the limiter's windows | preflight of a mint | AssetManagerFXRP | the replayed volume is the limiter's; what it calls safe is not delayed, and what exceeds that is |
| Browser HPKE, mock adapters, server start-up and CORS, deployment scripts, presentation, other starter code and tooling | - | - | - | not modelled, section 7 |

### 1.2 What is hard

* **Long sequences of legal calls**: attest, expire, rebind, renew (registry); borrow, expire,
  downgrade, repay (pool); wire, register, latch, rewire (sender); list, delist, relist (whitelist);
  pay, lose the mint, skip the memo, raise the nonce, resume (smart account).
* **Reads that go stale across a wait**: the identity a `/action` or `/quote` handler read before
  waiting for the exchange or launcher; the whitelist at submission; the browser's baseline of the
  enclave's counter; the head of the chain during a round of the bridge; the account's nonce between
  reading it and the payment; the latest event of a kind, which may be somebody else's.
* **Interleaving**: handlers of the enclave on several goroutines, asynchronous runs of the browser
  that outlive their component and even a reset of the page, verifications that share one fetch, two
  scripts on one XRPL wallet beside a relayer.
* **Crashes**: the enclave and the bridge keep everything in memory; a script killed between two payments
  is taken up again from the hashes it printed.
* **Retries and partial failure**: ten attempts of the bridge against a ciphertext that is still on
  its way; a ciphertext deleted before anything is done with it; feeds that fail one by one.
* **Boundaries**: uint64 sums and differences, half-open bands, tier 0, validity 0, a window that ends in
  this very second, a cap of 0 that means none.

`PROJECT.json` lists these at their lines under `hazards`.

## 2. Modules

| Module | Models | Extends / instantiates |
|---|---|---|
| `SolvencyLedger` | the abstract promise: credit per wallet, requests honoured | |
| `SolvencyRegistry` | `SolvencyRegistry.sol`, time, the whitelist as a set | |
| `SolvencyRegistryRefinement` | refinement mapping registry -> ledger | extends `SolvencyRegistry`, instantiates `SolvencyLedger` |
| `TeeMeasurementRegistry` | `TeeMeasurementRegistry.sol` | |
| `VaultProofContracts` | the two contracts composed | extends `SolvencyRegistry`, instantiates `TeeMeasurementRegistry` |
| `InstructionSender` | `VaultProofInstructionSender.sol` | instantiates `SolvencyRegistry` |
| `LendingPool` | `LendingPool.sol`, `MockUSDC.sol` | instantiates `SolvencyRegistry` |
| `LendingPanel` | the page's panel, composed with the pool | extends `LendingPool` |
| `AttestationService` | the abstract promise of the enclave: a key, ciphertexts that move, attestations | |
| `Enclave` | the extension process | |
| `EnclaveRefinement` | refinement mapping enclave -> service | extends `Enclave`, instantiates `AttestationService` |
| `Pricing` | one valuation of an account | |
| `DemoBridge` | the bridge's watch loop | |
| `WebPipeline` | store, stages and live adapters of the browser | |
| `QuoteVerification` | the three checks of a quote and the shared key fetch | |
| `SmartAccounts` | XRPL wallet, personal account, and the steps a script can take | |
| `ScriptTypes` | what the locals of a script mean before each of its steps | extends `SmartAccounts` |
| `LendingPayouts` | how far a lending script is on its way to the payout of MPT | extends `ScriptTypes` |
| `StarterScripts` | the 41 scripts as programs of `SmartAccounts` | joined with their types and phases by `MCSmartAccounts` |
| `DirectMintingLimits` | the preflight beside the limiter it predicts | |
| `SumTheorems` | sums over a finite set, for the proofs | |
| `VaultProofContractsProofs`, `LendingPoolProofs`, `InstructionSenderProofs` | theorems of the contracts and the panel, section 5 | extend what they are about |
| `EnclaveProofs`, `DemoBridgeProofs` | theorems of `Enclave` and `Pricing`; of the bridge | the same |
| `BrowserProofs`, `StarterProofs` | theorems of `WebPipeline` and `QuoteVerification`; of `SmartAccounts` and `DirectMintingLimits` | the same |
| `MC*` | instances for TLC, section 3 | |

Names are the source's where TLA+ allows. Definitions with a suffix (`Accepted_Replayable`) are
*variants*: plausible bugs of the definition after them, used only to confirm that a property can
fail. They are part of no specification.

### 2.1 Contracts

A transaction is one atomic step and a revert is a disabled action: the EVM undoes all of it. Every
`require`/`revert` is a conjunct of the guard; every storage write is in the step.

`SolvencyRegistry`: `attestations`, `nullifierOwner`, `usedNonce` are the three mappings.
`SubmitAttestation(s)` is `submitAttestation`, whose reverts are `Accepted`: spent nonce, build not
whitelisted, `NullifierBound`, and the overflow of `uint64(block.timestamp) + validForSeconds`.
`Tick` moves `block.timestamp`; `TierOf` is `tierOf`. `Relist` stands for whatever the whitelist's
owner does; `VaultProofContracts` replaces it by the real transactions `List`, `Delist` and
`TransferOwnership`, so the registry's `whitelisted` *is* the whitelist's.

`InstructionSender`: `SubmitRequest` emits the event (`anchored`) and, when both of Flare's
registries are set, dispatches the instruction (`dispatched`) under the latched id; with routing set
and no id it reverts. `SetExtensionId` is the scan over public extensions. Flare's registries are
external: per `Manager`, which registered extensions name this contract. `DeliverAttestation` is the
executor's call and contains the registry's `SubmitAttestation`.

`LendingPool`: `Borrow` and `Repay` include the token's `transfer`/`transferFrom` with their own
failure conditions. `Mint`, `Faucet`, `Transfer`, `Approve` are the token. Addresses other than the
pool hold and move tokens between any two steps, the pool included as a recipient.

`LendingPanel` puts the page in front of it. `Open` mounts the panel and `BorrowReturns` re-runs its
effect: both start a read (`ReadTier`, `ReadDebt`, `ReadLands`: two calls and an answer) and disown the
one under way (`Kept`). `OnBorrow`, `Mined`, `BorrowReturns`, `BorrowFails` are a loan, which runs on after
`Reset` has closed the panel. Everybody else's transactions, and those of the page's wallet elsewhere,
are `Next` of `LendingPool`.

### 2.2 Enclave

One step per stretch of a handler between two points where another goroutine can get in: a lock of
`mu`, an operation on the `sync.Map`, a call outside. `/action` is `Take` (LoadAndDelete) or
`Refuse`, `ReadMeasurement`, `Query` (unseal, then the exchange), `Price`, `Count`, `Respond`;
`/quote` is `QuoteRead`, `QuoteAdopt` (the launcher's token could be read; the identity is
adopted) and `QuoteRespond`; `/sealed` is `StoreSealedBlob`. `Restart` ends the process: everything
but what is outside is new, handlers in flight are lost. Encryption is its contract: a ciphertext
opens with the key and the info it was sealed to (`Opens`). A key pair and a nullifier secret are
the number of the process that drew them. `Price` takes a tier or a failure; `Pricing` says which.

`AttestationService` is what all this promises, with no handler in sight. A quote is a promise; a ciphertext
sealed to one waits in a slot, is taken by one instruction, and is attested under what it was sealed for or
dropped. `EnclaveRefinement` maps to it: a handler holds its ciphertext from `Take` to `Count`, and the
attestation is built from the handler's *own* process, identity and account. The service copies the ciphertext
instead, so the step `Count` implements its `Attest` only if the two agree. `Respond` hands the attestation
over; a restart forgets those not handed over and leaves the others as they are.

### 2.3 Pricing

Follows one valuation: `FetchBalances` with the endpoint gate, `FoldEntry` in any order of the Go map with
each adapter's normalisation, `AddValue` or `SkipAsset` per symbol in any order, `Reduce`. What a
ticker is *really* worth (`Underlying`, `UsdPrice`) is external, so the properties compare the code's
tier with `BandOf(AccountWorth)`, computed without the code's normalisation. Tickers are strings
here, because their prefixes are what the adapters act on. That a normalised symbol which has a feed names
the asset its ticker stands for is a fact about tickers and feeds, not about the code: `TickersAssumption`.

### 2.4 Demo bridge

`Boot`/`Crash`, `Poll`, `Pick`, `EndRound` are the loop of `runWatch`; `Attested`, `NotPending`,
`CallFails` the outcomes of the call to the enclave inside `handle`; `Deliver`, `DeliveryFails` those
of the transaction. The environment mines blocks, with or without an event, posts ciphertexts and restarts the
enclave. A call may also fail after having taken effect. A failing read of the chain changes nothing
and is a stutter. One read asks for all blocks since the last round, and the node answers for at most `MaxRange` of them:
the bridge does not split the range, so once it is longer (`RangeTooLong`) every read fails until the process is started again.

### 2.5 Browser

`store` is the zustand store (the fields that steer it), `blob` the ciphertext in `sealed.ts`, `runs`
the asynchronous functions under way: stage -> slot -> where it awaits and what it captured.
`MountedIn` computes from the store which stages are rendered, and `Rendered` applies what React
does when a component goes away: its ref is gone and its timer cleared, its promises are not. Every
await may throw (`VerifyFails`, `SealFails`, `AnchorFails`, `ProcessingFails`). A sealed request is
a number: ciphertext and hash are one thing.

`WebPipeline` lets a verification pass or fail at will; `QuoteVerification` computes the verdict. A token
is its header, its claims and who signed it, and a signature verifies when that is the key imported for
it with the header's algorithm. `Begin`, `CheckQuoteShape`, `CheckSignatureBinding`, `FetchJwks`,
`VerifySignature` and `CheckWhitelist` are one verification, cut at its awaits; `Discovered`, `KeysArrive`
and `FetchFails` the fetch all verifications of a page share. Meanwhile time passes, keys rotate and the
build is delisted.

### 2.6 Smart account scripts

A script is data: the sequence of steps its main function awaits. A step's verb is a helper
(`NoteNonce`, `ReadNonce`, `Pay`, `Watch`, `Await`, `Prove`, `Mint`, `Confirm`, `Used`, `Diagnose`,
`SetGoal`, `Until`, ...), and `SmartAccounts` has one action per verb; `IfHas` and
`IfLacks`, the conditions of the source, skip steps. A helper that throws ends the run as failed. `StarterScripts`
writes the 41 scripts out, with the helpers of their directories.

`nonce`, `ledger` (the wallet's payments), `log` (events on Flare) and `holds` (what account and wallets own)
are the world, `funds` the payments the wallet can still make. What a payment does when its proof is
presented is `Settle`, the contract's side, taken from how the scripts use it. `Relay`, `Operate`,
`AgentMint`, `Deposit`, `RivalReserves` and `Deliver` are everybody else, who may act between any two steps;
`Crash` ends a recovery at any step after it began, which is also what a refused request, a timeout or a
proof that is not served does, and `Resume` starts it again with the hashes it printed; a script that
cannot be resumed may stop at any step anyway, by taking no more. A batch of user calls is what it takes and gives, as a whole.

`ScriptTypes` says what the locals of a script mean before a step (which kind of payment is in hand, whether the
nonce it read is still the one that payment carries, whose receipt it holds, whether the stuck payment is known to be minted),
what each step needs of that (`Needs`) and what it leaves (`After`). A program has types when every step finds
what it needs. `MCSmartAccounts` infers them for the 41 scripts (`StarterTypes`) and TLC checks that they fit.

`LendingPayouts` does the same for the MPT that the vault pays out for a bridged loan. Its phases say, before each step,
whether the run's own user operations all lie behind the nonce (`clear`, `numbered`, `sent`), whether the one in hand bridges
(`bridging`), whether it is known to have run (`backed`) and whether the vault has paid (`paid`). `PhasedBy` asks that a program pays only where
it is `backed`, and that no other step gives MPT or takes what was bridged; TLC checks it for the 41 scripts (`StarterPhases`).

### 2.7 Direct minting limits

The limiter writes its windows only when a mint touches them, and the script replays the time since.
`written` is what the script reads, zeros until the first mint, and `ComputeWindowState` its replay; `live` is the same window,
aligned to the clock and slid at each boundary, by `Tick`. `Delayed` is the script's forecast of an execution time in the future,
`SafeRemaining` its largest amount without delay. `DirectMint`, which counts a mint above the cap as well, and `Unblock` are the limiter's writes.

## 3. Runs

| Run | Question | Instance | Distinct states |
|---|---|---|---|
| `contracts` | Does the registry, with its real whitelist, keep its promises and implement the ledger? | 3 addresses (one is zero), 2 accounts, 3 nonces, 2 builds, tiers {0, 2}, validity {0, 1}, time 1..3 = uint64 limit, array of 2 | 1 031 000 |
| `pool` | Is debt backed, capped and accounted for, and does the panel show it? | 2 borrowers, 1 account, 2 nonces, tiers {0, 2, 5}, caps 0, 1, 2, loans of 1, time 1..2, the page of one of them with one reset | 1 230 000 |
| `sender` | Are instructions anchored, and routed anchors dispatched, under any wiring? | 2 callers, 2 managers with up to 2 extensions each | 650 000 |
| `enclave` | Do racing handlers keep ciphertexts, identities, quotes and the counter right, and implement the service? | 2 instructions, 2 quote handlers, 1 hash with 2 deliveries, 2 processes | 1 260 000 |
| `pricing` | Is a tier ever too high, or too low for no reason? | every account of up to 2 entries over 8 Kraken and 5 Binance tickers, 3 quantities and an unparsable one, any order, any feeds failing | 472 000 |
| `bridge` | Is any event passed over or the queue blocked; is what is written right? | 2 wallets, 2 hashes, head up to 4, 3 events, 2 blocks per read, lookback 1, 2 attempts, 2 starts | 1 458 000 |
| `pipeline` | Does the page seal, anchor, deliver and forget in the right order? | 1 account that comes and goes, 2 quotes, 2 sealed requests, 2 overlapping runs per stage, 1 reset | 664 000 |
| `quote` | Is what passes genuine, and does a failing fetch stay where it belongs? | 2 verifications, 14 kinds of quote, 2 keys one of which comes later, 1 failure, time 0..2 | 341 000 |
| `accounts` | Do the scripts tell the truth, and do recoveries end? | each of 41 scripts alone, with 1 or 8 payments and with none or one of every asset; 12 pairs; 1 fault, 1 other minter | 42 000 |
| `limits` | Is the forecast of a mint right? | windows of 2 and 5 seconds, caps {0, 2, 3}, thresholds {1, 4}, a delay of 3, amounts {0, 1, 2, 4}, a volume up to 8, time from 7 to 18 | 248 000 |

Two more runs, `pipeline_gate` and `quote_hardware`, each end in a violation and belong to section 6.

**What the properties say.** Each stands with its comment in the module. `TypeOK` is checked in
`contracts` and `sender`; that of every module with a run is proved.

* `contracts`: `OneWalletPerAccount` (two wallets are never live from one account),
  `CreditNeedsFreshAcceptedRequest`, `RebindOnlyAfterExpiry`, `WhitelistIsEnumerable`,
  `EntriesAreStable`, `AttestedBuildsAreKnown` (spans both contracts), `ImplementsLedger`.
* `pool`: `DebtNeedsBoundAccount` relates a loan to the registry's binding at that moment;
  `DebtBelowTopCap` is about every sequence of attestations, downgrades and repayments;
  `PoolIsWhole` says that tokens and debts always add up to the funding. `LoanIsShown` says that once the
  panel has refreshed after a loan, the debt it shows was read after that loan, whichever answer comes last.
* `sender`: `InstructionsAreAnchored` (under an extension some registry recorded for this contract, which after a rewiring
  need not be the registry wired), `RoutedAnchorsAreDispatched`.
* `enclave`: `CiphertextIsSingleUse`, `AttestedAsSealed`, `SignedQuotesOpen`, `CountIsExact`, `ImplementsService`.
* `pricing`: `NeverOverstates`, `RecognisedAccountsGetTheirBand`.
* `bridge`: `NoEventSkipped`, `WrittenAsAnchored` and the liveness property `EventsAreHandled`, which excepts a process that
  stopped and one whose next read is longer than the node answers (section 6).
* `pipeline`: `SessionSealsToCheckedQuote`, `CiphertextFollowsAnchor`, `CiphertextDropped` (these
  three until the first reset; section 6 has what happens after one) and `HashAnchoredOnce` (always).
* `quote`: `AcceptedIsGenuine` is what the user takes a pass for, `FailureIsNotCached` says that whoever is
  told that the keys could not be reached asked before that failure, and `EveryCheckEnds` is liveness.
* `accounts`: `ConfirmationsAreTrue` compares what a script reports from a receipt with the payment it names (of a watched
  user operation it only says that one with that nonce ran, and of other watched events nothing),
  `RecoveredIsMinted` and the liveness property `RecoveryFinishes` are about the stuck payment of a recovery,
  `PaysOutWhatWasBridged` about loans paid from the latest event found.
* `limits`: `ReplayAgrees`, and that `SafeRemaining` is exact from both sides: `SafeAmountIsNotDelayed` always,
  `UnsafeAmountIsDelayed` while the windows are in force, capped and touched by a mint (section 6 has why).

**Why the bounds are enough.** They are chosen so that the sequence each property fears fits:

* Expire, rebind to another wallet, and the first wallet coming back needs three nonces, two
  wallets and three timestamps; a validity of 0 writes an attestation that is never live, and time
  equal to `MaxUint64` makes the sum overflow. Tier 0 is a live attestation without credit, which is
  where a check by tier instead of by time goes wrong.
* Relisting a delisted build needs an array of two.
* In the pool two timestamps separate a loan from the expiry of what backed it, tier 5 is out of
  `tierCap`'s range, and the upper cap of 2 is reached by a second loan of 1. One reset and one
  loan under way suffice for a loan of one session to return in the next; a read of before it and one of
  after it may then both be under way if the first is not disowned.
* Two managers with two extensions each let the scan find this contract first, last, twice or not at
  all, before or after the owner rewires.
* Two instructions and two quote handlers are the smallest race; two deliveries let one replace the
  other or arrive after it was taken; one restart separates two processes.
* A valuation treats symbols one at a time, and two entries make every pairwise interaction: one
  symbol twice, one priced and one not. Prices put sums on the lower bound of each band.
* The bridge's head moves four blocks: one for the lookback, two during a round, which are the most the next read can take,
  and a third, which puts them out of reach.
* Two slots per stage let a run from before the reset overlap one from after it.
* Two verifications share a fetch or ask one after the other's failure; the fourteen quotes break one
  condition each, or two that a check could confuse (a signer without a key and a `kid` that matches none).
* A script alone meets the relayer, the operator and another minter at every step. The pairs are those whose
  runs share something: a recovery or a fast-forward beside the payment it is about, two operations
  on one nonce, two reservations, two loans. One fault is a delayed mint or one crash, after each of which
  the script has to be taken up again. A wallet that pays once runs dry inside a recovery, which
  takes two payments.
* Windows of 2 and 5 seconds are skipped up to five times within 11 seconds and fall together and
  apart; both have begun before the first second. An amount of 4 is above both caps and not above the larger threshold, so that
  windows and threshold delay it separately.

Symmetry is declared where only safety and action properties are checked and over values no definition
distinguishes (nonces, nullifiers, builds, managers, handlers, slots, quotes). The addresses are not
symmetric: one of them is the deployer, one is zero.

**Deadlock.** It is checked except in `contracts` (ownership may be given to the zero address and time
ends at `MaxTime`; then nobody can move), `pricing` (a valuation ends), `bridge` (blocks and
starts of the process run out), `quote`, `accounts` (verifications and scripts end) and `limits` (time ends).

**Counters that TLC needs bounded**: `MaxTime`, `MaxKnown`, `MaxExtensions`, `MaxSupply`, `MaxBoots`,
`MaxDeliveries`, `MaxEntries`, `MaxStubbed`, `MaxHead`, `MaxEvents`, `MaxMinted`, `MaxSeals`, `MaxCount`, `MaxResets`,
`MaxFailures`, `MaxFaults`, `MaxRivals`. Each is a guard of the action that moves the counter.
`MaxAttempts`, `Lookback`, `MaxUint64` and `WordSize` are not bounds but constants of the code, at small
values, `MaxRange` is one of the node, and `StartTime` is where the clock begins.

## 4. Fairness

Three modules claim that something happens.

`DemoBridge`, under `FairSpec`: weak fairness of `Poll`, `Pick`,
`EndRound`, `Answers` (the enclave answers, with an attestation or with "not pending") and `Settles`
(the transaction is mined or refused). The first three are the loop of a running process, which is
sequential and has a ticker: a failed read sleeps and tries again, so `Poll` assumes that some read
succeeds among those the node can answer. It is disabled while the range is too long. `Answers` is justified by the 90 second deadline of the call (main.go:334), which ends it with
an answer or, in the model as `CallFails`, without one. `Settles` is an assumption about the chain:
`bind.WaitMined` is called without a deadline (main.go:225), and a transaction that is never mined
stops the watch for good. No fairness is given to failures, crashes, restarts, new blocks
or the browser: a ciphertext may never come, and the property must hold all the same.

`QuoteVerification`: weak fairness of `Step(c)`, the code of a verification between two awaits, and of
`Fetching`: a request of the page is answered or fails. Nothing is assumed of the user, who
starts a verification or tries again, nor of Google.

`SmartAccounts`: weak fairness of `ScriptStep(r)`, since a script is one sequential process that goes on
once what it awaits is there, and of `Resume(r)`: whoever runs a recovery starts it again with the hashes
it printed, as its messages ask. That is an assumption about the user, and what `RecoveryFinishes` promises is to
such a user. Nothing is assumed of the relayer, the operator, the other minters, or of a network that
takes what was bridged further; a crash is never required.

The contracts promise nothing will happen, the enclave answers requests, and in the pipeline and the lending
panel every await may wait for a human: their specifications state safety only.

## 5. Proofs

TLAPS proves these for every value of the constants that meets the assumptions. TLC evaluates each
assumption in a run.

* Contracts: `MeasurementAssumption`, `RegistryAssumption`, `ContractsAssumption`, `PoolAssumption`, `PanelAssumption` and
  `SenderAssumption`: zero is an address, addresses are finitely many (20 bytes), tiers and validities are natural numbers, 0 is a tier,
  time does not outrun uint64, the caps rise from 0.
* `EnclaveAssumption`, `NoBlobAssumption`: handlers are finitely many, some hash exists, no ciphertext is none.
* `PricingAssumption`: an exchange has finitely many tickers, quantities and prices are natural numbers, a dollar is
  worth one. `TickersAssumption`: a symbol with a feed is what its ticker stands for (section 2.3). Without it the
  code could overstate, and nothing in it could tell.
* `BridgeAssumption`: block numbers stay so far below the word size that only the start of the watch can wrap.
* `QuotesAssumption`, `BoundsAssumption`: the shape of a quote, some of Google's keys to begin with.
  `PipelineAssumption`: what stands for "none" is none of the values.
* `SmartAccounts`: the steps of the programs are steps, the scenarios start where a wallet can be. `TypesAssumption`:
  the programs have types. It is what a proof for *every* program needs instead of the 41 at hand.
  `PhasesAssumption`: the programs have phases. `PayoutAssumption`: no route makes MPT or consumes what was
  bridged, and a scenario starts with no more MPT than bridged loans.
* `LimitsAssumption`: windows and the delay are positive, the rest natural numbers, and the clock is past the first window.

**`VaultProofContractsProofs`: the registry.**
`TypeCorrect` (`TypeOK`) is inductive by itself. `OneWalletPerAccount` is not: nothing in it says whom
`nullifierOwner` names, and the check on submission looks only there. The inductive invariant is
`TypeOK /\ LiveWalletIsBound`: the binding names the wallet of every live attestation (`BindingHolds`).
A submission is accepted only if the bound wallet is the submitter or is not live, so moving the
binding takes it from no live wallet; time only shrinks the set of live wallets. From there
`AccountsAreExclusive` follows in one step: two live wallets of one account are both what
`nullifierOwner` names. `CreditIsFreshAndAccepted` and `RebindsFollowExpiry` are the two action
properties. `RegistryImplementsLedger` is the refinement: `SubmissionGrants` shows that a submission is
a `Grant` (or a `Waste`, for the zero address) of the ledger, using the invariant to rule out that the
account backs another; `TimeLapses` that a tick is a `Lapse`; a relisting is a stutter.

**And with its whitelist.**
`ContractsImplementRegistry`: the composition implements `SolvencyRegistry!Spec`, because a transaction
of the whitelist is a `Relist`. All theorems of the registry carry over, `ContractsKeepAccountsExclusive`
among them. `WhitelistStaysEnumerable` and `AttestedBuildsStayKnown` rest on one invariant of both contracts
(`KnownInv`): the array is a sequence, what is whitelisted is in it, and so is the build of every attestation;
the second conjunct is what makes the third one inductive. `IndicesStayValid` is `EntriesAreStable`.

**`LendingPoolProofs`.**
`PoolKeepsRegistry` shows that the pool's behaviours are, for the registry's variables, behaviours of the
registry; `TypeCorrect`, `DebtIsBacked` (`DebtNeedsBoundAccount`) and `DebtIsCapped` (`DebtBelowTopCap`)
then use the registry's `TypeOK` and `LiveWalletIsBound` without proving them again. That no
subtraction in pool or token goes below zero is part of `TypeCorrect`. `PoolStaysWhole` (`PoolIsWhole`) says of every step that it
takes from one wallet's term of the sum what it gives to another or to the pool; `SumExcept` of `SumTheorems` is the fact
about sums behind it. `PanelUsesPool`: what the page does is, for the contracts, a behaviour of the pool, so all of this
holds with the panel in front. `LoansAreShown` (`LoanIsShown`) needs an invariant of the reads (`LoanInv`): once the loan of
the session is known, each read that is still kept began after it, and a closed panel keeps none.

**`InstructionSenderProofs`.**
`SenderKeepsRegistry`: each transaction of the sender is a submission to the registry or leaves it alone.
`DispatchIsAnchored` (`InstructionsAreAnchored`) needs an invariant about an id before it is used
(`SenderInv`): a latched id is one some registry recorded for this contract. It stays so while the owner
rewires, because `extensionId` is written once and registrations only grow (`OwnIdsStay`), and it is an
id of a public extension (`OwnIdsAreIds`), never the 0 that stands for "not latched".
`AnchorIsDispatched` is `RoutedAnchorsAreDispatched`, and `TypeCorrect` joins the sender's types to the
registry's.

**`EnclaveProofs`**, for any number of handlers, hashes, restarts and deliveries (`EnclaveAssumption`,
`NoBlobAssumption`). `HandleEffect`, `TakeEffect`, `RefuseEffect` and `RestartEffect` say once what a step
may change, and the invariants use them:
`IdentityInv` (a signed quote of the running process means that the digest was adopted, and every other
quote is from an earlier process) gives `SignedQuotesStayGood`; `SealInv` (every ciphertext, pending or
taken, was sealed to a served quote, and a handler past unsealing opened it under what it read) gives
`AttestationsAreAsSealed`; `CiphertextIsSingleUse` is inductive with `TypeOK`, by counting the handlers that took a
ciphertext; `CountInv` (a handler in flight belongs to the running process, none to a later one) gives
`CounterIsExact`. `EnclaveImplementsService` is the refinement and needs them together. In
`CountIsAnAttestation`, `SealInv` says that the ciphertext opened, so that its key is the handler's process and
its info the identity read, and `CountInv` that this process is the one running; `HandlersHaveBlobs` keeps a
handler from holding none. The other steps are lemmas named for what they are to the service (`TakeIsATake`,
`FailureIsADrop`, `ResponseHandsOver`, `RestartRenews`); refusals, adopted tokens and a handler's work between
taking and counting are stutters.

**`EnclaveProofs`: pricing**, for any tickers, prices, accounts and orders of the maps. `PricingStaysTyped` comes with the order of the
phases (`PhasesInv`). The other two compare what the balances are worth with what the entries folded into
them are worth (`Value(s)` and `WorthOf(Of(s))`, sums over a part of the account from `SumTheorems`). Folding an
entry adds its worth to the second (`FoldAddsWorth`) and to the first adds the same, or on Kraken puts it in the place of what was
there (`FoldAddsValue`); pricing a symbol adds one to the total and the other to what the priced entries are worth
(`ValueAdds`). Hence `BoundInv`: no balance with a price, and no total, is worth more than the entries in it; with
`TierGrows` and `TierIsBand` this is `TiersNeverOverstate` (`NeverOverstates`). For an account that is recognised both are equal
(`ExactInv`, where on Kraken no entry replaces another), and an entry that left no balance is worth nothing:
`RecognisedAccountsAreTiered` (`RecognisedAccountsGetTheirBand`).

**`DemoBridgeProofs`**, for any chain, queue and number of attempts. `TypeCorrect` carries `InHand`
with it: while a request is dealt with, there is one in hand. What a poll queues is stated once, in
lemmas about `Filter`: every event of the interval and none outside it. `EventsAreFollowed` (`NoEventSkipped`)
needs two invariants: `ChainInv` (no event is above the head, and no round looks past it) and `RoundInv` (during
a round every event up to its end has been seen or is still in the batch). Without the second the end of a round could
move `from` past an event nobody handled. `DeliveriesAreAnchored` (`WrittenAsAnchored`) follows
requests from the event to the batch to the chain (`DeliveryInv`), using that events and answers are never
taken back (`RecordsGrow`).

**`BrowserProofs`: the pipeline**, for any number of overlapping runs per stage. `PipelineStaysTyped` carries the shape of every run (`RunsTyped`):
what it captured fits where it waits. `HashesAnchoredOnce` (`HashAnchoredOnce`) holds whatever is reset, and nothing in it
says who may still sign. `OnceInv` does: nothing runs before an account is connected (`WalletFirst`); requests are numbered as they
are sealed (`InOrder`); a request still being animated is nowhere else (`Unused`); while the anchor stage may start
a run, the request it would anchor is neither on the chain nor with a run the stage has forgotten (`Spent`); hence each request is with at most one
run or in one transaction (`Once`). The three properties of a session hold until the first reset, and
fail after one (section 6). `SessionInv` is why: without a reset every run under way is the mounted one of the stage the
store is at (`RunsInSession`), so that what it captured is still what the store and the holder say (`Held`), and
`SessionsSealToCheckedQuotes`, `CiphertextsFollowAnchors` and `CiphertextsAreDropped` are parts of `Held`.

**`BrowserProofs`: quotes**, for any number of verifications, quotes and keys. `GenuineInv` says what the
checks passed so far establish at each stage of one (`EstablishedBy`), and `VerifiedIsSigned` that a signature which verifies
names a key the page holds, which is one of Google's whenever it was fetched: hence
`PassedQuotesAreGenuine`. `FailuresAreForgotten` follows from `FailureInv`: whoever waits asked no later than the failure
that answers it. `ChecksStayTyped` is the type invariant.

**`StarterProofs`: the scripts**, for any programs that have types (`ScriptTypes`), any runs beside each other, any relayer, operator and other
minter. `InvHolds` is the inductive invariant. Of the chain it says (`ChainInv`) that what is recorded of a payment
is what happened: an E0 that ran has set its mark, an E1 that ran has raised the nonce, a user operation is
announced only for a nonce that ran. Of each run it says (`RunOK`) that its locals mean what the type of its next step
says (`HasType`). A step of the run itself leaves what `After` says; a step of
anybody else keeps every type because the chain only grows (`Grows`: payments stay, what was minted stays
minted, marks stay set), which is why the types state only facts that last. A run that crashed keeps what the printed hashes are
enough for (`Resumable`), and the type of the step it is taken up at asks for no more. `ScriptsStayTyped` is
`TypeOK`, which no run checks, with the types of the runs; `ConfirmationsHold` (`ConfirmationsAreTrue`) and `RecoveriesMint` (`RecoveredIsMinted`)
then read off what the type promises at a confirmation and at the end.

**`StarterProofs`: payouts**, for any programs that have phases as well. The script pays from the latest `InitiateBridge` event it finds, whichever
script caused it, so `PaysOutWhatWasBridged` is not about that event: it holds because each script sees an operation of its own run first. `PayoutInv`
says so of each run (`HasPhase`) and keeps the account: MPT plus the operations that bridged are never more than bridged loans plus
runs that paid. A watcher sees only a nonce, and two runs on one nonce can both take one operation for theirs; the claim of `HasPhase` about a backed run
and the property therefore assume `NoTwins`, and that no later payment undoes it is `TwinsStay`. What each step leaves of the balance is
`Spared`, what it leaves of its run's phase `Walks`; everybody else's steps change neither (`EnvironmentSpares`, `PhaseSurvives`). At the end each run that paid is given
an operation of its own that bridged, which is an injection (`PaidAreBacked`): `PayoutsAreBacked`.

**`StarterProofs`: minting limits**, for any windows, caps and idle times. `ReplayIsExact` says that skipping any
number of windows at once equals sliding through them. Skipping is one formula
(`Replayed`); `ReplayedNext` shows that a second more changes it exactly as a slide would, which rests on
elementary facts about division (`DivBounds`, `DivUnique`). The inductive invariant (`LimitsInv`) is that the limiter is where the formula says
(`LiveIsReplayed`), with the types (`LimitsStayTyped`), the order of the timestamps and `Started`: an untouched window is empty. The script computes
the formula for every window that was touched, and of the others the same volume (`ReplayFormula`). `SafeAmountsExecute` and `UnsafeAmountsWait`
then compare the two forecasts case by case; the second, for touched windows in force that have a cap.

**`SumTheorems`.** The community modules sum by recursion over the domain, in an order `CHOOSE` picks. `SumFunctionIsSum` says
that such a sum exists and `SumRemoves` that any element may be taken out first, both by induction on the size
of the set (`NatSetInduction`, with a set in place of a predicate). From there: changing one term (`SumExcept`), adding two functions (`SumPlus`), and sums
over a part of the domain (`SumOver...`).

**Only model-checked.** The three liveness properties, since fairness is out of this prover's reach. Every other property that a
run checks is proved.

## 6. Where the code and its texts disagree

Two runs end in a violation, on purpose: each checks one sentence of the repository.

* `pipeline_gate` (bug): `verify.ts:8-9` says that a failed check means no sealing, without an override.
  `resetFrom("seal")` makes the status `verified` whatever the verification said. A run of the anchor
  stage that was waiting for the wallet when the page was reset fails later, over the new session's
  failed verification, and "Start over from sealing" opens the form.
* `quote_hardware` (bug): `PITCH.md:83` says of the checks that "all three run identically in mock and
  live mode". `verify.ts:86` compares the measurement the enclave serves with the token's `image_digest` as
  it stands; the enclave serves `0x...` (`enclave.go:33-36`), Confidential Space signs `sha256:...`. A genuine
  hardware quote is refused; a simulated one, which carries the first form twice, is not.

Six more sentences are stated as definitions that the code does not satisfy. TLC refutes each one when it is
given in the cfg of `bridge` (as `PROPERTY`), `limits`, `pool`, `enclave` or `pipeline` (as `INVARIANT`):

* `EachRequestIsHandled` (`DemoBridge`, bug): `main.go:235` says that `runWatch` "handles each new request once". It asks for
  all blocks since the last round in one call and moves `from` only when that succeeds (`main.go:271-281`). The
  repository's other programs know the Coston2 node to answer for 30 blocks at most (`flare-lending/utils.ts:280`,
  `utils/smart-accounts.ts:519`). A request whose ciphertext does not come costs 20 seconds and a receipt takes as long as it
  takes, so a round with a few of them leaves a range that the node refuses, then and ever after: the watch stays up
  and handles nothing more until somebody restarts it, and then what lies further back than 20 blocks is lost.
* `OverflowWaits` (`DirectMintingLimits`, bug): `direct-minting-limits.ts:81-82` says that "overflow is scheduled into the
  current tumbling window". Before the first mint touches a limiter its window is read as 0, and line 66 leaves it
  there: an amount above the cap is scheduled from 1970 (lines 109-111) and printed as "executes immediately".

* `AccountBacksOneDebtor` (`LendingPool`): `PITCH.md:141-142` says of the nullifier "This is what stops one
  Kraken account backing ten wallets." The binding protects the account while its attestation lives; debts
  live longer. Attest, borrow, let the attestation expire, attest the account for a second wallet, borrow.
* `AttestedRequestsAreAnchored` (`Enclave`): `types.go:13-15` says the enclave "refuses any blob whose hash
  does not match a request it has seen anchored". `processAttestSolvency` asks the pending map only.
* `NullifierIsStable` (`Enclave`): `nullifier.go:34-35` calls the nullifier stable so that the registry can
  recognise an account. The HMAC secret is drawn per process (line 22): a restart changes every nullifier.
* `DoneMeansCounterMoved` (`WebPipeline`): `live/enclave.ts:123-124` says the counter "now has to actually
  move". The baseline is -1 when the first `/state` call fails, and any later answer is more than that.

Met while modelling, visible in the modules, and without a definition of their own:

* `SolvencyRegistry.sol:59-60` explains when a bound nullifier may move. The check asks whether the bound
  wallet has *any* live attestation, so an account stays blocked while its former wallet is live on
  another one (`BoundElsewhere`).
* `VaultProof.t.sol:273-274` describes `submitRequest` as going through while the extension does not exist
  yet. With both of Flare's registries wired and no id latched it reverts
  (`VaultProofInstructionSender.sol:119`, `AnchorAccepted`).
* A quote served before the launcher's identity was adopted stops opening afterwards
  (`extension.go:174` against the promise at lines 46-48); hence `SignedQuotesOpen` is about mode 0.
* An anchor run that outlives a reset delivers the *next* session's ciphertext, before that one's hash is
  anchored (`StageAnchor.tsx:46`, against `live/enclave.ts:94`); and its failure reads "Nothing was encrypted and nothing was sent" (`Pipeline.tsx:36`) although
  something was.
* A failed processing run unmounts its own stage (`Pipeline.tsx:150`), so the message it throws for the
  user (`live/enclave.ts:141-142`) and its retry are never shown (`MountedIn`).
* After stage 1 the store keeps the first account while transactions follow the wallet's present one
  (`Pipeline.tsx:80`, `SwitchAccount`). The lending panel then borrows for one account and shows the debt and
  cap of another (`OnBorrow`).
* The panel announces "{borrowed} USDC transferred" (`LendingPanel.tsx:95`) as soon as the loan returns, with the
  figure from before it, until its refresh lands; `LoanIsShown` is about what it shows from then on. A loan
  that returns after a reset marks the next session as having borrowed (`BorrowReturns`).
* `head - 20` wraps on a chain shorter than twenty blocks (`main.go:253-254`, `Boot`).
* Kraken: a second ticker of one symbol replaces the first instead of adding to it (`kraken.go:116`),
  and stripping prefixes turns XTZ into TZ and ZEC into EC; Binance: LDO into O. All of these
  only understate (`NeverOverstates`).
* `jwks.ts:151-152` says a token whose `kid` is unknown falls back to trying the whole set; the filter below it
  falls back only for a token without a `kid` (`Candidates`). With the key set kept for the life of the page, a key
  rotated in later is refused until the page is loaded again.
* The bridge marks a hash as seen before it handles it (`main.go:292`), and the enclave takes a ciphertext
  before it uses it (`enclave.go:110`): a failure in between loses the request, and its owner has to seal and anchor
  again. A receipt is awaited without a deadline (`main.go:225`), and the enclave dials the chain once, in the
  context of whichever action came first (`enclave.go:82`).
* `mint-and-transfer.ts:52`: the reservation found is overwritten by that of another minter that comes in the
  same or a later batch of logs, and the script then pays the other's (`AwaitReservation`).
* `smart-accounts.ts:600`: the watcher of the execution is registered after the payment was sent, so a fast
  relayer's event is missed and the script waits for ever (`Watch`, `Await`).
* `fast-forward-nonce.ts:232`: taken up again after its payment was minted, the fast-forward throws, because
  the nonce is already the target; the branch for a minted payment below (line 275) serves only a relayer that is
  quicker than the script (`CheckGoal`).
* `fast-forward-nonce.ts:432-438` prints that the abandoned operation "was never executed"; a relayer that
  minted the stuck payment before the skip was in force has executed it.
* `direct-minting-limits.ts:313-321`: with a cap of 0, which means none, or while the windows are lifted, the
  maximum printed is smaller than what the mechanisms let through (hence `InForce` in
  `UnsafeAmountIsDelayed`).

## 7. What is abstracted, and what is left out

Abstracted: token amounts, quantities and prices are small natural numbers, so floating point, NaN and the
conversion of a feed's value to int64 are not seen; Binance tickers are taken as upper case;
encryption is its contract; a ciphertext, its hash and a nullifier are values without content; a token is
header, claims and signer; in the scripts a unit is what one of them moves, a batch is what it takes and gives;
gas, events nobody reads, and ABI encoding are left out. In the browser, progress rows, notes and copy
are left out unless a guard reads them.

Not modelled:

* **Browser HPKE**: cryptography; its contract is in `Enclave`.
* **Mock adapters**: doubles of the live ones for a demonstration without a chain.
* **Server start-up, CORS, configuration**: no state after start-up beyond the constants of `Enclave`.
* **Deployment scripts**: the calls they make are actions of the contracts' modules.
* **`-dry-run` and the one-shot mode of the bridge**: the second is one turn of the watch loop.
* **Of the starter scripts**: native gas and values, prices, fees and the payout of the roulette; the 30 and
  10 000 block windows of log queries and the timeouts, which are failures of a step; ABIs, which are data; scripts that
  only read and print; the example contracts they call, beyond what a call takes and gives.
* **Of the page's last stage**: the countdown of the attestation, which is display.
* **Presentation, Flare's starter contracts and tooling, scaffolds in other languages**: vendored or
  without state.

## 8. Plan

Done, in this order: `SolvencyRegistry` with ledger and refinement; `TeeMeasurementRegistry`; `VaultProofContracts`;
`LendingPool`, `InstructionSender`, `Enclave`; `WebPipeline`; `DemoBridge`; `Pricing`; `SmartAccounts` with `StarterScripts`;
`DirectMintingLimits`, `QuoteVerification`; `LendingPanel`. All with proofs of their safety properties.

Left to model:

1. `EnclaveBridge`: `Enclave` and `DemoBridge` joined at `/action`, so that retries, restarts and late
   ciphertexts of the one meet the locks of the other; abstract specification: `AttestationService` with
   every request answered at most once.
2. `VaultProof`: registry, sender, pool, bridge and enclave together, for the promise a user sees: credit
   of a tier means that an enclave of an accepted build read an account of at least that band.
3. Liveness of `WebPipeline`: no stage waits for ever when nothing outside does.

Left to prove: the refinements of items 1 and 2.
