----------------------------- MODULE LendingPool -----------------------------
(***************************************************************************)
(* The pool that lends against solvency tiers                              *)
(* (contracts/src/vaultproof/LendingPool.sol) and the token it lends       *)
(* (MockUSDC.sol, an OpenZeppelin ERC-20), over the registry whose tierOf  *)
(* it reads.                                                               *)
(*                                                                         *)
(* A transaction that reverts is a disabled action: a borrow whose token   *)
(* transfer fails leaves no debt.                                          *)
(***************************************************************************)
EXTENDS Integers, FiniteSets, Functions

CONSTANTS Address, ZeroAddress, Nullifier, ZeroHash, Nonce, Measurement,
          Tier, Validity, MaxUint64, MaxTime,
          Pool,           \* the pool's own address: holds tokens, sends nothing
          Deployer,       \* owner of the token
          TierCap,        \* the array tierCap: its domain is 0..4
          Amount,         \* amounts borrowed, repaid, approved and transferred
          FAUCET_AMOUNT,  \* tokens per faucet call
          PoolFunds,      \* tokens minted to the pool when it is deployed
          MaxSupply       \* bound on the token supply in explored behaviours

ASSUME PoolAssumption ==
  /\ IsFiniteSet(Address)
  /\ Pool \notin Address
  /\ Deployer \in Address
  /\ TierCap \in [0..4 -> Nat]
  /\ TierCap[0] = 0
  /\ \A i, j \in 0..4 : i <= j => TierCap[i] <= TierCap[j]
  /\ Amount \subseteq Nat
  /\ FAUCET_AMOUNT \in Nat
  /\ PoolFunds \in Nat
  /\ MaxSupply \in Nat

VARIABLES now, whitelisted, attestations, nullifierOwner, usedNonce,
          borrowed,     \* wallet -> outstanding debt
          balance,      \* token balances
          allowance,    \* wallet -> what the pool may pull from it
          supply        \* tokens minted

registryVars == <<now, whitelisted, attestations, nullifierOwner, usedNonce>>
tokenVars == <<balance, allowance, supply>>
vars == <<registryVars, borrowed, tokenVars>>

Registry == INSTANCE SolvencyRegistry

ASSUME PoolRegistryAssumption == Registry!RegistryAssumption

Holder == Address \cup {Pool}

TypeOK ==
  /\ Registry!TypeOK
  /\ borrowed \in [Address -> Nat]
  /\ balance \in [Holder -> Nat]
  /\ allowance \in [Address -> Nat]
  /\ supply \in Nat

Init ==
  /\ Registry!Init
  /\ borrowed = [w \in Address |-> 0]
  /\ balance = [h \in Holder |-> IF h = Pool THEN PoolFunds ELSE 0]
  /\ allowance = [w \in Address |-> 0]
  /\ supply = PoolFunds

-----------------------------------------------------------------------------
\* The token.  Minting beyond MaxSupply is outside the explored behaviours.

Mint(to, amount) ==
  /\ supply + amount <= MaxSupply
  /\ supply' = supply + amount
  /\ balance' = [balance EXCEPT ![to] = @ + amount]
  /\ UNCHANGED <<registryVars, borrowed, allowance>>

Faucet(caller) == Mint(caller, FAUCET_AMOUNT)

OwnerMint(caller, to, amount) ==
  /\ caller = Deployer
  /\ Mint(to, amount)

\* ERC-20 transfer and approve, called by token holders.
Moved(from, to, amount) ==
  [balance EXCEPT ![from] = @ - amount, ![to] = @ + amount]

Transfer(caller, to, amount) ==
  /\ to # caller
  /\ amount <= balance[caller]
  /\ balance' = Moved(caller, to, amount)
  /\ UNCHANGED <<registryVars, borrowed, allowance, supply>>

Approve(caller, amount) ==
  /\ allowance' = [allowance EXCEPT ![caller] = amount]
  /\ UNCHANGED <<registryVars, borrowed, balance, supply>>

-----------------------------------------------------------------------------
\* The pool.

\* Variants: the debt already drawn is not counted; an expired attestation
\* still gives its tier.
WithinCap_PerLoan(w, amount) ==
  LET tier == Registry!TierOf(w)
  IN  /\ tier \in 1..4
      /\ amount <= TierCap[tier]
WithinCap_Stale(w, amount) ==
  LET tier == attestations[w].tier
  IN  /\ tier \in 1..4
      /\ borrowed[w] + amount <= TierCap[tier]

\* The two requires of borrow.  Indexing tierCap with a tier above 4 reverts,
\* and _collateralValue is 0.
WithinCap(w, amount) ==
  LET tier == Registry!TierOf(w)
  IN  /\ tier \in 1..4
      /\ borrowed[w] + amount <= TierCap[tier]

Borrow(w, amount) ==
  /\ WithinCap(w, amount)
  /\ amount <= balance[Pool]
  /\ borrowed' = [borrowed EXCEPT ![w] = @ + amount]
  /\ balance' = Moved(Pool, w, amount)
  /\ UNCHANGED <<registryVars, allowance, supply>>

\* Variant: the debt is written down and the tokens are not pulled.
Repay_Unpaid(w, amount) ==
  /\ amount <= borrowed[w]
  /\ amount <= allowance[w]
  /\ amount <= balance[w]
  /\ borrowed' = [borrowed EXCEPT ![w] = @ - amount]
  /\ allowance' = [allowance EXCEPT ![w] = @ - amount]
  /\ UNCHANGED <<registryVars, balance, supply>>

\* The checked subtraction, then transferFrom: allowance and balance suffice.
Repay(w, amount) ==
  /\ amount <= borrowed[w]
  /\ amount <= allowance[w]
  /\ amount <= balance[w]
  /\ borrowed' = [borrowed EXCEPT ![w] = @ - amount]
  /\ allowance' = [allowance EXCEPT ![w] = @ - amount]
  /\ balance' = Moved(w, Pool, amount)
  /\ UNCHANGED <<registryVars, supply>>

-----------------------------------------------------------------------------

PoolNext ==
  \E w \in Address \ {ZeroAddress} :
    \/ Faucet(w)
    \/ \E amount \in Amount :
         \/ Borrow(w, amount)
         \/ Repay(w, amount)
         \/ Approve(w, amount)
         \/ \E to \in Holder \ {ZeroAddress} :
              OwnerMint(w, to, amount) \/ Transfer(w, to, amount)

RegistryNext == Registry!Next /\ UNCHANGED <<borrowed, tokenVars>>

Next == PoolNext \/ RegistryNext

Spec == Init /\ [][Next]_vars

-----------------------------------------------------------------------------

(***************************************************************************)
(* No wallet ever owes more than the cap of the highest tier, however      *)
(* often it was attested, downgraded, repaid and borrowed again.           *)
(***************************************************************************)
DebtBelowTopCap == \A w \in Address : borrowed[w] <= TierCap[4]

(***************************************************************************)
(* New debt is drawn only by a wallet whose account backs it at that       *)
(* moment: in a step that raises a debt the wallet has an attestation that *)
(* is live, the account of that attestation is bound to this wallet, and   *)
(* the debt stays within the cap of its tier.                              *)
(***************************************************************************)
DebtNeedsBoundAccount ==
  [][ \A w \in Address :
        borrowed'[w] > borrowed[w]
        => /\ Registry!Live(w)
           /\ nullifierOwner[attestations[w].nullifier] = w
           /\ borrowed'[w] <= TierCap[attestations[w].tier] ]_vars

(***************************************************************************)
(* The pool is never short: the tokens it holds and the debts it is owed   *)
(* add up to at least what it was funded with.  (Tokens sent to it make it *)
(* more.)                                                                  *)
(***************************************************************************)
PoolIsWhole == balance[Pool] + SumFunction(borrowed) >= PoolFunds

(***************************************************************************)
(* PITCH.md:141-142 on the nullifier: "This is what stops one Kraken       *)
(* account backing ten wallets."  Read over debts: of the wallets whose    *)
(* latest attestation comes from one account, at most one owes anything.   *)
(***************************************************************************)
AccountBacksOneDebtor ==
  \A v, w \in Address :
    /\ borrowed[v] > 0
    /\ borrowed[w] > 0
    /\ attestations[v].nullifier = attestations[w].nullifier
    => v = w

=============================================================================
