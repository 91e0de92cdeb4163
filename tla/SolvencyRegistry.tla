--------------------------- MODULE SolvencyRegistry ---------------------------
(***************************************************************************)
(* Storage and transactions of                                             *)
(* contracts/src/vaultproof/SolvencyRegistry.sol: one attestation per      *)
(* wallet, the wallet each exchange-account nullifier is bound to, and the *)
(* nonces already spent.                                                   *)
(*                                                                         *)
(* The contract depends on two things outside it.  block.timestamp is the  *)
(* variable now, moved by Tick.  isWhitelisted of the measurement registry *)
(* is the set whitelisted, which Relist may change to any set; in module   *)
(* VaultProofContracts the transactions of TeeMeasurementRegistry move it. *)
(*                                                                         *)
(* A transaction that reverts is a disabled action.                        *)
(***************************************************************************)
EXTENDS Integers

CONSTANTS Address,        \* account addresses, the zero address among them
          ZeroAddress,    \* address(0), the value of an unset mapping entry
          Nullifier,      \* values of bytes32 the executor passes as nullifier
          ZeroHash,       \* bytes32(0), the value of an unset struct field
          Nonce,          \* request nonces (bytes32)
          Measurement,    \* enclave code hashes (bytes32)
          Tier,           \* values of the uint8 tier parameter
          Validity,       \* values of the uint64 validForSeconds parameter
          MaxUint64,      \* largest uint64: the checked sum may not exceed it
          MaxTime         \* bound on block.timestamp in the explored behaviours

ASSUME RegistryAssumption ==
  /\ ZeroAddress \in Address
  /\ Tier \subseteq Nat
  /\ 0 \in Tier
  /\ Validity \subseteq Nat
  /\ MaxUint64 \in Nat
  /\ MaxTime \in Nat
  /\ 0 < MaxTime
  /\ MaxTime <= MaxUint64

VARIABLES now,              \* block.timestamp
          whitelisted,      \* measurements the whitelist answers true for
          attestations,     \* wallet -> Attestation
          nullifierOwner,   \* nullifier -> wallet, ZeroAddress when unbound
          usedNonce         \* nonces an accepted submission has spent

vars == <<now, whitelisted, attestations, nullifierOwner, usedNonce>>

Uint64 == 0..MaxUint64

\* The Attestation struct.
Attestation ==
  [tier : Tier, issuedAt : Uint64, expiresAt : Uint64,
   nullifier : Nullifier \cup {ZeroHash},
   measurement : Measurement \cup {ZeroHash}]

\* What the mapping reads for a wallet never attested.
NoAttestation ==
  [tier |-> 0, issuedAt |-> 0, expiresAt |-> 0,
   nullifier |-> ZeroHash, measurement |-> ZeroHash]

TypeOK ==
  /\ now \in 1..MaxTime
  /\ whitelisted \in SUBSET Measurement
  /\ attestations \in [Address -> Attestation]
  /\ nullifierOwner \in [Nullifier -> Address]
  /\ usedNonce \in SUBSET Nonce

Init ==
  /\ now = 1
  /\ whitelisted = {}
  /\ attestations = [w \in Address |-> NoAttestation]
  /\ nullifierOwner = [n \in Nullifier |-> ZeroAddress]
  /\ usedNonce = {}

-----------------------------------------------------------------------------

\* block.timestamp < expiresAt: the comparison made by the write path for the
\* bound wallet and, negated, by the read path.
Live(w) == now < attestations[w].expiresAt

\* tierOf: an expired attestation reads as no credit.
TierOf(w) == IF Live(w) THEN attestations[w].tier ELSE 0

\* Variant: the check is left out.
BoundElsewhere_Unchecked(n, wallet) == FALSE

\* Variant: the check asks tierOf, so a live attestation of tier 0 binds nothing.
BoundElsewhere_ByTier(n, wallet) ==
  LET bound == nullifierOwner[n]
  IN  bound # ZeroAddress /\ bound # wallet /\ TierOf(bound) > 0

\* The condition of revert NullifierBound.
BoundElsewhere(n, wallet) ==
  LET bound == nullifierOwner[n]
  IN  bound # ZeroAddress /\ bound # wallet /\ Live(bound)

Submission ==
  [wallet : Address, tier : Tier, validFor : Validity,
   nullifier : Nullifier, nonce : Nonce, measurement : Measurement]

\* Variants: a spent nonce is accepted again; the build is not looked up; the
\* sum wraps unnoticed.
Accepted_Replayable(s) ==
  /\ s.measurement \in whitelisted
  /\ ~BoundElsewhere(s.nullifier, s.wallet)
  /\ now + s.validFor <= MaxUint64
Accepted_AnyBuild(s) ==
  /\ s.nonce \notin usedNonce
  /\ ~BoundElsewhere(s.nullifier, s.wallet)
  /\ now + s.validFor <= MaxUint64
Accepted_Unchecked(s) ==
  /\ s.nonce \notin usedNonce
  /\ s.measurement \in whitelisted
  /\ ~BoundElsewhere(s.nullifier, s.wallet)

\* The checks of submitAttestation, each of which reverts, and the checked
\* 64-bit addition that computes expiresAt.
Accepted(s) ==
  /\ s.nonce \notin usedNonce
  /\ s.measurement \in whitelisted
  /\ ~BoundElsewhere(s.nullifier, s.wallet)
  /\ now + s.validFor <= MaxUint64

\* submitAttestation, called by the instruction sender.
SubmitAttestation(s) ==
  /\ Accepted(s)
  /\ usedNonce' = usedNonce \cup {s.nonce}
  /\ nullifierOwner' = [nullifierOwner EXCEPT ![s.nullifier] = s.wallet]
  /\ attestations' =
       [attestations EXCEPT ![s.wallet] =
          [tier |-> s.tier, issuedAt |-> now, expiresAt |-> now + s.validFor,
           nullifier |-> s.nullifier, measurement |-> s.measurement]]
  /\ UNCHANGED <<now, whitelisted>>

\* The whitelist's owner lists or delists builds.
Relist(measurements) ==
  /\ whitelisted' = measurements
  /\ UNCHANGED <<now, attestations, nullifierOwner, usedNonce>>

\* A block with a later timestamp.
Tick ==
  /\ now < MaxTime
  /\ now' = now + 1
  /\ UNCHANGED <<whitelisted, attestations, nullifierOwner, usedNonce>>

Next ==
  \/ \E s \in Submission : SubmitAttestation(s)
  \/ \E measurements \in SUBSET Measurement : Relist(measurements)
  \/ Tick

Spec == Init /\ [][Next]_vars

-----------------------------------------------------------------------------

\* address(0) stands for "unbound" in nullifierOwner, so an attestation for it
\* would bind nothing.  It never sends a transaction and never anchors a
\* request; the properties below are about every other address.
Wallet == Address \ {ZeroAddress}

(***************************************************************************)
(* One exchange account backs one wallet: two wallets are never live with  *)
(* the same nullifier, whatever renewals, expiries and rebinds came before.*)
(* This is what the NullifierBound check is for.                           *)
(***************************************************************************)
OneWalletPerAccount ==
  \A v, w \in Wallet :
    /\ Live(v)
    /\ Live(w)
    /\ attestations[v].nullifier = attestations[w].nullifier
    => v = w

(***************************************************************************)
(* The reason it holds, and the inductive part of the proof: the mapping   *)
(* still names the wallet of every live attestation, so the check looks at *)
(* the right wallet.  An expired wallet may have lost its nullifier.       *)
(***************************************************************************)
LiveWalletIsBound ==
  \A w \in Wallet :
    Live(w) => /\ attestations[w].nullifier \in Nullifier
               /\ nullifierOwner[attestations[w].nullifier] = w

(***************************************************************************)
(* Credit is only ever granted through a fresh nonce and an accepted       *)
(* build: in any step that raises some wallet's tier, or extends its       *)
(* validity, a nonce is spent and the wallet's attestation comes from a    *)
(* measurement whitelisted at that moment.  A replayed delivery and one    *)
(* from a delisted build change no wallet's credit.                        *)
(***************************************************************************)
CreditNeedsFreshAcceptedRequest ==
  [][ \A w \in Address :
        \/ TierOf(w)' > TierOf(w)
        \/ attestations'[w].expiresAt > attestations[w].expiresAt
        => /\ usedNonce' # usedNonce
           /\ attestations'[w].measurement \in whitelisted ]_vars

(***************************************************************************)
(* An account cannot be taken from a wallet whose attestation still backs  *)
(* credit: when the binding of a nullifier moves from one wallet to        *)
(* another, the first has no credit left, before and after the step.       *)
(***************************************************************************)
RebindOnlyAfterExpiry ==
  [][ \A n \in Nullifier, w \in Wallet :
        nullifierOwner[n] = w /\ nullifierOwner'[n] # w
        => TierOf(w) = 0 /\ TierOf(w)' = 0 ]_vars

=============================================================================
